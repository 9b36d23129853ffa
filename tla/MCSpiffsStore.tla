---------------------------- MODULE MCSpiffsStore ----------------------------
EXTENDS SpiffsStore
LOCAL INSTANCE TLC

OneAndTwoBytes == {<<1>>, <<2, 1>>}
NameSymmetry == Permutations(Names)
=============================================================================
