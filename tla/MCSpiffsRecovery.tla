--------------------------- MODULE MCSpiffsRecovery ---------------------------
EXTENDS SpiffsRecovery
LOCAL INSTANCE TLC

OneAndTwoBytes == {<<1>>, <<2, 1>>}
NameSymmetry == Permutations(Names)
===============================================================================
