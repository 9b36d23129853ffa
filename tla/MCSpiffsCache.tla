---------------------------- MODULE MCSpiffsCache ----------------------------
EXTENDS SpiffsCache

\* A write of one byte is cached, one of a whole page is not.
SmallAndBig == {<<1>>, <<2, 2>>}
ReadWriteAppend == {{}, {"APPEND"}}
==============================================================================
