------------------------------- MODULE MCVbfs -------------------------------
EXTENDS Vbfs

MCTypes == 1..2
\* An object whose memory happened to hold a large number.
MCUninitialised == {FileNum}
=============================================================================
