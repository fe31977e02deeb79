---------------------------- MODULE MCIntelFlash ----------------------------
EXTENDS IntelFlash

CONSTANTS b1, b2

MCBlock == {b1, b2}
=============================================================================
