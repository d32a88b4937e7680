---------------------------- MODULE MCStreamIdle ----------------------------
EXTENDS StreamIdle
=============================================================================
