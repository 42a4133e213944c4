---------------------------- MODULE MCServerLoop ----------------------------
\* ServerLoop for TLC: its constants are numbers, given in the configurations.
EXTENDS ServerLoop, TLC
=============================================================================
