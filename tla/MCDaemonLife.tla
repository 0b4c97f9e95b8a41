---------------------------- MODULE MCDaemonLife ----------------------------
EXTENDS DaemonLife
CONSTANTS p1, p2, op
=============================================================================
