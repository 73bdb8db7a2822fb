--------------------------- MODULE MCTCPHandshake ---------------------------
EXTENDS TCPHandshake
CONSTANTS c1, c2
=============================================================================
