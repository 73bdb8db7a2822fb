----------------------------- MODULE MCTCPClose -----------------------------
(* Instances of TCPClose for TLC.                                           *)
EXTENDS TCPClose

CONSTANTS p1, p2

\* sf at p1, rf at p2, a file of three chunks.
FileApps == [p \in Peers |-> IF p = p1 THEN "sendfile" ELSE "recvfile"]
FileChunks == [p \in Peers |-> IF p = p1 THEN 3 ELSE 0]

\* Two users with s and cl.
ReplApps == [p \in Peers |-> "repl"]
NoChunks == [p \in Peers |-> 0]
=============================================================================
