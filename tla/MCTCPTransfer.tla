--------------------------- MODULE MCTCPTransfer ---------------------------
(* Instances of TCPTransfer for TLC: p1 writes and p2 reads.                *)
EXTENDS TCPTransfer

CONSTANTS p1, p2

BytesOneWay == [p \in Peers |-> IF p = p1 THEN 6 ELSE 0]
BytesShort == [p \in Peers |-> IF p = p1 THEN 4 ELSE 0]

ReadsOneWay == [p \in Peers |-> IF p = p2 THEN {1, W - 1} ELSE {}]
ReadsAll == [p \in Peers |-> IF p = p2 THEN {W - 1} ELSE {}]
=============================================================================
