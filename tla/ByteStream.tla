----------------------------- MODULE ByteStream -----------------------------
(***************************************************************************)
(* What a connection promises its two applications: a reliable stream of   *)
(* bytes in each direction.  Writing appends to the stream, reading takes  *)
(* its next bytes.  A byte is represented by its position.                 *)
(***************************************************************************)
EXTENDS Integers, Sequences

CONSTANT Peers

VARIABLES
  in,   \* in[p]: number of bytes that p has written
  out   \* out[p]: bytes that p has read

From(p) == CHOOSE q \in Peers : q # p

Init ==
  /\ in = [p \in Peers |-> 0]
  /\ out = [p \in Peers |-> <<>>]

\* p appends n bytes to its stream.
Write(p, n) ==
  /\ in' = [in EXCEPT ![p] = @ + n]
  /\ UNCHANGED out

\* p takes the next n bytes of the other side's stream.
Read(p, n) ==
  /\ Len(out[p]) + n <= in[From(p)]
  /\ out' = [out EXCEPT ![p] = @ \o [k \in 1 .. n |-> Len(out[p]) + k]]
  /\ UNCHANGED in

Next ==
  \E p \in Peers : \/ \E n \in 1 .. in'[p] - in[p] : Write(p, n)
                   \/ \E n \in 1 .. Len(out'[p]) - Len(out[p]) : Read(p, n)

Spec == Init /\ [][Next]_<<in, out>>
=============================================================================
