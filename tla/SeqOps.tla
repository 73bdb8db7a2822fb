------------------------------ MODULE SeqOps ------------------------------
(***************************************************************************)
(* Three operators on sequences, with the names and meanings that they     *)
(* have in SequencesExt.  They are repeated because that module brings     *)
(* some eighty definitions with it, and with those in scope the prover     *)
(* takes four times as long over every step of the proofs about TCP.       *)
(***************************************************************************)
EXTENDS Integers, Sequences

\* The elements of s.
ToSet(s) == {s[i] : i \in DOMAIN s}

\* The last element of s, which is not empty.
Last(s) == s[Len(s)]

\* s without its i-th element.
RemoveAt(s, i) == SubSeq(s, 1, i - 1) \o SubSeq(s, i + 1, Len(s))
=============================================================================
