-------------------------------- MODULE MCRIP --------------------------------
EXTENDS RIP, TLC
CONSTANTS r1, r2, r3

\* A triangle; r1 has the prefix.
Triangle == r1 :> <<r2, r3>> @@ r2 :> <<r1, r3>> @@ r3 :> <<r1, r2>>
TriangleDist == r1 :> 0 @@ r2 :> 1 @@ r3 :> 1

\* A line r1 - r2 - r3, where r1 has the prefix.
Line == r1 :> <<r2>> @@ r2 :> <<r1, r3>> @@ r3 :> <<r2>>
LineDist == r1 :> 0 @@ r2 :> 1 @@ r3 :> 2

\* Bound: up to the second unit of time after the first node is on.
FirstUnits == \A n \in Nodes : timer[n].gc > 1
=============================================================================
