---------------------------- MODULE MCIPForward -----------------------------
(* h1 -- r1, r2 -- h2, h3, and a triangle of routers r1, r2, r3.           *)
EXTENDS IPForward, TLC
CONSTANTS h1, h2, h3, r1, r2, r3

Net(b, len) == [base |-> b, bits |-> len]
Lan1 == Net(0, 3)    \* h1 (1), r1 (2)
Lan2 == Net(24, 3)   \* r2 (25), h2 (26)
Lan12 == Net(4, 3)   \* r1 (5), r2 (6)
Lan13 == Net(8, 3)   \* r1 (9), r3 (10)
Lan23 == Net(12, 3)  \* r2 (13), r3 (14)
Wide == Net(16, 1)   \* contains Lan2; r3 (16) and h3 (17) are in it

At(a, net_) == [ip |-> a, pre |-> net_]

MCIfaces ==
  h1 :> {At(1, Lan1)} @@ h2 :> {At(26, Lan2)} @@ h3 :> {At(17, Wide)}
  @@ r1 :> {At(2, Lan1), At(5, Lan12), At(9, Lan13)}
  @@ r2 :> {At(25, Lan2), At(6, Lan12), At(13, Lan23)}
  @@ r3 :> {At(16, Wide), At(10, Lan13), At(14, Lan23)}

MCNeighbors ==
  h1 :> {2} @@ h2 :> {25} @@ h3 :> {16}
  @@ r1 :> {1, 6, 10} @@ r2 :> {26, 5, 14} @@ r3 :> {17, 9, 13}

\* The hosts' default routes, and one that r2's interface in Lan2 replaces.
Default(a) == [pre |-> Net(0, 0), next |-> a]
MCStatic ==
  h1 :> {Default(2)} @@ h2 :> {Default(25)} @@ h3 :> {Default(16)}
  @@ r1 :> {} @@ r2 :> {[pre |-> Lan2, next |-> 5]} @@ r3 :> {}

\* The routes to Lan2 and to Wide; for those to the other networks nothing is sent.
None == [p \in {} |-> {}]
MCLearnable ==
  h1 :> None @@ h2 :> None @@ h3 :> None
  @@ r1 :> (Lan2 :> {6, 10} @@ Wide :> {6, 10})
  @@ r2 :> (Wide :> {5, 14})
  @@ r3 :> (Lan2 :> {9, 13})
MCNear ==
  h1 :> None @@ h2 :> None @@ h3 :> None
  @@ r1 :> (Lan2 :> {6} @@ Wide :> {10})
  @@ r2 :> (Wide :> {14})
  @@ r3 :> (Lan2 :> {13})

\* To h2, which is in Lan2 and in Wide, and to h3, which is in Wide.
MCTraffic == <<[src |-> h1, dst |-> 26], [src |-> h1, dst |-> 17]>>
=============================================================================
