-------------------------- MODULE IPForwardProofs ---------------------------
(***************************************************************************)
(* Proofs about module IPForward, for any network, any traffic and any     *)
(* routes that RIP may learn.                                              *)
(*                                                                         *)
(* The first part is about the loop of FindNext over the table.  Its model *)
(* is a fold, so what it computes is proved by induction on the number of  *)
(* entries seen.  The second part is the inductive invariant.              *)
(***************************************************************************)
EXTENDS IPForward, FiniteSetTheorems, TLAPS

-----------------------------------------------------------------------------
(* Induction on the natural numbers, for a set of them.                    *)

\* A set with 0, and with n + 1 whenever it has n, has all natural numbers.
LEMMA InductionOnNat ==
  ASSUME NEW S \in SUBSET Nat, 0 \in S, \A n \in S : n + 1 \in S
  PROVE  S = Nat
<1>. SUFFICES ASSUME S # Nat  PROVE FALSE
  OBVIOUS
<1>. DEFINE R == {ss \in Nat \X Nat : ss[1] < ss[2]}
            T == Nat \ S
<1>1. IsWellFoundedOn(R, Nat)
  BY NatLessThanWellFounded DEF OpToRel
<1>2. PICK x \in T : \A y \in T : ~(<<y, x>> \in R)
  <2>1. T # {} /\ T \subseteq Nat
    BY Zenon
  <2>. QED  BY Zenon, <1>1, <2>1, WFMin
<1>3. x \in Nat /\ x # 0 /\ x - 1 \in Nat /\ x - 1 < x
  OBVIOUS
<1>4. <<x - 1, x>> \in R
  BY <1>3
<1>5. x - 1 \in S
  BY <1>2, <1>3, <1>4
<1>6. (x - 1) + 1 \in S
  BY <1>5
<1>. QED  BY <1>3, <1>6

-----------------------------------------------------------------------------
(* The loop of FindNext.                                                   *)

\* One round of the loop: the best entry after e, if it was best before.
Round(e, best) == IF Longer(e, best) THEN e ELSE best

\* The fold over seq at the set x of indices, if it gives `it' for smaller sets.
Fold(seq, it, x) ==
  IF x = {} THEN NoEntry
  ELSE LET i == Seqs!Max(x) IN Round(seq[i], it[x \ {i}])

IsFold(seq, it, S) == it = [x \in SUBSET S |-> Fold(seq, it, x)]

\* Best is the value at all indices of a function that satisfies the recursion of
\* the fold, if there is one.
LEMMA BestIsFold ==
  ASSUME NEW seq
  PROVE  Best(seq) = (CHOOSE it : IsFold(seq, it, DOMAIN seq))[DOMAIN seq]
BY DEF Best, Seqs!FoldLeft, Seqs!MapThenFoldSet, IsFold, Fold, Round

\* The greatest of a set of indices up to n + 1 that has n + 1.
LEMMA MaxIsLast ==
  ASSUME NEW n \in Nat, NEW x \in SUBSET (1 .. n + 1), n + 1 \in x
  PROVE  Seqs!Max(x) = n + 1
<1>1. \A y \in x : y \in Int /\ n + 1 >= y
  OBVIOUS
<1>2. \A z \in x : (\A y \in x : z >= y) => z = n + 1
  BY <1>1
<1>. QED  BY Zenon, <1>1, <1>2 DEF Seqs!Max

\* Such a function exists for every number of entries.
LEMMA FoldExists ==
  ASSUME NEW seq, NEW n \in Nat
  PROVE  \E it : IsFold(seq, it, 1 .. n)
<1>. DEFINE Good == {k \in Nat : \E it : IsFold(seq, it, 1 .. k)}
<1>1. 0 \in Good
  <2>. DEFINE it == [x \in SUBSET (1 .. 0) |-> NoEntry]
  <2>1. IsFold(seq, it, 1 .. 0)
    <3>1. \A x \in SUBSET (1 .. 0) : x = {}
      OBVIOUS
    <3>. QED  BY <3>1 DEF IsFold, Fold
  <2>. QED  BY <2>1
<1>2. ASSUME NEW k \in Good  PROVE k + 1 \in Good
  <2>1. PICK it : IsFold(seq, it, 1 .. k)
    OBVIOUS
  <2>. DEFINE jt == [x \in SUBSET (1 .. k + 1) |->
                       IF k + 1 \in x THEN Round(seq[k + 1], it[x \ {k + 1}]) ELSE it[x]]
  <2>2. \A x \in SUBSET (1 .. k + 1) : k + 1 \notin x => x \in SUBSET (1 .. k) /\ jt[x] = it[x]
    OBVIOUS
  <2>3. ASSUME NEW x \in SUBSET (1 .. k + 1)  PROVE jt[x] = Fold(seq, jt, x)
    <3>1. CASE k + 1 \in x
      <4>1. Seqs!Max(x) = k + 1
        BY <3>1, MaxIsLast
      <4>2. jt[x \ {k + 1}] = it[x \ {k + 1}]
        BY <2>2
      <4>3. jt[x] = Round(seq[k + 1], it[x \ {k + 1}])
        BY <3>1
      <4>. HIDE DEF jt
      <4>. QED  BY Zenon, <3>1, <4>1, <4>2, <4>3 DEF Fold
    <3>2. CASE k + 1 \notin x
      <4>1. x \in SUBSET (1 .. k) /\ jt[x] = it[x]
        BY <2>2, <3>2
      <4>2. it[x] = Fold(seq, it, x)
        BY <2>1, <4>1, Zenon DEF IsFold
      <4>3. \A i : jt[x \ {i}] = it[x \ {i}]
        BY Zenon, <2>2, <3>2
      <4>. HIDE DEF jt
      <4>. QED  BY Zenon, <4>1, <4>2, <4>3 DEF Fold
    <3>. QED  BY <3>1, <3>2
  <2>4. IsFold(seq, jt, 1 .. k + 1)
    <3>1. jt = [x \in SUBSET (1 .. k + 1) |-> jt[x]]
      OBVIOUS
    <3>. HIDE DEF jt
    <3>. QED  BY <2>3, <3>1, Zenon DEF IsFold
  <2>. HIDE DEF jt
  <2>. QED  BY <2>4
<1>3. Good = Nat
  BY Zenon, <1>1, <1>2, InductionOnNat
<1>. QED  BY <1>3

\* Entry number i is the first one of the longest among the first k.
FirstLongest(seq, k, i) ==
  /\ i \in 1 .. k
  /\ \A j \in 1 .. k : seq[j].pre.bits <= seq[i].pre.bits
  /\ \A j \in 1 .. i - 1 : seq[j].pre.bits < seq[i].pre.bits

\* A finite sequence of table entries.
IsEntries(seq, n) ==
  /\ DOMAIN seq = 1 .. n
  /\ \A i \in 1 .. n : seq[i] # NoEntry /\ seq[i].pre.bits \in Nat

\* The loop over n entries ends with the first one of the longest.
LEMMA BestIsFirstLongest ==
  ASSUME NEW n \in Nat, n # 0, NEW seq, IsEntries(seq, n)
  PROVE  \E i : FirstLongest(seq, n, i) /\ Best(seq) = seq[i]
<1>. DEFINE it == CHOOSE jt : IsFold(seq, jt, 1 .. n)
<1>1. IsFold(seq, it, 1 .. n)
  BY FoldExists
<1>2. Best(seq) = it[1 .. n]
  BY BestIsFold DEF IsEntries
<1>. HIDE DEF it
<1>3. ASSUME NEW k \in Nat, k + 1 <= n
      PROVE  it[1 .. k + 1] = Round(seq[k + 1], it[1 .. k])
  <2>1. 1 .. k + 1 \in SUBSET (1 .. n) /\ k + 1 \in 1 .. k + 1
    BY <1>3
  <2>2. Seqs!Max(1 .. k + 1) = k + 1
    BY MaxIsLast, <2>1
  <2>3. (1 .. k + 1) \ {k + 1} = 1 .. k
    OBVIOUS
  <2>4. it[1 .. k + 1] = Fold(seq, it, 1 .. k + 1)
    BY <1>1, <2>1, Zenon DEF IsFold
  <2>5. 1 .. k + 1 # {}
    BY <2>1
  <2>. QED  BY Zenon, <2>2, <2>3, <2>4, <2>5 DEF Fold
<1>4. it[1 .. 0] = NoEntry
  <2>1. 1 .. 0 = {} /\ 1 .. 0 \in SUBSET (1 .. n)
    OBVIOUS
  <2>2. it[1 .. 0] = Fold(seq, it, 1 .. 0)
    BY <1>1, <2>1, Zenon DEF IsFold
  <2>. QED  BY <2>1, <2>2 DEF Fold
<1>. DEFINE Good == {k \in Nat : k + 1 <= n =>
                       \E i : FirstLongest(seq, k + 1, i) /\ it[1 .. k + 1] = seq[i]}
<1>5. 0 \in Good
  <2>1. it[1 .. 0 + 1] = seq[0 + 1]
    <3>1. 0 \in Nat /\ 0 + 1 <= n
      OBVIOUS
    <3>2. it[1 .. 0 + 1] = Round(seq[0 + 1], it[1 .. 0])
      BY <1>3, <3>1, Zenon
    <3>. QED  BY <1>4, <3>2, Zenon DEF Round, Longer
  <2>2. FirstLongest(seq, 1, 1)
    BY DEF FirstLongest, IsEntries
  <2>. QED  BY <2>1, <2>2
<1>6. ASSUME NEW k \in Good  PROVE k + 1 \in Good
  <2>. SUFFICES ASSUME (k + 1) + 1 <= n
                PROVE  \E i : FirstLongest(seq, (k + 1) + 1, i) /\ it[1 .. (k + 1) + 1] = seq[i]
    OBVIOUS
  <2>1. PICK i : FirstLongest(seq, k + 1, i) /\ it[1 .. k + 1] = seq[i]
    OBVIOUS
  <2>2. it[1 .. (k + 1) + 1] = Round(seq[(k + 1) + 1], seq[i])
    BY <1>3, <2>1
  <2>3. i \in 1 .. n /\ seq[i] # NoEntry
    BY <2>1 DEF FirstLongest, IsEntries
  <2>4. \A j \in 1 .. (k + 1) + 1 : j \in 1 .. k + 1 \/ j = (k + 1) + 1
    OBVIOUS
  <2>5. \A j \in 1 .. (k + 1) + 1 : seq[j].pre.bits \in Nat
    BY DEF IsEntries
  <2>6. CASE seq[(k + 1) + 1].pre.bits > seq[i].pre.bits
    <3>1. it[1 .. (k + 1) + 1] = seq[(k + 1) + 1]
      BY Zenon, <2>2, <2>6 DEF Round, Longer
    <3>2. \A j \in 1 .. k + 1 : seq[j].pre.bits < seq[(k + 1) + 1].pre.bits
      BY SMTT(20), <2>1, <2>5, <2>6 DEF FirstLongest
    <3>3. FirstLongest(seq, (k + 1) + 1, (k + 1) + 1)
      <4>1. \A j \in 1 .. (k + 1) + 1 : seq[j].pre.bits <= seq[(k + 1) + 1].pre.bits
        BY SMTT(20), <3>2, <2>4, <2>5
      <4>2. \A j \in 1 .. ((k + 1) + 1) - 1 : seq[j].pre.bits < seq[(k + 1) + 1].pre.bits
        BY <3>2
      <4>. QED  BY <4>1, <4>2 DEF FirstLongest
    <3>. QED  BY <3>1, <3>3
  <2>7. CASE ~(seq[(k + 1) + 1].pre.bits > seq[i].pre.bits)
    <3>1. it[1 .. (k + 1) + 1] = seq[i]
      BY Zenon, <2>2, <2>3, <2>7 DEF Round, Longer
    <3>2. FirstLongest(seq, (k + 1) + 1, i)
      BY SMTT(20), <2>1, <2>3, <2>4, <2>5, <2>7 DEF FirstLongest
    <3>. QED  BY Zenon, <3>1, <3>2
  <2>. QED  BY <2>6, <2>7
<1>7. Good = Nat
  <2>1. Good \in SUBSET Nat
    OBVIOUS
  <2>. HIDE DEF Good
  <2>. QED  BY Zenon, <1>5, <1>6, <2>1, InductionOnNat
<1>8. n - 1 \in Good /\ (n - 1) + 1 = n
  <2>. HIDE DEF Good
  <2>. QED  BY <1>7
<1>. QED  BY <1>2, <1>8

-----------------------------------------------------------------------------
(* FindNext.                                                               *)

\* Without entries the loop finds none.
LEMMA BestOfNone ==
  ASSUME NEW seq, DOMAIN seq = 1 .. 0
  PROVE  Best(seq) = NoEntry
<1>. DEFINE it == CHOOSE jt : IsFold(seq, jt, 1 .. 0)
<1>1. IsFold(seq, it, 1 .. 0)
  BY FoldExists
<1>2. Best(seq) = it[1 .. 0]
  BY BestIsFold
<1>. HIDE DEF it
<1>3. 1 .. 0 = {} /\ 1 .. 0 \in SUBSET (1 .. 0)
  OBVIOUS
<1>4. it[1 .. 0] = Fold(seq, it, 1 .. 0)
  BY <1>1, <1>3, Zenon DEF IsFold
<1>. QED  BY Zenon, <1>2, <1>3, <1>4 DEF Fold

\* SequencesExt counts as FiniteSets does.
LEMMA SameCardinality ==
  ASSUME NEW S
  PROVE  Seqs!Cardinality(S) = Cardinality(S)
BY DEF Seqs!Cardinality, Cardinality

\* The longest of a set of entries.
Longest(entries) == {e \in entries : \A f \in entries : f.pre.bits <= e.pre.bits}

\* Over all orders of a finite set of entries, the loop finds the longest ones, each
\* of them in some order.
LEMMA LoopFindsLongest ==
  ASSUME NEW entries, IsFiniteSet(entries), entries # {},
         \A e \in entries : e # NoEntry /\ e.pre.bits \in Nat
  PROVE  {Best(seq) : seq \in Seqs!SetToSeqs(entries)} = Longest(entries)
<1>. DEFINE n == Cardinality(entries)
<1>1. n \in Nat /\ n # 0 /\ ExistsBijection(1 .. n, entries)
  BY Zenon, FS_CardinalityType, FS_EmptySet
<1>2. IsFiniteSet(1 .. n) /\ Cardinality(1 .. n) = n
  BY <1>1, FS_Interval
<1>3. ASSUME NEW seq \in Seqs!SetToSeqs(entries)
      PROVE  /\ seq \in [1 .. n -> entries]
             /\ \A i, j \in 1 .. n : i # j => seq[i] # seq[j]
             /\ \A e \in entries : \E i \in 1 .. n : seq[i] = e
             /\ IsEntries(seq, n)
  <2>1. seq \in [1 .. n -> entries] /\ \A i, j \in 1 .. n : i # j => seq[i] # seq[j]
    BY SameCardinality, Zenon DEF Seqs!SetToSeqs
  <2>2. seq \in Injection(1 .. n, entries)
    BY <2>1, Zenon DEF Injection, IsInjective
  <2>3. seq \in Surjection(1 .. n, entries)
    BY Zenon, <1>2, <2>2, FS_Injection
  <2>4. \A e \in entries : \E i \in 1 .. n : seq[i] = e
    BY <2>3, Zenon DEF Surjection
  <2>5. IsEntries(seq, n)
    BY <2>1, Zenon DEF IsEntries
  <2>. QED  BY <2>1, <2>4, <2>5, Zenon
<1>. HIDE DEF n
<1>4. ASSUME NEW seq \in Seqs!SetToSeqs(entries)
      PROVE  Best(seq) \in Longest(entries)
  <2>1. PICK i : FirstLongest(seq, n, i) /\ Best(seq) = seq[i]
    BY <1>1, <1>3, BestIsFirstLongest, ZenonT(30)
  <2>2. i \in 1 .. n /\ \A j \in 1 .. n : seq[j].pre.bits <= seq[i].pre.bits
    BY <2>1, Zenon DEF FirstLongest
  <2>3. seq[i] \in entries
    BY <1>3, <2>2, Zenon
  <2>4. \A f \in entries : f.pre.bits <= seq[i].pre.bits
    BY <1>3, <2>2, Zenon
  <2>. QED  BY <2>1, <2>3, <2>4, Zenon DEF Longest
<1>5. ASSUME NEW e \in Longest(entries)
      PROVE  \E seq \in Seqs!SetToSeqs(entries) : Best(seq) = e
  <2>1. PICK perm : perm \in Bijection(1 .. n, entries)
    BY <1>1, Zenon DEF ExistsBijection
  <2>2. /\ perm \in [1 .. n -> entries]
        /\ \A i, j \in 1 .. n : i # j => perm[i] # perm[j]
        /\ \A f \in entries : \E i \in 1 .. n : perm[i] = f
    BY <2>1, Zenon DEF Bijection, Injection, Surjection, IsInjective
  <2>3. e \in entries /\ \A f \in entries : f.pre.bits <= e.pre.bits
    BY Zenon DEF Longest
  <2>4. PICK at \in 1 .. n : perm[at] = e
    BY <2>2, <2>3, Zenon
  \* e comes first.
  <2>. DEFINE seq == [i \in 1 .. n |-> IF i = 1 THEN e ELSE IF i = at THEN perm[1] ELSE perm[i]]
  <2>5. 1 \in 1 .. n
    BY <1>1
  <2>6. seq \in [1 .. n -> entries]
    BY Zenon, <2>2, <2>3, <2>5
  <2>7. \A i, j \in 1 .. n : i # j => seq[i] # seq[j]
    BY Zenon, <2>2, <2>4, <2>5
  <2>8. seq[1] = e
    BY <2>5
  <2>. HIDE DEF seq
  <2>9. seq \in Seqs!SetToSeqs(entries)
    BY <2>6, <2>7, SameCardinality, Zenon DEF Seqs!SetToSeqs, n
  <2>10. PICK i : FirstLongest(seq, n, i) /\ Best(seq) = seq[i]
    BY <1>1, <1>3, <2>9, BestIsFirstLongest, ZenonT(30)
  <2>11. i = 1
    <3>. SUFFICES ASSUME i # 1  PROVE FALSE
      OBVIOUS
    <3>1. i \in 1 .. n /\ 1 \in 1 .. i - 1
      BY <1>1, <2>10 DEF FirstLongest
    <3>2. e.pre.bits < seq[i].pre.bits
      BY <2>8, <2>10, <3>1, Zenon DEF FirstLongest
    <3>3. seq[i] \in entries
      BY <2>6, <3>1
    <3>4. seq[i].pre.bits \in Nat /\ e.pre.bits \in Nat /\ seq[i].pre.bits <= e.pre.bits
      BY <2>3, <3>3, Zenon
    <3>. QED  BY <3>2, <3>4
  <2>. QED  BY Zenon, <2>8, <2>9, <2>10, <2>11
<1>6. Longest(entries) \subseteq {Best(seq) : seq \in Seqs!SetToSeqs(entries)}
  BY <1>5, Zenon
<1>7. {Best(seq) : seq \in Seqs!SetToSeqs(entries)} \subseteq Longest(entries)
  BY <1>4, Zenon
<1>. QED  BY <1>6, <1>7, Zenon

\* What is in a table.
Entry == [pre : Prefix, next : Addr, type : {"L", "S", "R"}]

\* The learned routes of every node are those that RIP may find.
LearnedInv ==
  \A n \in Nodes :
    /\ DOMAIN learned[n] = DOMAIN Learnable[n]
    /\ \A p \in DOMAIN Learnable[n] : learned[n][p] \in Learnable[n][p] \cup {NoHop}

\* A table is a finite set of entries.
LEMMA TableType ==
  ASSUME LearnedInv, NEW n \in Nodes
  PROVE  IsFiniteSet(Table(n)) /\ Table(n) \subseteq Entry
<1>. DEFINE Local(i) == [pre |-> i.pre, next |-> i.ip, type |-> "L"]
            Stat(r) == [pre |-> r.pre, next |-> r.next, type |-> "S"]
            Rip(p) == [pre |-> p, next |-> learned[n][p], type |-> "R"]
            A == {Local(i) : i \in Ifaces[n]}
            B == {Stat(r) : r \in StaticRoutes(n)}
            D == {q \in DOMAIN learned[n] : learned[n][q] # NoHop}
            C == {Rip(p) : p \in D}
<1>1. Table(n) = A \cup B \cup C
  BY Zenon DEF Table
<1>2. /\ Ifaces[n] \subseteq [ip : Addr, pre : Prefix] /\ IsFiniteSet(Ifaces[n])
      /\ StaticRoutes(n) \subseteq [pre : Prefix, next : Addr] /\ IsFiniteSet(StaticRoutes(n))
      /\ DOMAIN Learnable[n] \subseteq Prefix /\ IsFiniteSet(DOMAIN Learnable[n])
      /\ Neighbors[n] \subseteq Addr
      /\ \A p \in DOMAIN Learnable[n] : Learnable[n][p] \subseteq Neighbors[n]
  <2>1. Learnable[n] \in [DOMAIN Learnable[n] -> SUBSET Neighbors[n]]
    BY ConfigAssumption, Zenon
  <2>2. \A p \in DOMAIN Learnable[n] : Learnable[n][p] \subseteq Neighbors[n]
    BY <2>1, Zenon
  <2>3. Static[n] \subseteq [pre : Prefix, next : Addr] /\ IsFiniteSet(Static[n])
    BY ConfigAssumption, Zenon
  <2>4. StaticRoutes(n) \subseteq Static[n]
    BY Zenon DEF StaticRoutes
  <2>5. StaticRoutes(n) \subseteq [pre : Prefix, next : Addr] /\ IsFiniteSet(StaticRoutes(n))
    BY <2>3, <2>4, FS_Subset, Zenon
  <2>6. DOMAIN Learnable[n] \subseteq Prefix
    BY ConfigAssumption, Zenon
  <2>. QED  BY <2>2, <2>5, <2>6, ConfigAssumption, Zenon
<1>3. D \subseteq DOMAIN Learnable[n] /\ \A p \in D : learned[n][p] \in Addr
  BY <1>2, Zenon DEF LearnedInv
<1>4. A \subseteq Entry
  <2>1. \A i \in Ifaces[n] : i.ip \in Addr /\ i.pre \in Prefix
    BY <1>2
  <2>2. \A i \in Ifaces[n] : Local(i) \in Entry
    BY Zenon, <2>1 DEF Entry
  <2>. HIDE DEF Local
  <2>. QED  BY <2>2, Zenon
<1>5. B \subseteq Entry
  <2>1. \A r \in StaticRoutes(n) : r.next \in Addr /\ r.pre \in Prefix
    BY <1>2
  <2>2. \A r \in StaticRoutes(n) : Stat(r) \in Entry
    BY <2>1 DEF Entry
  <2>. HIDE DEF Stat
  <2>. QED  BY <2>2, Zenon
<1>6. C \subseteq Entry
  <2>2. \A p \in D : Rip(p) \in Entry
    <3>. HIDE DEF D
    <3>. QED  BY Zenon, <1>2, <1>3 DEF Entry
  <2>. HIDE DEF Rip
  <2>. QED  BY <2>2, Zenon
<1>7. IsFiniteSet(A)
  <2>. DEFINE f == [i \in Ifaces[n] |-> Local(i)]
  <2>. HIDE DEF Local
  <2>1. f \in Surjection(Ifaces[n], A)
    BY Zenon DEF Surjection
  <2>. QED  BY Zenon, <1>2, <2>1, FS_Surjection
<1>8. IsFiniteSet(B)
  <2>. DEFINE f == [r \in StaticRoutes(n) |-> Stat(r)]
  <2>. HIDE DEF Stat
  <2>1. f \in Surjection(StaticRoutes(n), B)
    BY Zenon DEF Surjection
  <2>. QED  BY Zenon, <1>2, <2>1, FS_Surjection
<1>9. IsFiniteSet(C)
  <2>. DEFINE f == [p \in D |-> Rip(p)]
  <2>1. IsFiniteSet(D)
    BY Zenon, <1>2, <1>3, FS_Subset
  <2>. HIDE DEF Rip, D
  <2>2. f \in Surjection(D, C)
    BY Zenon DEF Surjection
  <2>. QED  BY Zenon, <2>1, <2>2, FS_Surjection
<1>10. IsFiniteSet(Table(n))
  <2>. HIDE DEF A, B, C
  <2>1. IsFiniteSet(A \cup B)
    BY Zenon, <1>7, <1>8, FS_Union
  <2>. QED  BY Zenon, <1>1, <1>9, <2>1, FS_Union
<1>. HIDE DEF A, B, C
<1>. QED  BY <1>1, <1>4, <1>5, <1>6, <1>10, Zenon

\* FindNext for an address that is not one of the node's own.
LEMMA FindNextIsLongest ==
  ASSUME LearnedInv, NEW n \in Nodes, NEW dst, ~CheckDest(n, dst)
  PROVE  FindNext(n, dst) =
           IF Matching(n, dst) = {} THEN {NoEntry} ELSE Longest(Matching(n, dst))
<1>1. IsFiniteSet(Table(n)) /\ Table(n) \subseteq Entry
  BY TableType
<1>2. Matching(n, dst) \in SUBSET Table(n)
  BY Zenon DEF Matching
<1>3. IsFiniteSet(Matching(n, dst)) /\ Matching(n, dst) \subseteq Entry
  BY Zenon, <1>1, <1>2, FS_Subset
<1>4. \A e \in Entry : e # NoEntry /\ e.pre.bits \in Nat
  <2>1. \A e \in Entry : e.type # NoEntry.type
    BY DEF Entry, NoEntry
  <2>2. \A p \in Prefix : p.bits \in Nat
    BY BoundAssumption DEF Prefix
  <2>3. \A e \in Entry : e.pre \in Prefix
    BY DEF Entry
  <2>. QED  BY <2>1, <2>2, <2>3, Zenon
<1>5. FindNext(n, dst) = {Best(seq) : seq \in Seqs!SetToSeqs(Matching(n, dst))}
  BY Zenon DEF FindNext
<1>6. CASE Matching(n, dst) # {}
  BY <1>3, <1>4, <1>5, <1>6, LoopFindsLongest, Zenon
<1>7. CASE Matching(n, dst) = {}
  <2>1. Cardinality({}) = 0
    BY FS_EmptySet
  <2>2. Seqs!SetToSeqs({}) = {f \in [1 .. 0 -> {}] : \A i, j \in 1 .. 0 : i # j => f[i] # f[j]}
    BY <2>1, SameCardinality, Zenon DEF Seqs!SetToSeqs
  <2>3. \A seq \in Seqs!SetToSeqs({}) : DOMAIN seq = 1 .. 0
    BY <2>2, Zenon
  <2>4. \A seq \in Seqs!SetToSeqs({}) : Best(seq) = NoEntry
    BY <2>3, BestOfNone, Zenon
  <2>5. [i \in 1 .. 0 |-> NoEntry] \in Seqs!SetToSeqs({})
    <3>1. 1 .. 0 = {}
      OBVIOUS
    <3>2. [i \in {} |-> NoEntry] \in [{} -> {}]
      BY Zenon
    <3>. QED  BY <2>2, <3>1, <3>2, Zenon
  <2>. QED  BY <1>5, <1>7, <2>4, <2>5, Zenon
<1>. QED  BY <1>6, <1>7, Zenon

-----------------------------------------------------------------------------
(* The inductive invariant.  That a packet is "out" exactly while it is on *)
(* the way is kept by a step only if it has one copy at most.              *)

Packet == [id : DOMAIN Traffic, ttl : 1 .. TTL, to : Addr]
Fate == {"unsent", "out", "gone", "lost"} \cup Nodes

NetInv ==
  /\ net \subseteq Packet
  /\ \A m1, m2 \in net : m1.id = m2.id => m1 = m2
  /\ fate \in [DOMAIN Traffic -> Fate]
  /\ \A id \in DOMAIN Traffic : (fate[id] = "out") <=> (\E m \in net : m.id = id)

IInv ==
  /\ DOMAIN learned = Nodes /\ LearnedInv
  /\ NetInv
  /\ lost \in Nat

\* The packets other than id.
Others(id) == {m \in net : m.id # id}

\* Packet id is not on the way any more.
LEMMA PacketLeaves ==
  ASSUME NetInv, NEW id \in DOMAIN Traffic, NEW v \in Fate, v # "out",
         net' = Others(id), fate' = [fate EXCEPT ![id] = v]
  PROVE  NetInv'
<1>1. net' \subseteq net /\ \A m \in net : m \in net' <=> m.id # id
  BY Zenon DEF Others
<1>2. fate' \in [DOMAIN Traffic -> Fate]
  BY Zenon DEF NetInv
<1>3. fate'[id] = v /\ \A j \in DOMAIN Traffic : j # id => fate'[j] = fate[j]
  BY Zenon DEF NetInv
<1>4. \A j \in DOMAIN Traffic : (fate'[j] = "out") <=> (\E m \in net' : m.id = j)
  BY <1>1, <1>3, Zenon DEF NetInv
<1>5. net' \subseteq Packet /\ \A m1, m2 \in net' : m1.id = m2.id => m1 = m2
  BY <1>1, Zenon DEF NetInv
<1>. QED  BY <1>2, <1>4, <1>5, Zenon DEF NetInv

\* Packet id is sent to a neighbor.
LEMMA PacketGoesOn ==
  ASSUME NetInv, NEW id \in DOMAIN Traffic, NEW ttl \in 1 .. TTL, NEW next \in Addr,
         net' = Others(id) \cup {[id |-> id, ttl |-> ttl, to |-> next]},
         fate' = [fate EXCEPT ![id] = "out"]
  PROVE  NetInv'
<1>. DEFINE new == [id |-> id, ttl |-> ttl, to |-> next]
<1>1. new \in Packet /\ new.id = id
  BY DEF Packet
<1>. HIDE DEF new
<1>2. \A m : m \in net' <=> (m \in net /\ m.id # id) \/ m = new
  BY Zenon DEF Others, new
<1>3. fate' \in [DOMAIN Traffic -> Fate]
  <2>1. "out" \in Fate
    BY DEF Fate
  <2>. QED  BY <2>1, Zenon DEF NetInv
<1>4. fate'[id] = "out" /\ \A j \in DOMAIN Traffic : j # id => fate'[j] = fate[j]
  BY Zenon DEF NetInv
<1>5. \A j \in DOMAIN Traffic : (fate'[j] = "out") <=> (\E m \in net' : m.id = j)
  BY <1>1, <1>2, <1>4, Zenon DEF NetInv
<1>6. net' \subseteq Packet
  BY <1>1, <1>2, Zenon DEF NetInv
<1>7. ASSUME NEW m1 \in net', NEW m2 \in net', m1.id = m2.id  PROVE m1 = m2
  <2>1. CASE m1.id = id
    <3>1. m1 = new
      BY <1>2, <2>1, Zenon
    <3>2. m2 = new
      BY <1>2, <1>7, <2>1, Zenon
    <3>. QED  BY Zenon, <3>1, <3>2
  <2>2. CASE m1.id # id
    <3>1. m1 \in net /\ m2 \in net
      BY <1>1, <1>2, <1>7, <2>2, Zenon
    <3>. QED  BY <1>7, <3>1, Zenon DEF NetInv
  <2>. QED  BY Zenon, <2>1, <2>2
<1>. QED  BY <1>3, <1>5, <1>6, <1>7, Zenon DEF NetInv

\* FindNext and forwardPacket, for a packet whose TTL has not run out.
LEMMA ForwardKeeps ==
  ASSUME NetInv, NEW n \in Nodes, NEW id \in DOMAIN Traffic, NEW ttl \in 1 .. TTL,
         Forward(n, id, ttl, Others(id))
  PROVE  NetInv'
<1>1. PICK next : ForwardPacket(n, id, ttl, next, Others(id))
  BY Zenon DEF Forward
<1>2. CASE next \in Neighbors[n]
  <2>1. next \in Addr
    BY <1>2, ConfigAssumption, Zenon
  <2>. QED  BY <1>1, <1>2, <2>1, PacketGoesOn, Zenon DEF ForwardPacket
<1>3. CASE next \notin Neighbors[n]
  <2>1. "gone" \in Fate /\ "gone" # "out"
    BY DEF Fate
  <2>. QED  BY <1>1, <1>3, <2>1, PacketLeaves, Zenon DEF ForwardPacket
<1>. QED  BY <1>2, <1>3, Zenon

\* Without packet m, the others are left.
LEMMA OneCopy ==
  ASSUME NetInv, NEW m \in net
  PROVE  m.id \in DOMAIN Traffic /\ m.ttl \in 1 .. TTL /\ net \ {m} = Others(m.id)
<1>1. m \in Packet
  BY Zenon DEF NetInv
<1>2. m.id \in DOMAIN Traffic /\ m.ttl \in 1 .. TTL
  BY <1>1 DEF Packet
<1>. QED  BY <1>2, Zenon DEF NetInv, Others

\* HandleSend puts one copy into the network.
LEMMA SendKeeps ==
  ASSUME NetInv, NEW id \in DOMAIN Traffic, HandleSend(id)
  PROVE  NetInv'
<1>1. Traffic[id].src \in Nodes
  <2>1. Traffic[id] \in [src : Nodes, dst : Addr]
    BY TrafficAssumption, Zenon
  <2>. QED  BY <2>1
<1>2. TTL \in 1 .. TTL
  BY BoundAssumption
<1>3. net = Others(id)
  <2>1. fate[id] # "out"
    BY DEF HandleSend
  <2>. QED  BY <2>1, Zenon DEF NetInv, Others
<1>4. Forward(Traffic[id].src, id, TTL, Others(id))
  BY <1>3, Zenon DEF HandleSend
<1>. QED  BY <1>1, <1>2, <1>4, ForwardKeeps, Zenon

\* handlePackets takes a copy and forwards it, with a smaller TTL, at most once.
LEMMA HandleKeeps ==
  ASSUME NetInv, NEW n \in Nodes, NEW m \in net, HandlePackets(n, m)
  PROVE  NetInv'
<1>1. m.id \in DOMAIN Traffic /\ m.ttl \in 1 .. TTL /\ net \ {m} = Others(m.id)
  BY OneCopy
<1>2. n \in Fate /\ n # "out" /\ "gone" \in Fate /\ "gone" # "out"
  BY TrafficAssumption DEF Fate
<1>3. CASE CheckDest(n, Traffic[m.id].dst)
  <2>1. net' = Others(m.id) /\ fate' = [fate EXCEPT ![m.id] = n]
    BY <1>1, <1>3, Zenon DEF HandlePackets
  <2>. QED  BY <1>1, <1>2, <2>1, PacketLeaves, Zenon
<1>4. CASE ~CheckDest(n, Traffic[m.id].dst) /\ GoesOn(Aging(m.ttl))
  <2>1. Aging(m.ttl) \in 1 .. TTL
    BY SMTT(20), <1>1, <1>4, BoundAssumption DEF Aging, GoesOn
  <2>2. Forward(n, m.id, Aging(m.ttl), Others(m.id))
    BY <1>1, <1>4, Zenon DEF HandlePackets
  <2>. QED  BY <1>1, <2>1, <2>2, ForwardKeeps, Zenon
<1>5. CASE ~CheckDest(n, Traffic[m.id].dst) /\ ~GoesOn(Aging(m.ttl))
  <2>1. net' = Others(m.id) /\ fate' = [fate EXCEPT ![m.id] = "gone"]
    BY <1>1, <1>5, Zenon DEF HandlePackets
  <2>. QED  BY <1>1, <1>2, <2>1, PacketLeaves, Zenon
<1>. QED  BY <1>3, <1>4, <1>5, Zenon

\* A lost packet is not under way any more.
LEMMA LoseKeeps ==
  ASSUME NetInv, NEW m \in net, Lose(m)
  PROVE  NetInv'
<1>1. m.id \in DOMAIN Traffic /\ net \ {m} = Others(m.id)
  BY OneCopy
<1>2. "lost" \in Fate /\ "lost" # "out"
  BY DEF Fate
<1>. QED  BY <1>1, <1>2, PacketLeaves, Zenon DEF Lose

\* A route changes only to a next hop that RIP may find, or goes.
LEMMA RouteChangesKeeps ==
  ASSUME DOMAIN learned = Nodes, LearnedInv, NEW n \in Nodes, NEW p \in DOMAIN Learnable[n],
         NEW next \in Learnable[n][p] \cup {NoHop}, RouteChanges(n, p, next)
  PROVE  DOMAIN learned' = Nodes /\ LearnedInv'
<1>1. learned' = [learned EXCEPT ![n] = [learned[n] EXCEPT ![p] = next]]
  BY DEF RouteChanges
<1>2. DOMAIN learned' = Nodes
  BY <1>1
<1>3. \A k \in Nodes : k # n => learned'[k] = learned[k]
  BY <1>1
<1>4. learned'[n] = [learned[n] EXCEPT ![p] = next]
  BY <1>1
<1>5. /\ DOMAIN learned'[n] = DOMAIN Learnable[n]
      /\ \A q \in DOMAIN Learnable[n] : learned'[n][q] = IF q = p THEN next ELSE learned[n][q]
  BY <1>4, Zenon DEF LearnedInv
<1>. QED  BY <1>2, <1>3, <1>5, Zenon DEF LearnedInv

-----------------------------------------------------------------------------

\* The inductive invariant holds initially.
LEMMA InvInit == Init => IInv
<1>. SUFFICES ASSUME Init  PROVE IInv
  OBVIOUS
<1>1. DOMAIN learned = Nodes /\ LearnedInv
  BY Zenon DEF Init, LearnedInv
<1>2. NetInv
  <2>1. "unsent" \in Fate /\ "unsent" # "out"
    BY DEF Fate
  <2>. QED  BY <2>1, Zenon DEF Init, NetInv
<1>. QED  BY Zenon, <1>1, <1>2 DEF Init, IInv

\* Every step keeps it.
LEMMA InvNext == IInv /\ [Next]_vars => IInv'
<1>. SUFFICES ASSUME IInv, [Next]_vars  PROVE IInv'
  OBVIOUS
<1>0. DOMAIN learned = Nodes /\ LearnedInv /\ NetInv /\ lost \in Nat
  BY Zenon DEF IInv
<1>1. learned' = learned => DOMAIN learned' = Nodes /\ LearnedInv'
  BY <1>0, Zenon DEF LearnedInv
<1>2. net' = net /\ fate' = fate => NetInv'
  BY <1>0, Zenon DEF NetInv
<1>3. ASSUME NEW id \in DOMAIN Traffic, HandleSend(id)  PROVE IInv'
  <2>1. NetInv'
    BY <1>0, <1>3, SendKeeps, Zenon
  <2>2. learned' = learned /\ lost' = lost
    BY <1>3, Zenon DEF HandleSend
  <2>. QED  BY <1>0, <1>1, <2>1, <2>2, Zenon DEF IInv
<1>4. ASSUME NEW m \in net, Lose(m)  PROVE IInv'
  <2>1. NetInv'
    BY <1>0, <1>4, LoseKeeps, Zenon
  <2>2. learned' = learned /\ lost' = lost + 1
    BY <1>4, Zenon DEF Lose
  <2>3. lost' \in Nat
    BY <1>0, <2>2
  <2>. QED  BY <1>1, <2>1, <2>2, <2>3, Zenon DEF IInv
<1>5. ASSUME NEW m \in net, NEW n \in Nodes, HandlePackets(n, m)  PROVE IInv'
  <2>1. NetInv'
    BY <1>0, <1>5, HandleKeeps, Zenon
  <2>2. learned' = learned /\ lost' = lost
    BY <1>5, Zenon DEF HandlePackets
  <2>. QED  BY <1>0, <1>1, <2>1, <2>2, Zenon DEF IInv
<1>6. ASSUME NEW n \in Nodes, NEW p \in DOMAIN Learnable[n],
             NEW next \in Learnable[n][p] \cup {NoHop}, RouteChanges(n, p, next)
      PROVE  IInv'
  <2>1. DOMAIN learned' = Nodes /\ LearnedInv'
    BY <1>0, <1>6, RouteChangesKeeps, Zenon
  <2>2. net' = net /\ fate' = fate /\ lost' = lost
    BY <1>6, Zenon DEF RouteChanges
  <2>. QED  BY <1>0, <1>2, <2>1, <2>2, Zenon DEF IInv
<1>7. CASE UNCHANGED vars
  <2>1. learned' = learned /\ net' = net /\ fate' = fate /\ lost' = lost
    BY <1>7, Zenon DEF vars
  <2>. QED  BY <1>0, <1>1, <1>2, <2>1, Zenon DEF IInv
<1>. QED  BY <1>3, <1>4, <1>5, <1>6, <1>7, Zenon DEF Next

\* It is an invariant of forwarding.
LEMMA InvHolds == Spec => []IInv
BY InvInit, InvNext, PTL DEF Spec

\* Type correctness of forwarding: also that a packet is under way exactly while there
\* is a copy of it in the network, and that its TTL there is never 0.
THEOREM ForwardTypeCorrect == Spec => []TypeOK
<1>1. IInv => TypeOK
  BY Zenon DEF IInv, LearnedInv, NetInv, TypeOK, Packet, Fate
<1>. QED  BY <1>1, InvHolds, PTL

\* FindNext's loop over the table computes longest-prefix match in every reachable
\* state: for an address that is not the node's own, and whatever the order in which
\* the map is traversed, it returns an entry with the longest prefix that matches (any
\* of those, if several do), and no entry only if none matches.
THEOREM ForwardLongestMatch == Spec => []LongestMatch
<1>1. IInv => LongestMatch
  <2>. SUFFICES ASSUME IInv, NEW n \in Nodes, NEW id \in DOMAIN Traffic,
                       ~Owns(n, Traffic[id].dst)
                PROVE  FindNext(n, Traffic[id].dst) =
                         IF Matching(n, Traffic[id].dst) = {} THEN {NoEntry}
                         ELSE Longest(Matching(n, Traffic[id].dst))
    BY Zenon DEF LongestMatch, Longest
  <2>1. ~CheckDest(n, Traffic[id].dst)
    BY Zenon DEF CheckDest, Owns
  <2>. QED  BY <2>1, FindNextIsLongest, Zenon DEF IInv
<1>. QED  BY <1>1, InvHolds, PTL

=============================================================================
