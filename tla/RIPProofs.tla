------------------------------ MODULE RIPProofs ------------------------------
(***************************************************************************)
(* Proofs about RIP for every network, every bound and every number of     *)
(* handlers: TypeOK and CostSound are invariants, and NoneExpires is one   *)
(* on networks without cycles.                                             *)
(*                                                                         *)
(* CostSound speaks of tables and of packets.  A packet is made from what  *)
(* a goroutine has read of an entry, perhaps long ago, perhaps while the   *)
(* entry was being written, perhaps of one that is deleted by now.  The    *)
(* inductive invariant therefore follows a cost from the table into the    *)
(* goroutines that send it, into the packets and back into a table, and    *)
(* says why nobody writes the table between the two writes of Better.      *)
(*                                                                         *)
(* NoneExpires needs to know all of the traffic: what routes there are,    *)
(* what is told of them, and when a route was last confirmed or will be    *)
(* (TreeInv).                                                              *)
(***************************************************************************)
EXTENDS RIP, TLAPS

\* c is infinite or no better than the network allows at n.
Sound(n, c) == c = INFTY \/ Dist[n] <= c

\* One of m and n has the other as a RIP neighbor.
Adjacent(m, n) == n \in Neighbors(m) \/ m \in Neighbors(n)

\* An entry in a table is sound and finite, and NoRoute is infinite.
RouteOK(n, r) == Sound(n, r.cost) /\ (r.next # NoNode <=> r.cost < INFTY)

\* What a goroutine of n is about to send, and to whom.
JobOK(n, j) ==
  /\ \A c \in j.seen : Sound(n, c)
  /\ j.info = InTable \/ Sound(n, j.info.cost)
  /\ \A i \in DOMAIN j.left : Adjacent(n, j.left[i])
  /\ j.pc = "send" => j.left # <<>>

\* A handler between its two writes holds nodeLock, and the entry is there.
WriteOK(n, g) ==
  job[n][g].pc = "write" => /\ lock[n] = g /\ up[n] = "on"
                            /\ Has(n) /\ job[n][g].hop \in Nodes

RouteInv == \A n \in Nodes : RouteOK(n, route[n])
JobInv == \A n \in Nodes : \A g \in Procs : JobOK(n, job[n][g])
WriteInv == \A n \in Nodes : \A g \in Procs : WriteOK(n, g)
ReqInv == \A m, n \in Nodes : req[m][n] > 0 => Adjacent(m, n)
UpdInv == \A m, n \in Nodes : \A c \in Costs : upd[m][n][c] > 0 => Adjacent(m, n) /\ Sound(m, c)

IInv == TypeOK /\ RouteInv /\ JobInv /\ WriteInv /\ ReqInv /\ UpdInv

-----------------------------------------------------------------------------
(* Operators.                                                              *)

\* Costs, Via and the constants of the model.
LEMMA ConstantTypes ==
  /\ INFTY \in Costs /\ 0 \in Costs /\ 0 < INFTY
  /\ NoRoute \in Route /\ InTable \in Route
  /\ \A c \in Costs : Via(c) \in Costs
  /\ Timers \in [periodic : 0 .. Period, gc : 0 .. Sweep]
BY InftyAssumption DEF Costs, NoRoute, InTable, Route, Via, Least, Timers, Period, Sweep, Lifetime

\* A hop more than a sound cost of a neighbor is sound.
LEMMA ViaSound ==
  ASSUME NEW m \in Nodes, NEW n \in Nodes, Adjacent(m, n), NEW c \in Costs, Sound(m, c)
  PROVE  Sound(n, Via(c))
<1>1. Dist[n] <= Dist[m] + 1 /\ Dist[m] \in Nat /\ Dist[n] \in Nat
  BY DistAssumption DEF Adjacent
<1>2. c \in Nat /\ INFTY \in Nat
  BY InftyAssumption DEF Costs
<1>. QED
  BY <1>1, <1>2 DEF Sound, Via, Least

\* An idle goroutine.
LEMMA IdleOK ==
  /\ Idle \in Job /\ Idle.pc = "idle" /\ Idle.info = InTable /\ Idle.left = <<>> /\ Idle.seen = {}
  /\ \A n \in Nodes : JobOK(n, Idle)
<1>1. Idle \in Job
  BY ConstantTypes DEF Idle, Job
<1>2. Idle.pc = "idle" /\ Idle.info = InTable /\ Idle.left = <<>> /\ Idle.seen = {}
  BY DEF Idle
<1>. QED
  BY <1>1, <1>2 DEF JobOK

\* A goroutine that starts to send.
LEMMA SendingOK ==
  ASSUME NEW n \in Nodes, NEW info \in Route, NEW cost \in Costs, NEW dsts \in Seq(Nodes),
         Sound(n, cost), info = InTable \/ Sound(n, info.cost),
         \A i \in DOMAIN dsts : Adjacent(n, dsts[i])
  PROVE  /\ Sending(info, cost, dsts) \in Job
         /\ JobOK(n, Sending(info, cost, dsts))
         /\ Sending(info, cost, dsts).pc # "write"
<1>1. CASE dsts = <<>>
  BY <1>1, IdleOK DEF Sending
<1>2. CASE dsts # <<>>
  <2>. DEFINE j == [Idle EXCEPT !.pc = "send", !.info = info, !.left = dsts, !.seen = {cost}]
  <2>1. j \in Job
    BY Zenon, IdleOK DEF Job
  <2>2. j.pc = "send" /\ j.info = info /\ j.left = dsts /\ j.seen = {cost}
    BY IdleOK DEF Job
  <2>3. Sending(info, cost, dsts) = j
    BY <1>2 DEF Sending
  <2>. HIDE DEF j
  <2>. QED
    BY <1>2, <2>1, <2>2, <2>3 DEF JobOK
<1>. QED
  BY <1>1, <1>2

\* The destinations of the triggered and the periodic updates.
LEMMA NeighborsAdjacent ==
  ASSUME NEW n \in Nodes
  PROVE  RipNeighbors[n] \in Seq(Nodes) /\ \A i \in DOMAIN RipNeighbors[n] : Adjacent(n, RipNeighbors[n][i])
BY NodeAssumption DEF Adjacent, Neighbors

-----------------------------------------------------------------------------
(* Changes of job, route and upd.                                          *)

\* One goroutine of n changes.
LEMMA OneJob ==
  ASSUME TypeOK, JobInv, NEW n \in Nodes, NEW g \in Procs, NEW j \in Job, JobOK(n, j),
         job' = [job EXCEPT ![n][g] = j]
  PROVE  job' \in [Nodes -> [Procs -> Job]] /\ JobInv'
<1>1. job' \in [Nodes -> [Procs -> Job]]
  BY DEF TypeOK
<1>2. \A m \in Nodes : \A h \in Procs : JobOK(m, job'[m][h])
  BY DEF TypeOK, JobInv
<1>. QED
  BY <1>1, <1>2 DEF JobInv, JobOK, Sound, Adjacent

\* All goroutines of n may change.
LEMMA AllJobs ==
  ASSUME TypeOK, JobInv, NEW n \in Nodes, NEW jn \in [Procs -> Job],
         \A g \in Procs : JobOK(n, jn[g]), job' = [job EXCEPT ![n] = jn]
  PROVE  job' \in [Nodes -> [Procs -> Job]] /\ JobInv'
<1>1. job' \in [Nodes -> [Procs -> Job]]
  BY DEF TypeOK
<1>2. \A m \in Nodes : \A h \in Procs : JobOK(m, job'[m][h])
  BY DEF TypeOK, JobInv
<1>. QED
  BY <1>1, <1>2 DEF JobInv, JobOK, Sound, Adjacent

\* The entry of n changes.
LEMMA OneRoute ==
  ASSUME TypeOK, RouteInv, NEW n \in Nodes, NEW r \in Route, RouteOK(n, r),
         route' = [route EXCEPT ![n] = r]
  PROVE  route' \in [Nodes -> Route] /\ RouteInv'
BY DEF TypeOK, RouteInv, RouteOK, Sound

\* NoRoute is an entry that does no harm.
LEMMA NoRouteOK == \A n \in Nodes : RouteOK(n, NoRoute)
BY InftyAssumption DEF RouteOK, Sound, NoRoute

\* Goroutines that send the entry of n may read the cost it gets.
LEMMA SeenOK ==
  ASSUME TypeOK, JobInv, NEW n \in Nodes, NEW cost \in Costs, Sound(n, cost),
         NEW info \in Route, info = InTable \/ Sound(n, info.cost)
  PROVE  /\ Seen(n, cost, info) \in [Procs -> Job]
         /\ \A g \in Procs : /\ JobOK(n, Seen(n, cost, info)[g])
                             /\ Seen(n, cost, info)[g].pc = job[n][g].pc
                             /\ Seen(n, cost, info)[g].hop = job[n][g].hop
<1>1. ASSUME NEW g \in Procs
      PROVE  /\ Seen(n, cost, info)[g] \in Job
             /\ JobOK(n, Seen(n, cost, info)[g])
             /\ Seen(n, cost, info)[g].pc = job[n][g].pc
             /\ Seen(n, cost, info)[g].hop = job[n][g].hop
  <2>. DEFINE j == job[n][g]
              k == [j EXCEPT !.seen = @ \cup {cost}, !.info = info]
  <2>1. j \in Job /\ JobOK(n, j)
    BY DEF TypeOK, JobInv
  <2>2. Seen(n, cost, info)[g] = IF j.pc = "send" /\ j.info = InTable THEN k ELSE j
    BY DEF Seen
  <2>. HIDE DEF j
  <2>3. /\ k \in Job /\ k.pc = j.pc /\ k.hop = j.hop /\ k.left = j.left
        /\ k.seen = j.seen \cup {cost} /\ k.info = info
    BY Zenon, <2>1 DEF Job
  <2>. HIDE DEF k
  <2>4. JobOK(n, k)
    BY <2>1, <2>3 DEF JobOK
  <2>. QED
    BY <2>1, <2>2, <2>3, <2>4 DEF j
<1>2. Seen(n, cost, info) \in [Procs -> Job]
  BY Zenon, <1>1 DEF Seen
<1>. QED
  BY <1>1, <1>2

\* While nodeLock is free nobody is between two writes.
LEMMA FreeLock ==
  ASSUME WriteInv, NEW n \in Nodes, lock[n] = "free", NEW g \in Procs
  PROVE  job[n][g].pc # "write"
BY BoundAssumption DEF WriteInv, WriteOK, Procs

\* One more response on the way from n to dst.
LEMMA OneMoreUpdate ==
  ASSUME TypeOK, UpdInv, NEW n \in Nodes, NEW dst \in Nodes, NEW c \in Costs,
         Adjacent(n, dst), Sound(n, c), upd' = [upd EXCEPT ![n][dst][c] = @ + 1]
  PROVE  upd' \in [Nodes -> [Nodes -> [Costs -> Nat]]] /\ UpdInv'
<1>1. upd \in [Nodes -> [Nodes -> [Costs -> Nat]]]
  BY DEF TypeOK
<1>2. upd' \in [Nodes -> [Nodes -> [Costs -> Nat]]]
  BY <1>1
<1>3. \A m, l \in Nodes : \A d \in Costs :
        upd'[m][l][d] > 0 => upd[m][l][d] > 0 \/ (m = n /\ l = dst /\ d = c)
  BY <1>1
<1>. QED
  BY <1>2, <1>3 DEF UpdInv, Adjacent, Sound

\* A response that is taken from the network.
LEMMA TakeResponse ==
  ASSUME IInv, NEW n \in Nodes, NEW h \in Handlers, NEW m \in Nodes, NEW c \in Costs,
         Response(n, h, m, c)
  PROVE  /\ upd' \in [Nodes -> [Nodes -> [Costs -> Nat]]] /\ UpdInv'
         /\ Via(c) \in Costs /\ Sound(n, Via(c)) /\ Adjacent(m, n)
         /\ up[n] = "on" /\ lock[n] = "free" /\ job[n][h].pc = "idle"
<1>1. upd \in [Nodes -> [Nodes -> [Costs -> Nat]]] /\ upd[m][n][c] > 0
      /\ upd' = [upd EXCEPT ![m][n][c] = @ - 1]
  BY DEF IInv, TypeOK, Response, Said
<1>2. upd' \in [Nodes -> [Nodes -> [Costs -> Nat]]]
      /\ \A k, l \in Nodes : \A d \in Costs : upd'[k][l][d] > 0 => upd[k][l][d] > 0
  BY <1>1
<1>3. UpdInv'
  BY <1>2 DEF IInv, UpdInv, Adjacent, Sound
<1>4. Via(c) \in Costs /\ Sound(n, Via(c)) /\ Adjacent(m, n)
  BY <1>1, ViaSound, ConstantTypes DEF IInv, UpdInv
<1>. QED
  BY <1>2, <1>3, <1>4 DEF Response, Free

-----------------------------------------------------------------------------
(* Start and end of a process.                                             *)

\* The invariant holds when all nodes are off.
LEMMA InitInv == Init => IInv
<1>. SUFFICES ASSUME Init PROVE IInv
  OBVIOUS
<1>1. TypeOK
  <2>1. NoJobs \in [Procs -> Job]
    BY IdleOK DEF NoJobs
  <2>. QED
    BY <2>1, ConstantTypes DEF Init, TypeOK
<1>2. RouteInv
  BY Zenon, NoRouteOK DEF Init, RouteInv
<1>3. JobInv /\ WriteInv
  BY IdleOK DEF Init, JobInv, WriteInv, WriteOK, NoJobs
<1>4. ReqInv /\ UpdInv
  BY DEF Init, ReqInv, UpdInv
<1>. QED
  BY <1>1, <1>2, <1>3, <1>4 DEF IInv

\* Initialize: the own entry is sound, the requests go to neighbors.
LEMMA StartStep ==
  ASSUME IInv, NEW n \in Nodes, Start(n)
  PROVE  IInv'
<1>1. Own(n) \in Route /\ RouteOK(n, Own(n))
  BY ConstantTypes, NoRouteOK, NodeAssumption, DistAssumption, InftyAssumption
     DEF Own, Route, RouteOK, Sound, Costs, Lifetime
<1>2. route' \in [Nodes -> Route] /\ RouteInv'
  BY Zenon, <1>1, OneRoute DEF IInv, Start
<1>3. req' \in [Nodes -> [Nodes -> Nat]] /\ ReqInv'
  <2>1. \A k, l \in Nodes : /\ req'[k][l] \in Nat
                           /\ req'[k][l] > 0 => req[k][l] > 0 \/ l \in Neighbors(k)
    BY DEF IInv, TypeOK, Start
  <2>2. req' \in [Nodes -> [Nodes -> Nat]]
    BY <2>1 DEF IInv, TypeOK, Start
  <2>. QED
    BY <2>1, <2>2 DEF IInv, ReqInv, Adjacent
<1>4. TypeOK'
  BY <1>2, <1>3 DEF IInv, TypeOK, Start
<1>5. JobInv' /\ UpdInv'
  BY DEF IInv, Start, JobInv, JobOK, UpdInv, Sound, Adjacent
<1>6. WriteInv'
  BY DEF IInv, TypeOK, Start, WriteInv, WriteOK, Has
<1>. QED
  BY <1>2, <1>3, <1>4, <1>5, <1>6 DEF IInv

\* handlerTable is filled.
LEMMA ReadyStep ==
  ASSUME IInv, NEW n \in Nodes, Ready(n)
  PROVE  IInv'
<1>1. TypeOK'
  BY DEF IInv, TypeOK, Ready
<1>2. WriteInv'
  BY DEF IInv, TypeOK, Ready, WriteInv, WriteOK, Has
<1>3. RouteInv' /\ JobInv' /\ ReqInv' /\ UpdInv'
  BY DEF IInv, Ready, RouteInv, RouteOK, JobInv, JobOK, ReqInv, UpdInv, Sound, Adjacent
<1>. QED
  BY <1>1, <1>2, <1>3 DEF IInv

\* Panic and Stop.
LEMMA GoneStep ==
  ASSUME IInv, NEW n \in Nodes, Gone(n),
         starts' \in Nat, stops' \in Nat, lost' \in Nat
  PROVE  IInv'
<1>1. NoJobs \in [Procs -> Job] /\ \A g \in Procs : JobOK(n, NoJobs[g]) /\ NoJobs[g].pc = "idle"
  BY IdleOK DEF NoJobs
<1>2. job' \in [Nodes -> [Procs -> Job]] /\ JobInv'
  BY Zenon, <1>1, AllJobs DEF IInv, Gone
<1>3. route' \in [Nodes -> Route] /\ RouteInv'
  BY Zenon, NoRouteOK, ConstantTypes, OneRoute DEF IInv, Gone
<1>4. /\ req' \in [Nodes -> [Nodes -> Nat]]
      /\ \A k, l \in Nodes : req'[k][l] > 0 => req[k][l] > 0
  BY DEF IInv, TypeOK, Gone
<1>5. upd' \in [Nodes -> [Nodes -> [Costs -> Nat]]]
      /\ \A k, l \in Nodes : \A c \in Costs : upd'[k][l][c] > 0 => upd[k][l][c] > 0
  BY DEF IInv, TypeOK, Gone
<1>6. TypeOK'
  BY <1>2, <1>3, <1>4, <1>5, ConstantTypes DEF IInv, TypeOK, Gone
<1>7. ReqInv' /\ UpdInv'
  BY <1>4, <1>5 DEF IInv, ReqInv, UpdInv, Sound, Adjacent
<1>8. WriteInv'
  BY <1>1 DEF IInv, TypeOK, Gone, WriteInv, WriteOK, Has
<1>. QED
  BY <1>2, <1>3, <1>6, <1>7, <1>8 DEF IInv

-----------------------------------------------------------------------------
(* sendRIP.                                                                *)

\* sendRIP puts a cost it may have read into a packet to a neighbor.
LEMMA SendRIPStep ==
  ASSUME IInv, NEW n \in Nodes, NEW g \in Procs, SendRIP(n, g)
  PROVE  IInv'
<1>. DEFINE j == job[n][g]
            dst == Head(j.left)
            k == [j EXCEPT !.left = Tail(@), !.seen = {Info(n, g).cost}]
<1>1. j \in Job /\ JobOK(n, j) /\ j.left \in Seq(Nodes) /\ j.left # <<>>
  <2>1. j \in Job /\ JobOK(n, j)
    BY DEF IInv, TypeOK, JobInv
  <2>2. j.pc = "send"
    BY Zenon DEF SendRIP
  <2>. HIDE DEF j
  <2>. QED
    BY <2>1, <2>2 DEF Job, JobOK
<1>2. dst \in Nodes /\ Adjacent(n, dst)
  BY <1>1 DEF JobOK
<1>3. Info(n, g).cost \in Costs /\ Sound(n, Info(n, g).cost)
  BY Zenon, <1>1 DEF Info, IInv, TypeOK, RouteInv, RouteOK, JobOK, Job, Route
<1>4. job' \in [Nodes -> [Procs -> Job]] /\ JobInv'
  <2>1. CASE Len(j.left) = 1
    BY Zenon, <2>1, IdleOK, OneJob DEF IInv, SendRIP
  <2>2. CASE Len(j.left) # 1
    <3>1. /\ Tail(j.left) \in Seq(Nodes) /\ Tail(j.left) # <<>>
          /\ \A i \in DOMAIN Tail(j.left) : Adjacent(n, Tail(j.left)[i])
      <4>. DEFINE s == j.left
      <4>1. s \in Seq(Nodes) /\ Len(s) > 1 /\ \A i \in 1 .. Len(s) : Adjacent(n, s[i])
        <5>1. s \in Seq(Nodes) /\ s # <<>> /\ Len(s) # 1
          BY <1>1, <2>2
        <5>2. \A i \in DOMAIN s : Adjacent(n, s[i])
          BY <1>1 DEF JobOK
        <5>. HIDE DEF s
        <5>3. DOMAIN s = 1 .. Len(s) /\ Len(s) \in Nat
          BY <5>1
        <5>4. Len(s) # 0
          BY <5>1
        <5>. QED
          BY <5>1, <5>2, <5>3, <5>4
      <4>. HIDE DEF s
      <4>2. /\ Tail(s) \in Seq(Nodes) /\ Len(Tail(s)) = Len(s) - 1
            /\ \A i \in 1 .. Len(s) - 1 : Tail(s)[i] = s[i + 1]
        BY <4>1
      <4>3. DOMAIN Tail(s) = 1 .. Len(s) - 1
        BY <4>2
      <4>4. \A i \in 1 .. Len(s) - 1 : i + 1 \in 1 .. Len(s)
        BY <4>1
      <4>5. Tail(s) # <<>>
        BY SMTT(20), <4>1, <4>2
      <4>. QED
        BY Zenon, <4>1, <4>2, <4>3, <4>4, <4>5 DEF s
    <3>2. k \in Job /\ k.left = Tail(j.left) /\ k.seen = {Info(n, g).cost} /\ k.info = j.info
      BY Zenon, <1>1, <1>3, <3>1 DEF Job
    <3>3. JobOK(n, k)
      <4>. HIDE DEF k
      <4>. QED
        BY <1>1, <1>3, <3>1, <3>2 DEF JobOK
    <3>4. job' = [job EXCEPT ![n][g] = k]
      BY Zenon, <2>2 DEF SendRIP
    <3>. HIDE DEF k
    <3>. QED
      BY Zenon, <3>2, <3>3, <3>4, OneJob DEF IInv
  <2>. QED
    BY <2>1, <2>2
<1>5. upd' \in [Nodes -> [Nodes -> [Costs -> Nat]]] /\ UpdInv'
  <2>1. PICK cost \in j.seen :
          upd' = IF up[dst] = "off" THEN upd
                 ELSE [upd EXCEPT ![n][dst][Told(cost, Info(n, g).next, dst)] = @ + 1]
    BY Zenon DEF SendRIP
  <2>. DEFINE c == Told(cost, Info(n, g).next, dst)
  <2>2. c \in Costs /\ Sound(n, c)
    BY <1>1, ConstantTypes DEF Told, Sound, JobOK, Job
  <2>. HIDE DEF c, dst, j
  <2>3. upd \in [Nodes -> [Nodes -> [Costs -> Nat]]]
    BY DEF IInv, TypeOK
  <2>4. upd' = upd \/ upd' = [upd EXCEPT ![n][dst][c] = @ + 1]
    BY <2>1 DEF c
  <2>5. CASE upd' = upd
    BY <2>3, <2>5 DEF IInv, UpdInv, Adjacent, Sound
  <2>6. CASE upd' = [upd EXCEPT ![n][dst][c] = @ + 1]
    BY Zenon, <1>2, <2>2, <2>6, OneMoreUpdate DEF IInv
  <2>. QED
    BY <2>4, <2>5, <2>6
<1>6. TypeOK' /\ RouteInv' /\ ReqInv'
  BY Zenon, <1>4, <1>5 DEF IInv, TypeOK, SendRIP, RouteInv, RouteOK, ReqInv, Sound, Adjacent
<1>7. WriteInv'
  <2>1. \A h \in Procs : job'[n][h].pc = "write" => job'[n][h] = job[n][h]
    <3>1. job'[n][g].pc # "write"
      <4>1. job'[n][g] = IF Len(j.left) = 1 THEN Idle ELSE k
        BY Zenon DEF IInv, TypeOK, SendRIP
      <4>2. k.pc = "send"
        BY Zenon, <1>1 DEF Job, SendRIP
      <4>. QED
        BY <4>1, <4>2, IdleOK
    <3>2. \A h \in Procs : h # g => job'[n][h] = job[n][h]
      BY DEF IInv, TypeOK, SendRIP
    <3>. QED
      BY <3>1, <3>2
  <2>2. \A m \in Nodes : m # n => job'[m] = job[m]
    BY DEF IInv, TypeOK, SendRIP
  <2>3. up' = up /\ route' = route /\ lock' = lock
    BY Zenon DEF SendRIP
  <2>. QED
    BY <2>1, <2>2, <2>3 DEF IInv, WriteInv, WriteOK, Has
<1>. QED
  BY <1>4, <1>5, <1>6, <1>7 DEF IInv

-----------------------------------------------------------------------------
(* protocol200.                                                            *)

\* One goroutine of n changes and is not between two writes; up, lock and route
\* stay, or n's entry is replaced by one that is there.
LEMMA OneJobWrites ==
  ASSUME TypeOK, WriteInv, NEW n \in Nodes, NEW g \in Procs, NEW j \in Job, j.pc # "write",
         job' = [job EXCEPT ![n][g] = j], up' = up, lock' = lock,
         route' \in [Nodes -> Route],
         \A m \in Nodes : Has(m) => route'[m].next # NoNode
  PROVE  WriteInv'
<1>1. \A m \in Nodes : \A h \in Procs : job'[m][h].pc = "write" => job'[m][h] = job[m][h]
  <2>1. job'[n][g] = j /\ \A h \in Procs : h # g => job'[n][h] = job[n][h]
    BY DEF TypeOK
  <2>2. \A m \in Nodes : m # n => job'[m] = job[m]
    BY DEF TypeOK
  <2>. QED
    BY <2>1, <2>2
<1>. QED
  BY <1>1 DEF WriteInv, WriteOK, Has

\* A goroutine of n starts to send n's entry, of cost cost by now.
LEMMA TriggerOK ==
  ASSUME IInv, NEW n \in Nodes, NEW cost \in Costs, Sound(n, cost)
  PROVE  LET j == Sending(InTable, cost, RipNeighbors[n])
         IN  j \in Job /\ JobOK(n, j) /\ j.pc # "write"
BY SendingOK, ConstantTypes, NeighborsAdjacent

\* A request is answered to a neighbor.
LEMMA RequestStep ==
  ASSUME IInv, NEW n \in Nodes, NEW h \in Handlers, NEW m \in Nodes, Request(n, h, m)
  PROVE  IInv'
<1>. DEFINE j == Sending(InTable, route[n].cost, <<m>>)
<1>1. req \in [Nodes -> [Nodes -> Nat]] /\ req[m][n] > 0 /\ req' = [req EXCEPT ![m][n] = @ - 1]
  BY DEF IInv, TypeOK, Request
<1>2. req' \in [Nodes -> [Nodes -> Nat]] /\ \A k, l \in Nodes : req'[k][l] > 0 => req[k][l] > 0
  BY <1>1
<1>3. ReqInv' /\ Adjacent(n, m)
  BY <1>1, <1>2 DEF IInv, ReqInv, Adjacent
<1>4. j \in Job /\ JobOK(n, j) /\ j.pc # "write"
  <2>1. <<m>> \in Seq(Nodes) /\ \A i \in DOMAIN <<m>> : Adjacent(n, <<m>>[i])
    BY <1>3
  <2>2. route[n].cost \in Costs /\ Sound(n, route[n].cost)
    BY DEF IInv, TypeOK, Route, RouteInv, RouteOK
  <2>. QED
    BY Zenon, <2>1, <2>2, SendingOK, ConstantTypes
<1>5. job' = job \/ job' = [job EXCEPT ![n][h] = j]
  BY DEF Request
<1>6. h \in Procs
  BY DEF Procs
<1>7. UNCHANGED <<up, route, lock, upd, timer, starts, stops, lost>>
  BY DEF Request
<1>. HIDE DEF j
<1>8. job' \in [Nodes -> [Procs -> Job]] /\ JobInv'
  <2>1. CASE job' = job
    BY Zenon, <2>1 DEF IInv, TypeOK, JobInv, JobOK, Sound, Adjacent
  <2>2. CASE job' = [job EXCEPT ![n][h] = j]
    BY Zenon, <2>2, <1>4, <1>6, OneJob DEF IInv
  <2>. QED
    BY <1>5, <2>1, <2>2
<1>9. WriteInv'
  <2>1. CASE job' = job
    BY <2>1, <1>7 DEF IInv, WriteInv, WriteOK, Has
  <2>2. CASE job' = [job EXCEPT ![n][h] = j]
    BY Zenon, <2>2, <1>4, <1>6, <1>7, OneJobWrites DEF IInv, TypeOK, Has
  <2>. QED
    BY <1>5, <2>1, <2>2
<1>10. TypeOK' /\ RouteInv' /\ UpdInv'
  BY <1>2, <1>7, <1>8 DEF IInv, TypeOK, RouteInv, RouteOK, UpdInv, Sound, Adjacent
<1>. QED
  BY <1>3, <1>8, <1>9, <1>10 DEF IInv

\* A new entry, one hop more than the neighbor says.
LEMMA LearnStep ==
  ASSUME IInv, NEW n \in Nodes, NEW h \in Handlers, NEW m \in Nodes, NEW c \in Costs,
         Learn(n, h, m, c)
  PROVE  IInv'
<1>. DEFINE r == [next |-> m, cost |-> Via(c), age |-> 0]
            j == Sending(InTable, Via(c), RipNeighbors[n])
<1>1. /\ upd' \in [Nodes -> [Nodes -> [Costs -> Nat]]] /\ UpdInv'
      /\ Via(c) \in Costs /\ Sound(n, Via(c))
  BY TakeResponse DEF Learn
<1>2. h \in Procs
  BY DEF Procs
<1>3. Via(c) # INFTY /\ ~Has(n) /\ route' = [route EXCEPT ![n] = r]
      /\ job' = [job EXCEPT ![n][h] = j]
      /\ UNCHANGED <<up, lock, req, timer, starts, stops, lost>>
  BY DEF Learn, Trigger
<1>4. r \in Route /\ RouteOK(n, r) /\ r.next # NoNode
  BY <1>1, <1>3, NodeAssumption, InftyAssumption DEF Route, RouteOK, Costs, Lifetime
<1>5. j \in Job /\ JobOK(n, j) /\ j.pc # "write"
  BY <1>1, TriggerOK
<1>. HIDE DEF r, j
<1>6. route' \in [Nodes -> Route] /\ RouteInv'
  BY Zenon, <1>3, <1>4, OneRoute DEF IInv
<1>7. job' \in [Nodes -> [Procs -> Job]] /\ JobInv'
  BY Zenon, <1>2, <1>3, <1>5, OneJob DEF IInv
<1>8. WriteInv'
  <2>1. \A k \in Nodes : Has(k) => route'[k].next # NoNode
    BY <1>3, <1>4 DEF IInv, TypeOK, Has
  <2>. QED
    BY Zenon, <2>1, <1>2, <1>3, <1>5, <1>6, OneJobWrites DEF IInv
<1>9. TypeOK' /\ ReqInv'
  BY Zenon, <1>1, <1>3, <1>6, <1>7 DEF IInv, TypeOK, ReqInv, Adjacent
<1>. QED
  BY SMTT(20), <1>1, <1>6, <1>7, <1>8, <1>9 DEF IInv

\* The cost is written, and nodeLock is kept for the write of next.
LEMMA BetterStep ==
  ASSUME IInv, NEW n \in Nodes, NEW h \in Handlers, NEW m \in Nodes, NEW c \in Costs,
         Better(n, h, m, c)
  PROVE  IInv'
<1>. DEFINE r == [route[n] EXCEPT !.cost = Via(c)]
            w == [Idle EXCEPT !.pc = "write", !.hop = m]
            jn == [Seen(n, Via(c), InTable) EXCEPT ![h] = w]
<1>1. /\ upd' \in [Nodes -> [Nodes -> [Costs -> Nat]]] /\ UpdInv'
      /\ Via(c) \in Costs /\ Sound(n, Via(c))
      /\ up[n] = "on" /\ lock[n] = "free"
  BY TakeResponse DEF Better
<1>2. h \in Procs
  BY DEF Procs
<1>3. /\ Has(n) /\ route[n].cost > Via(c)
      /\ route' = [route EXCEPT ![n] = r] /\ lock' = [lock EXCEPT ![n] = h]
      /\ job' = [job EXCEPT ![n] = jn]
      /\ UNCHANGED <<up, req, timer, starts, stops, lost>>
  BY DEF Better, IInv, TypeOK
<1>4. r \in Route /\ RouteOK(n, r) /\ r.next = route[n].next
  <2>1. route[n] \in Route /\ route[n].cost \in Costs
    BY DEF IInv, TypeOK, Route
  <2>2. r \in Route /\ r.cost = Via(c) /\ r.next = route[n].next
    BY Zenon, <1>1, <2>1 DEF Route
  <2>3. Via(c) < INFTY
    BY <1>1, <1>3, <2>1, InftyAssumption DEF Costs
  <2>. QED
    BY <1>1, <1>3, <2>2, <2>3 DEF RouteOK, Has
<1>5. w \in Job /\ JobOK(n, w) /\ w.hop = m /\ w.pc = "write"
  <2>1. w \in Job /\ w.hop = m /\ w.pc = "write" /\ w.info = InTable /\ w.left = <<>> /\ w.seen = {}
    BY Zenon, IdleOK DEF Job
  <2>. HIDE DEF w
  <2>. QED
    BY <2>1 DEF JobOK
<1>6. /\ jn \in [Procs -> Job] /\ jn[h] = w
      /\ \A g \in Procs : JobOK(n, jn[g]) /\ (g # h => jn[g].pc # "write")
  <2>. DEFINE sn == Seen(n, Via(c), InTable)
  <2>1. sn \in [Procs -> Job] /\ \A g \in Procs : JobOK(n, sn[g]) /\ sn[g].pc = job[n][g].pc
    BY <1>1, SeenOK, ConstantTypes DEF IInv
  <2>2. \A g \in Procs : job[n][g].pc # "write"
    BY <1>1, FreeLock DEF IInv
  <2>. HIDE DEF sn, w
  <2>. QED
    BY <1>2, <1>5, <2>1, <2>2 DEF sn
<1>. HIDE DEF r, w, jn
<1>7. route' \in [Nodes -> Route] /\ RouteInv'
  BY Zenon, <1>3, <1>4, OneRoute DEF IInv
<1>8. job' \in [Nodes -> [Procs -> Job]] /\ JobInv'
  BY Zenon, <1>3, <1>6, AllJobs DEF IInv
<1>9. TypeOK' /\ ReqInv'
  BY <1>1, <1>3, <1>7, <1>8 DEF IInv, TypeOK, ReqInv, Adjacent
<1>10. WriteInv'
  <2>1. job'[n] = jn /\ lock'[n] = h /\ route'[n].next = route[n].next
    BY <1>3, <1>4 DEF IInv, TypeOK
  <2>2. \A k \in Nodes : k # n => job'[k] = job[k] /\ lock'[k] = lock[k] /\ route'[k] = route[k]
    BY <1>3 DEF IInv, TypeOK
  <2>3. ASSUME NEW k \in Nodes, NEW g \in Procs PROVE WriteOK(k, g)'
    <3>1. CASE k = n
      BY <3>1, <2>1, <1>1, <1>3, <1>5, <1>6 DEF WriteOK, Has
    <3>2. CASE k # n
      BY <3>2, <2>2, <1>3 DEF IInv, WriteInv, WriteOK, Has
    <3>. QED
      BY <3>1, <3>2
  <2>. QED
    BY <2>3 DEF WriteInv
<1>. QED
  BY <1>1, <1>7, <1>8, <1>9, <1>10 DEF IInv

\* A new next hop, and an age of 0.
LEMMA NewNext ==
  ASSUME NEW r \in Route, NEW m \in Nodes
  PROVE  LET q == [r EXCEPT !.next = m, !.age = 0]
         IN  q \in Route /\ q.cost = r.cost /\ q.next = m
<1>. DEFINE q == [r EXCEPT !.next = m, !.age = 0]
<1>1. q.next = m /\ q.cost = r.cost /\ q.age = 0 /\ r.cost \in Costs
  BY DEF Route
<1>2. q \in [next : Nodes \cup {NoNode}, cost : Costs, age : 0 .. Lifetime]
  <2>1. 0 \in 0 .. Lifetime
    BY DEF Lifetime
  <2>. QED
    BY Zenon, <2>1 DEF Route
<1>. QED
  BY <1>1, <1>2 DEF Route

\* The second write: the entry is still there, since nodeLock was held.
LEMMA SetNextStep ==
  ASSUME IInv, NEW n \in Nodes, NEW h \in Handlers, SetNext(n, h)
  PROVE  IInv'
<1>. DEFINE r == [route[n] EXCEPT !.next = job[n][h].hop, !.age = 0]
            j == Sending(InTable, route[n].cost, RipNeighbors[n])
<1>1. h \in Procs
  BY DEF Procs
<1>2. /\ lock[n] = h /\ Has(n) /\ job[n][h].hop \in Nodes
  BY <1>1 DEF SetNext, IInv, WriteInv, WriteOK
<1>3. /\ route' = [route EXCEPT ![n] = r] /\ lock' = [lock EXCEPT ![n] = "free"]
      /\ job' = [job EXCEPT ![n][h] = j]
      /\ UNCHANGED <<up, req, upd, timer, starts, stops, lost>>
  BY Zenon DEF SetNext, Trigger, IInv, TypeOK
<1>4. route[n] \in Route /\ route[n].cost \in Costs /\ Sound(n, route[n].cost)
  BY Zenon DEF IInv, TypeOK, Route, RouteInv, RouteOK
<1>5. r \in Route /\ RouteOK(n, r)
  <2>1. r \in Route /\ r.cost = route[n].cost /\ r.next \in Nodes
    BY Zenon, <1>2, <1>4, NewNext
  <2>. HIDE DEF r
  <2>. QED
    BY <1>2, <2>1, NodeAssumption DEF IInv, RouteInv, RouteOK, Has
<1>6. j \in Job /\ JobOK(n, j) /\ j.pc # "write"
  BY <1>4, TriggerOK
<1>. HIDE DEF r, j
<1>7. route' \in [Nodes -> Route] /\ RouteInv'
  BY Zenon, <1>3, <1>5, OneRoute DEF IInv
<1>8. job' \in [Nodes -> [Procs -> Job]] /\ JobInv'
  BY Zenon, <1>1, <1>3, <1>6, OneJob DEF IInv
<1>9. TypeOK' /\ ReqInv' /\ UpdInv'
  BY <1>3, <1>7, <1>8 DEF IInv, TypeOK, ReqInv, UpdInv, Sound, Adjacent
<1>10. WriteInv'
  <2>1. job'[n][h] = j /\ \A g \in Procs : g # h => job'[n][g] = job[n][g]
    BY Zenon, <1>1, <1>3 DEF IInv, TypeOK
  <2>2. \A g \in Procs : g # h => job[n][g].pc # "write"
    BY <1>2 DEF IInv, WriteInv, WriteOK
  <2>3. \A k \in Nodes : k # n => job'[k] = job[k] /\ lock'[k] = lock[k] /\ route'[k] = route[k]
    BY <1>3 DEF IInv, TypeOK
  <2>4. ASSUME NEW k \in Nodes, NEW g \in Procs PROVE WriteOK(k, g)'
    <3>1. CASE k = n
      BY <3>1, <2>1, <2>2, <1>6 DEF WriteOK
    <3>2. CASE k # n
      BY <3>2, <2>3, <1>3 DEF IInv, WriteInv, WriteOK, Has
    <3>. QED
      BY <3>1, <3>2
  <2>. QED
    BY <2>4 DEF WriteInv
<1>. QED
  BY <1>7, <1>8, <1>9, <1>10 DEF IInv

\* A goroutine deletes the entry and tells its last cost: Worse and
\* garbageCollector.
LEMMA DeleteOK ==
  ASSUME IInv, NEW n \in Nodes, NEW g \in Procs, NEW info \in Route, Sound(n, info.cost),
         lock[n] = "free", up' = up, lock' = lock, Delete(n, g, info)
  PROVE  /\ route' \in [Nodes -> Route] /\ RouteInv'
         /\ job' \in [Nodes -> [Procs -> Job]] /\ JobInv' /\ WriteInv'
<1>. DEFINE sn == Seen(n, info.cost, info)
            j == Sending(info, info.cost, RipNeighbors[n])
            jn == [sn EXCEPT ![g] = j]
<1>1. route' \in [Nodes -> Route] /\ RouteInv'
  BY Zenon, OneRoute, NoRouteOK, ConstantTypes DEF IInv, Delete
<1>2. info.cost \in Costs
  BY Zenon DEF Route
<1>3. j \in Job /\ JobOK(n, j) /\ j.pc # "write"
  BY Zenon, <1>2, SendingOK, NeighborsAdjacent
<1>4. sn \in [Procs -> Job] /\ \A k \in Procs : JobOK(n, sn[k]) /\ sn[k].pc = job[n][k].pc
  BY <1>2, SeenOK DEF IInv
<1>5. \A k \in Procs : job[n][k].pc # "write"
  BY FreeLock DEF IInv
<1>6. job' = [job EXCEPT ![n] = jn]
  BY DEF Delete
<1>. HIDE DEF sn, j
<1>7. jn \in [Procs -> Job] /\ \A k \in Procs : JobOK(n, jn[k]) /\ jn[k].pc # "write"
  BY <1>3, <1>4, <1>5
<1>. HIDE DEF jn
<1>8. job' \in [Nodes -> [Procs -> Job]] /\ JobInv'
  BY Zenon, <1>6, <1>7, AllJobs DEF IInv
<1>9. WriteInv'
  <2>1. job'[n] = jn
    BY <1>6 DEF IInv, TypeOK
  <2>2. \A k \in Nodes : k # n => job'[k] = job[k] /\ route'[k] = route[k]
    BY <1>6 DEF IInv, TypeOK, Delete
  <2>3. ASSUME NEW k \in Nodes, NEW h \in Procs PROVE WriteOK(k, h)'
    <3>1. CASE k = n
      BY <3>1, <2>1, <1>7 DEF WriteOK
    <3>2. CASE k # n
      BY <3>2, <2>2 DEF IInv, WriteInv, WriteOK, Has
    <3>. QED
      BY Zenon, <3>1, <3>2
  <2>. QED
    BY <2>3 DEF WriteInv
<1>. QED
  BY <1>1, <1>8, <1>9

\* An entry of another cost.
LEMMA NewCost ==
  ASSUME NEW r \in Route, NEW c \in Costs
  PROVE  /\ [r EXCEPT !.cost = c] \in Route /\ [r EXCEPT !.cost = c].cost = c
         /\ [r EXCEPT !.cost = c, !.age = 0] \in Route
         /\ [r EXCEPT !.cost = c, !.age = 0].cost = c
         /\ [r EXCEPT !.age = 0] \in Route /\ [r EXCEPT !.age = 0].cost = r.cost
         /\ [r EXCEPT !.age = 0].next = r.next
<1>1. 0 \in 0 .. Lifetime
  BY DEF Lifetime
<1>2. [r EXCEPT !.cost = c] \in Route /\ [r EXCEPT !.cost = c].cost = c
  BY DEF Route
<1>3. [r EXCEPT !.cost = c, !.age = 0] \in Route /\ [r EXCEPT !.cost = c, !.age = 0].cost = c
  BY Zenon, <1>1 DEF Route
<1>4. /\ [r EXCEPT !.age = 0] \in Route /\ [r EXCEPT !.age = 0].cost = r.cost
      /\ [r EXCEPT !.age = 0].next = r.next
  BY <1>1 DEF Route
<1>. QED
  BY <1>2, <1>3, <1>4

\* The entry is deleted and told with the worse cost.
LEMMA WorseStep ==
  ASSUME IInv, NEW n \in Nodes, NEW h \in Handlers, NEW m \in Nodes, NEW c \in Costs,
         Worse(n, h, m, c)
  PROVE  IInv'
<1>. DEFINE info == [route[n] EXCEPT !.cost = Via(c), !.age = 0]
<1>1. /\ upd' \in [Nodes -> [Nodes -> [Costs -> Nat]]] /\ UpdInv'
      /\ Via(c) \in Costs /\ Sound(n, Via(c)) /\ lock[n] = "free"
  BY TakeResponse DEF Worse
<1>2. h \in Procs
  BY DEF Procs
<1>3. info \in Route /\ Sound(n, info.cost)
  <2>1. route[n] \in Route
    BY DEF IInv, TypeOK
  <2>. QED
    BY Zenon, <1>1, <2>1, NewCost
<1>4. Delete(n, h, info) /\ UNCHANGED <<up, lock, req, timer, starts, stops, lost>>
  BY DEF Worse
<1>. HIDE DEF info
<1>5. /\ route' \in [Nodes -> Route] /\ RouteInv'
      /\ job' \in [Nodes -> [Procs -> Job]] /\ JobInv' /\ WriteInv'
  BY <1>1, <1>2, <1>3, <1>4, DeleteOK
<1>6. TypeOK' /\ ReqInv'
  BY <1>1, <1>4, <1>5 DEF IInv, TypeOK, ReqInv, Adjacent
<1>. QED
  BY <1>1, <1>5, <1>6 DEF IInv

\* Only the age of the entry changes.
LEMMA RefreshStep ==
  ASSUME IInv, NEW n \in Nodes, NEW h \in Handlers, NEW m \in Nodes, NEW c \in Costs,
         Refresh(n, h, m, c)
  PROVE  IInv'
<1>. DEFINE r == [route[n] EXCEPT !.age = 0]
            j == Sending(InTable, route[n].cost, RipNeighbors[n])
<1>1. upd' \in [Nodes -> [Nodes -> [Costs -> Nat]]] /\ UpdInv'
  BY TakeResponse DEF Refresh
<1>2. h \in Procs
  BY DEF Procs
<1>3. /\ route' = [route EXCEPT ![n] = r] /\ job' = [job EXCEPT ![n][h] = j]
      /\ UNCHANGED <<up, lock, req, timer, starts, stops, lost>>
  BY DEF Refresh, Trigger, IInv, TypeOK
<1>4. route[n] \in Route /\ route[n].cost \in Costs /\ RouteOK(n, route[n])
  BY DEF IInv, TypeOK, Route, RouteInv
<1>5. r \in Route /\ r.cost = route[n].cost /\ r.next = route[n].next
  BY Zenon, <1>4, NewCost
<1>6. j \in Job /\ JobOK(n, j) /\ j.pc # "write"
  BY <1>4, TriggerOK DEF RouteOK
<1>. HIDE DEF r, j
<1>7. route' \in [Nodes -> Route] /\ RouteInv'
  BY Zenon, <1>3, <1>4, <1>5, OneRoute DEF IInv, RouteOK
<1>8. job' \in [Nodes -> [Procs -> Job]] /\ JobInv'
  BY Zenon, <1>2, <1>3, <1>6, OneJob DEF IInv
<1>9. WriteInv'
  <2>1. \A k \in Nodes : Has(k) => route'[k].next # NoNode
    BY <1>3, <1>5 DEF IInv, TypeOK, Has
  <2>. QED
    BY Zenon, <2>1, <1>2, <1>3, <1>6, <1>7, OneJobWrites DEF IInv
<1>10. TypeOK' /\ ReqInv'
  BY <1>1, <1>3, <1>7, <1>8 DEF IInv, TypeOK, ReqInv, Adjacent
<1>. QED
  BY <1>1, <1>7, <1>8, <1>9, <1>10 DEF IInv

\* Only the packet goes.
LEMMA IgnoreStep ==
  ASSUME IInv, NEW n \in Nodes, NEW h \in Handlers, NEW m \in Nodes, NEW c \in Costs,
         Ignore(n, h, m, c)
  PROVE  IInv'
<1>1. upd' \in [Nodes -> [Nodes -> [Costs -> Nat]]] /\ UpdInv'
  BY ZenonT(30), TakeResponse DEF Ignore
<1>2. UNCHANGED <<up, route, lock, job, req, timer, starts, stops, lost>>
  BY Zenon DEF Ignore
<1>3. TypeOK'
  BY Zenon, <1>1, <1>2 DEF IInv, TypeOK
<1>4. RouteInv' /\ JobInv' /\ WriteInv' /\ ReqInv'
  BY <1>2 DEF IInv, RouteInv, RouteOK, JobInv, JobOK, WriteInv, WriteOK, Has, ReqInv, Sound, Adjacent
<1>. QED
  BY Zenon, <1>1, <1>3, <1>4 DEF IInv

-----------------------------------------------------------------------------
(* The two loops, time and the network.                                    *)

\* A timer that starts over.
LEMMA TimerOK ==
  ASSUME TypeOK, NEW n \in Nodes
  PROVE  /\ [timer EXCEPT ![n].periodic = Period]
              \in [Nodes -> [periodic : 0 .. Period, gc : 0 .. Sweep]]
         /\ [timer EXCEPT ![n].gc = Sweep]
              \in [Nodes -> [periodic : 0 .. Period, gc : 0 .. Sweep]]
<1>1. Period \in 0 .. Period /\ Sweep \in 0 .. Sweep
  BY DEF Period, Sweep
<1>2. timer \in [Nodes -> [periodic : 0 .. Period, gc : 0 .. Sweep]]
  BY DEF TypeOK
<1>. QED
  BY <1>1, <1>2

\* periodicUpdates starts to send the entry.
LEMMA PeriodicUpdatesStep ==
  ASSUME IInv, NEW n \in Nodes, PeriodicUpdates(n)
  PROVE  IInv'
<1>. DEFINE j == Sending(InTable, route[n].cost, RipNeighbors[n])
<1>1. /\ job' = job \/ job' = [job EXCEPT ![n]["periodic"] = j]
      /\ timer' = [timer EXCEPT ![n].periodic = Period]
      /\ UNCHANGED <<up, route, lock, req, upd, starts, stops, lost>>
  BY DEF PeriodicUpdates
<1>2. route[n].cost \in Costs /\ Sound(n, route[n].cost) /\ "periodic" \in Procs
  BY DEF IInv, TypeOK, Route, RouteInv, RouteOK, Procs
<1>3. j \in Job /\ JobOK(n, j) /\ j.pc # "write"
  BY <1>2, TriggerOK
<1>4. timer' \in [Nodes -> [periodic : 0 .. Period, gc : 0 .. Sweep]]
  BY Zenon, <1>1, TimerOK DEF IInv
<1>. HIDE DEF j
<1>5. job' \in [Nodes -> [Procs -> Job]] /\ JobInv' /\ WriteInv'
  <2>1. CASE job' = job
    BY <1>1, <2>1 DEF IInv, TypeOK, JobInv, JobOK, WriteInv, WriteOK, Has, Sound, Adjacent
  <2>2. CASE job' = [job EXCEPT ![n]["periodic"] = j]
    <3>1. job' \in [Nodes -> [Procs -> Job]] /\ JobInv'
      BY Zenon, <1>2, <1>3, <2>2, OneJob DEF IInv
    <3>2. WriteInv'
      BY Zenon, <1>1, <1>2, <1>3, <2>2, OneJobWrites DEF IInv, TypeOK, Has
    <3>. QED
      BY <3>1, <3>2
  <2>. QED
    BY <1>1, <2>1, <2>2
<1>6. TypeOK' /\ RouteInv' /\ ReqInv' /\ UpdInv'
  BY <1>1, <1>4, <1>5 DEF IInv, TypeOK, RouteInv, RouteOK, ReqInv, UpdInv, Sound, Adjacent
<1>. QED
  BY <1>5, <1>6 DEF IInv

\* garbageCollector deletes the entry and tells INFTY.
LEMMA GarbageCollectorStep ==
  ASSUME IInv, NEW n \in Nodes, GarbageCollector(n)
  PROVE  IInv'
<1>. DEFINE info == [route[n] EXCEPT !.cost = INFTY]
<1>1. /\ lock[n] = "free"
      /\ Delete(n, "gc", info) \/ UNCHANGED <<route, job>>
      /\ timer' = [timer EXCEPT ![n].gc = Sweep]
      /\ UNCHANGED <<up, lock, req, upd, starts, stops, lost>>
  BY DEF GarbageCollector
<1>2. timer' \in [Nodes -> [periodic : 0 .. Period, gc : 0 .. Sweep]]
  BY Zenon, <1>1, TimerOK DEF IInv
<1>3. info \in Route /\ Sound(n, info.cost)
  <2>1. route[n] \in Route
    BY DEF IInv, TypeOK
  <2>. QED
    BY Zenon, <2>1, NewCost, ConstantTypes DEF Sound
<1>. HIDE DEF info
<1>4. /\ route' \in [Nodes -> Route] /\ RouteInv'
      /\ job' \in [Nodes -> [Procs -> Job]] /\ JobInv' /\ WriteInv'
  <2>1. CASE Delete(n, "gc", info)
    <3>1. "gc" \in Procs
      BY DEF Procs
    <3>. QED
      BY <1>1, <1>3, <2>1, <3>1, DeleteOK
  <2>2. CASE UNCHANGED <<route, job>>
    BY <1>1, <2>2 DEF IInv, TypeOK, RouteInv, RouteOK, JobInv, JobOK, WriteInv, WriteOK, Has,
                      Sound, Adjacent
  <2>. QED
    BY <1>1, <2>1, <2>2
<1>5. TypeOK' /\ ReqInv' /\ UpdInv'
  BY <1>1, <1>2, <1>4 DEF IInv, TypeOK, ReqInv, UpdInv, Sound, Adjacent
<1>. QED
  BY <1>4, <1>5 DEF IInv

\* Time changes ages and timers only.
LEMMA TickStep ==
  ASSUME IInv, Tick
  PROVE  IInv'
<1>1. UNCHANGED <<up, lock, job, req, upd, starts, stops, lost>>
  BY DEF Tick
<1>2. timer' \in [Nodes -> [periodic : 0 .. Period, gc : 0 .. Sweep]]
  <2>1. timer \in [Nodes -> [periodic : 0 .. Period, gc : 0 .. Sweep]]
    BY DEF IInv, TypeOK
  <2>2. ASSUME NEW n \in Nodes
        PROVE  [periodic |-> timer[n].periodic - 1, gc |-> timer[n].gc - 1]
                 \in [periodic : 0 .. Period, gc : 0 .. Sweep]
    <3>1. timer[n].periodic > 0 /\ timer[n].gc > 0
      BY DEF Tick, Quiet
    <3>. QED
      BY <2>1, <3>1 DEF Period, Sweep
  <2>3. timer' = [n \in Nodes |-> IF up[n] = "on"
                                  THEN [periodic |-> timer[n].periodic - 1, gc |-> timer[n].gc - 1]
                                  ELSE timer[n]]
    BY DEF Tick
  <2>. QED
    BY <2>1, <2>2, <2>3
<1>3. ASSUME NEW n \in Nodes
      PROVE  route'[n] \in Route /\ route'[n].cost = route[n].cost /\ route'[n].next = route[n].next
  <2>1. route[n] \in Route /\ route[n].age \in 0 .. Lifetime
    BY DEF IInv, TypeOK, Route
  <2>2. Least(route[n].age + 1, Lifetime) \in 0 .. Lifetime
    BY <2>1 DEF Least, Lifetime
  <2>3. route'[n] = route[n] \/ route'[n] = [route[n] EXCEPT !.age = Least(@ + 1, Lifetime)]
    BY DEF Tick
  <2>. QED
    BY <2>1, <2>2, <2>3 DEF Route
<1>4. route' \in [Nodes -> Route]
  BY <1>3 DEF Tick
<1>5. TypeOK' /\ ReqInv' /\ UpdInv'
  BY Zenon, <1>1, <1>2, <1>4 DEF IInv, TypeOK, ReqInv, UpdInv, Sound, Adjacent
<1>6. RouteInv' /\ JobInv' /\ WriteInv'
  BY <1>1, <1>3 DEF IInv, RouteInv, RouteOK, JobInv, JobOK, WriteInv, WriteOK, Has, Sound, Adjacent
<1>. QED
  BY <1>5, <1>6 DEF IInv

\* A lost packet was sound.
LEMMA LoseStep ==
  ASSUME IInv, NEW m \in Nodes, NEW n \in Nodes, Lose(m, n)
  PROVE  IInv'
<1>1. lost' = lost + 1 /\ UNCHANGED <<up, route, lock, job, timer, starts, stops>>
  BY DEF Lose
<1>2. /\ req' \in [Nodes -> [Nodes -> Nat]]
      /\ \A k, l \in Nodes : req'[k][l] > 0 => req[k][l] > 0
  <2>1. req \in [Nodes -> [Nodes -> Nat]]
    BY DEF IInv, TypeOK
  <2>2. req' = req \/ (req[m][n] > 0 /\ req' = [req EXCEPT ![m][n] = @ - 1])
    BY DEF Lose
  <2>. QED
    BY <2>1, <2>2
<1>3. /\ upd' \in [Nodes -> [Nodes -> [Costs -> Nat]]]
      /\ \A k, l \in Nodes : \A c \in Costs : upd'[k][l][c] > 0 => upd[k][l][c] > 0
  <2>1. upd \in [Nodes -> [Nodes -> [Costs -> Nat]]]
    BY DEF IInv, TypeOK
  <2>2. upd' = upd \/ \E c \in Costs : upd[m][n][c] > 0 /\ upd' = [upd EXCEPT ![m][n][c] = @ - 1]
    BY DEF Lose
  <2>3. CASE upd' = upd
    BY <2>1, <2>3
  <2>4. ASSUME NEW c \in Costs, upd[m][n][c] > 0, upd' = [upd EXCEPT ![m][n][c] = @ - 1]
        PROVE  /\ upd' \in [Nodes -> [Nodes -> [Costs -> Nat]]]
               /\ \A k, l \in Nodes : \A d \in Costs : upd'[k][l][d] > 0 => upd[k][l][d] > 0
    BY <2>1, <2>4
  <2>. QED
    BY <2>2, <2>3, <2>4
<1>4. TypeOK'
  BY <1>1, <1>2, <1>3 DEF IInv, TypeOK
<1>5. ReqInv' /\ UpdInv'
  BY Zenon, <1>2, <1>3 DEF IInv, ReqInv, UpdInv, Sound, Adjacent
<1>6. RouteInv' /\ JobInv' /\ WriteInv'
  BY <1>1 DEF IInv, RouteInv, RouteOK, JobInv, JobOK, WriteInv, WriteOK, Has, Sound, Adjacent
<1>. QED
  BY <1>4, <1>5, <1>6 DEF IInv

-----------------------------------------------------------------------------
(* The theorems.                                                           *)

\* Every step of a node keeps the invariant.
LEMMA NodeStepInv ==
  ASSUME IInv, NEW n \in Nodes, NodeStep(n)
  PROVE  IInv'
<1>1. CASE Ready(n) \/ PeriodicUpdates(n) \/ GarbageCollector(n)
  BY <1>1, ReadyStep, PeriodicUpdatesStep, GarbageCollectorStep
<1>2. ASSUME NEW h \in Handlers, SetNext(n, h)
      PROVE  IInv'
  BY <1>2, SetNextStep
<1>3. ASSUME NEW h \in Handlers, NEW m \in Nodes, Request(n, h, m)
      PROVE  IInv'
  BY <1>3, RequestStep
<1>4. ASSUME NEW h \in Handlers, NEW m \in Nodes, NEW c \in Costs,
             Learn(n, h, m, c) \/ Better(n, h, m, c) \/ Worse(n, h, m, c)
               \/ Refresh(n, h, m, c) \/ Ignore(n, h, m, c)
      PROVE  IInv'
  BY <1>4, LearnStep, BetterStep, WorseStep, RefreshStep, IgnoreStep
<1>5. ASSUME NEW g \in Procs, SendRIP(n, g)
      PROVE  IInv'
  BY <1>5, SendRIPStep
<1>. QED
  BY Zenon, <1>1, <1>2, <1>3, <1>4, <1>5 DEF NodeStep, Handle, Said

\* So does the end of a process.
LEMMA StopOrPanicStep ==
  ASSUME IInv, NEW n \in Nodes, Panic(n) \/ Stop(n)
  PROVE  IInv'
<1>1. Gone(n) /\ starts' \in Nat /\ stops' \in Nat /\ lost' \in Nat
  BY DEF IInv, TypeOK, Panic, Stop
<1>. QED
  BY <1>1, GoneStep

\* The invariant is inductive.
LEMMA NextInv == IInv /\ [Next]_vars => IInv'
<1>. SUFFICES ASSUME IInv, [Next]_vars PROVE IInv'
  OBVIOUS
<1>1. ASSUME NEW n \in Nodes, Start(n) \/ Panic(n) \/ Stop(n) \/ NodeStep(n)
      PROVE  IInv'
  BY <1>1, StartStep, StopOrPanicStep, NodeStepInv
<1>2. ASSUME NEW m \in Nodes, NEW n \in Nodes, Lose(m, n)
      PROVE  IInv'
  BY <1>2, LoseStep
<1>3. CASE Tick
  BY Zenon, <1>3, TickStep
<1>4. CASE UNCHANGED vars
  <2>1. UNCHANGED <<up, route, lock, job, req, upd, timer, starts, stops, lost>>
    BY <1>4 DEF vars
  <2>2. TypeOK'
    BY Zenon, <2>1 DEF IInv, TypeOK
  <2>3. RouteInv' /\ JobInv'
    BY Zenon, <2>1 DEF IInv, RouteInv, RouteOK, JobInv, JobOK, Sound, Adjacent
  <2>4. WriteInv'
    BY Zenon, <2>1 DEF IInv, WriteInv, WriteOK, Has
  <2>5. ReqInv' /\ UpdInv'
    BY Zenon, <2>1 DEF IInv, ReqInv, UpdInv, Sound, Adjacent
  <2>. QED
    BY <2>2, <2>3, <2>4, <2>5 DEF IInv
<1>. QED
  BY <1>1, <1>2, <1>3, <1>4 DEF Next

\* What the invariant says of tables and packets.
LEMMA InvSound == IInv => CostSound
<1>. SUFFICES ASSUME IInv, NEW n \in Nodes
     PROVE  /\ Has(n) => Dist[n] <= route[n].cost /\ route[n].cost < INFTY
            /\ \A m \in Nodes : \A c \in Costs : upd[n][m][c] > 0 => c = INFTY \/ Dist[n] <= c
  BY Zenon DEF CostSound
<1>1. Has(n) => Dist[n] <= route[n].cost /\ route[n].cost < INFTY
  <2>1. RouteOK(n, route[n])
    BY DEF IInv, RouteInv
  <2>. QED
    BY <2>1, InftyAssumption DEF RouteOK, Sound, Has
<1>2. \A m \in Nodes : \A c \in Costs : upd[n][m][c] > 0 => c = INFTY \/ Dist[n] <= c
  BY DEF IInv, UpdInv, Sound
<1>. QED
  BY <1>1, <1>2

\* The model of the routers is type-correct for every network: costs never leave
\* 0 .. INFTY, ages stay below the lifetime and timers never run below zero.
THEOREM RIPTypeCorrect == Spec => []TypeOK
<1>1. IInv => TypeOK
  BY DEF IInv
<1>. QED
  BY InitInv, NextInv, <1>1, PTL DEF Spec

\* On every network, with any number of handlers, restarts and losses, no table
\* and no packet claims fewer hops than there are, although sendRIP reads cost and
\* next without a lock while protocol200 writes them one after the other.
THEOREM RIPCostSound == Spec => []CostSound
BY InitInv, NextInv, InvSound, PTL DEF Spec
-----------------------------------------------------------------------------
(* Networks without cycles.                                                *)

\* m is a hop nearer to the prefix than its neighbor n.
Nearer(m, n) == Adjacent(m, n) /\ Dist[n] = Dist[m] + 1

\* The network is a tree with the prefix at its root, or several trees: neighbors
\* name each other and are not equally far from the prefix, and a node has one
\* neighbor at most that is nearer.
Tree ==
  /\ \A m \in Nodes : \A n \in Neighbors(m) : m \in Neighbors(n) /\ Dist[m] # Dist[n]
  /\ \A l, m, n \in Nodes : Nearer(l, n) /\ Nearer(m, n) => l = m

\* Every node stays on, and one packet at most is lost.
Calm == stops = 0 /\ lost <= 1

\* A route is the shortest one, and its next hop is on and has a route.
TreeRoute(n) ==
  Has(n) => /\ up[n] # "off" /\ route[n].cost = Dist[n]
            /\ \/ route[n].next = n /\ n \in Origins
               \/ /\ up[n] = "on" /\ Nearer(route[n].next, n)
                  /\ up[route[n].next] = "on" /\ Has(route[n].next)

\* Goroutines send the entry in the table.
TreeJob(n, g) ==
  \/ job[n][g].pc = "idle"
  \/ /\ job[n][g].pc = "send" /\ up[n] = "on" /\ Has(n)
     /\ job[n][g].info = InTable /\ job[n][g].seen \subseteq {Dist[n]}

\* A response says what m's table says.
TreeUpd(m, n, c) ==
  upd[m][n][c] > 0 => up[m] = "on" /\ Has(m) /\ c = Told(Dist[m], route[m].next, n)

\* m has sent a response to n, or is about to.
Coming(m, n) ==
  \/ \E c \in Costs : upd[m][n][c] > 0
  \/ \E g \in Procs : /\ job[m][g].pc = "send"
                      /\ \E i \in DOMAIN job[m][g].left : job[m][g].left[i] = n

\* A learned route is not older than the last periodic update of its next hop, or
\* the one before if a packet was lost, unless a response is coming.
Limit == Period * (1 + lost)
Fresh(n) ==
  Learned(n) => /\ route[n].age <= Limit
                /\ \/ route[n].age + timer[route[n].next].periodic <= Limit
                   \/ Coming(route[n].next, n)

TreeInv ==
  \A n \in Nodes : /\ TreeRoute(n) /\ Fresh(n)
                   /\ \A g \in Procs : TreeJob(n, g)
                   /\ \A m \in Nodes : \A c \in Costs : TreeUpd(n, m, c)

-----------------------------------------------------------------------------
(* What a node knows on such a network.                                    *)

\* Of two neighbors one is nearer, and they name each other.
LEMMA TreeSides ==
  ASSUME Tree, NEW m \in Nodes, NEW n \in Nodes, Adjacent(m, n)
  PROVE  n \in Neighbors(m) /\ m \in Neighbors(n) /\ (Nearer(m, n) \/ Nearer(n, m))
<1>1. n \in Neighbors(m) /\ m \in Neighbors(n) /\ Dist[m] # Dist[n]
  BY DEF Tree, Adjacent
<1>2. Dist[m] \in Nat /\ Dist[n] \in Nat /\ Dist[n] <= Dist[m] + 1 /\ Dist[m] <= Dist[n] + 1
  BY <1>1, DistAssumption
<1>3. Dist[n] = Dist[m] + 1 \/ Dist[m] = Dist[n] + 1
  BY <1>1, <1>2
<1>. QED
  BY Zenon, <1>1, <1>3 DEF Nearer, Adjacent

\* The time to the next periodic update, and the packets lost.
LEMMA Times ==
  ASSUME IInv, NEW n \in Nodes
  PROVE  timer[n].periodic \in 0 .. 2 /\ lost \in Nat
<1>1. timer \in [Nodes -> [periodic : 0 .. Period, gc : 0 .. Sweep]] /\ lost \in Nat
  BY Zenon DEF IInv, TypeOK
<1>. QED
  BY <1>1 DEF Period

\* A route refreshed now is within the limit now and when the next update is due.
LEMMA NewAge ==
  ASSUME NEW l \in Nat, NEW p \in 0 .. 2, NEW a, a = 0
  PROVE  a <= Period * (1 + l) /\ a + p <= Period * (1 + l)
BY DEF Period

\* What can be said of a learned route.
LEMMA LearnedRoute ==
  ASSUME IInv, TreeInv, NEW n \in Nodes, Learned(n)
  PROVE  /\ route[n].next \in Nodes /\ Nearer(route[n].next, n) /\ route[n].cost = Dist[n]
         /\ up[n] = "on" /\ up[route[n].next] = "on" /\ Has(route[n].next)
<1>1. route[n] \in Route
  BY Zenon DEF IInv, TypeOK
<1>2. route[n].next \in Nodes
  BY <1>1 DEF Route, Learned, Has
<1>3. TreeRoute(n)
  BY DEF TreeInv
<1>. QED
  BY Zenon, <1>2, <1>3 DEF TreeRoute, Learned

\* An origin is nearer than every other node, so only other nodes learn.
LEMMA FartherLearned ==
  ASSUME IInv, TreeInv, NEW m \in Nodes, NEW n \in Nodes, Nearer(m, n), Has(n)
  PROVE  Learned(n)
<1>1. TreeRoute(n)
  BY DEF TreeInv
<1>2. n \notin Origins
  BY DistAssumption DEF Nearer
<1>3. \A l \in Nodes : Nearer(l, n) => l # n
  BY DistAssumption DEF Nearer
<1>4. route[n].next \in Nodes
  BY DEF IInv, TypeOK, Route, Has
<1>. QED
  BY Zenon, <1>1, <1>2, <1>3, <1>4 DEF TreeRoute, Learned

\* A response either comes from the one neighbor that is nearer, which tells its
\* cost, or from one that is farther and has its route through n.
LEMMA Heard ==
  ASSUME Tree, IInv, TreeInv, NEW m \in Nodes, NEW n \in Nodes, NEW c \in Costs, upd[m][n][c] > 0
  PROVE  /\ up[m] = "on" /\ Has(m)
         /\ \/ Nearer(m, n) /\ c = Dist[m] /\ (Has(n) => route[n].next = m)
            \/ c = INFTY /\ Has(n) /\ route[n].next # m
<1>1. up[m] = "on" /\ Has(m) /\ c = Told(Dist[m], route[m].next, n)
  BY DEF TreeInv, TreeUpd
<1>2. Adjacent(m, n)
  BY DEF IInv, UpdInv
<1>. DEFINE Far(k, l) == Dist[l] = Dist[k] + 1
<1>3. \A k, l \in Nodes : Far(k, l) => k # l /\ ~Far(l, k)
  BY DistAssumption
<1>4. CASE Nearer(m, n)
  <2>1. route[m].next # n
    <3>1. CASE Learned(m)
      <4>1. Nearer(route[m].next, m) /\ route[m].next \in Nodes
        BY Zenon, <3>1, LearnedRoute
      <4>. QED
        BY Zenon, <4>1, <1>3, <1>4 DEF Nearer
    <3>2. CASE ~Learned(m)
      BY Zenon, <3>2, <1>1, <1>3, <1>4 DEF Nearer, Learned
    <3>. QED
      BY <3>1, <3>2
  <2>2. Has(n) => route[n].next = m
    <3>. SUFFICES ASSUME Has(n) PROVE route[n].next = m
      OBVIOUS
    <3>1. route[n].next \in Nodes /\ Nearer(route[n].next, n)
      BY Zenon, <1>4, FartherLearned, LearnedRoute
    <3>. QED
      BY Zenon, <3>1, <1>4 DEF Tree
  <2>. QED
    BY Zenon, <1>1, <1>4, <2>1, <2>2 DEF Told
<1>5. CASE Nearer(n, m)
  <2>1. route[m].next \in Nodes /\ Nearer(route[m].next, m) /\ Has(route[m].next)
    BY Zenon, <1>1, <1>5, FartherLearned, LearnedRoute
  <2>2. route[m].next = n
    BY Zenon, <2>1, <1>5 DEF Tree
  <2>3. c = INFTY /\ Has(n)
    BY Zenon, <1>1, <2>1, <2>2 DEF Told
  <2>4. route[n].next # m
    <3>1. CASE Learned(n)
      <4>1. Nearer(route[n].next, n) /\ route[n].next \in Nodes
        BY Zenon, <3>1, LearnedRoute
      <4>. QED
        BY Zenon, <4>1, <1>3, <1>5 DEF Nearer
    <3>2. CASE ~Learned(n)
      BY Zenon, <3>2, <2>3, <1>3, <1>5 DEF Nearer, Learned
    <3>. QED
      BY <3>1, <3>2
  <2>. QED
    BY Zenon, <1>1, <2>3, <2>4
<1>. QED
  BY Zenon, <1>2, <1>4, <1>5, TreeSides

\* So what a response says never makes a route better or worse.
LEMMA HeardCost ==
  ASSUME Tree, IInv, TreeInv, NEW m \in Nodes, NEW n \in Nodes, NEW c \in Costs, upd[m][n][c] > 0
  PROVE  /\ Has(n) => route[n].cost <= Via(c)
         /\ Has(n) /\ m = route[n].next => route[n].cost = Via(c)
         /\ ~Has(n) /\ Via(c) # INFTY => Nearer(m, n) /\ Via(c) = Dist[n]
<1>1. INFTY \in Nat /\ c \in 0 .. INFTY /\ Dist[m] \in Nat /\ Dist[n] \in Nat
  BY InftyAssumption, DistAssumption DEF Costs
<1>2. \/ Nearer(m, n) /\ c = Dist[m] /\ (Has(n) => route[n].next = m)
      \/ c = INFTY /\ Has(n) /\ route[n].next # m
  BY Zenon, Heard
<1>3. Has(n) => route[n].cost = Dist[n] /\ route[n].cost < INFTY
  <2>1. TreeRoute(n)
    BY DEF TreeInv
  <2>2. RouteOK(n, route[n])
    BY DEF IInv, RouteInv
  <2>. QED
    BY Zenon, <2>1, <2>2 DEF TreeRoute, RouteOK, Has
<1>4. CASE Nearer(m, n) /\ c = Dist[m] /\ (Has(n) => route[n].next = m)
  BY <1>1, <1>3, <1>4 DEF Nearer, Via, Least
<1>5. CASE c = INFTY /\ Has(n) /\ route[n].next # m
  BY <1>1, <1>3, <1>5 DEF Via, Least
<1>. QED
  BY <1>2, <1>4, <1>5

-----------------------------------------------------------------------------
(* What steps leave alone.                                                 *)

\* Tables keep their next hops and costs.
SameTables == up' = up /\ \A n \in Nodes : /\ route'[n].next = route[n].next
                                           /\ route'[n].cost = route[n].cost

\* Then the routes stay, and so do what goroutines send and packets say.
LEMMA TablesKept ==
  ASSUME IInv, TreeInv, SameTables, NEW n \in Nodes
  PROVE  /\ TreeRoute(n)'
         /\ \A g \in Procs : job'[n][g] = job[n][g] => TreeJob(n, g)'
         /\ \A m \in Nodes : \A c \in Costs : (upd'[n][m][c] > 0 => upd[n][m][c] > 0) => TreeUpd(n, m, c)'
<1>1. TreeRoute(n)'
  <2>1. TreeRoute(n)
    BY DEF TreeInv
  <2>2. Has(n) => route[n].next \in Nodes
    BY DEF IInv, TypeOK, Route, Has
  <2>. QED
    BY Zenon, <2>1, <2>2 DEF SameTables, TreeRoute, Has, Nearer, Adjacent
<1>2. ASSUME NEW g \in Procs, job'[n][g] = job[n][g]
      PROVE  TreeJob(n, g)'
  <2>1. TreeJob(n, g)
    BY Zenon DEF TreeInv
  <2>2. up'[n] = up[n] /\ Has(n)' = Has(n)
    BY Zenon DEF SameTables, Has
  <2>. QED
    BY Zenon, <1>2, <2>1, <2>2 DEF TreeJob
<1>3. ASSUME NEW m \in Nodes, NEW c \in Costs, upd'[n][m][c] > 0 => upd[n][m][c] > 0
      PROVE  TreeUpd(n, m, c)'
  <2>1. TreeUpd(n, m, c)
    BY Zenon DEF TreeInv
  <2>2. up'[n] = up[n] /\ Has(n)' = Has(n) /\ route'[n].next = route[n].next
    BY Zenon DEF SameTables, Has
  <2>. QED
    BY Zenon, <1>3, <2>1, <2>2 DEF TreeUpd, Told
<1>. QED
  BY Zenon, <1>1, <1>2, <1>3

\* A response that is coming goes on coming if it stays in the network and nobody
\* who sends stops.
LEMMA ComingKept ==
  ASSUME NEW m \in Nodes, NEW n \in Nodes, Coming(m, n),
         \A c \in Costs : upd[m][n][c] > 0 => upd'[m][n][c] > 0,
         \A g \in Procs : job[m][g].pc = "send" => job'[m][g] = job[m][g]
  PROVE  Coming(m, n)'
BY Zenon DEF Coming

\* A learned route that is fresh stays so if nothing is lost and what was coming
\* still is.
LEMMA FreshKept ==
  ASSUME IInv, TreeInv, NEW n \in Nodes, NEW m \in Nodes, route[n].next = m,
         route'[n].next = m, route'[n].age = route[n].age, lost' = lost,
         timer'[m].periodic = timer[m].periodic, Coming(m, n) => Coming(m, n)'
  PROVE  Fresh(n)'
<1>1. Fresh(n)
  BY DEF TreeInv
<1>2. Learned(n)' = Learned(n) /\ Limit' = Limit
  BY Zenon DEF Learned, Has, Limit
<1>3. Coming(route[n].next, n) => Coming(route[n].next, n)'
  BY Zenon DEF Coming
<1>. QED
  BY Zenon, <1>1, <1>2, <1>3 DEF Fresh

\* A goroutine that starts to send the entry in the table.
LEMMA StartsToSend ==
  ASSUME NEW cost, NEW dsts
  PROVE  \/ dsts = <<>> /\ Sending(InTable, cost, dsts).pc = "idle"
         \/ /\ Sending(InTable, cost, dsts).pc = "send"
            /\ Sending(InTable, cost, dsts).info = InTable
            /\ Sending(InTable, cost, dsts).left = dsts
            /\ Sending(InTable, cost, dsts).seen = {cost}
BY DEF Sending, Idle

\* An idle goroutine of n that starts to work disturbs nobody.
LEMMA Sender ==
  ASSUME TypeOK, NEW n \in Nodes, NEW g \in Procs, NEW j,
         job[n][g].pc = "idle",
         job' = [job EXCEPT ![n][g] = j]
  PROVE  /\ job'[n][g] = j
         /\ \A m \in Nodes : \A h \in Procs :
              /\ (m = n /\ h = g) \/ job'[m][h] = job[m][h]
              /\ job[m][h].pc = "send" => job'[m][h] = job[m][h]
<1>1. job \in [Nodes -> [Procs -> Job]]
  BY DEF TypeOK
<1>2. /\ job'[n][g] = j
      /\ \A m \in Nodes : \A h \in Procs : (m = n /\ h = g) \/ job'[m][h] = job[m][h]
  BY Zenon, <1>1
<1>3. "idle" # "send"
  OBVIOUS
<1>. QED
  BY Zenon, <1>2, <1>3

\* The goroutines of a node, when one of them starts to send its table.
LEMMA SenderTree ==
  ASSUME IInv, TreeInv, SameTables, NEW n \in Nodes, NEW g \in Procs, NEW dsts,
         job[n][g].pc = "idle", up[n] = "on", Has(n),
         job' = [job EXCEPT ![n][g] = Sending(InTable, Dist[n], dsts)]
  PROVE  \A m \in Nodes : \A h \in Procs : TreeJob(m, h)'
<1>1. /\ job'[n][g] = Sending(InTable, Dist[n], dsts)
      /\ \A m \in Nodes : \A h \in Procs : (m = n /\ h = g) \/ job'[m][h] = job[m][h]
  <2>1. job \in [Nodes -> [Procs -> Job]]
    BY DEF IInv, TypeOK
  <2>. QED
    BY Zenon, <2>1
<1>2. TreeJob(n, g)'
  <2>2. up'[n] = "on" /\ Has(n)'
    BY Zenon DEF SameTables, Has
  <2>3. \/ job'[n][g].pc = "idle"
        \/ job'[n][g].pc = "send" /\ job'[n][g].info = InTable /\ job'[n][g].seen = {Dist[n]}
    BY <1>1, StartsToSend
  <2>. QED
    BY Zenon, <2>2, <2>3 DEF TreeJob
<1>. QED
  BY Zenon, <1>1, <1>2, TablesKept

-----------------------------------------------------------------------------
(* Nodes start.                                                            *)

\* A node that is not on changes: no route depends on it.
LEMMA OutsideTree ==
  ASSUME IInv, TreeInv, NEW n \in Nodes, up[n] # "on",
         \A k \in Nodes \ {n} : /\ up'[k] = up[k] /\ route'[k] = route[k]
                                /\ job'[k] = job[k] /\ timer'[k] = timer[k],
         \A k \in Nodes : \A l \in Nodes \ {n} : upd'[k][l] = upd[k][l],
         \A k, l \in Nodes : \A c \in Costs : upd'[k][l][c] > 0 => upd[k][l][c] > 0,
         \A g \in Procs : job'[n][g].pc = "idle",
         lost' = lost, TreeRoute(n)', ~Learned(n)'
  PROVE  TreeInv'
<1>1. ASSUME NEW k \in Nodes \ {n}
      PROVE  TreeRoute(k)'
  <2>1. TreeRoute(k) /\ up'[k] = up[k] /\ route'[k] = route[k]
    BY Zenon DEF TreeInv
  <2>. SUFFICES ASSUME Has(k)' PROVE TreeRoute(k)'
    BY Zenon DEF TreeRoute
  <2>2. Has(k)
    BY Zenon, <2>1 DEF Has
  <2>3. CASE route[k].next = k
    <3>1. ~Nearer(k, k)
      BY DistAssumption DEF Nearer
    <3>. QED
      BY Zenon, <2>1, <2>2, <2>3, <3>1 DEF TreeRoute, Has
  <2>4. CASE route[k].next # k
    <3>1. Learned(k)
      BY Zenon, <2>2, <2>4 DEF Learned
    <3>2. /\ route[k].next \in Nodes /\ Nearer(route[k].next, k) /\ route[k].cost = Dist[k]
          /\ up[k] = "on" /\ up[route[k].next] = "on" /\ Has(route[k].next)
      BY Zenon, <3>1, LearnedRoute
    <3>3. PICK m \in Nodes : route[k].next = m
      BY Zenon, <3>2
    <3>4. up'[m] = "on" /\ Has(m)' /\ up'[k] = "on" /\ up'[k] # "off"
      <4>1. up[m] = "on" /\ Has(m) /\ m # n
        BY Zenon, <3>2, <3>3
      <4>2. up'[m] = "on" /\ Has(m)' /\ up'[k] = "on"
        BY Zenon, <2>1, <3>2, <4>1 DEF Has
      <4>. QED
        BY <4>2
    <3>5. route'[k].next = m /\ route'[k].cost = Dist[k] /\ Nearer(m, k)
      BY Zenon, <2>1, <3>2, <3>3
    <3>. QED
      BY Zenon, <3>4, <3>5 DEF TreeRoute, Nearer, Adjacent
  <2>. QED
    BY <2>3, <2>4
<1>2. ASSUME NEW k \in Nodes \ {n}
      PROVE  Fresh(k)'
  <2>. SUFFICES ASSUME Learned(k)' PROVE Fresh(k)'
    BY Zenon DEF Fresh
  <2>1. Learned(k) /\ route'[k] = route[k]
    BY Zenon DEF Learned, Has
  <2>2. route[k].next \in Nodes /\ up[route[k].next] = "on"
    BY Zenon, <2>1, LearnedRoute
  <2>3. PICK m \in Nodes \ {n} : route[k].next = m
    BY Zenon, <2>2
  <2>4. Coming(m, k) => Coming(m, k)'
    <3>1. job'[m] = job[m] /\ upd'[m][k] = upd[m][k]
      BY Zenon
    <3>2. /\ \A c \in Costs : upd[m][k][c] > 0 => upd'[m][k][c] > 0
          /\ \A g \in Procs : job[m][g].pc = "send" => job'[m][g] = job[m][g]
      BY Zenon, <3>1
    <3>. QED
      BY Zenon, <3>2, ComingKept
  <2>5. timer'[m].periodic = timer[m].periodic
    BY Zenon
  <2>. QED
    BY Zenon, <2>1, <2>3, <2>4, <2>5, FreshKept
<1>3. ASSUME NEW k \in Nodes, NEW g \in Procs
      PROVE  TreeJob(k, g)'
  <2>1. CASE k = n
    BY Zenon, <2>1 DEF TreeJob
  <2>2. CASE k # n
    <3>1. TreeJob(k, g) /\ up'[k] = up[k] /\ route'[k] = route[k] /\ job'[k] = job[k]
      BY Zenon, <2>2 DEF TreeInv
    <3>. QED
      BY Zenon, <3>1 DEF TreeJob, Has
  <2>. QED
    BY <2>1, <2>2
<1>4. ASSUME NEW k \in Nodes, NEW m \in Nodes, NEW c \in Costs
      PROVE  TreeUpd(k, m, c)'
  <2>. SUFFICES ASSUME upd'[k][m][c] > 0 PROVE TreeUpd(k, m, c)'
    BY Zenon DEF TreeUpd
  <2>1. TreeUpd(k, m, c) /\ upd[k][m][c] > 0
    BY Zenon DEF TreeInv
  <2>2. k # n
    BY Zenon, <2>1 DEF TreeUpd
  <2>3. up'[k] = up[k] /\ route'[k] = route[k]
    BY Zenon, <2>2
  <2>. QED
    BY Zenon, <2>1, <2>3 DEF TreeUpd, Has, Told
<1>5. Fresh(n)'
  BY Zenon DEF Fresh
<1>. QED
  BY Zenon, <1>1, <1>2, <1>3, <1>4, <1>5 DEF TreeInv

\* Initialize.
LEMMA StartTree ==
  ASSUME IInv, TreeInv, NEW n \in Nodes, Start(n)
  PROVE  TreeInv'
<1>1. up[n] = "off" /\ up'[n] = "boot" /\ route'[n] = Own(n)
  BY DEF Start, IInv, TypeOK
<1>2. \A k \in Nodes \ {n} : up'[k] = up[k] /\ route'[k] = route[k]
  BY DEF Start, IInv, TypeOK
<1>3. job' = job /\ timer' = timer /\ upd' = upd /\ lost' = lost
  BY DEF Start
<1>4. \A g \in Procs : job'[n][g].pc = "idle"
  BY <1>1, <1>3 DEF TreeInv, TreeJob
<1>5. TreeRoute(n)' /\ ~Learned(n)'
  <2>1. Own(n) = NoRoute \/ (Own(n).next = n /\ Own(n).cost = 0 /\ n \in Origins)
    BY DEF Own
  <2>2. NoRoute.next = NoNode
    BY DEF NoRoute
  <2>. QED
    BY <1>1, <2>1, <2>2, DistAssumption DEF TreeRoute, Learned, Has
<1>6. up[n] # "on"
  BY <1>1
<1>. QED
  BY Zenon, <1>2, <1>3, <1>4, <1>5, <1>6, OutsideTree

\* A node that is not on has learned nothing, and its goroutines do not run.
LEMMA NotOn ==
  ASSUME IInv, TreeInv, NEW n \in Nodes, up[n] # "on"
  PROVE  ~Learned(n) /\ \A g \in Procs : job[n][g].pc = "idle"
<1>1. ~Learned(n)
  BY Zenon, LearnedRoute
<1>2. \A g \in Procs : TreeJob(n, g)
  BY Zenon DEF TreeInv
<1>. QED
  BY Zenon, <1>1, <1>2 DEF TreeJob

\* handlerTable is filled.
LEMMA ReadyTree ==
  ASSUME IInv, TreeInv, NEW n \in Nodes, Ready(n)
  PROVE  TreeInv'
<1>1. up[n] # "on" /\ up'[n] = "on" /\ \A k \in Nodes \ {n} : up'[k] = up[k]
  BY DEF Ready, IInv, TypeOK
<1>2. route' = route /\ job' = job /\ timer' = timer /\ upd' = upd /\ lost' = lost
  BY DEF Ready
<1>3. ~Learned(n) /\ \A g \in Procs : job'[n][g].pc = "idle"
  BY Zenon, <1>1, <1>2, NotOn
<1>4. ~Learned(n)'
  BY Zenon, <1>2, <1>3 DEF Learned, Has
<1>5. TreeRoute(n)'
  <2>1. TreeRoute(n) /\ "on" # "off"
    BY DEF TreeInv
  <2>. QED
    BY Zenon, <1>1, <1>2, <1>3, <2>1 DEF TreeRoute, Learned, Has
<1>. QED
  BY Zenon, <1>1, <1>2, <1>3, <1>4, <1>5, OutsideTree

\* The process panics while it starts.
LEMMA PanicTree ==
  ASSUME IInv, TreeInv, NEW n \in Nodes, Panic(n)
  PROVE  TreeInv'
<1>1. up[n] # "on" /\ route'[n] = NoRoute /\ job'[n] = NoJobs
  BY DEF Panic, Gone, IInv, TypeOK
<1>2. \A k \in Nodes \ {n} : /\ up'[k] = up[k] /\ route'[k] = route[k]
                             /\ job'[k] = job[k] /\ timer'[k] = timer[k]
  BY DEF Panic, Gone, IInv, TypeOK
<1>3. \A k \in Nodes : \A l \in Nodes \ {n} : upd'[k][l] = upd[k][l]
  BY DEF Panic, Gone, IInv, TypeOK
<1>4. \A k, l \in Nodes : \A c \in Costs : upd'[k][l][c] > 0 => upd[k][l][c] > 0
  BY DEF Panic, Gone, IInv, TypeOK
<1>5. lost' = lost
  BY DEF Panic
<1>6. \A g \in Procs : job'[n][g].pc = "idle"
  BY <1>1, IdleOK DEF NoJobs
<1>7. TreeRoute(n)' /\ ~Learned(n)'
  BY <1>1 DEF NoRoute, TreeRoute, Learned, Has
<1>. QED
  BY Zenon, <1>1, <1>2, <1>3, <1>4, <1>5, <1>6, <1>7, OutsideTree

-----------------------------------------------------------------------------
(* protocol200.                                                            *)

\* Steps that leave the entry of n, the timers and what is coming to n alone.
LEMMA FreshUndisturbed ==
  ASSUME IInv, TreeInv, NEW n \in Nodes, route'[n] = route[n], lost' = lost,
         \A m \in Nodes : timer'[m].periodic = timer[m].periodic,
         \A m \in Nodes : route[n].next = m => upd'[m][n] = upd[m][n],
         \A m \in Nodes : \A g \in Procs : job[m][g].pc = "send" => job'[m][g] = job[m][g]
  PROVE  Fresh(n)'
<1>. SUFFICES ASSUME Learned(n)' PROVE Fresh(n)'
  BY Zenon DEF Fresh
<1>1. Learned(n)
  BY Zenon DEF Learned, Has
<1>2. PICK m \in Nodes : route[n].next = m
  BY Zenon, <1>1, LearnedRoute
<1>3. Coming(m, n) => Coming(m, n)'
  <2>1. /\ \A c \in Costs : upd[m][n][c] > 0 => upd'[m][n][c] > 0
        /\ \A g \in Procs : job[m][g].pc = "send" => job'[m][g] = job[m][g]
    BY Zenon, <1>2
  <2>. QED
    BY Zenon, <2>1, ComingKept
<1>4. route'[n].next = m /\ route'[n].age = route[n].age /\ timer'[m].periodic = timer[m].periodic
  BY Zenon, <1>2
<1>. QED
  BY Zenon, <1>2, <1>3, <1>4, FreshKept

\* Nothing is added to the network, and only packets from m to n leave it.
Fewer(m, n) ==
  /\ \A k, l \in Nodes : \A c \in Costs : upd'[k][l][c] > 0 => upd[k][l][c] > 0
  /\ \A k, l \in Nodes : k # m \/ l # n => upd'[k][l] = upd[k][l]

\* A response leaves the network.
LEMMA Taken ==
  ASSUME IInv, NEW n \in Nodes, NEW h \in Handlers, NEW m \in Nodes, NEW c \in Costs,
         Response(n, h, m, c)
  PROVE  /\ upd[m][n][c] > 0 /\ up[n] = "on" /\ job[n][h].pc = "idle" /\ h \in Procs
         /\ Fewer(m, n)
<1>1. upd \in [Nodes -> [Nodes -> [Costs -> Nat]]] /\ upd[m][n][c] > 0
      /\ upd' = [upd EXCEPT ![m][n][c] = @ - 1]
  BY DEF IInv, TypeOK, Response, Said
<1>2. \A k, l \in Nodes : \A d \in Costs : upd'[k][l][d] > 0 => upd[k][l][d] > 0
  BY <1>1
<1>3. \A k, l \in Nodes : k # m \/ l # n => upd'[k][l] = upd[k][l]
  BY <1>1
<1>4. Fewer(m, n)
  BY Zenon, <1>2, <1>3 DEF Fewer
<1>5. upd[m][n][c] > 0 /\ h \in Procs
  BY <1>1 DEF Procs
<1>. QED
  BY Zenon, <1>4, <1>5 DEF Response, Free

\* A goroutine of n starts to send n's entry, and nothing is added to the network.
LEMMA SenderStep ==
  ASSUME IInv, TreeInv, SameTables, NEW n \in Nodes, NEW g \in Procs, NEW dsts,
         job[n][g].pc = "idle", up[n] = "on", Has(n),
         job' = [job EXCEPT ![n][g] = Sending(InTable, route[n].cost, dsts)],
         \A k, l \in Nodes : \A c \in Costs : upd'[k][l][c] > 0 => upd[k][l][c] > 0,
         \A k \in Nodes : Fresh(k)'
  PROVE  TreeInv'
<1>1. job' = [job EXCEPT ![n][g] = Sending(InTable, Dist[n], dsts)]
  <2>1. route[n].cost = Dist[n]
    BY Zenon DEF TreeInv, TreeRoute
  <2>. QED
    BY Zenon, <2>1
<1>2. \A m \in Nodes : \A h \in Procs : TreeJob(m, h)'
  BY Zenon, <1>1, SenderTree
<1>3. \A k \in Nodes : TreeRoute(k)' /\ \A m \in Nodes : \A c \in Costs : TreeUpd(k, m, c)'
  BY Zenon, TablesKept
<1>. QED
  BY Zenon, <1>2, <1>3 DEF TreeInv

\* A request is answered.
LEMMA RequestTree ==
  ASSUME IInv, TreeInv, NEW n \in Nodes, NEW h \in Handlers, NEW m \in Nodes, Request(n, h, m)
  PROVE  TreeInv'
<1>1. /\ up' = up /\ route' = route /\ upd' = upd /\ timer' = timer /\ lost' = lost
      /\ up[n] = "on" /\ job[n][h].pc = "idle" /\ h \in Procs
      /\ IF Has(n) THEN job' = [job EXCEPT ![n][h] = Sending(InTable, route[n].cost, <<m>>)]
                   ELSE job' = job
  BY Zenon DEF Request, Free, Procs
<1>2. SameTables
  BY Zenon, <1>1 DEF SameTables
<1>3. \A k \in Nodes : \A g \in Procs : job[k][g].pc = "send" => job'[k][g] = job[k][g]
  <2>1. job \in [Nodes -> [Procs -> Job]] /\ "idle" # "send"
    BY DEF IInv, TypeOK
  <2>2. CASE Has(n)
    <3>1. /\ job' = [job EXCEPT ![n][h] = Sending(InTable, route[n].cost, <<m>>)]
          /\ h \in Procs /\ job[n][h].pc = "idle"
      BY Zenon, <1>1, <2>2
    <3>. QED
      BY Zenon, <2>1, <3>1
  <2>3. CASE ~Has(n)
    BY Zenon, <1>1, <2>3
  <2>. QED
    BY <2>2, <2>3
<1>4. \A k \in Nodes : Fresh(k)'
  BY Zenon, <1>1, <1>3, FreshUndisturbed
<1>5. CASE Has(n)
  BY Zenon, <1>1, <1>2, <1>4, <1>5, SenderStep
<1>6. CASE ~Has(n)
  BY Zenon, <1>1, <1>2, <1>4, <1>6, TablesKept DEF TreeInv
<1>. QED
  BY <1>5, <1>6

\* The next hop confirms a route.
LEMMA RefreshTree ==
  ASSUME IInv, TreeInv, NEW n \in Nodes, NEW h \in Handlers, NEW m \in Nodes, NEW c \in Costs,
         Refresh(n, h, m, c)
  PROVE  TreeInv'
<1>1. Response(n, h, m, c) /\ Has(n) /\ route[n].next = m
      /\ job' = [job EXCEPT ![n][h] = Sending(InTable, route[n].cost, RipNeighbors[n])]
      /\ up' = up /\ timer' = timer /\ lost' = lost
  BY DEF Refresh, Trigger
<1>2. up[n] = "on" /\ job[n][h].pc = "idle" /\ h \in Procs /\ Fewer(m, n)
  <2>1. Response(n, h, m, c)
    BY <1>1
  <2>. QED
    BY Zenon, <2>1, Taken
<1>3. /\ route'[n].next = route[n].next /\ route'[n].cost = route[n].cost /\ route'[n].age = 0
      /\ \A k \in Nodes \ {n} : route'[k] = route[k]
  BY DEF Refresh, IInv, TypeOK, Route
<1>4. SameTables
  <2>1. \A k \in Nodes : route'[k].next = route[k].next /\ route'[k].cost = route[k].cost
    BY <1>3
  <2>. QED
    BY Zenon, <1>1, <2>1 DEF SameTables
<1>5. \A k \in Nodes : \A g \in Procs : job[k][g].pc = "send" => job'[k][g] = job[k][g]
  <2>1. job \in [Nodes -> [Procs -> Job]] /\ "idle" # "send"
    BY DEF IInv, TypeOK
  <2>. QED
    BY Zenon, <1>1, <1>2, <2>1
<1>6. Fresh(n)'
  <2>1. timer'[m].periodic \in 0 .. 2 /\ lost' \in Nat /\ route'[n].age = 0
    BY Zenon, <1>1, <1>3, Times
  <2>2. route'[n].age <= Limit' /\ route'[n].age + timer'[m].periodic <= Limit'
    BY Zenon, <2>1, NewAge DEF Limit
  <2>. QED
    BY Zenon, <1>1, <1>3, <2>2 DEF Fresh
<1>7. ASSUME NEW k \in Nodes, k # n
      PROVE  Fresh(k)'
  <2>1. route'[k] = route[k] /\ \A l \in Nodes : upd'[l][k] = upd[l][k]
    BY <1>2, <1>3, <1>7 DEF Fewer
  <2>. QED
    BY Zenon, <1>1, <1>5, <2>1, FreshUndisturbed
<1>. QED
  BY Zenon, <1>1, <1>2, <1>4, <1>6, <1>7, SenderStep DEF Fewer

\* A response that tells nothing new comes from a neighbor that is farther.
LEMMA IgnoreTree ==
  ASSUME Tree, IInv, TreeInv, NEW n \in Nodes, NEW h \in Handlers, NEW m \in Nodes, NEW c \in Costs,
         Ignore(n, h, m, c)
  PROVE  TreeInv'
<1>1. Response(n, h, m, c) /\ (Has(n) => route[n].next # m)
  BY Zenon DEF Ignore
<1>2. up' = up /\ route' = route /\ job' = job /\ timer' = timer /\ lost' = lost
  BY Zenon DEF Ignore
<1>3. Fewer(m, n)
  BY Zenon, <1>1, Taken
<1>4. SameTables
  BY Zenon, <1>2 DEF SameTables
<1>5. ASSUME NEW k \in Nodes
      PROVE  Fresh(k)'
  <2>1. CASE Has(k)
    <3>1. \A l \in Nodes : route[k].next = l => upd'[l][k] = upd[l][k]
      BY Zenon, <1>1, <1>3, <2>1 DEF Fewer
    <3>. QED
      BY Zenon, <1>2, <3>1, FreshUndisturbed
  <2>2. CASE ~Has(k)
    BY Zenon, <1>2, <2>2 DEF Fresh, Learned, Has
  <2>. QED
    BY <2>1, <2>2
<1>6. \A k \in Nodes : /\ TreeRoute(k)' /\ \A g \in Procs : TreeJob(k, g)'
                       /\ \A l \in Nodes : \A d \in Costs : TreeUpd(k, l, d)'
  <2>1. \A k, l \in Nodes : \A d \in Costs : upd'[k][l][d] > 0 => upd[k][l][d] > 0
    BY Zenon, <1>3 DEF Fewer
  <2>. QED
    BY Zenon, <1>2, <1>4, <2>1, TablesKept
<1>. QED
  BY Zenon, <1>5, <1>6 DEF TreeInv

\* A node learns the route from the neighbor that is nearer.
LEMMA LearnTree ==
  ASSUME Tree, IInv, TreeInv, NEW n \in Nodes, NEW h \in Handlers, NEW m \in Nodes, NEW c \in Costs,
         Learn(n, h, m, c)
  PROVE  TreeInv'
<1>1. Response(n, h, m, c) /\ ~Has(n) /\ Via(c) # INFTY
  BY Zenon DEF Learn
<1>2. up' = up /\ timer' = timer /\ lost' = lost
  BY Zenon DEF Learn
<1>3. upd[m][n][c] > 0 /\ up[n] = "on" /\ job[n][h].pc = "idle" /\ h \in Procs /\ Fewer(m, n)
  BY Zenon, <1>1, Taken
<1>4. up[m] = "on" /\ Has(m) /\ Nearer(m, n) /\ Via(c) = Dist[n]
  BY Zenon, <1>1, <1>3, Heard, HeardCost
<1>5. /\ route'[n] = [next |-> m, cost |-> Dist[n], age |-> 0]
      /\ \A k \in Nodes \ {n} : route'[k] = route[k]
  BY <1>4 DEF Learn, IInv, TypeOK
<1>6. job' = [job EXCEPT ![n][h] = Sending(InTable, Dist[n], RipNeighbors[n])]
  BY Zenon, <1>4 DEF Learn, Trigger
<1>7. /\ job'[n][h] = Sending(InTable, Dist[n], RipNeighbors[n])
      /\ \A k \in Nodes : \A g \in Procs : (k = n /\ g = h) \/ job'[k][g] = job[k][g]
  <2>1. job \in [Nodes -> [Procs -> Job]]
    BY DEF IInv, TypeOK
  <2>. QED
    BY Zenon, <1>3, <1>6, <2>1
<1>8. m \in Nodes \ {n} /\ n \in Nodes /\ NoNode \notin Nodes
  BY SMTT(20), <1>4, DistAssumption, NodeAssumption DEF Nearer
<1>9. \A k \in Nodes : Has(k) => k # n /\ Has(k)' /\ route'[k] = route[k]
  BY Zenon, <1>1, <1>5 DEF Has
<1>10. Has(n)' /\ Has(m)' /\ route'[n].next = m /\ route'[n].cost = Dist[n] /\ route'[n].age = 0
  <2>1. route'[n] = [next |-> m, cost |-> Dist[n], age |-> 0]
    BY Zenon, <1>5
  <2>2. route'[n].next = m /\ route'[n].cost = Dist[n] /\ route'[n].age = 0
    BY SMTT(20), <2>1
  <2>. QED
    BY Zenon, <1>4, <1>8, <1>9, <2>2 DEF Has
<1>11. ASSUME NEW k \in Nodes
       PROVE  TreeRoute(k)'
  <2>1. CASE k = n
    <3>1. up'[n] = "on" /\ up'[m] = "on" /\ "on" # "off"
      BY <1>2, <1>3, <1>4
    <3>. QED
      BY Zenon, <1>4, <1>10, <2>1, <3>1 DEF TreeRoute, Nearer, Adjacent
  <2>2. CASE k # n
    <3>1. TreeRoute(k) /\ route'[k] = route[k]
      BY Zenon, <1>5, <2>2 DEF TreeInv
    <3>2. Has(k) => route[k].next \in Nodes
      BY DEF IInv, TypeOK, Route, Has
    <3>3. \A l \in Nodes : Has(l) => Has(l)'
      BY Zenon, <1>9
    <3>. QED
      BY Zenon, <1>2, <3>1, <3>2, <3>3 DEF TreeRoute, Has, Nearer, Adjacent
  <2>. QED
    BY <2>1, <2>2
<1>12. ASSUME NEW k \in Nodes
       PROVE  Fresh(k)'
  <2>1. CASE k = n
    <3>1. timer'[m].periodic \in 0 .. 2 /\ lost' \in Nat /\ route'[n].age = 0
      BY Zenon, <1>2, <1>10, Times
    <3>2. route'[n].age <= Limit' /\ route'[n].age + timer'[m].periodic <= Limit'
      BY Zenon, <3>1, NewAge DEF Limit
    <3>. QED
      BY Zenon, <1>10, <2>1, <3>2 DEF Fresh
  <2>2. CASE k # n
    <3>1. route'[k] = route[k] /\ \A l \in Nodes : upd'[l][k] = upd[l][k]
      BY Zenon, <1>3, <1>5, <2>2 DEF Fewer
    <3>2. \A l \in Nodes : \A g \in Procs : job[l][g].pc = "send" => job'[l][g] = job[l][g]
      <4>1. "idle" # "send"
        OBVIOUS
      <4>. QED
        BY Zenon, <1>3, <1>7, <4>1
    <3>. QED
      BY Zenon, <1>2, <3>1, <3>2, FreshUndisturbed
  <2>. QED
    BY <2>1, <2>2
<1>13. ASSUME NEW k \in Nodes, NEW g \in Procs
       PROVE  TreeJob(k, g)'
  <2>1. CASE k = n /\ g = h
    <3>1. \/ job'[n][h].pc = "idle"
          \/ job'[n][h].pc = "send" /\ job'[n][h].info = InTable /\ job'[n][h].seen = {Dist[n]}
      BY <1>7, StartsToSend
    <3>2. up'[n] = "on"
      BY <1>2, <1>3
    <3>. QED
      BY Zenon, <1>10, <2>1, <3>1, <3>2 DEF TreeJob
  <2>2. CASE ~(k = n /\ g = h)
    <3>1. TreeJob(k, g) /\ job'[k][g] = job[k][g] /\ (Has(k) => Has(k)')
      BY Zenon, <1>7, <1>9, <2>2 DEF TreeInv
    <3>. QED
      BY Zenon, <1>2, <3>1 DEF TreeJob
  <2>. QED
    BY <2>1, <2>2
<1>14. ASSUME NEW k \in Nodes, NEW l \in Nodes, NEW d \in Costs
       PROVE  TreeUpd(k, l, d)'
  <2>1. TreeUpd(k, l, d) /\ (upd'[k][l][d] > 0 => upd[k][l][d] > 0)
    BY Zenon, <1>3 DEF TreeInv, Fewer
  <2>2. Has(k) => Has(k)' /\ route'[k] = route[k]
    BY Zenon, <1>9
  <2>. QED
    BY Zenon, <1>2, <2>1, <2>2 DEF TreeUpd, Told
<1>. QED
  BY Zenon, <1>11, <1>12, <1>13, <1>14 DEF TreeInv

\* On a calm tree protocol200 neither replaces nor deletes a route.
LEMMA NoChange ==
  ASSUME Tree, IInv, TreeInv, NEW n \in Nodes, NEW h \in Handlers
  PROVE  /\ ~SetNext(n, h)
         /\ \A m \in Nodes : \A c \in Costs : ~Better(n, h, m, c) /\ ~Worse(n, h, m, c)
<1>1. ~SetNext(n, h)
  <2>1. h \in Procs /\ TreeJob(n, h)
    BY Zenon DEF Procs, TreeInv
  <2>2. "write" # "idle" /\ "write" # "send"
    OBVIOUS
  <2>. QED
    BY Zenon, <2>1, <2>2 DEF SetNext, TreeJob
<1>2. ASSUME NEW m \in Nodes, NEW c \in Costs, Response(n, h, m, c), Has(n)
      PROVE  route[n].cost <= Via(c) /\ (m = route[n].next => route[n].cost = Via(c))
  <2>1. upd[m][n][c] > 0
    BY Zenon, <1>2, Taken
  <2>. QED
    BY Zenon, <1>2, <2>1, HeardCost
<1>3. ASSUME NEW m \in Nodes, NEW c \in Costs
      PROVE  ~Better(n, h, m, c) /\ ~Worse(n, h, m, c)
  <2>1. route[n].cost \in Nat /\ Via(c) \in Nat
    <3>1. route[n] \in Route
      BY Zenon DEF IInv, TypeOK
    <3>2. route[n].cost \in Costs /\ Via(c) \in Costs
      BY Zenon, <3>1, ConstantTypes DEF Route
    <3>. QED
      BY <3>2, InftyAssumption DEF Costs
  <2>2. CASE Response(n, h, m, c) /\ Has(n)
    <3>1. ~(route[n].cost > Via(c)) /\ (m = route[n].next => ~(route[n].cost < Via(c)))
      BY <1>2, <2>1, <2>2
    <3>. QED
      BY Zenon, <3>1 DEF Better, Worse
  <2>. QED
    BY Zenon, <2>2 DEF Better, Worse
<1>. QED
  BY Zenon, <1>1, <1>3

-----------------------------------------------------------------------------
(* sendRIP, the loops, time and the network.                               *)

\* One more response, and nothing else, is on the way.
LEMMA AddedUpdate ==
  ASSUME TypeOK, NEW n \in Nodes, NEW dst \in Nodes, NEW c \in Costs,
         upd' = [upd EXCEPT ![n][dst][c] = @ + 1]
  PROVE  /\ \A k, l \in Nodes : \A d \in Costs :
              /\ upd[k][l][d] > 0 => upd'[k][l][d] > 0
              /\ upd'[k][l][d] > 0 => upd[k][l][d] > 0 \/ (k = n /\ l = dst /\ d = c)
         /\ upd'[n][dst][c] > 0
<1>1. upd \in [Nodes -> [Nodes -> [Costs -> Nat]]]
  BY DEF TypeOK
<1>. QED
  BY <1>1

\* sendRIP puts into a packet what the table says.
LEMMA SendRIPTree ==
  ASSUME IInv, TreeInv, NEW n \in Nodes, NEW g \in Procs, SendRIP(n, g)
  PROVE  TreeInv'
<1>. DEFINE j == job[n][g]
            dst == Head(j.left)
<1>1. j \in Job /\ JobOK(n, j) /\ TreeJob(n, g) /\ j.pc = "send"
  <2>1. j \in Job /\ JobOK(n, j)
    BY Zenon DEF IInv, TypeOK, JobInv
  <2>2. TreeJob(n, g)
    BY Zenon DEF TreeInv
  <2>3. j.pc = "send"
    BY Zenon DEF SendRIP
  <2>. QED
    BY Zenon, <2>1, <2>2, <2>3
<1>2. up[n] = "on" /\ Has(n) /\ j.info = InTable /\ j.seen \subseteq {Dist[n]}
  <2>1. "idle" # "send"
    OBVIOUS
  <2>. QED
    BY Zenon, <1>1, <2>1 DEF TreeJob
<1>3. route[n].cost = Dist[n] /\ Info(n, g) = route[n] /\ Dist[n] \in Costs /\ INFTY \in Costs
  <2>1. route[n].cost = Dist[n]
    BY Zenon, <1>2 DEF TreeInv, TreeRoute
  <2>2. route[n] \in Route
    BY Zenon DEF IInv, TypeOK
  <2>3. route[n].cost \in Costs
    BY Zenon, <2>2 DEF Route
  <2>. QED
    BY Zenon, <1>2, <2>1, <2>3, ConstantTypes DEF Info
<1>4. j.left \in Seq(Nodes) /\ Len(j.left) \in Nat \ {0} /\ dst \in Nodes /\ dst = j.left[1]
  <2>1. j.left \in Seq(Nodes) /\ j.left # <<>>
    BY Zenon, <1>1 DEF Job, JobOK
  <2>. HIDE DEF j
  <2>. QED
    BY <2>1
<1>5. /\ up' = up /\ route' = route /\ timer' = timer /\ lost' = lost
      /\ job' = [job EXCEPT ![n][g] = IF Len(j.left) = 1 THEN Idle
                                      ELSE [j EXCEPT !.left = Tail(@), !.seen = {Dist[n]}]]
  BY Zenon, <1>3 DEF SendRIP
<1>6. /\ up[dst] = "off" => upd' = upd
      /\ up[dst] # "off" => upd' = [upd EXCEPT ![n][dst][Told(Dist[n], route[n].next, dst)] = @ + 1]
  <2>1. PICK cost \in j.seen :
          upd' = IF up[dst] = "off" THEN upd
                 ELSE [upd EXCEPT ![n][dst][Told(cost, Info(n, g).next, dst)] = @ + 1]
    BY Zenon DEF SendRIP
  <2>2. cost = Dist[n]
    BY Zenon, <1>2
  <2>. QED
    BY Zenon, <1>3, <2>1, <2>2
<1>. DEFINE c == Told(Dist[n], route[n].next, dst)
<1>7. c \in Costs
  BY Zenon, <1>3 DEF Told
<1>8. upd \in [Nodes -> [Nodes -> [Costs -> Nat]]] /\ job \in [Nodes -> [Procs -> Job]]
  BY Zenon DEF IInv, TypeOK
<1>. HIDE DEF j, dst, c
<1>9. /\ \A k, l \in Nodes : \A d \in Costs :
           /\ upd[k][l][d] > 0 => upd'[k][l][d] > 0
           /\ upd'[k][l][d] > 0 => upd[k][l][d] > 0 \/ (k = n /\ l = dst /\ d = c)
      /\ up[dst] # "off" => upd'[n][dst][c] > 0
  <2>1. CASE up[dst] = "off"
    BY Zenon, <1>6, <2>1
  <2>2. CASE up[dst] # "off"
    <3>1. upd' = [upd EXCEPT ![n][dst][c] = @ + 1]
      BY Zenon, <1>6, <2>2 DEF c
    <3>2. PICK x \in Nodes : x = dst
      BY Zenon, <1>4
    <3>3. PICK y \in Costs : y = c
      BY Zenon, <1>7
    <3>4. upd' = [upd EXCEPT ![n][x][y] = @ + 1] /\ TypeOK
      BY Zenon, <3>1, <3>2, <3>3 DEF IInv
    <3>5. /\ \A k, l \in Nodes : \A d \in Costs :
               /\ upd[k][l][d] > 0 => upd'[k][l][d] > 0
               /\ upd'[k][l][d] > 0 => upd[k][l][d] > 0 \/ (k = n /\ l = x /\ d = y)
          /\ upd'[n][x][y] > 0
      BY Zenon, <3>4, AddedUpdate
    <3>. QED
      BY Zenon, <3>2, <3>3, <3>5
  <2>. QED
    BY <2>1, <2>2
<1>10. /\ \A k \in Nodes : \A f \in Procs : (k = n /\ f = g) \/ job'[k][f] = job[k][f]
       /\ job'[n][g] = IF Len(j.left) = 1 THEN Idle
                       ELSE [j EXCEPT !.left = Tail(@), !.seen = {Dist[n]}]
  BY Zenon, <1>5, <1>8
<1>11. IF Len(j.left) = 1 THEN job'[n][g].pc = "idle"
       ELSE /\ job'[n][g].pc = "send" /\ job'[n][g].info = InTable
            /\ job'[n][g].left = Tail(j.left) /\ job'[n][g].seen = {Dist[n]}
  <2>1. j \in Job
    BY <1>1 DEF j
  <2>2. CASE Len(j.left) = 1
    BY Zenon, <1>10, <2>2, IdleOK
  <2>3. CASE Len(j.left) # 1
    <3>1. j.pc = "send" /\ j.info = InTable
      BY Zenon, <1>1, <1>2 DEF j
    <3>. DEFINE k == [j EXCEPT !.left = Tail(@), !.seen = {Dist[n]}]
    <3>2. k.pc = j.pc /\ k.info = j.info /\ k.left = Tail(j.left) /\ k.seen = {Dist[n]}
      BY Zenon, <2>1 DEF Job
    <3>3. job'[n][g] = k
      BY Zenon, <1>10, <2>3
    <3>. HIDE DEF k
    <3>. QED
      BY Zenon, <2>3, <3>1, <3>2, <3>3
  <2>. QED
    BY <2>2, <2>3
<1>12. SameTables
  BY Zenon, <1>5 DEF SameTables
<1>13. ASSUME NEW k \in Nodes
       PROVE  TreeRoute(k)' /\ \A f \in Procs : TreeJob(k, f)'
  <2>1. ASSUME NEW f \in Procs
        PROVE  TreeJob(k, f)'
    <3>1. CASE k = n /\ f = g
      <4>1. up'[n] = "on" /\ Has(n)'
        BY Zenon, <1>2, <1>5 DEF Has
      <4>. QED
        BY Zenon, <1>11, <3>1, <4>1 DEF TreeJob
    <3>2. CASE ~(k = n /\ f = g)
      BY Zenon, <1>10, <1>12, <3>2, TablesKept
    <3>. QED
      BY <3>1, <3>2
  <2>. QED
    BY Zenon, <1>12, <2>1, TablesKept
<1>14. ASSUME NEW k \in Nodes, NEW l \in Nodes, NEW d \in Costs
       PROVE  TreeUpd(k, l, d)'
  <2>1. CASE upd'[k][l][d] > 0 => upd[k][l][d] > 0
    BY Zenon, <1>12, <2>1, TablesKept
  <2>2. CASE k = n /\ l = dst /\ d = c
    <3>1. up'[n] = "on" /\ Has(n)' /\ route'[n] = route[n]
      BY Zenon, <1>2, <1>5 DEF Has
    <3>. QED
      BY Zenon, <2>2, <3>1 DEF TreeUpd, Told, c
  <2>. QED
    BY Zenon, <1>9, <2>1, <2>2
<1>15. ASSUME NEW k \in Nodes, Learned(k), NEW m \in Nodes, route[k].next = m, Coming(m, k)
       PROVE  Coming(m, k)'
  <2>1. CASE \E d \in Costs : upd[m][k][d] > 0
    BY Zenon, <1>9, <2>1 DEF Coming
  <2>2. ASSUME NEW f \in Procs, job[m][f].pc = "send",
               NEW i \in DOMAIN job[m][f].left, job[m][f].left[i] = k
        PROVE  Coming(m, k)'
    <3>1. CASE ~(m = n /\ f = g)
      <4>1. job'[m][f] = job[m][f]
        BY Zenon, <1>10, <3>1
      <4>. QED
        BY Zenon, <2>2, <4>1 DEF Coming
    <3>2. CASE m = n /\ f = g
      <4>1. i \in 1 .. Len(j.left) /\ j.left[i] = k
        BY <1>4, <2>2, <3>2 DEF j
      <4>2. CASE i = 1
        <5>1. k = dst /\ up[k] # "off"
          BY <1>4, <1>15, <4>1, <4>2, LearnedRoute
        <5>2. upd'[m][k][c] > 0
          BY Zenon, <1>9, <3>2, <5>1
        <5>. QED
          BY Zenon, <1>7, <5>2 DEF Coming
      <4>3. CASE i # 1
        <5>1. Len(j.left) # 1 /\ i - 1 \in DOMAIN Tail(j.left) /\ Tail(j.left)[i - 1] = k
          BY <1>4, <4>1, <4>3
        <5>2. job'[m][f].pc = "send" /\ job'[m][f].left = Tail(j.left)
          BY Zenon, <1>11, <3>2, <5>1
        <5>. QED
          BY Zenon, <5>1, <5>2 DEF Coming
      <4>. QED
        BY <4>2, <4>3
    <3>. QED
      BY <3>1, <3>2
  <2>. QED
    BY Zenon, <1>15, <2>1, <2>2 DEF Coming
<1>16. ASSUME NEW k \in Nodes
       PROVE  Fresh(k)'
  <2>. SUFFICES ASSUME Learned(k)' PROVE Fresh(k)'
    BY Zenon DEF Fresh
  <2>1. Learned(k)
    BY Zenon, <1>5 DEF Learned, Has
  <2>2. PICK m \in Nodes : route[k].next = m
    BY Zenon, <2>1, LearnedRoute
  <2>3. route'[k].next = m /\ route'[k].age = route[k].age /\ timer'[m].periodic = timer[m].periodic
    BY Zenon, <1>5, <2>2
  <2>4. Coming(m, k) => Coming(m, k)'
    BY Zenon, <1>15, <2>1, <2>2
  <2>. QED
    BY Zenon, <1>5, <2>2, <2>3, <2>4, FreshKept
<1>. QED
  BY Zenon, <1>13, <1>14, <1>16 DEF TreeInv

\* periodicUpdates: what it sends is coming to every node that has its route from n.
LEMMA PeriodicTree ==
  ASSUME Tree, IInv, TreeInv, NEW n \in Nodes, PeriodicUpdates(n)
  PROVE  TreeInv'
<1>1. /\ up' = up /\ route' = route /\ upd' = upd /\ lost' = lost
      /\ up[n] = "on" /\ job[n]["periodic"].pc = "idle"
  BY Zenon DEF PeriodicUpdates
<1>2. IF Has(n)
      THEN job' = [job EXCEPT ![n]["periodic"] = Sending(InTable, route[n].cost, RipNeighbors[n])]
      ELSE job' = job
  BY Zenon DEF PeriodicUpdates
<1>3. "periodic" \in Procs /\ "idle" # "send"
  BY DEF Procs
<1>4. \A k \in Nodes \ {n} : timer'[k] = timer[k]
  BY DEF PeriodicUpdates, IInv, TypeOK
<1>5. SameTables
  BY Zenon, <1>1 DEF SameTables
<1>6. job \in [Nodes -> [Procs -> Job]]
  BY DEF IInv, TypeOK
<1>7. /\ \A k \in Nodes : \A g \in Procs : job[k][g].pc = "send" => job'[k][g] = job[k][g]
      /\ Has(n) => job'[n]["periodic"] = Sending(InTable, route[n].cost, RipNeighbors[n])
  <2>1. CASE Has(n)
    <3>1. job' = [job EXCEPT ![n]["periodic"] = Sending(InTable, route[n].cost, RipNeighbors[n])]
      BY Zenon, <1>2, <2>1
    <3>. QED
      BY Zenon, <1>1, <1>3, <1>6, <3>1
  <2>2. CASE ~Has(n)
    BY Zenon, <1>2, <2>2
  <2>. QED
    BY <2>1, <2>2
<1>8. ASSUME NEW k \in Nodes
      PROVE  Fresh(k)'
  <2>. SUFFICES ASSUME Learned(k)' PROVE Fresh(k)'
    BY Zenon DEF Fresh
  <2>1. Learned(k)
    BY Zenon, <1>1 DEF Learned, Has
  <2>2. PICK m \in Nodes : route[k].next = m
    BY Zenon, <2>1, LearnedRoute
  <2>3. CASE m = n
    <3>1. Has(n) /\ Nearer(n, k)
      BY Zenon, <2>1, <2>2, <2>3, LearnedRoute
    <3>2. PICK i \in DOMAIN RipNeighbors[n] : RipNeighbors[n][i] = k
      <4>1. k \in Neighbors(n)
        BY Zenon, <3>1, TreeSides DEF Nearer
      <4>. QED
        BY Zenon, <4>1 DEF Neighbors
    <3>3. RipNeighbors[n] # <<>>
      BY SMTT(20), <3>2
    <3>4. job'[n]["periodic"].pc = "send" /\ job'[n]["periodic"].left = RipNeighbors[n]
      <4>1. route[n].cost = Dist[n]
        BY Zenon, <3>1 DEF TreeInv, TreeRoute
      <4>2. job'[n]["periodic"] = Sending(InTable, Dist[n], RipNeighbors[n])
        BY Zenon, <1>7, <3>1, <4>1
      <4>. QED
        BY <3>3, <4>2, StartsToSend
    <3>5. Coming(n, k)'
      BY Zenon, <1>3, <3>2, <3>4 DEF Coming
    <3>6. Fresh(k) /\ Limit' = Limit
      BY Zenon, <1>1 DEF TreeInv, Limit
    <3>7. Coming(route[k].next, k)'
      BY Zenon, <1>1, <2>2, <2>3, <3>5 DEF Coming
    <3>. QED
      BY Zenon, <1>1, <2>1, <3>6, <3>7 DEF Fresh
  <2>4. CASE m # n
    <3>1. timer'[m].periodic = timer[m].periodic
      BY <1>4, <2>4
    <3>2. Coming(m, k) => Coming(m, k)'
      BY Zenon, <1>1, <1>7, ComingKept
    <3>. QED
      BY Zenon, <1>1, <2>2, <3>1, <3>2, FreshKept
  <2>. QED
    BY <2>3, <2>4
<1>9. CASE Has(n)
  BY Zenon, <1>1, <1>2, <1>3, <1>5, <1>8, <1>9, SenderStep
<1>10. CASE ~Has(n)
  BY Zenon, <1>1, <1>2, <1>5, <1>8, <1>10, TablesKept DEF TreeInv
<1>. QED
  BY <1>9, <1>10

\* The age of a learned route stays below the limit of garbageCollector.
LEMMA TreeNotExpired ==
  ASSUME IInv, TreeInv, Calm, NEW n \in Nodes
  PROVE  ~Expired(n)
<1>. SUFFICES ASSUME Learned(n) PROVE ~(route[n].age >= Lifetime)
  BY Zenon DEF Expired
<1>1. route[n].age <= Limit
  BY Zenon DEF TreeInv, Fresh
<1>2. lost \in Nat /\ lost <= 1
  BY DEF IInv, TypeOK, Calm
<1>3. route[n].age \in Nat
  <2>1. route[n] \in Route
    BY Zenon DEF IInv, TypeOK
  <2>2. route[n].age \in 0 .. Lifetime
    BY Zenon, <2>1 DEF Route
  <2>. QED
    BY <2>2 DEF Lifetime
<1>. QED
  BY <1>1, <1>2, <1>3 DEF Limit, Period, Lifetime

\* garbageCollector finds nothing to delete.
LEMMA GarbageCollectorTree ==
  ASSUME IInv, TreeInv, Calm, NEW n \in Nodes, GarbageCollector(n)
  PROVE  TreeInv'
<1>1. up' = up /\ route' = route /\ job' = job /\ upd' = upd /\ lost' = lost
  BY Zenon, TreeNotExpired DEF GarbageCollector
<1>2. \A m \in Nodes : timer'[m].periodic = timer[m].periodic
  BY DEF GarbageCollector, IInv, TypeOK
<1>3. SameTables
  BY Zenon, <1>1 DEF SameTables
<1>4. \A k \in Nodes : Fresh(k)'
  BY Zenon, <1>1, <1>2, FreshUndisturbed
<1>. QED
  BY Zenon, <1>1, <1>3, <1>4, TablesKept DEF TreeInv

\* Time passes when nothing is coming: routes grow older, and the next periodic
\* updates come nearer.
LEMMA TickTree ==
  ASSUME IInv, TreeInv, Tick
  PROVE  TreeInv'
<1>1. up' = up /\ job' = job /\ upd' = upd /\ lost' = lost
  BY Zenon DEF Tick
<1>2. ASSUME NEW n \in Nodes
      PROVE  /\ route[n] \in Route
             /\ route'[n] = IF Learned(n) THEN [route[n] EXCEPT !.age = Least(@ + 1, Lifetime)]
                                          ELSE route[n]
  BY Zenon DEF Tick, IInv, TypeOK
<1>3. ASSUME NEW n \in Nodes
      PROVE  /\ route'[n].next = route[n].next /\ route'[n].cost = route[n].cost
             /\ Learned(n) => route'[n].age = Least(route[n].age + 1, Lifetime)
  <2>. DEFINE r == [route[n] EXCEPT !.age = Least(@ + 1, Lifetime)]
  <2>1. r.next = route[n].next /\ r.cost = route[n].cost /\ r.age = Least(route[n].age + 1, Lifetime)
    BY Zenon, <1>2 DEF Route
  <2>2. route'[n] = IF Learned(n) THEN r ELSE route[n]
    BY Zenon, <1>2
  <2>. HIDE DEF r
  <2>. QED
    BY Zenon, <2>1, <2>2
<1>4. SameTables
  BY Zenon, <1>1, <1>3 DEF SameTables
<1>5. ASSUME NEW n \in Nodes
      PROVE  Fresh(n)'
  <2>. SUFFICES ASSUME Learned(n)' PROVE Fresh(n)'
    BY Zenon DEF Fresh
  <2>1. Learned(n)
    BY Zenon, <1>3 DEF Learned, Has
  <2>2. PICK m \in Nodes : route[n].next = m /\ up[m] = "on"
    BY Zenon, <2>1, LearnedRoute
  <2>3. ~Coming(m, n)
    <3>1. /\ \A g \in Procs : job[m][g].pc = "idle"
          /\ \A c \in Costs : upd[m][n][c] = 0
      BY Zenon DEF Tick, Quiet
    <3>. QED
      BY <3>1 DEF Coming
  <2>4. route[n].age + timer[m].periodic <= Limit
    BY Zenon, <2>1, <2>2, <2>3 DEF TreeInv, Fresh
  <2>5. timer[m].periodic > 0 /\ timer'[m].periodic = timer[m].periodic - 1
    <3>1. timer[m].periodic > 0
      BY Zenon DEF Tick, Quiet
    <3>2. timer'[m] = [periodic |-> timer[m].periodic - 1, gc |-> timer[m].gc - 1]
      BY Zenon, <2>2 DEF Tick
    <3>. QED
      BY <3>1, <3>2
  <2>6. timer[m].periodic \in 0 .. 2 /\ lost \in Nat
    BY Zenon, Times
  <2>7. route[n].age \in 0 .. Lifetime
    BY Zenon, <1>2 DEF Route
  <2>8. route'[n].age <= Limit' /\ route'[n].age + timer'[m].periodic <= Limit'
    <3>1. route'[n].age = Least(route[n].age + 1, Lifetime)
      BY Zenon, <1>3, <2>1
    <3>. QED
      BY <1>1, <2>4, <2>5, <2>6, <2>7, <3>1 DEF Limit, Period, Lifetime, Least
  <2>9. route'[n].next = m
    BY Zenon, <1>3, <2>2
  <2>. QED
    BY Zenon, <2>8, <2>9 DEF Fresh
<1>. QED
  BY Zenon, <1>1, <1>4, <1>5, TablesKept DEF TreeInv

\* A packet is lost: the next periodic update makes up for it.
LEMMA LoseTree ==
  ASSUME IInv, TreeInv, NEW m \in Nodes, NEW n \in Nodes, Lose(m, n)
  PROVE  TreeInv'
<1>1. up' = up /\ route' = route /\ job' = job /\ timer' = timer /\ lost' = lost + 1
  BY Zenon DEF Lose
<1>2. \A k, l \in Nodes : \A c \in Costs : upd'[k][l][c] > 0 => upd[k][l][c] > 0
  <2>1. CASE upd' = upd
    BY Zenon, <2>1
  <2>2. ASSUME NEW d \in Costs, upd' = [upd EXCEPT ![m][n][d] = @ - 1]
        PROVE  \A k, l \in Nodes : \A c \in Costs : upd'[k][l][c] > 0 => upd[k][l][c] > 0
    <3>1. upd \in [Nodes -> [Nodes -> [Costs -> Nat]]]
      BY DEF IInv, TypeOK
    <3>. QED
      BY <2>2, <3>1
  <2>. QED
    BY Zenon, <2>1, <2>2 DEF Lose
<1>3. SameTables
  BY Zenon, <1>1 DEF SameTables
<1>4. ASSUME NEW k \in Nodes
      PROVE  Fresh(k)'
  <2>. SUFFICES ASSUME Learned(k)' PROVE Fresh(k)'
    BY Zenon DEF Fresh
  <2>1. Learned(k)
    BY Zenon, <1>1 DEF Learned, Has
  <2>2. PICK l \in Nodes : route[k].next = l
    BY Zenon, <2>1, LearnedRoute
  <2>3. route[k].age <= Limit
    BY Zenon, <2>1 DEF TreeInv, Fresh
  <2>4. route[k].age \in 0 .. Lifetime
    <3>1. route[k] \in Route
      BY Zenon DEF IInv, TypeOK
    <3>. QED
      BY Zenon, <3>1 DEF Route
  <2>5. timer[l].periodic \in 0 .. 2 /\ lost \in Nat
    BY Zenon, Times
  <2>6. route'[k].age <= Limit' /\ route'[k].age + timer'[l].periodic <= Limit'
    BY <1>1, <2>3, <2>4, <2>5 DEF Limit, Period, Lifetime
  <2>7. route'[k].next = l
    BY Zenon, <1>1, <2>2
  <2>. QED
    BY Zenon, <2>6, <2>7 DEF Fresh
<1>. QED
  BY Zenon, <1>1, <1>2, <1>3, <1>4, TablesKept DEF TreeInv

-----------------------------------------------------------------------------
(* All steps on a tree.                                                    *)

\* All nodes are off.
LEMMA TreeInit == Init => TreeInv
<1>. SUFFICES ASSUME Init, NEW n \in Nodes
     PROVE  /\ TreeRoute(n) /\ Fresh(n)
            /\ \A g \in Procs : TreeJob(n, g)
            /\ \A m \in Nodes : \A c \in Costs : TreeUpd(n, m, c)
  BY Zenon DEF TreeInv
<1>1. ~Has(n)
  BY DEF Init, Has, NoRoute
<1>2. \A g \in Procs : job[n][g].pc = "idle"
  BY IdleOK DEF Init, NoJobs
<1>3. \A m \in Nodes : \A c \in Costs : ~(upd[n][m][c] > 0)
  BY DEF Init
<1>. QED
  BY Zenon, <1>1, <1>2, <1>3 DEF TreeRoute, Fresh, Learned, TreeJob, TreeUpd

\* The steps of a node that is on or starts.
LEMMA NodeStepTree ==
  ASSUME Tree, IInv, TreeInv, Calm, NEW n \in Nodes, NodeStep(n)
  PROVE  TreeInv'
<1>1. ASSUME NEW h \in Handlers, Handle(n, h)
      PROVE  TreeInv'
  <2>1. ~SetNext(n, h)
    BY Zenon, NoChange
  <2>2. PICK m \in Nodes :
          \/ Request(n, h, m)
          \/ \E c \in Said(m, n) :
               Learn(n, h, m, c) \/ Better(n, h, m, c) \/ Worse(n, h, m, c)
                 \/ Refresh(n, h, m, c) \/ Ignore(n, h, m, c)
    BY Zenon, <1>1, <2>1 DEF Handle
  <2>3. CASE Request(n, h, m)
    BY Zenon, <2>3, RequestTree
  <2>4. ASSUME NEW c \in Said(m, n),
               \/ Learn(n, h, m, c) \/ Better(n, h, m, c) \/ Worse(n, h, m, c)
               \/ Refresh(n, h, m, c) \/ Ignore(n, h, m, c)
        PROVE  TreeInv'
    <3>1. c \in Costs
      BY Zenon DEF Said
    <3>2. PICK d \in Costs : d = c
      BY Zenon, <3>1
    <3>3. Learn(n, h, m, d) \/ Refresh(n, h, m, d) \/ Ignore(n, h, m, d)
      BY Zenon, <2>4, <3>2, NoChange
    <3>. QED
      BY Zenon, <3>3, LearnTree, RefreshTree, IgnoreTree
  <2>. QED
    BY Zenon, <2>2, <2>3, <2>4
<1>. QED
  BY Zenon, <1>1, ReadyTree, PeriodicTree, GarbageCollectorTree, SendRIPTree DEF NodeStep

\* While all nodes stay on and at most one packet is lost, every step keeps the
\* invariant.
LEMMA TreeNext ==
  ASSUME Tree, IInv, Calm => TreeInv, [Next]_vars
  PROVE  (Calm => TreeInv)'
<1>. SUFFICES ASSUME Calm' PROVE TreeInv'
  BY Zenon
<1>1. stops \in Nat /\ lost \in Nat
  BY DEF IInv, TypeOK
<1>2. ASSUME stops' = stops /\ (lost' = lost \/ lost' = lost + 1)
      PROVE  Calm /\ TreeInv
  BY <1>1, <1>2 DEF Calm
<1>3. ASSUME NEW n \in Nodes, Start(n)
      PROVE  TreeInv'
  <2>1. stops' = stops /\ lost' = lost
    BY Zenon, <1>3 DEF Start
  <2>. QED
    BY Zenon, <1>2, <1>3, <2>1, StartTree
<1>4. ASSUME NEW n \in Nodes, Panic(n)
      PROVE  TreeInv'
  <2>1. stops' = stops /\ lost' = lost
    BY Zenon, <1>4 DEF Panic
  <2>. QED
    BY Zenon, <1>2, <1>4, <2>1, PanicTree
<1>5. ASSUME NEW n \in Nodes, Stop(n)
      PROVE  TreeInv'
  <2>1. stops' = stops + 1 /\ stops' = 0
    BY Zenon, <1>5 DEF Stop, Calm
  <2>. QED
    BY <1>1, <2>1
<1>6. ASSUME NEW n \in Nodes, NodeStep(n)
      PROVE  TreeInv'
  <2>1. stops' = stops /\ lost' = lost
    <3>1. ASSUME NEW h \in Handlers, Handle(n, h)
          PROVE  stops' = stops /\ lost' = lost
      BY Zenon, <3>1 DEF Handle, SetNext, Request, Learn, Better, Worse, Refresh, Ignore
    <3>2. CASE Ready(n)
      BY Zenon, <3>2 DEF Ready
    <3>3. CASE PeriodicUpdates(n)
      BY Zenon, <3>3 DEF PeriodicUpdates
    <3>4. CASE GarbageCollector(n)
      BY Zenon, <3>4 DEF GarbageCollector
    <3>5. ASSUME NEW g \in Procs, SendRIP(n, g)
          PROVE  stops' = stops /\ lost' = lost
      BY Zenon, <3>5 DEF SendRIP
    <3>. QED
      BY Zenon, <1>6, <3>1, <3>2, <3>3, <3>4, <3>5 DEF NodeStep
  <2>. QED
    BY Zenon, <1>2, <1>6, <2>1, NodeStepTree
<1>7. ASSUME NEW m \in Nodes, NEW n \in Nodes, Lose(m, n)
      PROVE  TreeInv'
  <2>1. stops' = stops /\ lost' = lost + 1
    BY Zenon, <1>7 DEF Lose
  <2>. QED
    BY Zenon, <1>2, <1>7, <2>1, LoseTree
<1>8. CASE Tick
  <2>1. stops' = stops /\ lost' = lost
    BY Zenon, <1>8 DEF Tick
  <2>. QED
    BY Zenon, <1>2, <1>8, <2>1, TickTree
<1>9. CASE UNCHANGED vars
  <2>1. /\ up' = up /\ route' = route /\ job' = job /\ upd' = upd /\ timer' = timer
        /\ stops' = stops /\ lost' = lost
    BY <1>9 DEF vars
  <2>2. TreeInv
    BY Zenon, <1>2, <2>1
  <2>3. SameTables
    BY Zenon, <2>1 DEF SameTables
  <2>4. \A n \in Nodes : Fresh(n)'
    BY Zenon, <2>1, <2>2, FreshUndisturbed
  <2>. QED
    BY Zenon, <2>1, <2>2, <2>3, <2>4, TablesKept DEF TreeInv
<1>. QED
  BY Zenon, <1>3, <1>4, <1>5, <1>6, <1>7, <1>8, <1>9 DEF Next

\* On every tree, with any number of nodes and handlers, no route gets old enough
\* for garbageCollector to delete it while all nodes stay on and one packet at most
\* is lost, whichever way goroutines, sweeps and updates interleave and however the
\* network reorders: 12 s are enough for two periods of periodicUpdates.
THEOREM RIPNoneExpires ==
  ASSUME Tree
  PROVE  Spec => []NoneExpires
<1>1. Init => IInv /\ (Calm => TreeInv)
  BY Zenon, InitInv, TreeInit
<1>2. IInv /\ (Calm => TreeInv) /\ [Next]_vars => IInv' /\ (Calm => TreeInv)'
  BY Zenon, NextInv, TreeNext
<1>3. IInv /\ (Calm => TreeInv) => NoneExpires
  BY Zenon, TreeNotExpired DEF NoneExpires, Calm
<1>. QED
  BY <1>1, <1>2, <1>3, PTL DEF Spec
=============================================================================
