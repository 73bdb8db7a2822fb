-------------------------------- MODULE RIP --------------------------------
(***************************************************************************)
(* Routing with RIP: Initialize, sendRIP, protocol200, periodicUpdates and *)
(* garbageCollector of src/pkg/node/node.go, on a network of routers.      *)
(*                                                                         *)
(* Entries for different prefixes never influence each other, so the model *)
(* follows one prefix: route[n] is n's entry for it in forwardingTable.    *)
(* A neighbor's address stands for the neighbor.  Time runs in units of    *)
(* 2.5 s; packets and handlers take less than one.                         *)
(***************************************************************************)
EXTENDS Integers, Sequences

CONSTANTS
  Nodes,
  NoNode,
  Origins,       \* the nodes that have the prefix on an interface
  RipNeighbors,  \* RipNeighbors[n]: the sequence of n's RIP neighbors
  Dist,          \* Dist[n]: hops from n to the nearest origin
  INFTY,
  Handlers,      \* bound: goroutines in protocol200 at the same time
  MaxStarts,     \* bound: starts of nodes, restarts included
  MaxFaults      \* bound: nodes stopped by their user and packets lost

Period == 2      \* periodicUpdates sleeps 5 s
Sweep == 3       \* garbageCollector sleeps 7.5 s
Lifetime == 5    \* routes of age 12 s expire, that is between 4 and 5 units

Neighbors(n) == {RipNeighbors[n][i] : i \in DOMAIN RipNeighbors[n]}

ASSUME NodeAssumption ==
  /\ NoNode \notin Nodes /\ Origins \subseteq Nodes
  /\ RipNeighbors \in [Nodes -> Seq(Nodes)]
ASSUME InftyAssumption == INFTY \in Nat /\ INFTY > 1
ASSUME DistAssumption ==
  /\ Dist \in [Nodes -> Nat]
  /\ \A n \in Origins : Dist[n] = 0
  /\ \A m \in Nodes : \A n \in Neighbors(m) : Dist[n] <= Dist[m] + 1 /\ Dist[m] <= Dist[n] + 1
ASSUME BoundAssumption ==
  /\ Handlers \cap {"periodic", "gc", "free"} = {}
  /\ MaxStarts \in Nat /\ MaxFaults \in Nat

VARIABLES
  up,       \* "off", "boot" (interfaces run, handlerTable is empty) or "on"
  route,    \* n's entry for the prefix, or NoRoute
  lock,     \* nodeLock: the handler that holds it between two writes, or "free"
  job,      \* where each goroutine of n that handles or sends is
  req,      \* req[m][n]: requests on the way from m to n
  upd,      \* upd[m][n][c]: responses on the way from m to n that say cost c
  timer,    \* units until periodicUpdates and garbageCollector wake up
  starts, stops, lost

vars == <<up, route, lock, job, req, upd, timer, starts, stops, lost>>

-----------------------------------------------------------------------------
Costs == 0 .. INFTY
Least(a, b) == IF a <= b THEN a ELSE b

NoRoute == [next |-> NoNode, cost |-> INFTY, age |-> 0]
Has(n) == route[n].next # NoNode

\* What Initialize puts into the table; next is the node's own address.
Own(n) == IF n \in Origins THEN [next |-> n, cost |-> 0, age |-> 0] ELSE NoRoute

\* route_type == "R"
Learned(n) == Has(n) /\ route[n].next # n

\* A goroutine sends the entry *info to the nodes in left.  info is InTable if
\* the table points to it, and a copy once it is deleted from the table.  seen
\* holds the costs the entry has had since the goroutine may have read it for the
\* packet it builds.  A handler with pc "write" has changed info.cost and is about
\* to set info.next to hop.
InTable == [next |-> NoNode, cost |-> 0, age |-> 0]
Idle == [pc |-> "idle", info |-> InTable, left |-> <<>>, seen |-> {}, hop |-> NoNode]
Sending(info, cost, dsts) ==
  IF dsts = <<>> THEN Idle
  ELSE [Idle EXCEPT !.pc = "send", !.info = info, !.left = dsts, !.seen = {cost}]

Procs == {"periodic", "gc"} \cup Handlers
NoJobs == [g \in Procs |-> Idle]
Timers == [periodic |-> Period, gc |-> Sweep]

Init ==
  /\ up = [n \in Nodes |-> "off"]
  /\ route = [n \in Nodes |-> NoRoute]
  /\ lock = [n \in Nodes |-> "free"]
  /\ job = [n \in Nodes |-> NoJobs]
  /\ req = [m \in Nodes |-> [n \in Nodes |-> 0]]
  /\ upd = [m \in Nodes |-> [n \in Nodes |-> [c \in Costs |-> 0]]]
  /\ timer = [n \in Nodes |-> Timers]
  /\ starts = 0 /\ stops = 0 /\ lost = 0

-----------------------------------------------------------------------------
(* Initialize, and the end of a process.                                   *)

\* The tables are made, the interfaces receive, and a request goes to every RIP
\* neighbor; one that is off does not get it.
Start(n) ==
  /\ up[n] = "off" /\ starts < MaxStarts
  /\ up' = [up EXCEPT ![n] = "boot"]
  /\ route' = [route EXCEPT ![n] = Own(n)]
  /\ req' = [req EXCEPT ![n] =
               [m \in Nodes |-> IF m \in Neighbors(n) /\ up[m] # "off" THEN @[m] + 1 ELSE @[m]]]
  /\ starts' = starts + 1
  /\ UNCHANGED <<lock, job, upd, timer, stops, lost>>

\* handlerTable is filled, periodicUpdates and garbageCollector start.
Ready(n) ==
  /\ up[n] = "boot"
  /\ up' = [up EXCEPT ![n] = "on"]
  /\ UNCHANGED <<route, lock, job, req, upd, timer, starts, stops, lost>>

\* n's process ends and what is on the way to it is lost.
Gone(n) ==
  /\ up' = [up EXCEPT ![n] = "off"]
  /\ route' = [route EXCEPT ![n] = NoRoute]
  /\ lock' = [lock EXCEPT ![n] = "free"]
  /\ job' = [job EXCEPT ![n] = NoJobs]
  /\ req' = [m \in Nodes |-> [req[m] EXCEPT ![n] = 0]]
  /\ upd' = [m \in Nodes |-> [upd[m] EXCEPT ![n] = [c \in Costs |-> 0]]]
  /\ timer' = [timer EXCEPT ![n] = Timers]

\* A packet, about this prefix or another, arrives before handlerTable is filled:
\* handlePackets calls a nil function.
Panic(n) ==
  /\ up[n] = "boot"
  /\ \E m \in Nodes : \/ req[m][n] > 0
                      \/ \E c \in Costs : upd[m][n][c] > 0
                      \/ up[m] = "on" /\ n \in Neighbors(m)
  /\ Gone(n)
  /\ UNCHANGED <<starts, stops, lost>>

\* The user ends the process, or types "up" or "down": ToggleInterface uses the
\* nil mutex of the Interface in the map.
Stop(n) ==
  /\ up[n] = "on" /\ stops + lost < MaxFaults
  /\ Gone(n)
  /\ stops' = stops + 1
  /\ UNCHANGED <<starts, lost>>

-----------------------------------------------------------------------------
(* sendRIP, for one neighbor after the other.  It reads info.cost and then *)
(* info.next without a lock.                                               *)

Info(n, g) == IF job[n][g].info = InTable THEN route[n] ELSE job[n][g].info

\* The cost told to dst: infinity if dst is the next hop.
Told(cost, next, dst) == IF dst = next THEN INFTY ELSE cost

SendRIP(n, g) ==
  LET j == job[n][g]
      dst == Head(j.left)
  IN  /\ j.pc = "send"
      /\ \E cost \in j.seen :
           LET c == Told(cost, Info(n, g).next, dst)
           IN  upd' = IF up[dst] = "off" THEN upd ELSE [upd EXCEPT ![n][dst][c] = @ + 1]
      /\ job' = [job EXCEPT ![n][g] = IF Len(j.left) = 1 THEN Idle
                                      ELSE [j EXCEPT !.left = Tail(@), !.seen = {Info(n, g).cost}]]
      /\ UNCHANGED <<up, route, lock, req, timer, starts, stops, lost>>

\* The cost of the entry in the table of n becomes cost: goroutines that are
\* sending it may read it now.  info is how they refer to it from now on.
Seen(n, cost, info) ==
  [g \in Procs |->
     LET j == job[n][g]
     IN  IF j.pc = "send" /\ j.info = InTable
         THEN [j EXCEPT !.seen = @ \cup {cost}, !.info = info]
         ELSE j]

-----------------------------------------------------------------------------
(* protocol200.                                                            *)

\* A handler of n is free to take a packet and nodeLock.
Free(n, h) == up[n] = "on" /\ job[n][h].pc = "idle" /\ lock[n] = "free"

\* A request is answered with the table; an empty one tells the neighbor nothing.
Request(n, h, m) ==
  /\ Free(n, h) /\ req[m][n] > 0
  /\ req' = [req EXCEPT ![m][n] = @ - 1]
  /\ job' = IF Has(n) THEN [job EXCEPT ![n][h] = Sending(InTable, route[n].cost, <<m>>)] ELSE job
  /\ UNCHANGED <<up, route, lock, upd, timer, starts, stops, lost>>

\* Mutants of Via: the cost is not capped, or the hop to the neighbor not counted.
ViaUncapped(c) == c + 1
ViaSame(c) == Least(c, INFTY)

\* The cost of a route through a neighbor that says c.
Via(c) == Least(c + 1, INFTY)

\* The costs in the responses on the way from m to n.
Said(m, n) == {c \in Costs : upd[m][n][c] > 0}

\* Handler h of n takes from the network a response of m that says c.
Response(n, h, m, c) ==
  /\ Free(n, h) /\ c \in Said(m, n)
  /\ upd' = [upd EXCEPT ![m][n][c] = @ - 1]

\* The entry, of this cost, is told to all RIP neighbors.
Trigger(n, h, cost) == job' = [job EXCEPT ![n][h] = Sending(InTable, cost, RipNeighbors[n])]

\* Goroutine g of n deletes the entry, last seen as info, and tells all RIP
\* neighbors; goroutines that were sending it keep the deleted one.
Delete(n, g, info) ==
  /\ route' = [route EXCEPT ![n] = NoRoute]
  /\ job' = [job EXCEPT ![n] = [Seen(n, info.cost, info) EXCEPT
                                   ![g] = Sending(info, info.cost, RipNeighbors[n])]]

\* The prefix was not in the table.
Learn(n, h, m, c) ==
  /\ Response(n, h, m, c)
  /\ ~Has(n) /\ Via(c) # INFTY
  /\ route' = [route EXCEPT ![n] = [next |-> m, cost |-> Via(c), age |-> 0]]
  /\ Trigger(n, h, Via(c))
  /\ UNCHANGED <<up, lock, req, timer, starts, stops, lost>>

\* A better route: the cost is written, then the next hop.
Better(n, h, m, c) ==
  /\ Response(n, h, m, c)
  /\ Has(n) /\ route[n].cost > Via(c)
  /\ route' = [route EXCEPT ![n].cost = Via(c)]
  /\ lock' = [lock EXCEPT ![n] = h]
  /\ job' = [job EXCEPT ![n] = [Seen(n, Via(c), InTable) EXCEPT
                                   ![h] = [Idle EXCEPT !.pc = "write", !.hop = m]]]
  /\ UNCHANGED <<up, req, timer, starts, stops, lost>>

SetNext(n, h) ==
  /\ job[n][h].pc = "write"
  /\ route' = [route EXCEPT ![n].next = job[n][h].hop, ![n].age = 0]
  /\ lock' = [lock EXCEPT ![n] = "free"]
  /\ Trigger(n, h, route[n].cost)
  /\ UNCHANGED <<up, req, upd, timer, starts, stops, lost>>

\* The next hop's route got worse: the entry is deleted, and told with the new
\* cost.
Worse(n, h, m, c) ==
  /\ Response(n, h, m, c)
  /\ Has(n) /\ route[n].cost < Via(c) /\ m = route[n].next
  /\ Delete(n, h, [route[n] EXCEPT !.cost = Via(c), !.age = 0])
  /\ UNCHANGED <<up, lock, req, timer, starts, stops, lost>>

\* Mutant of Refresh: last_updated is not set.
RefreshCostOnly(n, h, m, c) ==
  /\ Response(n, h, m, c)
  /\ Has(n) /\ route[n].cost = Via(c) /\ m = route[n].next
  /\ Trigger(n, h, route[n].cost)
  /\ UNCHANGED <<up, route, lock, req, timer, starts, stops, lost>>

\* The next hop confirms the route.
Refresh(n, h, m, c) ==
  /\ Response(n, h, m, c)
  /\ Has(n) /\ route[n].cost = Via(c) /\ m = route[n].next
  /\ route' = [route EXCEPT ![n].age = 0]
  /\ Trigger(n, h, route[n].cost)
  /\ UNCHANGED <<up, lock, req, timer, starts, stops, lost>>

\* Nothing new.
Ignore(n, h, m, c) ==
  /\ Response(n, h, m, c)
  /\ IF Has(n) THEN route[n].cost <= Via(c) /\ m # route[n].next ELSE Via(c) = INFTY
  /\ UNCHANGED <<up, route, lock, job, req, timer, starts, stops, lost>>

-----------------------------------------------------------------------------
(* The two loops, time and the network.                                    *)

\* periodicUpdates wakes up and sends the table to all RIP neighbors.
PeriodicUpdates(n) ==
  /\ up[n] = "on" /\ timer[n].periodic = 0
  /\ lock[n] = "free" /\ job[n]["periodic"].pc = "idle"
  /\ job' = IF Has(n)
            THEN [job EXCEPT ![n]["periodic"] = Sending(InTable, route[n].cost, RipNeighbors[n])]
            ELSE job
  /\ timer' = [timer EXCEPT ![n].periodic = Period]
  /\ UNCHANGED <<up, route, lock, req, upd, starts, stops, lost>>

\* Mutant of Expired: the age is compared with a limit it never reaches.
ExpiredLate(n) == Learned(n) /\ route[n].age > Lifetime

\* The route is R and 12 s old.
Expired(n) == Learned(n) /\ route[n].age >= Lifetime

\* garbageCollector wakes up: a learned route that has expired is deleted and told
\* with cost 16.
GarbageCollector(n) ==
  /\ up[n] = "on" /\ timer[n].gc = 0
  /\ lock[n] = "free" /\ job[n]["gc"].pc = "idle"
  /\ IF Expired(n) THEN Delete(n, "gc", [route[n] EXCEPT !.cost = INFTY])
                   ELSE UNCHANGED <<route, job>>
  /\ timer' = [timer EXCEPT ![n].gc = Sweep]
  /\ UNCHANGED <<up, lock, req, upd, starts, stops, lost>>

\* Everything that is due in this unit of time is done.
Quiet ==
  /\ \A n \in Nodes :
       /\ up[n] # "boot" /\ timer[n].periodic > 0 /\ timer[n].gc > 0
       /\ \A g \in Procs : job[n][g].pc = "idle"
  /\ \A m, n \in Nodes : req[m][n] = 0 /\ \A c \in Costs : upd[m][n][c] = 0

Tick ==
  /\ Quiet
  /\ timer' = [n \in Nodes |-> IF up[n] = "on" THEN [periodic |-> timer[n].periodic - 1,
                                                     gc |-> timer[n].gc - 1]
                                               ELSE timer[n]]
  /\ route' = [n \in Nodes |-> IF Learned(n)
                               THEN [route[n] EXCEPT !.age = Least(@ + 1, Lifetime)]
                               ELSE route[n]]
  /\ UNCHANGED <<up, lock, job, req, upd, starts, stops, lost>>

\* UDP loses a packet.
Lose(m, n) ==
  /\ stops + lost < MaxFaults
  /\ \/ req[m][n] > 0 /\ req' = [req EXCEPT ![m][n] = @ - 1] /\ UNCHANGED upd
     \/ \E c \in Costs : /\ upd[m][n][c] > 0 /\ upd' = [upd EXCEPT ![m][n][c] = @ - 1]
                         /\ UNCHANGED req
  /\ lost' = lost + 1
  /\ UNCHANGED <<up, route, lock, job, timer, starts, stops>>

Handle(n, h) ==
  \/ SetNext(n, h)
  \/ /\ Free(n, h)
     /\ \E m \in Nodes :
          \/ Request(n, h, m)
          \/ \E c \in Said(m, n) :
               Learn(n, h, m, c) \/ Better(n, h, m, c) \/ Worse(n, h, m, c)
                 \/ Refresh(n, h, m, c) \/ Ignore(n, h, m, c)

NodeStep(n) ==
  \/ Ready(n) \/ PeriodicUpdates(n) \/ GarbageCollector(n)
  \/ \E h \in Handlers : Handle(n, h)
  \/ \E g \in Procs : SendRIP(n, g)

Next ==
  \/ \E n \in Nodes : Start(n) \/ Panic(n) \/ Stop(n) \/ NodeStep(n)
  \/ \E m, n \in Nodes : Lose(m, n)
  \/ Tick

Spec == Init /\ [][Next]_vars

\* The nodes go on while one of their goroutines can, and then time passes.  Nothing
\* makes a user start or stop a node, nor the network lose a packet.
FairSpec == Spec /\ WF_vars(Tick \/ \E n \in Nodes : NodeStep(n))

-----------------------------------------------------------------------------
(* Properties.                                                             *)

Route == [next : Nodes \cup {NoNode}, cost : Costs, age : 0 .. Lifetime]
Job == [pc : {"idle", "write", "send"}, info : Route, left : Seq(Nodes),
        seen : SUBSET Costs, hop : Nodes \cup {NoNode}]

\* Type invariant.
TypeOK ==
  /\ up \in [Nodes -> {"off", "boot", "on"}]
  /\ route \in [Nodes -> Route]
  /\ lock \in [Nodes -> Handlers \cup {"free"}]
  /\ job \in [Nodes -> [Procs -> Job]]
  /\ req \in [Nodes -> [Nodes -> Nat]]
  /\ upd \in [Nodes -> [Nodes -> [Costs -> Nat]]]
  /\ timer \in [Nodes -> [periodic : 0 .. Period, gc : 0 .. Sweep]]
  /\ starts \in Nat /\ stops \in Nat /\ lost \in Nat

\* No route is better than the network allows, and none in a table is infinite:
\* whatever is delayed, reordered or read half-written, no table and no packet
\* claims fewer hops than there are.
CostSound ==
  \A n \in Nodes :
    /\ Has(n) => Dist[n] <= route[n].cost /\ route[n].cost < INFTY
    /\ \A m \in Nodes : \A c \in Costs : upd[n][m][c] > 0 => c = INFTY \/ Dist[n] <= c

\* Near[k]: the nodes that are on and at most k hops, through nodes that are on,
\* from an origin.
Settled ==
  LET on == {n \in Nodes : up[n] = "on"}
      Near[k \in 0 .. INFTY - 1] ==
        IF k = 0 THEN on \cap Origins
        ELSE LET near == Near[k - 1]
             IN  near \cup {n \in on : Neighbors(n) \cap near # {}}
  IN  \A n \in on : \A k \in 0 .. INFTY - 1 : route[n].cost <= k <=> n \in Near[k]

\* Once nodes no longer come and go and packets are no longer lost, every node
\* that is on gets the shortest route there is, and none if there is no way.
Settles == <>[]Settled

\* While every node stays on, a route is confirmed in time: even if an update is
\* lost, none gets old enough for garbageCollector to delete it, whichever way the
\* sweeps, the periodic updates and the triggered ones of the nodes interleave.
NoneExpires == stops = 0 /\ lost <= 1 => \A n \in Nodes : ~Expired(n)
=============================================================================
