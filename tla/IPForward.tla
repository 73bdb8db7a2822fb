----------------------------- MODULE IPForward ------------------------------
(***************************************************************************)
(* Forwarding of IP packets: HandleSend, handlePackets, checkDest,         *)
(* FindNext, forwardPacket and neighborUDP of src/pkg/node/node.go, while  *)
(* RIP changes the learned routes.                                         *)
(*                                                                         *)
(* Module RIP says how learned routes come and go; here they do so in any  *)
(* way at any time.  An address is a number of Width bits.                 *)
(***************************************************************************)
EXTENDS Integers, Sequences, FiniteSets
Seqs == INSTANCE SequencesExt

CONSTANTS
  Nodes,
  Width,
  Ifaces,     \* Ifaces[n]: the interfaces of n, with AssignedIP (ip) and AssignedPrefix (pre)
  Neighbors,  \* Neighbors[n]: the addresses in n's list of neighbors
  Static,     \* Static[n]: n's static routes
  Learnable,  \* Learnable[n]: prefix -> the next hops that RIP may find for it
  Near,       \* Near[n]: those that are nearer to the prefix than n is
  Traffic,    \* the packets that users send: id -> source node and destination
  TTL,
  MaxLoss     \* bound: packets that the network loses

Addr == 0 .. 2 ^ Width - 1
Size == [bits \in 0 .. Width |-> 2 ^ (Width - bits)]
Prefix == {p \in [base : Addr, bits : 0 .. Width] : p.base % Size[p.bits] = 0}
Contains(p, a) == p.base <= a /\ a < p.base + Size[p.bits]

ASSUME ConfigAssumption ==
  \A n \in Nodes :
    /\ Ifaces[n] \subseteq [ip : Addr, pre : Prefix] /\ Neighbors[n] \subseteq Addr
    /\ \A i \in Ifaces[n] : Contains(i.pre, i.ip)
    /\ Learnable[n] \in [DOMAIN Learnable[n] -> SUBSET Neighbors[n]]
    /\ DOMAIN Learnable[n] \subseteq Prefix
    /\ DOMAIN Learnable[n] \cap ({i.pre : i \in Ifaces[n]} \cup {r.pre : r \in Static[n]}) = {}
    /\ Static[n] \subseteq [pre : Prefix, next : Addr]
    /\ IsFiniteSet(Ifaces[n]) /\ IsFiniteSet(Static[n]) /\ IsFiniteSet(DOMAIN Learnable[n])
ASSUME TrafficAssumption ==
  /\ Traffic \in [DOMAIN Traffic -> [src : Nodes, dst : Addr]]
  /\ Nodes \cap {"unsent", "out", "gone", "lost"} = {}
ASSUME BoundAssumption == Width \in Nat /\ TTL \in Nat \ {0} /\ MaxLoss \in Nat

VARIABLES
  learned,  \* learned[n][pre]: the next hop of n's R route to pre, or NoHop
  net,      \* packets on the way to a neighbor
  fate,     \* what became of each packet: "unsent", "out", "gone", "lost", or where it arrived
  lost

vars == <<learned, net, fate, lost>>

-----------------------------------------------------------------------------
(* The tables, and the functions that look something up in them.           *)

NoHop == -1
NoEntry == [pre |-> [base |-> 0, bits |-> 0], next |-> NoHop, type |-> "none"]

\* An interface of n has address a, and gets what is sent to it.
Owns(n, a) == \E i \in Ifaces[n] : i.ip = a

\* Initialize enters the static routes first: an interface's entry replaces the one
\* with its prefix.
StaticRoutes(n) == {r \in Static[n] : \A i \in Ifaces[n] : i.pre # r.pre}

\* forwardingTable: local, static and learned routes.
Table(n) ==
  {[pre |-> i.pre, next |-> i.ip, type |-> "L"] : i \in Ifaces[n]}
  \cup {[pre |-> r.pre, next |-> r.next, type |-> "S"] : r \in StaticRoutes(n)}
  \cup {[pre |-> p, next |-> learned[n][p], type |-> "R"] :
          p \in {q \in DOMAIN learned[n] : learned[n][q] # NoHop}}

\* The entries whose prefix contains dst.
Matching(n, dst) == {e \in Table(n) : Contains(e.pre, dst)}

\* Mutant: the first entry is kept.
LongerFirst(e, best) == best = NoEntry

\* In the loop over the table: entry e replaces the best one so far (len is -1 at
\* first).
Longer(e, best) == best = NoEntry \/ e.pre.bits > best.pre.bits

\* The loop over the table, in the order the map happens to yield.
Best(entries) == Seqs!FoldLeft(LAMBDA best, e : IF Longer(e, best) THEN e ELSE best, NoEntry, entries)

\* The interface of the longest prefix that contains dst has that very address.
CheckDest(n, dst) ==
  \E i \in Ifaces[n] :
    /\ i.ip = dst
    /\ \A j \in Ifaces[n] : Contains(j.pre, dst) => j.pre.bits <= i.pre.bits

\* What FindNext may return.
FindNext(n, dst) ==
  IF CheckDest(n, dst) THEN {[NoEntry EXCEPT !.next = dst, !.type = "L"]}
  ELSE {Best(entries) : entries \in Seqs!SetToSeqs(Matching(n, dst))}

\* Mutant: the address in a local route is taken for a next hop.
NextAddrAny(entry, dst) == entry.next

\* A local route: the destination is a neighbor itself.
NextAddr(entry, dst) == IF entry.type = "L" THEN dst ELSE entry.next

-----------------------------------------------------------------------------
Init ==
  /\ learned = [n \in Nodes |-> [p \in DOMAIN Learnable[n] |-> NoHop]]
  /\ net = {}
  /\ fate = [id \in DOMAIN Traffic |-> "unsent"]
  /\ lost = 0

\* n sends packet id to address next; if that is not a neighbor, the packet is
\* dropped.
ForwardPacket(n, id, ttl, next, rest) ==
  IF next \in Neighbors[n]
  THEN /\ net' = rest \cup {[id |-> id, ttl |-> ttl, to |-> next]}
       /\ fate' = [fate EXCEPT ![id] = "out"]
  ELSE /\ net' = rest
       /\ fate' = [fate EXCEPT ![id] = "gone"]

\* n looks for the next hop of packet id and sends it there.  Without a route there
\* is none, and the packet is dropped.
Forward(n, id, ttl, rest) ==
  \E entry \in FindNext(n, Traffic[id].dst) :
    ForwardPacket(n, id, ttl, NextAddr(entry, Traffic[id].dst), rest)

\* A user sends a packet.
HandleSend(id) ==
  /\ fate[id] = "unsent"
  /\ Forward(Traffic[id].src, id, TTL, net)
  /\ UNCHANGED <<learned, lost>>

\* Mutants: the TTL stays; a packet goes on once too often.
AgingNot(ttl) == ttl
GoesOnAtZero(ttl) == ttl >= 0

\* header.TTL--
Aging(ttl) == ttl - 1
GoesOn(ttl) == ttl > 0

\* n gets packet m: it is for n, or goes on if its TTL allows that.
HandlePackets(n, m) ==
  LET ttl == Aging(m.ttl)
      rest == net \ {m}
  IN  /\ Owns(n, m.to)
      /\ IF CheckDest(n, Traffic[m.id].dst)
         THEN net' = rest /\ fate' = [fate EXCEPT ![m.id] = n]
         ELSE IF GoesOn(ttl) THEN Forward(n, m.id, ttl, rest)
         ELSE net' = rest /\ fate' = [fate EXCEPT ![m.id] = "gone"]
      /\ UNCHANGED <<learned, lost>>

\* RIP finds, changes or deletes the route of n to a prefix.
RouteChanges(n, p, next) ==
  /\ next # learned[n][p]
  /\ learned' = [learned EXCEPT ![n][p] = next]
  /\ UNCHANGED <<net, fate, lost>>

\* UDP loses a packet.
Lose(m) ==
  /\ lost < MaxLoss
  /\ net' = net \ {m}
  /\ fate' = [fate EXCEPT ![m.id] = "lost"]
  /\ lost' = lost + 1
  /\ UNCHANGED learned

Next ==
  \/ \E id \in DOMAIN Traffic : HandleSend(id)
  \/ \E m \in net : Lose(m) \/ \E n \in Nodes : HandlePackets(n, m)
  \/ \E n \in Nodes : \E p \in DOMAIN Learnable[n] :
       \E next \in Learnable[n][p] \cup {NoHop} : RouteChanges(n, p, next)

Spec == Init /\ [][Next]_vars

\* As long as packets are on the way, some are handled.
FairSpec == Spec /\ WF_vars(\E m \in net : \E n \in Nodes : HandlePackets(n, m))

-----------------------------------------------------------------------------
(* Properties.                                                             *)

\* Type invariant: a packet has one copy at most.
TypeOK ==
  /\ \A n \in Nodes : \A p \in DOMAIN Learnable[n] : learned[n][p] \in Learnable[n][p] \cup {NoHop}
  /\ net \subseteq [id : DOMAIN Traffic, ttl : 1 .. TTL, to : Addr]
  /\ fate \in [DOMAIN Traffic -> {"unsent", "out", "gone", "lost"} \cup Nodes]
  /\ \A id \in DOMAIN Traffic : (fate[id] = "out") <=> (\E m \in net : m.id = id)
  /\ lost \in Nat

\* Whatever the order in which the map is traversed, FindNext returns the one entry
\* with the longest prefix that contains the destination, if there is one.
LongestMatch ==
  \A n \in Nodes : \A id \in DOMAIN Traffic :
    LET dst == Traffic[id].dst
        matching == Matching(n, dst)
    IN  ~Owns(n, dst) =>
          FindNext(n, dst) =
            IF matching = {} THEN {NoEntry}
            ELSE {e \in matching : \A f \in matching : f.pre.bits <= e.pre.bits}

\* Every packet that is sent is delivered or dropped in the end, also if the
\* routes form a loop, and also if they change all the time.
PacketsEnd == \A id \in DOMAIN Traffic : fate[id] = "out" ~> fate[id] # "out"

\* Every learned route leads nearer to its prefix.
Settled ==
  \A n \in Nodes : \A p \in DOMAIN Learnable[n] : learned[n][p] \in Near[n][p]

\* A packet that travels while the routes are as RIP leaves them in the end arrives
\* at the node with that address, unless it is lost.
Arrives ==
  \A id \in DOMAIN Traffic :
    [](fate[id] = "out" => Settled)
      => (fate[id] = "out" ~> \/ fate[id] = "lost"
                              \/ \E n \in Nodes : fate[id] = n /\ Owns(n, Traffic[id].dst))
=============================================================================
