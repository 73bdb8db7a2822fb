------------------------- MODULE TCPHandshakeProofs -------------------------
(***************************************************************************)
(* Proofs about TCPHandshake for every set of clients and every bound on   *)
(* losses and early timeouts: TypeOK, Synchronized and ClientFirst are     *)
(* invariants.                                                             *)
(*                                                                         *)
(* ClientFirst is not inductive: VAccept ends a handshake with whatever    *)
(* ACK the dispatcher hands it.  The inductive invariant says why that ACK *)
(* is from the right client.  An ACK comes from a client that is done; such*)
(* a client has a socket at the server; so the dispatcher hands the ACK to *)
(* VAccept only while that socket is in SYN_RECEIVED, and one socket at    *)
(* most is, the one that VAccept is working on.                            *)
(*                                                                         *)
(* Synchronized needs more: that a client whose timers were never early    *)
(* gets no second SYNACK.  Such a client sends a SYN again only when       *)
(* nothing came of the one before, so what it asked for is in one place at *)
(* a time: a SYN on the way or with the dispatcher, a socket whose SYNACK  *)
(* VAccept is about to send, or the SYNACK.                                *)
(***************************************************************************)
EXTENDS TCPHandshake, TLAPS

\* VAccept works on the socket of acc.key.
InHandshake == acc.pc \in {"synack", "ack", "set"}

\* What a client that is done expects: the number after the server's first, or, if
\* timers were early, perhaps the first again.
Acked(n) == n \in {ServerISS, ServerISS + 1} /\ (early = 0 => n = ServerISS + 1)

SynAck(c) == Packet(c, "SYNACK", ServerISS, ClientISS + 1, FALSE)

\* The server's end after a SYN, and the client's end after a SYNACK.
ServerEnd(s) ==
  /\ s.state \in {"SYN_RECEIVED", "ESTABLISHED"}
  /\ s.cumReadNXT = ClientISS + 1 /\ s.cumWriteUNA = ServerISS + 1
ClientEnd(s) == Acked(s.cumReadNXT) /\ s.cumWriteUNA = ClientISS + 1

\* VConnect and the socket of a client.
Client == [pc : {"idle", "wait", "done", "failed"}, tries : 0 .. MaxTries, sock : Socket]

\* What may be on the way to the server, and to the clients.
ToServer(m) ==
  /\ m.c \in Clients
  /\ \/ m.flag = "SYN" /\ m = Syn(m.c)
     \/ m.flag = "ACK" /\ cl[m.c].pc = "done" /\ Acked(m.ack)
ToClient(m) ==
  /\ m.c \in Clients /\ srv[m.c] # NoSocket
  /\ \/ m.flag = "SYNACK" /\ m = SynAck(m.c)
     \/ m.flag = "ACK" /\ cl[m.c].pc = "done" /\ Acked(m.seq) /\ m.ack = ClientISS + 1

ClientInv ==
  \A c \in Clients :
    /\ cl[c].pc = "wait" => cl[c].tries < MaxTries
    /\ cl[c].pc = "done" => srv[c] # NoSocket /\ ClientEnd(cl[c].sock)

ServerInv ==
  \A c \in Clients :
    /\ srv[c] = NoSocket \/ ServerEnd(srv[c])
    /\ srv[c].state = "SYN_RECEIVED" => InHandshake /\ acc.key = c
    /\ srv[c].state = "ESTABLISHED" => cl[c].pc = "done"

AcceptInv ==
  /\ listener = "none" <=> acc.pc = "none"
  /\ InHandshake => /\ acc.key \in Clients /\ srv[acc.key] # NoSocket
                    /\ acc.pc = "set" => cl[acc.key].pc = "done"

\* The dispatcher holds an ACK during a handshake only if it is the client's.
DispatchInv ==
  disp = Nothing \/ /\ ToServer(disp) /\ listener # "none"
                    /\ disp.flag = "ACK" /\ InHandshake => acc.key = disp.c

NetInv == IsABag(net) /\ \A m \in BagToSet(net) : ToServer(m)
BackInv == IsABag(back) /\ \A m \in BagToSet(back) : ToClient(m)

\* In how many places c's wish to connect is.
Copies(m, bag) == IF m \in DOMAIN bag THEN bag[m] ELSE 0
Held(c) == IF disp = Syn(c) THEN 1 ELSE 0
Answered(c) == IF acc.pc = "synack" /\ acc.key = c THEN 1 ELSE 0
Wishes(c) == Copies(Syn(c), net) + Held(c) + Answered(c) + Copies(SynAck(c), back)

\* Without early timers it is in one at most, and in none before VConnect and after.
WishInv ==
  early = 0 =>
    \A c \in Clients :
      /\ Wishes(c) <= 1
      /\ cl[c].pc \in {"idle", "done"} => Wishes(c) = 0

IInv == TypeOK /\ ClientInv /\ ServerInv /\ AcceptInv /\ DispatchInv /\ NetInv /\ BackInv /\ WishInv

-----------------------------------------------------------------------------
(* Operators.                                                              *)

\* How many copies of a packet a bag holds.
LEMMA CopiesType ==
  ASSUME NEW bag, IsABag(bag), NEW x
  PROVE  /\ Copies(x, bag) \in Nat
         /\ x \in BagToSet(bag) <=> Copies(x, bag) # 0
BY DEF IsABag, Copies, BagToSet

\* What a bag holds after packets are added.
LEMMA AllSentIn ==
  ASSUME NEW bag, IsABag(bag), NEW S
  PROVE  /\ IsABag(bag (+) SetToBag(S))
         /\ BagToSet(bag (+) SetToBag(S)) = BagToSet(bag) \cup S
         /\ \A x : Copies(x, bag (+) SetToBag(S)) = Copies(x, bag) + IF x \in S THEN 1 ELSE 0
BY DEF IsABag, BagToSet, SetToBag, (+), Copies

\* What it holds after one is.
LEMMA SentIn ==
  ASSUME NEW bag, IsABag(bag), NEW m
  PROVE  /\ IsABag(Sent(bag, m))
         /\ BagToSet(Sent(bag, m)) = BagToSet(bag) \cup {m}
         /\ \A x : Copies(x, Sent(bag, m)) = Copies(x, bag) + IF x = m THEN 1 ELSE 0
BY AllSentIn DEF Sent

\* Of other packets it holds as many as before.
LEMMA OthersSent ==
  ASSUME NEW bag, IsABag(bag), NEW m, NEW x, x # m
  PROVE  Copies(x, Sent(bag, m)) = Copies(x, bag) /\ Copies(x, Sent(bag, m)) <= Copies(x, bag)
<1>1. Copies(x, bag) \in Nat
  BY CopiesType
<1>2. Copies(x, Sent(bag, m)) = Copies(x, bag) + 0
  BY Zenon, SentIn
<1>. QED
  BY <1>1, <1>2

\* What it holds after one of its packets is taken.
LEMMA TakenIn ==
  ASSUME NEW bag, IsABag(bag), NEW m \in BagToSet(bag)
  PROVE  /\ IsABag(Taken(bag, m))
         /\ BagToSet(Taken(bag, m)) \subseteq BagToSet(bag)
         /\ \A x : Copies(x, Taken(bag, m)) = Copies(x, bag) - IF x = m THEN 1 ELSE 0
BY DEF IsABag, BagToSet, SetToBag, Taken, (-), Copies

\* A SYN and a SYNACK say whose they are.
LEMMA SynOf ==
  ASSUME NEW c, NEW d
  PROVE  /\ Syn(c) = Syn(d) <=> c = d
         /\ SynAck(c) = SynAck(d) <=> c = d
         /\ Syn(c) # Nothing
BY Zenon DEF Syn, SynAck, Packet, Nothing

\* An ACK is neither.
LEMMA NotSyn ==
  ASSUME NEW c, NEW d, NEW seq, NEW ack, NEW data
  PROVE  /\ Packet(d, "ACK", seq, ack, data) # Syn(c)
         /\ Packet(d, "ACK", seq, ack, data) # SynAck(c)
BY Zenon DEF Syn, SynAck, Packet

\* The numbers of places are numbers.
LEMMA WishesType ==
  ASSUME NetInv, BackInv, NEW c
  PROVE  /\ Copies(Syn(c), net) \in Nat /\ Copies(SynAck(c), back) \in Nat
         /\ Held(c) \in 0 .. 1 /\ Answered(c) \in 0 .. 1 /\ Wishes(c) \in Nat
BY CopiesType DEF NetInv, BackInv, Held, Answered, Wishes

\* What a client expects is no less sure when timers are early later on.
LEMMA AckedLater ==
  ASSUME early \in Nat, early' = early \/ early' = early + 1
  PROVE  /\ \A n : Acked(n) => Acked(n)'
         /\ early' = 0 => early = 0
BY DEF Acked

\* The packets and sockets that the code makes are well-typed.
LEMMA ConstantTypes ==
  /\ Nothing \in Packets /\ NoSocket \in Socket
  /\ \A c \in Clients : Syn(c) \in Packets
  /\ \A c \in Clients, flag \in {"SYN", "SYNACK", "ACK"}, seq, ack \in Nat, data \in BOOLEAN :
       Packet(c, flag, seq, ack, data) \in Packets
<1>1. Nothing \in Packets /\ NoSocket \in Socket
  BY DEF Nothing, NoSocket, Socket, Packets, Packet
<1>2. \A c \in Clients : Syn(c) \in Packets
  BY DEF Syn, Packets, Packet, ClientISS
<1>3. \A c \in Clients, flag \in {"SYN", "SYNACK", "ACK"}, seq, ack \in Nat, data \in BOOLEAN :
        Packet(c, flag, seq, ack, data) \in Packets
  BY Zenon DEF Packets, Packet
<1>. QED
  BY <1>1, <1>2, <1>3

\* Changes of the fields of a client.
LEMMA ClientFields ==
  /\ \A r \in Client, n \in 0 .. MaxTries : [r EXCEPT !.tries = n] \in Client
  /\ \A n \in 0 .. MaxTries, s \in Socket : [pc |-> "failed", tries |-> n, sock |-> s] \in Client
  /\ \A r \in Client, s \in Socket : [r EXCEPT !.pc = "done", !.sock = s] \in Client
BY Zenon DEF Client

\* No client's wish gets into one more place, and no client is done with its own.
LEMMA NoNewWish ==
  ASSUME IInv, early' = 0 => early = 0,
         \A c \in Clients : /\ Wishes(c)' \in Nat /\ Wishes(c)' <= Wishes(c)
                            /\ cl'[c].pc \in {"idle", "done"} => cl[c].pc \in {"idle", "done"}
  PROVE  WishInv'
<1>. SUFFICES ASSUME early' = 0, NEW c \in Clients
              PROVE  Wishes(c)' <= 1 /\ (cl'[c].pc \in {"idle", "done"} => Wishes(c)' = 0)
  BY DEF WishInv
<1>1. Wishes(c) \in Nat
  BY WishesType DEF IInv
<1>2. Wishes(c) <= 1 /\ (cl[c].pc \in {"idle", "done"} => Wishes(c) = 0)
  BY Zenon DEF IInv, WishInv
<1>3. /\ Wishes(c)' \in Nat /\ Wishes(c)' <= Wishes(c)
      /\ cl'[c].pc \in {"idle", "done"} => cl[c].pc \in {"idle", "done"}
  OBVIOUS
<1>. QED
  BY <1>1, <1>2, <1>3

\* In particular if packets of other kinds come and any go.
LEMMA OtherPackets ==
  ASSUME IInv, early' = 0 => early = 0, UNCHANGED disp,
         acc' = acc \/ (acc'.pc # "synack" /\ acc.pc # "synack"),
         \A c \in Clients :
           /\ Copies(Syn(c), net') \in Nat /\ Copies(Syn(c), net') <= Copies(Syn(c), net)
           /\ Copies(SynAck(c), back') \in Nat /\ Copies(SynAck(c), back') <= Copies(SynAck(c), back)
           /\ cl'[c].pc \in {"idle", "done"} => cl[c].pc \in {"idle", "done"}
  PROVE  WishInv'
<1>1. ASSUME NEW c \in Clients
      PROVE  Wishes(c)' \in Nat /\ Wishes(c)' <= Wishes(c)
  <2>1. Held(c)' = Held(c) /\ Answered(c)' = Answered(c)
    BY DEF Held, Answered, Syn, Packet
  <2>2. /\ Copies(Syn(c), net) \in Nat /\ Copies(SynAck(c), back) \in Nat
        /\ Held(c) \in 0 .. 1 /\ Answered(c) \in 0 .. 1
    BY WishesType DEF IInv
  <2>3. /\ Wishes(c) = Copies(Syn(c), net) + Held(c) + Answered(c) + Copies(SynAck(c), back)
        /\ Wishes(c)' = Copies(Syn(c), net') + Held(c)' + Answered(c)' + Copies(SynAck(c), back')
    BY DEF Wishes, Copies, Syn, SynAck, Packet
  <2>. QED
    BY <2>1, <2>2, <2>3
<1>. QED
  BY <1>1, NoNewWish

\* Or if wishes change place between the dispatcher and VAccept.
LEMMA SamePlaces ==
  ASSUME IInv, UNCHANGED <<cl, net, back, early>>,
         \A c \in Clients : /\ Held(c)' \in 0 .. 1 /\ Answered(c)' \in 0 .. 1
                            /\ Held(c)' + Answered(c)' <= Held(c) + Answered(c)
  PROVE  WishInv'
<1>1. ASSUME NEW c \in Clients
      PROVE  Wishes(c)' \in Nat /\ Wishes(c)' <= Wishes(c)
  <2>1. /\ Copies(Syn(c), net) \in Nat /\ Copies(SynAck(c), back) \in Nat
        /\ Held(c) \in 0 .. 1 /\ Answered(c) \in 0 .. 1
    BY Zenon, WishesType DEF IInv
  <2>2. Copies(Syn(c), net)' = Copies(Syn(c), net) /\ Copies(SynAck(c), back)' = Copies(SynAck(c), back)
    BY Zenon DEF Copies, Syn, SynAck, Packet
  <2>. QED
    BY <2>1, <2>2 DEF Wishes
<1>. QED
  BY Zenon, <1>1, NoNewWish

-----------------------------------------------------------------------------
(* The initial state, and the actions of the clients.                      *)

\* The inductive invariant holds initially.
LEMMA InitInv == Init => IInv
<1>. SUFFICES ASSUME Init PROVE IInv
  OBVIOUS
<1>1. /\ BagToSet(net) = {} /\ BagToSet(back) = {} /\ IsABag(net) /\ IsABag(back)
      /\ \A m : Copies(m, net) = 0 /\ Copies(m, back) = 0
  BY DEF Init, EmptyBag, SetToBag, BagToSet, IsABag, Copies
<1>2. TypeOK
  BY <1>1, ConstantTypes DEF Init, TypeOK, MaxTries
<1>3. ClientInv /\ ServerInv /\ AcceptInv
  BY DEF Init, ClientInv, ServerInv, AcceptInv, InHandshake, NoSocket
<1>4. WishInv
  BY <1>1 DEF Init, WishInv, Wishes, Held, Answered, Nothing, Syn, Packet
<1>. QED
  BY <1>1, <1>2, <1>3, <1>4 DEF IInv, DispatchInv, NetInv, BackInv, Init

\* VConnect makes a socket for a client that had none.
LEMMA VConnectStep ==
  ASSUME IInv, NEW c \in Clients, VConnect(c)
  PROVE  IInv'
<1>. USE DEF IInv
<1>1. /\ IsABag(net') /\ BagToSet(net') = BagToSet(net) \cup {Syn(c)}
      /\ \A x : Copies(x, net') = Copies(x, net) + IF x = Syn(c) THEN 1 ELSE 0
  BY SentIn DEF VConnect, NetInv
<1>2. UNCHANGED <<srv, listener, disp, acc, back, stored, lost, early>>
  BY DEF VConnect
<1>3. /\ cl[c].pc = "idle"
      /\ \A d \in Clients : d # c => cl'[d] = cl[d]
      /\ cl'[c].pc = "wait" /\ cl'[c].tries = 0
      /\ \A d \in Clients : cl[d].pc = "done" => cl'[d].pc = "done" /\ cl'[d].sock = cl[d].sock
  BY DEF VConnect, TypeOK
<1>4. TypeOK'
  <2>1. cl' \in [Clients -> Client]
    BY DEF VConnect, TypeOK, NoSocket, Socket, Client, MaxTries
  <2>. QED
    BY <1>1, <1>2, <2>1, ConstantTypes DEF TypeOK, Client
<1>5. ClientInv' /\ ServerInv' /\ AcceptInv'
  BY <1>2, <1>3 DEF ClientInv, ClientEnd, Acked, ServerInv, AcceptInv, InHandshake, MaxTries
<1>6. \A m : (ToServer(m) => ToServer(m)') /\ (ToClient(m) => ToClient(m)')
  BY <1>2, <1>3 DEF ToServer, ToClient, Acked
<1>7. ToServer(Syn(c))'
  BY DEF ToServer, Syn, Packet
<1>8. DispatchInv' /\ NetInv' /\ BackInv'
  BY <1>1, <1>2, <1>6, <1>7 DEF DispatchInv, NetInv, BackInv, InHandshake
<1>9. WishInv'
  <2>. SUFFICES ASSUME early' = 0, NEW d \in Clients
                PROVE  Wishes(d)' <= 1 /\ (cl'[d].pc \in {"idle", "done"} => Wishes(d)' = 0)
    BY DEF WishInv
  <2>1. Wishes(d) \in Nat /\ Wishes(d) <= 1 /\ (cl[d].pc \in {"idle", "done"} => Wishes(d) = 0)
    BY Zenon, <1>2, WishesType DEF WishInv
  <2>2. Wishes(d)' = Wishes(d) + IF d = c THEN 1 ELSE 0
    <3>1. Syn(d) = Syn(c) <=> d = c
      BY SynOf
    <3>2. /\ Copies(Syn(d), net) \in Nat /\ Copies(SynAck(d), back) \in Nat
          /\ Held(d) \in 0 .. 1 /\ Answered(d) \in 0 .. 1
      BY WishesType
    <3>3. Held(d)' = Held(d) /\ Answered(d)' = Answered(d) /\ Copies(SynAck(d), back)' = Copies(SynAck(d), back)
      BY <1>2 DEF Held, Answered, Copies, Syn, SynAck, Packet
    <3>4. Copies(Syn(d), net)' = Copies(Syn(d), net) + IF d = c THEN 1 ELSE 0
      BY <1>1, <3>1 DEF Syn, Packet
    <3>. QED
      BY <3>2, <3>3, <3>4 DEF Wishes
  <2>. QED
    BY <1>3, <2>1, <2>2
<1>. QED
  BY <1>4, <1>5, <1>8, <1>9

\* Clients that wait count an attempt, and send a SYN or give up.
LEMMA AgainStep ==
  ASSUME IInv, NEW cs \in SUBSET Waiting, Again(cs),
         UNCHANGED <<srv, listener, disp, acc, back, stored, lost>>,
         \/ early' = early + 1
         \/ early' = early /\ \A c \in Clients : Wishes(c) = 0
  PROVE  IInv'
<1>. USE DEF IInv
<1>. DEFINE on == {c \in cs : ~GivesUp(Tried(cl[c].tries))}
<1>0. cs \in SUBSET Clients /\ \A c \in cs : cl[c].pc = "wait"
  BY DEF Waiting
<1>1. /\ IsABag(net') /\ BagToSet(net') = BagToSet(net) \cup {Syn(c) : c \in on}
      /\ \A x : Copies(x, net') = Copies(x, net) + IF x \in {Syn(c) : c \in on} THEN 1 ELSE 0
  BY AllSentIn DEF Again, NetInv
<1>11. early \in Nat /\ early' \in Nat /\ (early' = early \/ early' = early + 1)
  BY DEF TypeOK
<1>12. \A n : Acked(n) => Acked(n)'
  BY Zenon, <1>11, AckedLater
<1>2. \A c \in cs : cl[c].tries \in 0 .. MaxTries /\ cl[c].tries < MaxTries
  BY <1>0 DEF TypeOK, ClientInv
<1>3. ASSUME NEW c \in Clients
      PROVE  /\ c \notin cs => cl'[c] = cl[c]
             /\ c \in on => cl'[c] = [cl[c] EXCEPT !.tries = Tried(cl[c].tries)]
             /\ c \in cs /\ c \notin on =>
                  cl'[c] = [pc |-> "failed", tries |-> Tried(cl[c].tries), sock |-> NoSocket]
  BY DEF Again
<1>4. ASSUME NEW c \in Clients
      PROVE  /\ cl'[c] \in Client
             /\ cl'[c].pc = "wait" => cl'[c].tries < MaxTries
             /\ c \in cs => cl'[c].pc # "done"
             /\ c \notin cs => cl'[c] = cl[c]
             /\ c \in on => cl'[c].pc = "wait"
  <2>0. cl[c] \in Client
    BY DEF TypeOK, Client
  <2>1. CASE c \notin cs
    BY Zenon, <1>3, <2>0, <2>1 DEF ClientInv
  <2>2. CASE c \in on
    <3>1. Tried(cl[c].tries) \in 0 .. MaxTries /\ Tried(cl[c].tries) < MaxTries /\ cl[c].pc = "wait"
      BY <1>0, <1>2, <2>2 DEF Tried, GivesUp, MaxTries
    <3>2. cl'[c] = [cl[c] EXCEPT !.tries = Tried(cl[c].tries)]
      BY Zenon, <1>3, <2>2
    <3>3. cl'[c] \in Client
      BY Zenon, <2>0, <3>1, <3>2, ClientFields
    <3>4. cl'[c].pc = cl[c].pc /\ cl'[c].tries = Tried(cl[c].tries)
      BY <2>0, <3>2 DEF Client
    <3>. QED
      BY <2>2, <3>1, <3>3, <3>4
  <2>3. CASE c \in cs /\ c \notin on
    <3>1. Tried(cl[c].tries) \in 0 .. MaxTries
      BY <1>2, <2>3 DEF Tried, MaxTries
    <3>2. cl'[c] = [pc |-> "failed", tries |-> Tried(cl[c].tries), sock |-> NoSocket]
      BY Zenon, <1>3, <2>3
    <3>. QED
      BY <2>3, <3>1, <3>2, ConstantTypes DEF Client
  <2>. QED
    BY <2>1, <2>2, <2>3
<1>41. \A d \in Clients : cl[d].pc = "done" => cl'[d].pc = "done" /\ cl'[d].sock = cl[d].sock
  BY <1>0, <1>4
<1>5. TypeOK'
  <2>3. cl' \in [Clients -> Client]
    BY <1>4 DEF Again
  <2>4. BagToSet(net') \subseteq Packets
    BY <1>0, <1>1, ConstantTypes DEF TypeOK
  <2>. QED
    BY Zenon, <1>11, <2>3, <2>4 DEF TypeOK, Client
<1>6. ClientInv'
  <2>. SUFFICES ASSUME NEW c \in Clients
                PROVE  /\ cl'[c].pc = "wait" => cl'[c].tries < MaxTries
                       /\ cl'[c].pc = "done" => srv'[c] # NoSocket /\ ClientEnd(cl[c].sock)'
    BY Zenon DEF ClientInv
  <2>1. cl'[c].pc = "done" => cl'[c] = cl[c]
    BY Zenon, <1>4
  <2>. QED
    BY Zenon, <1>4, <1>12, <2>1 DEF ClientInv, ClientEnd
<1>7. ServerInv' /\ AcceptInv'
  BY <1>41 DEF ServerInv, AcceptInv, InHandshake
<1>8. \A m : (ToServer(m) => ToServer(m)') /\ (ToClient(m) => ToClient(m)')
  BY Zenon, <1>12, <1>41 DEF ToServer, ToClient
<1>9. \A c \in on : ToServer(Syn(c))'
  BY <1>0 DEF ToServer, Syn, Packet
<1>10. DispatchInv' /\ NetInv' /\ BackInv'
  BY Zenon, <1>1, <1>8, <1>9 DEF DispatchInv, NetInv, BackInv, InHandshake
<1>13. WishInv'
  <2>. SUFFICES ASSUME early' = 0, NEW d \in Clients
                PROVE  Wishes(d)' <= 1 /\ (cl'[d].pc \in {"idle", "done"} => Wishes(d)' = 0)
    BY Zenon DEF WishInv
  <2>1. Wishes(d) = 0
    BY <1>11
  <2>2. Wishes(d)' = Wishes(d) + IF d \in on THEN 1 ELSE 0
    <3>1. Syn(d) \in {Syn(c) : c \in on} <=> d \in on
      BY Zenon, SynOf
    <3>2. /\ Copies(Syn(d), net) \in Nat /\ Copies(SynAck(d), back) \in Nat
          /\ Held(d) \in 0 .. 1 /\ Answered(d) \in 0 .. 1
      BY Zenon, WishesType
    <3>3. Held(d)' = Held(d) /\ Answered(d)' = Answered(d) /\ Copies(SynAck(d), back)' = Copies(SynAck(d), back)
      BY Zenon DEF Held, Answered, Copies, Syn, SynAck, Packet
    <3>4. Copies(Syn(d), net)' = Copies(Syn(d), net) + IF d \in on THEN 1 ELSE 0
      BY Zenon, <1>1, <3>1 DEF Syn, Packet
    <3>. QED
      BY <3>2, <3>3, <3>4 DEF Wishes
  <2>3. d \in on => cl'[d].pc = "wait"
    BY Zenon, <1>4
  <2>. QED
    BY <2>1, <2>2, <2>3
<1>. QED
  BY <1>5, <1>6, <1>7, <1>10, <1>13

\* When nothing but empty ACKs is under way, no wish is.
LEMMA QuietWishes ==
  ASSUME IInv, Quiet
  PROVE  \A c \in Clients : Wishes(c) = 0
<1>. SUFFICES ASSUME NEW c \in Clients
              PROVE  Wishes(c) = 0
  OBVIOUS
<1>1. Syn(c) \notin BagToSet(net) /\ SynAck(c) \notin BagToSet(back)
  BY DEF Quiet, Chatter, Syn, SynAck, Packet
<1>2. Copies(Syn(c), net) = 0 /\ Copies(SynAck(c), back) = 0
  BY <1>1 DEF Copies, BagToSet
<1>3. disp # Syn(c)
  BY Zenon, SynOf DEF Quiet, IInv, DispatchInv, AcceptInv
<1>4. Answered(c) = 0
  BY DEF Quiet, Answered
<1>. QED
  BY <1>2, <1>3, <1>4 DEF Wishes, Held

\* A packet from the server for a client that waits: it is a SYNACK, and with it c's
\* wish is gone.
LEMMA ClientReceiveStep ==
  ASSUME IInv, NEW c \in Clients, NEW m \in BagToSet(back), ClientReceive(c, m)
  PROVE  IInv'
<1>. USE DEF IInv
<1>. DEFINE a == Packet(c, "ACK", m.ack, m.seq + 1, FALSE)
<1>1. /\ m.c = c /\ cl[c].pc = "wait" /\ srv[c] # NoSocket /\ m = SynAck(c)
      /\ m.flag = "SYNACK" /\ m.seq = ServerISS /\ m.ack = ClientISS + 1
  <2>1. m.c = c /\ cl[c].pc = "wait" /\ ToClient(m)
    BY Zenon DEF ClientReceive, BackInv
  <2>2. m = SynAck(c) /\ srv[c] # NoSocket
    BY <2>1 DEF ToClient
  <2>. QED
    BY <2>1, <2>2 DEF SynAck, Packet
<1>2. /\ cl' = [cl EXCEPT ![c].pc = "done", ![c].sock = Connected(m)]
      /\ net' = Sent(net, a) /\ back' = Taken(back, m)
      /\ UNCHANGED <<srv, listener, disp, acc, stored, lost, early>>
  BY <1>1 DEF ClientReceive
<1>3. /\ BagToSet(net') = BagToSet(net) \cup {a} /\ BagToSet(back') \subseteq BagToSet(back)
      /\ IsABag(net') /\ IsABag(back')
      /\ \A x : Copies(x, net') = Copies(x, net) + IF x = a THEN 1 ELSE 0
      /\ \A x : Copies(x, back') = Copies(x, back) - IF x = m THEN 1 ELSE 0
  BY Zenon, <1>2, SentIn, TakenIn DEF NetInv, BackInv
<1>4. Connected(m) \in Socket /\ ClientEnd(Connected(m))' /\ Acked(m.seq + 1)'
  BY <1>1 DEF Connected, Socket, ClientEnd, Acked, ClientISS, ServerISS
<1>5. cl \in [Clients -> Client]
  BY DEF TypeOK, Client
<1>6. /\ cl'[c] = [cl[c] EXCEPT !.pc = "done", !.sock = Connected(m)]
      /\ \A d \in Clients : d # c => cl'[d] = cl[d]
  BY <1>2, <1>5
<1>7. cl'[c] \in Client /\ cl'[c].pc = "done" /\ cl'[c].sock = Connected(m)
  <2>1. cl[c] \in Client
    BY <1>5
  <2>2. cl'[c] \in Client
    BY Zenon, <1>4, <1>6, <2>1, ClientFields
  <2>. QED
    BY <1>6, <2>1, <2>2 DEF Client
<1>8. cl' \in [Clients -> Client]
  BY Zenon, <1>2, <1>5, <1>6, <1>7
<1>9. a \in Packets
  <2>1. m.ack \in Nat /\ m.seq + 1 \in Nat
    BY <1>1 DEF ClientISS, ServerISS
  <2>. QED
    BY <2>1 DEF Packet, Packets
<1>10. TypeOK'
  BY Zenon, <1>2, <1>3, <1>8, <1>9 DEF TypeOK, Client
<1>. DEFINE same == \A n : Acked(n) => Acked(n)'
<1>101. same
  BY Zenon, <1>2 DEF Acked
<1>11. ClientInv' /\ ServerInv' /\ AcceptInv'
  <2>1. ClientInv'
    BY Zenon, <1>1, <1>2, <1>4, <1>6, <1>7, <1>101 DEF ClientInv, ClientEnd
  <2>2. \A d \in Clients : cl[d].pc = "done" => cl'[d].pc = "done"
    BY Zenon, <1>6, <1>7
  <2>. QED
    BY Zenon, <1>2, <2>1, <2>2 DEF ServerInv, AcceptInv, InHandshake
<1>12. \A x : (ToServer(x) => ToServer(x)') /\ (ToClient(x) => ToClient(x)')
  BY Zenon, <1>2, <1>6, <1>7, <1>101 DEF ToServer, ToClient
<1>13. ToServer(a)'
  BY <1>4, <1>7 DEF ToServer, Packet
<1>14. DispatchInv' /\ NetInv' /\ BackInv'
  BY Zenon, <1>2, <1>3, <1>12, <1>13 DEF DispatchInv, NetInv, BackInv, InHandshake
<1>15. WishInv'
  <2>. SUFFICES ASSUME early' = 0, NEW d \in Clients
                PROVE  Wishes(d)' <= 1 /\ (cl'[d].pc \in {"idle", "done"} => Wishes(d)' = 0)
    BY Zenon DEF WishInv
  <2>1. Wishes(d) \in Nat /\ Wishes(d) <= 1 /\ (cl[d].pc \in {"idle", "done"} => Wishes(d) = 0)
    BY Zenon, <1>2, WishesType DEF WishInv
  <2>2. Wishes(d)' = Wishes(d) - IF d = c THEN 1 ELSE 0
    <3>1. a # Syn(d) /\ (SynAck(d) = m <=> d = c)
      <4>1. m = SynAck(c) /\ (SynAck(d) = SynAck(c) <=> d = c)
        BY Zenon, <1>1, SynOf
      <4>2. a # Syn(d)
        BY Zenon, NotSyn
      <4>. QED
        BY Zenon, <4>1, <4>2
    <3>2. /\ Copies(Syn(d), net) \in Nat /\ Copies(SynAck(d), back) \in Nat
          /\ Held(d) \in 0 .. 1 /\ Answered(d) \in 0 .. 1
      BY Zenon, WishesType
    <3>3. Held(d)' = Held(d) /\ Answered(d)' = Answered(d)
      BY Zenon, <1>2 DEF Held, Answered, Syn, Packet
    <3>4. Copies(Syn(d), net') = Copies(Syn(d), net)
      BY Zenon, <1>2, <3>1, OthersSent DEF NetInv
    <3>5. Copies(SynAck(d), back)' = Copies(SynAck(d), back) - IF d = c THEN 1 ELSE 0
      BY Zenon, <1>3, <3>1 DEF SynAck, Packet
    <3>. QED
      BY <3>2, <3>3, <3>4, <3>5 DEF Wishes
  <2>3. d = c => Wishes(d)' \in Nat
    <3>1. SynAck(c) \in BagToSet(back) /\ Copies(SynAck(c), back) \in Nat
      BY <1>1, WishesType
    <3>2. Copies(SynAck(c), back) >= 1
      BY <3>1, CopiesType DEF BackInv
    <3>3. Wishes(c) >= 1
      BY <3>2, WishesType DEF Wishes
    <3>. QED
      BY <2>1, <2>2, <3>3
  <2>. QED
    BY <1>6, <2>1, <2>2, <2>3
<1>. QED
  BY <1>10, <1>11, <1>14, <1>15

\* Steps after which other packets are under way, and nothing else has changed.
LEMMA SamePackets ==
  ASSUME IInv, UNCHANGED <<cl, srv, listener, disp, acc, early>>,
         lost' \in [{"SYN", "SYNACK", "ACK"} -> Nat], stored' \subseteq Clients,
         IsABag(net'), \A m \in BagToSet(net') : m \in BagToSet(net) \/ (m \in Packets /\ ToServer(m)),
         IsABag(back'), \A m \in BagToSet(back') : m \in BagToSet(back) \/ (m \in Packets /\ ToClient(m)),
         \A c \in Clients : /\ Copies(Syn(c), net') <= Copies(Syn(c), net)
                            /\ Copies(SynAck(c), back') <= Copies(SynAck(c), back)
  PROVE  IInv'
<1>1. TypeOK'
  BY DEF TypeOK, IInv
<1>2. \A n : Acked(n) => Acked(n)'
  BY Zenon DEF Acked
<1>3. ClientInv' /\ ServerInv' /\ AcceptInv'
  BY Zenon, <1>2 DEF ClientInv, ClientEnd, ServerInv, AcceptInv, InHandshake, IInv
<1>4. \A m : (ToServer(m) => ToServer(m)') /\ (ToClient(m) => ToClient(m)')
  BY Zenon, <1>2 DEF ToServer, ToClient
<1>5. DispatchInv'
  BY Zenon, <1>4 DEF DispatchInv, InHandshake, IInv
<1>6. NetInv' /\ BackInv'
  BY Zenon, <1>4 DEF NetInv, BackInv, IInv
<1>7. WishInv'
  BY OtherPackets, CopiesType
<1>. QED
  BY Zenon, <1>1, <1>3, <1>5, <1>6, <1>7 DEF IInv

\* A packet to a client that has failed is dropped.
LEMMA ClientDropStep ==
  ASSUME IInv, NEW c \in Clients, NEW m \in BagToSet(back), ClientDrop(c, m)
  PROVE  IInv'
<1>1. IsABag(net) /\ IsABag(back) /\ TypeOK
  BY Zenon DEF IInv, NetInv, BackInv
<1>2. /\ IsABag(back') /\ BagToSet(back') \subseteq BagToSet(back)
      /\ \A d \in Clients : Copies(SynAck(d), back') <= Copies(SynAck(d), back)
  BY <1>1, TakenIn, CopiesType DEF ClientDrop
<1>3. \A d \in Clients : Copies(Syn(d), net') <= Copies(Syn(d), net)
  BY <1>1, CopiesType DEF ClientDrop
<1>. QED
  BY Zenon, <1>1, <1>2, <1>3, SamePackets DEF ClientDrop, TypeOK

\* A packet is lost.
LEMMA LoseStep ==
  ASSUME IInv, Lose
  PROVE  IInv'
<1>0. IsABag(net) /\ IsABag(back) /\ TypeOK
  BY Zenon DEF IInv, NetInv, BackInv
<1>1. ASSUME NEW m \in BagToSet(net), net' = Taken(net, m), UNCHANGED back,
             lost' = [lost EXCEPT ![m.flag] = @ + 1]
      PROVE  IInv'
  <2>1. m.flag \in {"SYN", "SYNACK", "ACK"}
    BY DEF IInv, NetInv, ToServer
  <2>2. lost' \in [{"SYN", "SYNACK", "ACK"} -> Nat]
    BY <1>0, <1>1, <2>1 DEF TypeOK
  <2>3. /\ IsABag(net') /\ BagToSet(net') \subseteq BagToSet(net)
        /\ \A d \in Clients : /\ Copies(Syn(d), net') <= Copies(Syn(d), net)
                              /\ Copies(SynAck(d), back') <= Copies(SynAck(d), back)
    BY <1>0, <1>1, TakenIn, CopiesType
  <2>. QED
    BY Zenon, <1>0, <1>1, <2>2, <2>3, SamePackets DEF Lose, TypeOK
<1>2. ASSUME NEW m \in BagToSet(back), back' = Taken(back, m), UNCHANGED net,
             lost' = [lost EXCEPT ![m.flag] = @ + 1]
      PROVE  IInv'
  <2>1. m.flag \in {"SYN", "SYNACK", "ACK"}
    BY DEF IInv, BackInv, ToClient
  <2>2. lost' \in [{"SYN", "SYNACK", "ACK"} -> Nat]
    BY <1>0, <1>2, <2>1 DEF TypeOK
  <2>3. /\ IsABag(back') /\ BagToSet(back') \subseteq BagToSet(back)
        /\ \A d \in Clients : /\ Copies(Syn(d), net') <= Copies(Syn(d), net)
                              /\ Copies(SynAck(d), back') <= Copies(SynAck(d), back)
    BY <1>0, <1>2, TakenIn, CopiesType
  <2>. QED
    BY Zenon, <1>0, <1>2, <2>2, <2>3, SamePackets DEF Lose, TypeOK
<1>. QED
  BY Zenon, <1>1, <1>2 DEF Lose

\* SenderThread of a client that is done sends its segment.
LEMMA DataStep ==
  ASSUME IInv, NEW c \in Clients, Data(c)
  PROVE  IInv'
<1>. DEFINE m == Segment(c)
<1>0. IsABag(net) /\ IsABag(back) /\ TypeOK
  BY Zenon DEF IInv, NetInv, BackInv
<1>1. /\ cl[c].pc = "done" /\ net' = Sent(net, m)
      /\ UNCHANGED <<cl, srv, listener, disp, acc, back, stored, lost, early>>
  BY Zenon DEF Data, DataDue
<1>2. m \in Packets
  BY Zenon, <1>0, ConstantTypes DEF TypeOK, Socket, Segment
<1>3. ToServer(m)
  <2>1. ClientEnd(cl[c].sock)
    BY Zenon, <1>1 DEF IInv, ClientInv
  <2>. QED
    BY <1>1, <2>1 DEF ToServer, Segment, Packet, ClientEnd
<1>4. IsABag(net') /\ BagToSet(net') = BagToSet(net) \cup {m}
  BY Zenon, <1>0, <1>1, SentIn
<1>5. \A d \in Clients : /\ Copies(Syn(d), net') <= Copies(Syn(d), net)
                         /\ Copies(SynAck(d), back') <= Copies(SynAck(d), back)
  <2>1. \A d \in Clients : m # Syn(d)
    BY Zenon, NotSyn DEF Segment
  <2>. QED
    BY <1>0, <1>1, <2>1, OthersSent, CopiesType
<1>. QED
  BY Zenon, <1>0, <1>1, <1>2, <1>3, <1>4, <1>5, SamePackets DEF TypeOK

\* ReceiverThread of a client that is done: a SYNACK is a second one, which takes an
\* early timer; the number of an empty ACK is the one that the client expects.
LEMMA ClientAnswerStep ==
  ASSUME IInv, NEW c \in Clients, NEW m \in BagToSet(back), ClientAnswer(c, m)
  PROVE  IInv'
<1>. DEFINE a == Packet(c, "ACK", m.ack, m.seq, FALSE)
<1>0. IsABag(net) /\ IsABag(back) /\ TypeOK /\ ClientInv /\ ServerInv /\ AcceptInv
  BY Zenon DEF IInv, NetInv, BackInv
<1>1. /\ m.c = c /\ cl[c].pc = "done" /\ back' = Taken(back, m)
      /\ UNCHANGED <<srv, listener, disp, acc, stored, lost, early>>
  BY Zenon DEF ClientAnswer
<1>2. /\ IsABag(back') /\ BagToSet(back') \subseteq BagToSet(back)
      /\ \A d \in Clients : Copies(SynAck(d), back') <= Copies(SynAck(d), back)
  BY <1>0, <1>1, TakenIn, CopiesType
<1>3. CASE UNCHANGED <<cl, net>>
  <2>1. \A d \in Clients : Copies(Syn(d), net') <= Copies(Syn(d), net)
    BY <1>0, <1>3, CopiesType
  <2>. QED
    BY Zenon, <1>0, <1>1, <1>2, <1>3, <2>1, SamePackets DEF TypeOK
<1>4. CASE cl' = [cl EXCEPT ![c].sock.cumReadNXT = m.seq] /\ net' = Sent(net, a)
  <2>1. ToClient(m)
    BY Zenon DEF IInv, BackInv
  <2>2. Acked(m.seq) /\ m.ack = ClientISS + 1
    <3>1. CASE m.flag = "ACK"
      BY <2>1, <3>1 DEF ToClient
    <3>2. CASE m = SynAck(c)
      <4>1. Copies(SynAck(c), back) \in Nat /\ Copies(SynAck(c), back) # 0
        BY <1>0, <3>2, CopiesType
      <4>2. Wishes(c) # 0
        BY <4>1, WishesType DEF Wishes, IInv
      <4>3. early # 0
        BY Zenon, <1>1, <4>2 DEF IInv, WishInv
      <4>. QED
        BY <3>2, <4>3 DEF SynAck, Packet, Acked
    <3>. QED
      BY Zenon, <1>1, <2>1, <3>1, <3>2 DEF ToClient
  <2>3. m.seq \in Nat /\ m.ack \in Nat
    BY <2>2 DEF Acked, ServerISS, ClientISS
  <2>4. cl \in [Clients -> Client]
    BY Zenon, <1>0 DEF TypeOK, Client
  <2>5. /\ cl'[c] = [cl[c] EXCEPT !.sock = [cl[c].sock EXCEPT !.cumReadNXT = m.seq]]
        /\ \A d \in Clients : d # c => cl'[d] = cl[d]
    BY <1>4, <2>4 DEF Client
  <2>6. /\ cl'[c].pc = "done" /\ cl'[c].sock.cumReadNXT = m.seq /\ cl'[c].tries = cl[c].tries
        /\ cl'[c].sock.cumWriteUNA = cl[c].sock.cumWriteUNA
        /\ cl'[c] \in Client
    <3>1. cl[c] \in Client
      BY <2>4
    <3>2. cl[c].sock \in Socket
      BY <3>1 DEF Client
    <3>3. [cl[c].sock EXCEPT !.cumReadNXT = m.seq] \in Socket
      BY Zenon, <2>3, <3>2 DEF Socket
    <3>4. [cl[c] EXCEPT !.sock = [cl[c].sock EXCEPT !.cumReadNXT = m.seq]] \in Client
      BY Zenon, <3>1, <3>3 DEF Client
    <3>. QED
      BY <1>1, <2>5, <3>1, <3>2, <3>4 DEF Client, Socket
  <2>7. cl' \in [Clients -> Client]
    BY Zenon, <1>4, <2>4, <2>5, <2>6
  <2>8. a \in Packets
    BY Zenon, <2>3, ConstantTypes
  <2>9. /\ IsABag(net') /\ BagToSet(net') = BagToSet(net) \cup {a}
        /\ \A d \in Clients : Copies(Syn(d), net') <= Copies(Syn(d), net)
    <3>1. \A d \in Clients : a # Syn(d)
      BY Zenon, NotSyn
    <3>. QED
      BY Zenon, <1>0, <1>4, <3>1, SentIn, OthersSent
  <2>10. TypeOK'
    BY Zenon, <1>0, <1>1, <1>2, <2>7, <2>8, <2>9 DEF TypeOK, Client
  <2>11. (\A n : Acked(n) => Acked(n)') /\ \A d \in Clients : cl'[d].pc = cl[d].pc
    BY Zenon, <1>1, <2>5, <2>6 DEF Acked
  <2>12. ClientInv'
    <3>. SUFFICES ASSUME NEW d \in Clients
                  PROVE  /\ cl'[d].pc = "wait" => cl'[d].tries < MaxTries
                         /\ cl'[d].pc = "done" => srv'[d] # NoSocket /\ ClientEnd(cl[d].sock)'
      BY Zenon DEF ClientInv
    <3>1. CASE d = c
      BY Zenon, <1>0, <1>1, <2>2, <2>6, <2>11, <3>1 DEF ClientInv, ClientEnd
    <3>2. CASE d # c
      BY Zenon, <1>0, <1>1, <2>5, <2>11, <3>2 DEF ClientInv, ClientEnd
    <3>. QED
      BY <3>1, <3>2
  <2>13. ServerInv' /\ AcceptInv'
    BY Zenon, <1>0, <1>1, <2>11 DEF ServerInv, AcceptInv, InHandshake
  <2>14. \A x : (ToServer(x) => ToServer(x)') /\ (ToClient(x) => ToClient(x)')
    BY Zenon, <1>1, <2>11 DEF ToServer, ToClient
  <2>15. ToServer(a)'
    BY <2>2, <2>6, <2>11 DEF ToServer, Packet
  <2>16. DispatchInv' /\ NetInv' /\ BackInv'
    BY Zenon, <1>1, <1>2, <2>9, <2>14, <2>15 DEF DispatchInv, NetInv, BackInv, InHandshake, IInv
  <2>17. WishInv'
    <3>1. \A d \in Clients : Copies(Syn(d), net') \in Nat /\ Copies(SynAck(d), back') \in Nat
      BY <1>2, <2>9, CopiesType
    <3>. QED
      BY Zenon, <1>1, <1>2, <2>9, <2>11, <3>1, OtherPackets
  <2>. QED
    BY Zenon, <2>10, <2>12, <2>13, <2>16, <2>17 DEF IInv
<1>. QED
  BY Zenon, <1>3, <1>4 DEF ClientAnswer

-----------------------------------------------------------------------------
(* The dispatcher and the server.                                          *)

\* ReceiverThread takes a packet, and answers an empty ACK.
LEMMA ToSocketStep ==
  ASSUME IInv, NEW m \in BagToSet(net), ToSocket(m)
  PROVE  IInv'
<1>. DEFINE a == Packet(m.c, "ACK", m.ack, srv[m.c].cumReadNXT, FALSE)
<1>0. IsABag(net) /\ IsABag(back) /\ TypeOK /\ ToServer(m)
  BY Zenon DEF IInv, NetInv, BackInv
<1>1. /\ net' = Taken(net, m) /\ srv[m.c] # NoSocket /\ stored' \subseteq Clients
      /\ UNCHANGED <<cl, srv, listener, disp, acc, lost, early>>
  BY <1>0 DEF ToSocket, ForSocket, ToServer, TypeOK
<1>2. /\ IsABag(net') /\ BagToSet(net') \subseteq BagToSet(net)
      /\ \A d \in Clients : Copies(Syn(d), net') <= Copies(Syn(d), net)
  BY <1>0, <1>1, TakenIn, CopiesType
<1>3. CASE UNCHANGED back
  <2>1. \A d \in Clients : Copies(SynAck(d), back') <= Copies(SynAck(d), back)
    BY <1>0, <1>3, CopiesType
  <2>. QED
    BY Zenon, <1>0, <1>1, <1>2, <1>3, <2>1, SamePackets DEF TypeOK
<1>4. CASE m.flag = "ACK" /\ back' = Sent(back, a)
  <2>1. m.c \in Clients /\ Acked(m.ack) /\ cl[m.c].pc = "done"
    BY <1>0, <1>4 DEF ToServer
  <2>2. srv[m.c].cumReadNXT = ClientISS + 1
    BY <1>1, <2>1 DEF IInv, ServerInv, ServerEnd
  <2>3. m.ack \in Nat /\ ClientISS + 1 \in Nat
    BY <2>1 DEF Acked, ServerISS, ClientISS
  <2>4. a \in Packets
    BY Zenon, <2>1, <2>2, <2>3, ConstantTypes
  <2>5. ToClient(a)
    BY <1>1, <2>1, <2>2 DEF ToClient, Packet
  <2>6. /\ IsABag(back') /\ BagToSet(back') = BagToSet(back) \cup {a}
        /\ \A d \in Clients : Copies(SynAck(d), back') <= Copies(SynAck(d), back)
    <3>1. \A d \in Clients : a # SynAck(d)
      BY Zenon, NotSyn
    <3>. QED
      BY Zenon, <1>0, <1>4, <3>1, SentIn, OthersSent
  <2>. QED
    BY Zenon, <1>0, <1>1, <1>2, <2>4, <2>5, <2>6, SamePackets DEF TypeOK
<1>. QED
  BY Zenon, <1>3, <1>4 DEF ToSocket

\* The dispatcher takes a packet for VAccept: an ACK is from a client whose socket
\* is in SYN_RECEIVED, so VAccept works on it.
LEMMA ToListenerStep ==
  ASSUME IInv, NEW m \in BagToSet(net), ToListener(m)
  PROVE  IInv'
<1>. USE DEF IInv
<1>1. /\ UNCHANGED <<cl, srv, listener, acc, back, stored, lost, early>>
      /\ net' = Taken(net, m) /\ disp = Nothing
      /\ disp' = Nothing \/ (disp' = m /\ listener = "open")
  BY DEF ToListener
<1>11. /\ IsABag(net') /\ BagToSet(net') \subseteq BagToSet(net)
       /\ \A x : Copies(x, net') = Copies(x, net) - IF x = m THEN 1 ELSE 0
  BY Zenon, <1>1, TakenIn DEF NetInv
<1>2. ToServer(m)
  BY DEF NetInv
<1>3. ASSUME m.flag = "ACK"
      PROVE  InHandshake /\ acc.key = m.c
  <2>1. m.c \in Clients /\ srv[m.c] # NoSocket
    BY <1>2, <1>3 DEF ToServer, ClientInv
  <2>2. srv[m.c].state = "SYN_RECEIVED"
    BY <2>1 DEF ToListener, ForSocket
  <2>. QED
    BY <2>1, <2>2 DEF ServerInv
<1>4. TypeOK'
  BY <1>1, <1>11 DEF TypeOK
<1>41. \A n : Acked(n) => Acked(n)'
  BY Zenon, <1>1 DEF Acked
<1>5. ClientInv' /\ ServerInv' /\ AcceptInv'
  BY Zenon, <1>1, <1>41 DEF ClientInv, ClientEnd, ServerInv, AcceptInv, InHandshake
<1>6. \A x : (ToServer(x) => ToServer(x)') /\ (ToClient(x) => ToClient(x)')
  BY Zenon, <1>1, <1>41 DEF ToServer, ToClient
<1>7. NetInv' /\ BackInv'
  BY Zenon, <1>1, <1>11, <1>6 DEF NetInv, BackInv
<1>8. DispatchInv'
  <2>1. ToServer(m)' /\ (m.flag = "ACK" /\ InHandshake => acc.key = m.c)
    BY Zenon, <1>2, <1>3, <1>6
  <2>2. (InHandshake' <=> InHandshake) /\ acc' = acc /\ listener' = listener
    BY Zenon, <1>1 DEF InHandshake
  <2>3. CASE disp' = Nothing
    BY Zenon, <2>3 DEF DispatchInv
  <2>4. CASE disp' = m /\ listener = "open"
    <3>1. listener' # "none"
      BY <2>2, <2>4
    <3>2. ToServer(disp)'
      BY <2>1, <2>4 DEF ToServer
    <3>3. disp'.flag = "ACK" /\ InHandshake' => acc'.key = disp'.c
      BY <2>1, <2>2, <2>4
    <3>. QED
      BY Zenon, <3>1, <3>2, <3>3 DEF DispatchInv
  <2>. QED
    BY Zenon, <1>1, <2>3, <2>4
<1>9. WishInv'
  <2>1. ASSUME NEW c \in Clients
        PROVE  Wishes(c)' \in Nat /\ Wishes(c)' <= Wishes(c)
    <3>1. /\ Copies(Syn(c), net) \in Nat /\ Copies(SynAck(c), back) \in Nat
          /\ Held(c) \in 0 .. 1 /\ Answered(c) \in 0 .. 1
      BY Zenon, WishesType
    <3>2. Answered(c)' = Answered(c) /\ Copies(SynAck(c), back)' = Copies(SynAck(c), back)
      BY Zenon, <1>1 DEF Answered, Copies, SynAck, Packet
    <3>3. Held(c) = 0 /\ Held(c)' \in 0 .. 1 /\ (Held(c)' = 1 => m = Syn(c))
      <4>1. Syn(c)' = Syn(c) /\ Syn(c) # Nothing
        BY Zenon DEF Syn, Packet, Nothing
      <4>. QED
        BY <1>1, <4>1 DEF Held
    <3>4. Copies(Syn(c), net)' = Copies(Syn(c), net) - IF Syn(c) = m THEN 1 ELSE 0
      BY Zenon, <1>11 DEF Syn, Packet
    <3>5. Copies(Syn(c), net)' \in Nat
      BY Zenon, <1>11, CopiesType DEF Syn, Packet
    <3>. QED
      BY <3>1, <3>2, <3>3, <3>4, <3>5 DEF Wishes
  <2>2. (early' = 0 => early = 0) /\ cl' = cl
    BY <1>1
  <2>. QED
    BY Zenon, <2>1, <2>2, NoNewWish
<1>. QED
  BY <1>4, <1>5, <1>7, <1>8, <1>9

\* Steps of users and of VAccept that leave the packets alone and make no wish.
LEMMA ServerOnly ==
  ASSUME IInv, UNCHANGED <<cl, net, back, stored, lost, early>>,
         disp' = disp \/ disp' = Nothing,
         srv' \in [Clients -> Socket], \A c \in Clients : srv[c] # NoSocket => srv'[c] # NoSocket,
         listener' \in {"none", "open", "closed"}, listener # "none" => listener' # "none",
         acc' \in [pc : {"none", "syn", "synack", "ack", "set"}, key : Clients \cup {NoClient}],
         ServerInv', AcceptInv', disp' = disp => (InHandshake' => InHandshake /\ acc'.key = acc.key)
  PROVE  TypeOK' /\ ClientInv' /\ ServerInv' /\ AcceptInv' /\ DispatchInv' /\ NetInv' /\ BackInv'
<1>1. TypeOK'
  BY Zenon, ConstantTypes DEF TypeOK, IInv
<1>2. \A n : Acked(n) => Acked(n)'
  BY Zenon DEF Acked
<1>3. ClientInv'
  BY Zenon, <1>2 DEF ClientInv, ClientEnd, IInv
<1>4. \A x : (ToServer(x) => ToServer(x)') /\ (ToClient(x) => ToClient(x)')
  BY Zenon, <1>2 DEF ToServer, ToClient
<1>5. NetInv' /\ BackInv'
  BY Zenon, <1>4 DEF NetInv, BackInv, IInv
<1>6. DispatchInv'
  <2>1. CASE disp' = Nothing
    BY Zenon, <2>1 DEF DispatchInv
  <2>2. CASE disp' = disp /\ disp # Nothing
    <3>1. ToServer(disp) /\ listener # "none" /\ (disp.flag = "ACK" /\ InHandshake => acc.key = disp.c)
      BY Zenon, <2>2 DEF DispatchInv, IInv
    <3>2. ToServer(disp)'
      BY Zenon, <1>4, <2>2, <3>1 DEF ToServer
    <3>. QED
      BY Zenon, <2>2, <3>1, <3>2 DEF DispatchInv
  <2>. QED
    BY Zenon, <2>1, <2>2
<1>. QED
  BY Zenon, <1>1, <1>3, <1>5, <1>6

\* Steps that change the ListenSocket, and where VAccept begins.
LEMMA ListenStep ==
  ASSUME IInv, VListen \/ VCloseListener
  PROVE  IInv'
<1>0. TypeOK /\ ServerInv /\ AcceptInv /\ NetInv /\ BackInv
  BY Zenon DEF IInv
<1>1. /\ UNCHANGED <<cl, srv, disp, net, back, stored, lost, early>>
      /\ listener' \in {"none", "open", "closed"}
      /\ listener' # "none" /\ acc'.pc # "none"
      /\ acc' = acc \/ (acc' = [acc EXCEPT !.pc = "syn"] /\ acc.pc = "none")
  BY <1>0 DEF VListen, VCloseListener, AcceptInv, TypeOK
<1>2. /\ acc' \in [pc : {"none", "syn", "synack", "ack", "set"}, key : Clients \cup {NoClient}]
      /\ (InHandshake <=> InHandshake') /\ acc'.key = acc.key /\ (acc'.pc = "set" <=> acc.pc = "set")
      /\ acc' = acc \/ (acc'.pc # "synack" /\ acc.pc # "synack")
  BY <1>0, <1>1 DEF TypeOK, InHandshake
<1>3. ServerInv' /\ AcceptInv'
  BY Zenon, <1>0, <1>1, <1>2 DEF ServerInv, AcceptInv
<1>4. WishInv'
  <2>1. \A c \in Clients : /\ Copies(Syn(c), net') \in Nat /\ Copies(Syn(c), net') <= Copies(Syn(c), net)
                           /\ Copies(SynAck(c), back') \in Nat /\ Copies(SynAck(c), back') <= Copies(SynAck(c), back)
    BY <1>0, <1>1, WishesType
  <2>. QED
    BY Zenon, <1>1, <1>2, <2>1, OtherPackets
<1>5. TypeOK' /\ ClientInv' /\ ServerInv' /\ AcceptInv' /\ DispatchInv' /\ NetInv' /\ BackInv'
  <2>1. srv' \in [Clients -> Socket]
    BY <1>0, <1>1 DEF TypeOK
  <2>. QED
    BY Zenon, <1>1, <1>2, <1>3, <2>1, ServerOnly
<1>. QED
  BY Zenon, <1>4, <1>5 DEF IInv

\* VAccept takes a packet while it waits for a SYN: a SYN starts a handshake, also
\* if its socket is established already.
LEMMA AcceptSynStep ==
  ASSUME IInv, AcceptSyn
  PROVE  IInv'
<1>. DEFINE c == disp.c
            s == [state |-> "SYN_RECEIVED", cumReadNXT |-> disp.seq + 1, cumWriteUNA |-> ServerISS + 1]
<1>0. TypeOK /\ ServerInv /\ AcceptInv /\ NetInv /\ BackInv
  BY Zenon DEF IInv
<1>1. /\ acc.pc = "syn" /\ disp' = Nothing /\ ToServer(disp) /\ listener # "none"
      /\ UNCHANGED <<cl, listener, net, back, stored, lost, early>>
  BY Zenon DEF AcceptSyn, DispatchInv, IInv
<1>11. listener' \in {"none", "open", "closed"} /\ ~InHandshake
  BY <1>0, <1>1 DEF TypeOK, InHandshake
<1>2. CASE disp.flag # "SYN"
  <2>1. UNCHANGED <<srv, acc>>
    BY <1>2 DEF AcceptSyn
  <2>2. ServerInv' /\ AcceptInv'
    BY Zenon, <1>0, <1>1, <2>1 DEF ServerInv, AcceptInv, InHandshake
  <2>3. TypeOK' /\ ClientInv' /\ ServerInv' /\ AcceptInv' /\ DispatchInv' /\ NetInv' /\ BackInv'
    BY Zenon, <1>0, <1>1, <1>11, <2>1, <2>2, ServerOnly DEF TypeOK, InHandshake
  <2>4. WishInv'
    <3>1. \A d \in Clients : Held(d)' <= Held(d) /\ Held(d)' \in 0 .. 1
      BY <1>1 DEF Held, Nothing, Syn, Packet
    <3>2. \A d \in Clients : Answered(d)' = Answered(d) /\ Answered(d) \in 0 .. 1
      BY <2>1 DEF Answered
    <3>3. \A d \in Clients : Held(d) \in 0 .. 1
      BY DEF Held
    <3>4. \A d \in Clients : Held(d)' + Answered(d)' <= Held(d) + Answered(d) /\ Answered(d)' \in 0 .. 1
      BY <3>1, <3>2, <3>3
    <3>. QED
      BY Zenon, <1>1, <3>1, <3>4, SamePlaces
  <2>. QED
    BY Zenon, <2>3, <2>4 DEF IInv
<1>3. CASE disp.flag = "SYN"
  <2>1. /\ c \in Clients /\ disp = Syn(c) /\ disp.seq = ClientISS
        /\ srv' = [srv EXCEPT ![c] = s] /\ acc' = [pc |-> "synack", key |-> c]
    <3>1. c \in Clients /\ disp = Syn(c)
      BY <1>1, <1>3 DEF ToServer
    <3>2. disp.seq = ClientISS
      BY <3>1 DEF Syn, Packet
    <3>. QED
      BY <1>3, <3>1, <3>2 DEF AcceptSyn
  <2>2. s \in Socket /\ ServerEnd(s) /\ s # NoSocket /\ s.state = "SYN_RECEIVED"
    BY <2>1 DEF Socket, ServerEnd, ClientISS, ServerISS, NoSocket
  <2>3. /\ srv'[c] = s /\ \A d \in Clients : d # c => srv'[d] = srv[d]
        /\ InHandshake' /\ acc'.key = c /\ acc'.pc = "synack"
        /\ srv' \in [Clients -> Socket]
    BY <1>0, <2>1, <2>2 DEF TypeOK, InHandshake
  <2>31. acc' \in [pc : {"none", "syn", "synack", "ack", "set"}, key : Clients \cup {NoClient}]
    BY <2>1
  <2>4. AcceptInv'
    BY <1>1, <2>1, <2>2, <2>3 DEF AcceptInv
  <2>5. ServerInv'
    BY Zenon, <1>0, <1>1, <1>11, <2>2, <2>3 DEF ServerInv, ServerEnd
  <2>6. TypeOK' /\ ClientInv' /\ ServerInv' /\ AcceptInv' /\ DispatchInv' /\ NetInv' /\ BackInv'
    <3>1. disp' # disp
      BY Zenon, <1>1, <2>1, SynOf
    <3>2. \A d \in Clients : srv[d] # NoSocket => srv'[d] # NoSocket
      BY Zenon, <2>2, <2>3
    <3>. QED
      BY Zenon, <1>1, <1>11, <2>3, <2>31, <2>4, <2>5, <3>1, <3>2, ServerOnly
  <2>7. WishInv'
    <3>1. ASSUME NEW d \in Clients
          PROVE  Held(d)' + Answered(d)' <= Held(d) + Answered(d) /\ Held(d)' \in 0 .. 1 /\ Answered(d)' \in 0 .. 1
      <4>1. Held(d)' = 0
        BY <1>1 DEF Held, Nothing, Syn, Packet
      <4>2. Held(d) = IF d = c THEN 1 ELSE 0
        BY <2>1, SynOf DEF Held
      <4>3. Answered(d)' = IF d = c THEN 1 ELSE 0
        BY <2>1 DEF Answered
      <4>4. Answered(d) \in 0 .. 1
        BY DEF Answered
      <4>. QED
        BY <4>1, <4>2, <4>3, <4>4
    <3>. QED
      BY <1>1, <3>1, SamePlaces
  <2>. QED
    BY Zenon, <2>6, <2>7 DEF IInv
<1>. QED
  BY <1>2, <1>3

\* VAccept answers a SYN.
LEMMA SendSynAckStep ==
  ASSUME IInv, SendSynAck
  PROVE  IInv'
<1>. DEFINE m == SynAck(acc.key)
<1>0. TypeOK /\ ClientInv /\ ServerInv /\ AcceptInv /\ NetInv /\ BackInv
  BY Zenon DEF IInv
<1>1. /\ acc.pc = "synack" /\ acc' = [acc EXCEPT !.pc = "ack"]
      /\ UNCHANGED <<cl, srv, listener, disp, net, stored, lost, early>>
  BY Zenon DEF SendSynAck
<1>2. /\ acc.key \in Clients /\ srv[acc.key] # NoSocket
      /\ srv[acc.key].cumReadNXT = ClientISS + 1
  BY <1>0, <1>1 DEF AcceptInv, InHandshake, ServerInv, ServerEnd
<1>3. /\ InHandshake /\ InHandshake' /\ acc'.key = acc.key /\ acc'.pc = "ack"
      /\ acc' \in [pc : {"none", "syn", "synack", "ack", "set"}, key : Clients \cup {NoClient}]
  BY <1>0, <1>1 DEF InHandshake, TypeOK
<1>4. back' = Sent(back, m)
  BY <1>2 DEF SendSynAck, SynAck
<1>5. /\ IsABag(back') /\ BagToSet(back') = BagToSet(back) \cup {m}
      /\ \A x : Copies(x, back') = Copies(x, back) + IF x = m THEN 1 ELSE 0
  BY Zenon, <1>0, <1>4, SentIn DEF BackInv
<1>6. m \in Packets /\ ToClient(m)
  BY <1>2 DEF SynAck, Packet, Packets, ToClient, ServerISS, ClientISS
<1>7. TypeOK'
  BY Zenon, <1>0, <1>1, <1>3, <1>5, <1>6 DEF TypeOK
<1>71. \A n : Acked(n) => Acked(n)'
  BY Zenon, <1>1 DEF Acked
<1>8. ClientInv'
  BY Zenon, <1>0, <1>1, <1>71 DEF ClientInv, ClientEnd
<1>81. ServerInv' /\ AcceptInv'
  BY <1>0, <1>1, <1>2, <1>3 DEF ServerInv, AcceptInv
<1>9. \A x : (ToServer(x) => ToServer(x)') /\ (ToClient(x) => ToClient(x)')
  BY Zenon, <1>1, <1>71 DEF ToServer, ToClient
<1>10. NetInv' /\ BackInv'
  BY Zenon, <1>0, <1>1, <1>5, <1>6, <1>9 DEF NetInv, BackInv
<1>11. DispatchInv'
  BY Zenon, <1>1, <1>3, <1>9 DEF DispatchInv, IInv
<1>12. WishInv'
  <2>1. ASSUME NEW d \in Clients
        PROVE  Wishes(d)' \in Nat /\ Wishes(d)' <= Wishes(d)
    <3>1. /\ Copies(Syn(d), net) \in Nat /\ Copies(SynAck(d), back) \in Nat
          /\ Held(d) \in 0 .. 1 /\ Answered(d) \in 0 .. 1
      BY Zenon, <1>0, WishesType
    <3>2. Held(d)' = Held(d) /\ Copies(Syn(d), net)' = Copies(Syn(d), net)
      BY Zenon, <1>1 DEF Held, Copies, Syn, Packet
    <3>3. Answered(d)' = 0 /\ Answered(d) = IF d = acc.key THEN 1 ELSE 0
      BY <1>1, <1>3 DEF Answered
    <3>4. SynAck(d) = m <=> d = acc.key
      BY SynOf
    <3>5. Copies(SynAck(d), back)' = Copies(SynAck(d), back) + IF SynAck(d) = m THEN 1 ELSE 0
      BY Zenon, <1>5 DEF SynAck, Packet
    <3>. QED
      BY <3>1, <3>2, <3>3, <3>4, <3>5 DEF Wishes
  <2>2. (early' = 0 => early = 0) /\ cl' = cl
    BY <1>1
  <2>. QED
    BY Zenon, <2>1, <2>2, NoNewWish
<1>. QED
  BY Zenon, <1>7, <1>8, <1>81, <1>10, <1>11, <1>12 DEF IInv

\* The ACK that ends the handshake is the client's own.
LEMMA AcceptAckStep ==
  ASSUME IInv, AcceptAck
  PROVE  IInv'
<1>0. TypeOK /\ ServerInv /\ AcceptInv
  BY Zenon DEF IInv
<1>1. /\ acc.pc = "ack" /\ disp' = Nothing /\ ToServer(disp)
      /\ disp.flag = "ACK" => acc.key = disp.c
      /\ UNCHANGED <<cl, srv, listener, net, back, stored, lost, early>>
  <2>1. acc.pc = "ack" /\ disp # Nothing /\ disp' = Nothing /\ UNCHANGED <<cl, srv, listener, net, back, stored, lost, early>>
    BY Zenon DEF AcceptAck
  <2>2. InHandshake
    BY <2>1 DEF InHandshake
  <2>. QED
    BY Zenon, <2>1, <2>2 DEF DispatchInv, IInv
<1>2. /\ InHandshake /\ InHandshake' /\ acc'.key = acc.key /\ acc'.pc \in {"ack", "set"}
      /\ acc'.pc = "set" => disp.flag = "ACK"
      /\ acc' \in [pc : {"none", "syn", "synack", "ack", "set"}, key : Clients \cup {NoClient}]
  BY <1>0, <1>1 DEF AcceptAck, InHandshake, TypeOK, EndsHandshake
<1>3. ServerInv'
  BY Zenon, <1>0, <1>1, <1>2 DEF ServerInv
<1>4. AcceptInv'
  BY <1>0, <1>1, <1>2 DEF AcceptInv, ToServer
<1>5. TypeOK' /\ ClientInv' /\ ServerInv' /\ AcceptInv' /\ DispatchInv' /\ NetInv' /\ BackInv'
  <2>1. srv' \in [Clients -> Socket] /\ listener' \in {"none", "open", "closed"}
    BY <1>0, <1>1 DEF TypeOK
  <2>. QED
    BY Zenon, <1>1, <1>2, <1>3, <1>4, <2>1, ServerOnly
<1>6. WishInv'
  <2>1. \A d \in Clients : Held(d)' <= Held(d) /\ Held(d)' \in 0 .. 1
    BY <1>1 DEF Held, Nothing, Syn, Packet
  <2>2. \A d \in Clients : Answered(d)' = Answered(d) /\ Answered(d) \in 0 .. 1
    BY <1>1, <1>2 DEF Answered
  <2>3. \A d \in Clients : Held(d) \in 0 .. 1
    BY DEF Held
  <2>4. \A d \in Clients : Held(d)' + Answered(d)' <= Held(d) + Answered(d) /\ Answered(d)' \in 0 .. 1
    BY <2>1, <2>2, <2>3
  <2>. QED
    BY Zenon, <1>1, <2>1, <2>4, SamePlaces
<1>. QED
  BY Zenon, <1>5, <1>6 DEF IInv

\* VAccept establishes the connection.
LEMMA EstablishedStep ==
  ASSUME IInv, Established
  PROVE  IInv'
<1>. DEFINE c == acc.key
<1>0. TypeOK /\ ServerInv /\ AcceptInv
  BY Zenon DEF IInv
<1>1. /\ acc.pc = "set" /\ c \in Clients /\ srv[c] # NoSocket /\ cl[c].pc = "done"
      /\ srv' = [srv EXCEPT ![c].state = "ESTABLISHED"]
      /\ acc' = [pc |-> "syn", key |-> NoClient]
      /\ UNCHANGED <<cl, listener, disp, net, back, stored, lost, early>>
  BY <1>0 DEF Established, AfterAccept, AcceptInv, InHandshake
<1>2. srv[c] \in Socket /\ ServerEnd(srv[c])
  BY <1>0, <1>1 DEF TypeOK, ServerInv
<1>3. srv'[c] = [srv[c] EXCEPT !.state = "ESTABLISHED"] /\ \A d \in Clients : d # c => srv'[d] = srv[d]
  BY <1>0, <1>1 DEF TypeOK
<1>4. srv'[c] \in Socket /\ srv'[c].state = "ESTABLISHED" /\ ServerEnd(srv'[c]) /\ srv'[c] # NoSocket
  BY <1>2, <1>3 DEF Socket, ServerEnd, NoSocket
<1>5. /\ ~InHandshake' /\ InHandshake /\ acc'.pc = "syn" /\ acc.pc # "none"
      /\ acc' \in [pc : {"none", "syn", "synack", "ack", "set"}, key : Clients \cup {NoClient}]
  BY <1>1 DEF InHandshake
<1>6. srv' \in [Clients -> Socket] /\ listener' \in {"none", "open", "closed"} /\ listener' # "none"
  BY <1>0, <1>1, <1>3, <1>4, <1>5 DEF TypeOK, AcceptInv
<1>7. AcceptInv'
  BY <1>5, <1>6 DEF AcceptInv
<1>8. ServerInv'
  <2>. SUFFICES ASSUME NEW d \in Clients
                PROVE  /\ srv'[d] = NoSocket \/ ServerEnd(srv[d])'
                       /\ srv'[d].state # "SYN_RECEIVED"
                       /\ srv'[d].state = "ESTABLISHED" => cl'[d].pc = "done"
    BY Zenon DEF ServerInv
  <2>1. CASE d = c
    BY <1>1, <1>4, <2>1 DEF ServerEnd
  <2>2. CASE d # c
    BY Zenon, <1>0, <1>1, <1>3, <2>2 DEF ServerInv, ServerEnd
  <2>. QED
    BY <2>1, <2>2
<1>9. TypeOK' /\ ClientInv' /\ ServerInv' /\ AcceptInv' /\ DispatchInv' /\ NetInv' /\ BackInv'
  <2>1. \A d \in Clients : srv[d] # NoSocket => srv'[d] # NoSocket
    BY Zenon, <1>3, <1>4
  <2>. QED
    BY Zenon, <1>1, <1>5, <1>6, <1>7, <1>8, <2>1, ServerOnly
<1>10. WishInv'
  <2>1. \A d \in Clients : Held(d)' = Held(d) /\ Held(d)' \in 0 .. 1
    BY <1>1 DEF Held, Syn, Packet
  <2>2. \A d \in Clients : Answered(d)' = 0 /\ Answered(d) = 0
    BY <1>1 DEF Answered
  <2>. QED
    BY <1>1, <2>1, <2>2, SamePlaces
<1>. QED
  BY Zenon, <1>9, <1>10 DEF IInv

-----------------------------------------------------------------------------
(* The theorems.                                                           *)

\* Every step keeps the inductive invariant.
LEMMA NextInv ==
  ASSUME IInv, [Next]_vars
  PROVE  IInv'
<1>1. CASE VListen \/ VCloseListener
  BY <1>1, ListenStep
<1>2. CASE ServerStep
  BY Zenon, <1>2, AcceptSynStep, SendSynAckStep, AcceptAckStep, EstablishedStep DEF ServerStep
<1>3. ASSUME NEW m \in BagToSet(net), DispatchStep(m)
      PROVE  IInv'
  BY Zenon, <1>3, ToSocketStep, ToListenerStep DEF DispatchStep
<1>4. CASE Lose
  BY <1>4, LoseStep
<1>5. ASSUME NEW c \in Clients, VConnect(c) \/ Data(c) \/ TimeoutEarly(c)
      PROVE  IInv'
  <2>1. CASE VConnect(c)
    BY <2>1, VConnectStep
  <2>2. CASE Data(c)
    BY <2>2, DataStep
  <2>3. CASE TimeoutEarly(c)
    <3>1. {c} \in SUBSET Waiting /\ Again({c}) /\ early' = early + 1
      BY <2>3 DEF TimeoutEarly
    <3>. QED
      BY Zenon, <2>3, <3>1, AgainStep DEF TimeoutEarly
  <2>. QED
    BY Zenon, <1>5, <2>1, <2>2, <2>3
<1>6. ASSUME NEW cs \in SUBSET Waiting, Timeout(cs)
      PROVE  IInv'
  BY Zenon, <1>6, QuietWishes, AgainStep DEF Timeout
<1>7. ASSUME NEW c \in Clients, NEW m \in BagToSet(back), ClientStep(c, m)
      PROVE  IInv'
  BY Zenon, <1>7, ClientReceiveStep, ClientDropStep, ClientAnswerStep DEF ClientStep
<1>8. CASE UNCHANGED vars
  <2>1. UNCHANGED <<cl, srv, listener, disp, acc, net, back, stored, lost, early>>
    BY <1>8 DEF vars
  <2>2. TypeOK /\ IsABag(net) /\ IsABag(back)
    BY Zenon DEF IInv, NetInv, BackInv
  <2>3. \A c \in Clients : /\ Copies(Syn(c), net') <= Copies(Syn(c), net)
                           /\ Copies(SynAck(c), back') <= Copies(SynAck(c), back)
    BY <2>1, <2>2, CopiesType
  <2>. QED
    BY Zenon, <2>1, <2>2, <2>3, SamePackets DEF TypeOK
<1>. QED
  BY Zenon, <1>1, <1>2, <1>3, <1>4, <1>5, <1>6, <1>7, <1>8 DEF Next

\* The inductive invariant holds always.
LEMMA Invariance == Spec => []IInv
BY InitInv, NextInv, PTL DEF Spec

\* The handshake is type-correct; in particular VConnect, with its retries after
\* timeouts and after packets of another kind, never makes a fourth attempt.
THEOREM HandshakeTypeCorrect == Spec => []TypeOK
BY Invariance, PTL DEF IInv

\* Wherever a connection is established at both ends, the server expects the number
\* that the client sends next, whatever is lost or sent again; and as long as no timer
\* of VConnect ends early, the client expects the number that the server sends next:
\* what VConnect and VAccept leave behind is the initial state of the data transfer.
THEOREM HandshakeSynchronizes == Spec => []Synchronized
<1>1. IInv => Synchronized
  <2>. SUFFICES ASSUME IInv, NEW c \in Clients, cl[c].pc = "done", srv[c].state = "ESTABLISHED"
                PROVE  /\ srv[c].cumReadNXT = cl[c].sock.cumWriteUNA
                       /\ early = 0 => cl[c].sock.cumReadNXT = srv[c].cumWriteUNA
    BY Zenon DEF Synchronized
  <2>1. ClientEnd(cl[c].sock) /\ srv[c] # NoSocket
    BY Zenon DEF IInv, ClientInv
  <2>2. ServerEnd(srv[c])
    BY Zenon, <2>1 DEF IInv, ServerInv
  <2>. QED
    BY Zenon, <2>1, <2>2 DEF ClientEnd, ServerEnd, Acked
<1>. QED
  BY <1>1, Invariance, PTL

\* VAccept, which takes an ACK from whomever, never establishes a connection whose
\* client is not connected, for any number of clients that connect at the same time.
THEOREM HandshakeClientFirst == Spec => []ClientFirst
<1>1. IInv => ClientFirst
  BY DEF IInv, ServerInv, ClientFirst
<1>. QED
  BY <1>1, Invariance, PTL

=============================================================================
