---------------------------- MODULE TCPHandshake ----------------------------
(***************************************************************************)
(* How connections come about: VListen, VConnect, VAccept and the          *)
(* goroutine of Initialize that matches packets with sockets               *)
(* (src/pkg/tcpstack/tcpstack.go), and listenAndAccept of the REPL.        *)
(*                                                                         *)
(* Clients connect to one port of a server.  A client's key (addresses and *)
(* ports) stands for the client.  What follows the handshake is the        *)
(* subject of module TCPTransfer; here a connected client has one segment  *)
(* to send, and SenderThread sends it again until ReceiverThread of the    *)
(* server has it.  Of the sequence numbers those of the handshake are      *)
(* modelled: the segment and its acknowledgment leave them alone.          *)
(***************************************************************************)
EXTENDS Integers, Bags, FiniteSets

CONSTANTS
  Clients,
  NoClient,
  MaxLoss,  \* bound: packets that the network loses
  MaxEarly  \* bound: times that 3 s are over while packets are on the way

ASSUME ClientAssumption == IsFiniteSet(Clients) /\ NoClient \notin Clients
ASSUME BoundAssumption == MaxLoss \in Nat /\ MaxEarly \in Nat

VARIABLES
  cl,       \* VConnect of each client, and its socket
  srv,      \* srv[c]: the server's socket for c in SocketTable, or NoSocket
  listener, \* is the ListenSocket in SocketTable?
  disp,     \* the packet that the dispatcher is sending on listenChan, or Nothing
  acc,      \* VAccept: what it waits for or is about to do, and for whom
  net,      \* packets on the way to the server
  back,     \* packets on the way to the clients
  stored,   \* clients whose segment the server has
  lost,     \* history: packets lost, by flag
  early     \* history: times that a client was early

vars == <<cl, srv, listener, disp, acc, net, back, stored, lost, early>>

-----------------------------------------------------------------------------
ClientISS == 5000
ServerISS == 6000
MaxTries == 3

Packet(c, flag, seq, ack, data) == [c |-> c, flag |-> flag, seq |-> seq, ack |-> ack, data |-> data]
Syn(c) == Packet(c, "SYN", ClientISS, 0, FALSE)
Nothing == Packet(NoClient, "none", 0, 0, FALSE)
NoSocket == [state |-> "none", cumReadNXT |-> 0, cumWriteUNA |-> 0]

Init ==
  /\ cl = [c \in Clients |-> [pc |-> "idle", tries |-> 0, sock |-> NoSocket]]
  /\ srv = [c \in Clients |-> NoSocket]
  /\ listener = "none"
  /\ disp = Nothing
  /\ acc = [pc |-> "none", key |-> NoClient]
  /\ net = EmptyBag /\ back = EmptyBag
  /\ stored = {}
  /\ lost = [SYN |-> 0, SYNACK |-> 0, ACK |-> 0]
  /\ early = 0

Sent(bag, m) == bag (+) SetToBag({m})
Taken(bag, m) == bag (-) SetToBag({m})

-----------------------------------------------------------------------------
(* VConnect.                                                               *)

\* The socket is made and a SYN sent.
VConnect(c) ==
  /\ cl[c].pc = "idle"
  /\ cl' = [cl EXCEPT ![c] = [pc |-> "wait", tries |-> 0, sock |-> [NoSocket EXCEPT !.state = "SYN_SENT"]]]
  /\ net' = Sent(net, Syn(c))
  /\ UNCHANGED <<srv, listener, disp, acc, back, stored, lost, early>>

\* Mutants: an attempt is not counted; one attempt fewer; one more.
TriedNot(i) == i
GivesUpSoon(i) == i = MaxTries - 1
GivesUpLate(i) == i > MaxTries

Tried(i) == i + 1
GivesUp(i) == i = MaxTries

\* The clients in cs count one more attempt: the third ends VConnect and deletes
\* the socket, else the SYN is sent again.
Again(cs) ==
  LET i(c) == Tried(cl[c].tries)
      on == {c \in cs : ~GivesUp(i(c))}
  IN  /\ cl' = [c \in Clients |->
                  IF c \notin cs THEN cl[c]
                  ELSE IF c \in on THEN [cl[c] EXCEPT !.tries = i(c)]
                  ELSE [pc |-> "failed", tries |-> i(c), sock |-> NoSocket]]
      /\ net' = net (+) SetToBag({Syn(c) : c \in on})

\* Mutant: the acknowledgment number is the number of the SYN.
ConnectedAt(m) == [state |-> "ESTABLISHED", cumReadNXT |-> m.seq, cumWriteUNA |-> m.ack]

\* The client's socket after SYNACK m.
Connected(m) == [state |-> "ESTABLISHED", cumReadNXT |-> m.seq + 1, cumWriteUNA |-> m.ack]

\* A packet comes out of normalChan: the connection is established and
\* acknowledged if it is a SYNACK; anything else costs an attempt.
ClientReceive(c, m) ==
  /\ BagIn(m, back) /\ m.c = c /\ cl[c].pc = "wait"
  /\ back' = Taken(back, m)
  /\ IF m.flag = "SYNACK"
     THEN /\ cl' = [cl EXCEPT ![c].pc = "done", ![c].sock = Connected(m)]
          /\ net' = Sent(net, Packet(c, "ACK", m.ack, m.seq + 1, FALSE))
     ELSE Again({c})
  /\ UNCHANGED <<srv, listener, disp, acc, stored, lost, early>>

\* A packet for a socket that is no longer in the table is dropped.
ClientDrop(c, m) ==
  /\ BagIn(m, back) /\ m.c = c /\ cl[c].pc = "failed"
  /\ back' = Taken(back, m)
  /\ UNCHANGED <<cl, srv, listener, disp, acc, net, stored, lost, early>>

\* ReceiverThread goes on to the number of m, back too, unless m is early or the read
\* buffer looks full (NXT = LBR = 0, which is so once the number is back at baseAck).
TakesNumber(s, m) == m.seq <= s.cumReadNXT /\ s.cumReadNXT # ServerISS

\* ReceiverThread of an established client takes a SYNACK, or an empty ACK, for a
\* segment without data and answers it.
ClientAnswer(c, m) ==
  /\ BagIn(m, back) /\ m.c = c /\ cl[c].pc = "done"
  /\ back' = Taken(back, m)
  /\ IF TakesNumber(cl[c].sock, m)
     THEN /\ cl' = [cl EXCEPT ![c].sock.cumReadNXT = m.seq]
          /\ net' = Sent(net, Packet(c, "ACK", m.ack, m.seq, FALSE))
     ELSE UNCHANGED <<cl, net>>
  /\ UNCHANGED <<srv, listener, disp, acc, stored, lost, early>>

\* SenderThread sends the segment, again if it got lost on the way.  (To a port
\* that was closed before the end of the handshake it is sent without effect; this
\* is left out.)
Segment(c) == Packet(c, "ACK", cl[c].sock.cumWriteUNA, cl[c].sock.cumReadNXT, TRUE)
DataDue(c) ==
  /\ cl[c].pc = "done" /\ c \notin stored
  /\ listener = "open" \/ srv[c].state = "ESTABLISHED"
  /\ \A m \in BagToSet(net) \cup {disp} : ~(m.c = c /\ m.data)
Data(c) ==
  /\ DataDue(c)
  /\ net' = Sent(net, Segment(c))
  /\ UNCHANGED <<cl, srv, listener, disp, acc, back, stored, lost, early>>

-----------------------------------------------------------------------------
(* The dispatcher.                                                         *)

\* The packet's socket exists and its handshake is over, as far as one sees without
\* a lock.
ForSocket(m) == srv[m.c] # NoSocket /\ srv[m.c].state # "SYN_RECEIVED"

\* ReceiverThread of the socket takes m.  A SYN has no ACK flag and is ignored; an
\* empty ACK is answered like a segment (the answer to the real one goes to
\* slidingWindow of the client and is left out).
ToSocket(m) ==
  /\ disp = Nothing /\ BagIn(m, net) /\ ForSocket(m)
  /\ net' = Taken(net, m)
  /\ stored' = IF m.data THEN stored \cup {m.c} ELSE stored
  /\ IF m.flag = "ACK" /\ ~m.data
     THEN back' = Sent(back, Packet(m.c, "ACK", m.ack, srv[m.c].cumReadNXT, FALSE))
     ELSE UNCHANGED back
  /\ UNCHANGED <<cl, srv, listener, disp, acc, lost, early>>

\* Any other packet is for the ListenSocket, if there is one: the dispatcher waits
\* until VAccept takes it.
ToListener(m) ==
  /\ disp = Nothing /\ BagIn(m, net) /\ ~ForSocket(m)
  /\ net' = Taken(net, m)
  /\ disp' = IF listener = "open" THEN m ELSE disp
  /\ UNCHANGED <<cl, srv, listener, acc, back, stored, lost, early>>

-----------------------------------------------------------------------------
(* The server.                                                             *)

\* listenAndAccept: VListen, then the first VAccept.
VListen ==
  /\ listener = "none"
  /\ listener' = "open"
  /\ acc' = [acc EXCEPT !.pc = "syn"]
  /\ UNCHANGED <<cl, srv, disp, net, back, stored, lost, early>>

\* cl: the ListenSocket is deleted, VAccept goes on.
VCloseListener ==
  /\ listener = "open"
  /\ listener' = "closed"
  /\ UNCHANGED <<cl, srv, disp, acc, net, back, stored, lost, early>>

\* VAccept waits for a SYN, and makes a socket for it.
AcceptSyn ==
  /\ acc.pc = "syn" /\ disp # Nothing
  /\ disp' = Nothing
  /\ IF disp.flag = "SYN"
     THEN /\ srv' = [srv EXCEPT ![disp.c] = [state |-> "SYN_RECEIVED", cumReadNXT |-> disp.seq + 1,
                                             cumWriteUNA |-> ServerISS + 1]]
          /\ acc' = [pc |-> "synack", key |-> disp.c]
     ELSE UNCHANGED <<srv, acc>>
  /\ UNCHANGED <<cl, listener, net, back, stored, lost, early>>

\* It answers, once.
SendSynAck ==
  /\ acc.pc = "synack"
  /\ back' = Sent(back, Packet(acc.key, "SYNACK", ServerISS, srv[acc.key].cumReadNXT, FALSE))
  /\ acc' = [acc EXCEPT !.pc = "ack"]
  /\ UNCHANGED <<cl, srv, listener, disp, net, stored, lost, early>>

\* Mutant: any packet ends the handshake.
EndsHandshakeAny(m) == TRUE

\* A packet with the flag ACK alone, from whomever, ends the handshake.
EndsHandshake(m) == m.flag = "ACK"

\* It waits for the acknowledgment.
AcceptAck ==
  /\ acc.pc = "ack" /\ disp # Nothing
  /\ disp' = Nothing
  /\ acc' = IF EndsHandshake(disp) THEN [acc EXCEPT !.pc = "set"] ELSE acc
  /\ UNCHANGED <<cl, srv, listener, net, back, stored, lost, early>>

\* Mutant: VAccept is called once.
AfterAcceptDone == "none"

\* listenAndAccept calls VAccept again.
AfterAccept == "syn"

\* The socket is established and returned, its threads start.
Established ==
  /\ acc.pc = "set"
  /\ srv' = [srv EXCEPT ![acc.key].state = "ESTABLISHED"]
  /\ acc' = [pc |-> AfterAccept, key |-> NoClient]
  /\ UNCHANGED <<cl, listener, disp, net, back, stored, lost, early>>

-----------------------------------------------------------------------------
(* Time, the network, and the specification.                               *)

ServerStep == AcceptSyn \/ SendSynAck \/ AcceptAck \/ Established
DispatchStep(m) == ToSocket(m) \/ ToListener(m)
ClientStep(c, m) == ClientReceive(c, m) \/ ClientDrop(c, m) \/ ClientAnswer(c, m)

\* An empty ACK between two established ends: they may answer each other's for ever.
Chatter(m) == m.flag = "ACK" /\ ~m.data /\ cl[m.c].pc = "done" /\ srv[m.c].state = "ESTABLISHED"

\* But for that, nothing happens without a timer of 3 s or a user.
Quiet ==
  /\ \A m \in BagToSet(net) \cup BagToSet(back) : Chatter(m)
  /\ acc.pc \notin {"synack", "set"}
  /\ disp # Nothing => acc.pc = "none"
  /\ \A c \in Clients : ~DataDue(c)

Waiting == {c \in Clients : cl[c].pc = "wait"}

\* 3 s are over for the clients in cs.
Timeout(cs) ==
  /\ Quiet
  /\ Again(cs)
  /\ UNCHANGED <<srv, listener, disp, acc, back, stored, lost, early>>

\* They are over for c while something is still on the way.
TimeoutEarly(c) ==
  /\ c \in Waiting /\ early < MaxEarly /\ ~Quiet
  /\ Again({c})
  /\ early' = early + 1
  /\ UNCHANGED <<srv, listener, disp, acc, back, stored, lost>>

TotalLost == lost.SYN + lost.SYNACK + lost.ACK

Lose ==
  /\ TotalLost < MaxLoss
  /\ \/ \E m \in BagToSet(net) : net' = Taken(net, m) /\ lost' = [lost EXCEPT ![m.flag] = @ + 1]
                                   /\ UNCHANGED back
     \/ \E m \in BagToSet(back) : back' = Taken(back, m) /\ lost' = [lost EXCEPT ![m.flag] = @ + 1]
                                    /\ UNCHANGED net
  /\ UNCHANGED <<cl, srv, listener, disp, acc, stored, early>>

Next ==
  \/ VListen \/ VCloseListener \/ ServerStep \/ Lose
  \/ \E m \in BagToSet(net) : DispatchStep(m)
  \/ \E c \in Clients, m \in BagToSet(back) : ClientStep(c, m)
  \/ \E c \in Clients : VConnect(c) \/ Data(c) \/ TimeoutEarly(c)
  \/ \E cs \in SUBSET Waiting \ {{}} : Timeout(cs)

Spec == Init /\ [][Next]_vars

\* Goroutines that can go on do, packets arrive or are lost whatever empty ACKs go to
\* and fro, 3 s pass, and a connected client sends its segment.  Nothing makes a user
\* listen or connect.
FairSpec ==
  /\ Spec
  /\ WF_vars(ServerStep)
  /\ WF_vars(\E m \in BagToSet(net) : ~Chatter(m) /\ DispatchStep(m))
  /\ \A c \in Clients :
       /\ WF_vars(\E m \in BagToSet(back) : ~Chatter(m) /\ ClientStep(c, m))
       /\ WF_vars(Data(c))
       /\ WF_vars(\E cs \in SUBSET Waiting : c \in cs /\ Timeout(cs))

-----------------------------------------------------------------------------
(* Properties.                                                             *)

Socket == [state : {"none", "SYN_SENT", "SYN_RECEIVED", "ESTABLISHED"},
           cumReadNXT : Nat, cumWriteUNA : Nat]
Packets == [c : Clients \cup {NoClient}, flag : {"none", "SYN", "SYNACK", "ACK"},
            seq : Nat, ack : Nat, data : BOOLEAN]

\* Type invariant; VConnect makes three attempts at most.
TypeOK ==
  /\ cl \in [Clients -> [pc : {"idle", "wait", "done", "failed"}, tries : 0 .. MaxTries, sock : Socket]]
  /\ srv \in [Clients -> Socket]
  /\ listener \in {"none", "open", "closed"}
  /\ disp \in Packets /\ BagToSet(net) \subseteq Packets /\ BagToSet(back) \subseteq Packets
  /\ acc \in [pc : {"none", "syn", "synack", "ack", "set"}, key : Clients \cup {NoClient}]
  /\ stored \subseteq Clients
  /\ lost \in [{"SYN", "SYNACK", "ACK"} -> Nat] /\ early \in Nat

\* Where TCPTransfer starts: once both ends are established, what each end
\* expects is what the other sends next.  From the server to the client this takes
\* that no timer of VConnect was early: a SYN that was sent again for nothing can get
\* the client a second SYNACK, and ReceiverThread goes back to its number.
Synchronized ==
  \A c \in Clients :
    cl[c].pc = "done" /\ srv[c].state = "ESTABLISHED"
      => /\ srv[c].cumReadNXT = cl[c].sock.cumWriteUNA
         /\ early = 0 => cl[c].sock.cumReadNXT = srv[c].cumWriteUNA

\* The server's end is established only when the client's is, although VAccept
\* takes an acknowledgment from anyone: no handshake is ended by a packet of
\* another connection, also if SYNs are sent again, lost, or held by the
\* dispatcher meanwhile.
ClientFirst == \A c \in Clients : srv[c].state = "ESTABLISHED" => cl[c].pc = "done"

\* Every VConnect returns.
ConnectReturns == \A c \in Clients : cl[c].pc = "wait" ~> cl[c].pc # "wait"

\* The dispatcher, which serves all connections of the node, never waits for good
\* on the listenChan of a port whose VAccepts are called in a loop.
DispatcherServes == []<>(disp = Nothing)

\* A SYN that arrives during another client's handshake is swallowed.  Yet three
\* attempts are enough for clients and lost SYNs that are three in all: everyone
\* connects, and what they send arrives, also if the last acknowledgment of a
\* handshake or a data segment is lost.  (A lost SYNACK is not made up for, as VAccept
\* sends it once.)
AllConnect ==
  [](/\ lost.SYNACK = 0 /\ early = 0
     /\ Cardinality(Clients) + lost.SYN <= MaxTries
     /\ listener = "open" \/ \A c \in Clients : cl[c].pc = "idle")
    => \A c \in Clients :
         <>(cl[c].pc # "idle") => <>[](srv[c].state = "ESTABLISHED" /\ c \in stored)
=============================================================================
