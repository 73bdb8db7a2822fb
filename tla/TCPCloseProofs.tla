--------------------------- MODULE TCPCloseProofs ---------------------------
(***************************************************************************)
(* Proofs about module TCPClose, for any two applications, any file, any   *)
(* losses and any reordering.                                              *)
(*                                                                         *)
(* That an end sends one FIN is an invariant of its own state.  That FINs  *)
(* are exchanged rests on the numbers: as long as an end has not taken the *)
(* other's FIN, nothing it sends acknowledges more than the other's NXT,   *)
(* and the FIN is acknowledged with NXT + 1.                               *)
(***************************************************************************)
EXTENDS TCPClose, SequenceTheorems, TLAPS

-----------------------------------------------------------------------------
(* The inductive invariant.                                                *)

Called(p) == \E c \in Callers : cls[p][c].pc # "idle"
Opened(p) == sk[p].state \in {"ESTABLISHED", "CLOSE_WAIT"}

\* VClose leaves the open states once, sends its FIN once after that, and only then
\* is there a FIN to be acknowledged.
Once(p) ==
  /\ app[p].pc # "done" => cls[p]["app"].pc = "idle"
  /\ Opened(p) => fins[p] = 0 /\ \A c \in Callers : cls[p][c].pc # "send"
  /\ ~Opened(p) =>
       \/ fins[p] = 1 /\ \A c \in Callers : cls[p][c].pc # "send"
       \/ fins[p] = 0 /\ \E c \in Callers : \A d \in Callers : cls[p][d].pc = "send" <=> d = c
  /\ fins[p] = 0 => sk[p].unackedFINs = {} /\ fin[p] = "none" /\ rcv[p].pc # "finChan"

IInv == TypeOK /\ \A p \in Peers : Once(p)

\* No user closes a socket that an application writes to.
Careful == \A p \in Closers : Chunks[p] = 0

\* p sends no more chunks: there are none, or all were handed over and NXT counts them.
Silent(p) == Chunks[p] = 0 \/ (app[p].pc = "done" /\ snd[p] # "send")

\* VWrite is in its loop.
Writing(p) == app[p].pc \in {"write", "chan"}

\* The FIN has the number after the last chunk.
Calls(p) ==
  /\ p \notin Closers => cls[p]["user"].pc = "idle"
  /\ ~Called(p) => fins[p] = 0
  /\ Chunks[p] = 0 => app[p].left = 0 /\ snd[p] = "idle" /\ ~Writing(p)
  /\ Called(p) => Silent(p)
  /\ \A c \in Callers : cls[p][c].pc \in {"lock", "send"} => cls[p][c].seq = sk[p].NXT
  /\ sk[p].unackedFINs \subseteq {sk[p].NXT + 1}

\* An acknowledged FIN was taken, and so was one that changed the state.
Fins(p) ==
  /\ \/ fin[p] \in {"delete", "state"} \/ rcv[p].pc = "finChan"
     \/ sk[p].state \in {"FIN_WAIT_2", "TIME_WAIT"}
     => finTaken[Other(p)]
  /\ rcv[p].pc = "fin" \/ sk[p].state \in {"CLOSE_WAIT", "LAST_ACK", "TIME_WAIT"} => finTaken[p]
  /\ ~sk[p].inTable => finTaken[p] /\ finTaken[Other(p)]

\* The numbers of p's chunks, at p, at the other end q and between them, up to n = NXT.
Count(m) == IF m.data THEN 1 ELSE 0
UpTo(m, n) == m.fin \/ m.seq + Count(m) <= n

SenderNums(p) ==
  /\ rcv[p].pkt.ack <= sk[p].NXT
  /\ \A a \in ToSet(sk[p].ackChan) : a <= sk[p].NXT
  /\ sk[p].cumWriteUNA <= sk[p].NXT
  /\ snd[p] \in {"mtx", "wait"} => sk[p].cumWriteUNA < sk[p].NXT
ReceiverNums(q, n) ==
  /\ sk[q].cumReadNXT <= n
  /\ \A c \in Callers : cls[q][c].ack <= n
  /\ \A e \in sk[q].earlyPQ : UpTo(e, n)
NetNums(p) ==
  /\ \A m \in ToSet(net[p]) : m.ack <= sk[p].NXT
  /\ \A m \in ToSet(net[Other(p)]) : UpTo(m, sk[p].NXT)
Bounds(p) == SenderNums(p) /\ ReceiverNums(Other(p), sk[p].NXT) /\ NetNums(p)
Nums(p) == finTaken[Other(p)] \/ Bounds(p)

JInv == Careful /\ \A p \in Peers : Calls(p) /\ Fins(p) /\ Nums(p)

-----------------------------------------------------------------------------
(* Lemmas on sequences.                                                    *)

\* The two ends of the connection are each other's Other.
LEMMA OtherPeer ==
  ASSUME NEW p \in Peers
  PROVE  /\ Other(p) \in Peers /\ Other(p) # p /\ Other(Other(p)) = p
         /\ \A q \in Peers : q = p \/ q = Other(p)
BY PeersAssumption DEF Other

\* What is in a sequence when an element is appended or removed.
LEMMA AppendIn ==
  ASSUME NEW S, NEW s \in Seq(S), NEW e \in S
  PROVE  Append(s, e) \in Seq(S) /\ ToSet(Append(s, e)) \subseteq ToSet(s) \cup {e}
<1>1. /\ Append(s, e) \in Seq(S) /\ Len(Append(s, e)) = Len(s) + 1
      /\ \A j \in 1 .. Len(s) : Append(s, e)[j] = s[j]
      /\ Append(s, e)[Len(s) + 1] = e
  BY AppendProperties
<1>2. /\ Len(s) \in Nat /\ DOMAIN s = 1 .. Len(s)
      /\ DOMAIN Append(s, e) = 1 .. Len(s) + 1
  BY <1>1, LenProperties
<1>3. \A j \in DOMAIN Append(s, e) : j \in DOMAIN s \/ j = Len(s) + 1
  BY <1>2
<1>4. \A j \in DOMAIN Append(s, e) : Append(s, e)[j] \in ToSet(s) \cup {e}
  BY <1>1, <1>2, <1>3, Zenon DEF ToSet
<1>. QED  BY <1>1, <1>4, Zenon DEF ToSet

\* Head and tail of a sequence that is not empty.
LEMMA TailIn ==
  ASSUME NEW S, NEW s \in Seq(S), s # <<>>
  PROVE  Head(s) \in S /\ Head(s) \in ToSet(s) /\ Tail(s) \in Seq(S) /\ ToSet(Tail(s)) \subseteq ToSet(s)
<1>1. /\ Head(s) \in S /\ Head(s) = s[1] /\ Tail(s) \in Seq(S) /\ Len(Tail(s)) = Len(s) - 1
      /\ \A j \in 1 .. Len(Tail(s)) : Tail(s)[j] = s[j + 1]
  BY HeadTailProperties
<1>2. /\ Len(s) \in Nat /\ DOMAIN s = 1 .. Len(s) /\ Len(s) # 0
      /\ DOMAIN Tail(s) = 1 .. Len(s) - 1
  BY <1>1, LenProperties, EmptySeq
<1>3. 1 \in DOMAIN s /\ \A j \in DOMAIN Tail(s) : j + 1 \in DOMAIN s
  BY <1>2
<1>4. \A j \in DOMAIN Tail(s) : Tail(s)[j] = s[j + 1]
  BY <1>1, <1>2
<1>5. Head(s) \in ToSet(s)
  BY <1>1, <1>3, Zenon DEF ToSet
<1>6. \A j \in DOMAIN Tail(s) : Tail(s)[j] \in ToSet(s)
  BY <1>3, <1>4, Zenon DEF ToSet
<1>7. ToSet(Tail(s)) \subseteq ToSet(s)
  BY <1>6, Zenon DEF ToSet
<1>. QED  BY <1>1, <1>5, <1>7, Zenon

\* Removing an entry adds none.
LEMMA RemoveAtIn ==
  ASSUME NEW S, NEW s \in Seq(S), NEW i \in 1 .. Len(s)
  PROVE  RemoveAt(s, i) \in Seq(S) /\ ToSet(RemoveAt(s, i)) \subseteq ToSet(s) /\ s[i] \in ToSet(s)
<1>. DEFINE l == SubSeq(s, 1, i - 1)
            r == SubSeq(s, i + 1, Len(s))
            c == l \o r
<1>0. Len(s) \in Nat /\ DOMAIN s = 1 .. Len(s)
  BY LenProperties
<1>1. l \in Seq(S) /\ Len(l) = i - 1 /\ \A j \in 1 .. i - 1 : l[j] = s[j]
  BY SubSeqProperties, ElementOfSeq, LenProperties
<1>2. r \in Seq(S) /\ Len(r) = Len(s) - i /\ \A j \in 1 .. Len(s) - i : r[j] = s[i + j]
  BY SubSeqProperties, ElementOfSeq, LenProperties
<1>. HIDE DEF l, r
<1>3. /\ c \in Seq(S) /\ Len(c) = Len(l) + Len(r)
      /\ \A j \in 1 .. Len(l) + Len(r) : c[j] = IF j <= Len(l) THEN l[j] ELSE r[j - Len(l)]
  BY <1>1, <1>2, ConcatProperties, ZenonT(60)
<1>. HIDE DEF c
<1>4. DOMAIN c = 1 .. Len(s) - 1 /\ Len(l) + Len(r) = Len(s) - 1
  BY <1>0, <1>1, <1>2, <1>3, LenProperties
<1>5. ASSUME NEW j \in DOMAIN c  PROVE c[j] \in ToSet(s)
  <2>1. CASE j <= i - 1
    <3>1. j \in 1 .. i - 1 /\ j \in DOMAIN s /\ c[j] = l[j]
      BY <1>0, <1>1, <1>3, <1>4, <2>1
    <3>. QED  BY <1>1, <3>1, Zenon DEF ToSet
  <2>2. CASE ~(j <= i - 1)
    <3>1. /\ j - (i - 1) \in 1 .. Len(s) - i /\ i + (j - (i - 1)) \in DOMAIN s
          /\ c[j] = r[j - (i - 1)]
      BY SMTT(20), <1>0, <1>1, <1>3, <1>4, <2>2
    <3>. QED  BY <1>2, <3>1, Zenon DEF ToSet
  <2>. QED  BY <2>1, <2>2, Zenon
<1>6. RemoveAt(s, i) = c
  BY DEF RemoveAt, l, r, c
<1>7. ToSet(c) \subseteq ToSet(s)
  BY <1>5, Zenon DEF ToSet
<1>8. s[i] \in ToSet(s)
  BY <1>0, Zenon DEF ToSet
<1>. QED  BY <1>3, <1>6, <1>7, <1>8, Zenon

-----------------------------------------------------------------------------
(* Changes of a socket.                                                    *)

SameState(r, s) == r.state = s.state /\ r.inTable = s.inTable /\ r.unackedFINs = s.unackedFINs
SameSent(r, s) == r.NXT = s.NXT /\ r.cumWriteUNA = s.cumWriteUNA /\ r.ackChan = s.ackChan
SameRead(r, s) == r.cumReadNXT = s.cumReadNXT /\ r.earlyPQ = s.earlyPQ
SameNums(r, s) == SameSent(r, s) /\ SameRead(r, s)

\* The fields of a socket.
LEMMA SocketFields ==
  ASSUME NEW s \in NormalSocket
  PROVE  /\ s.state \in States /\ s.inTable \in BOOLEAN /\ s.stateMtx \in BOOLEAN
         /\ s.unackedMtx \in BOOLEAN /\ s.NXT \in Nat /\ s.cumWriteUNA \in Nat
         /\ s.cumReadNXT \in Nat /\ s.readNXT \in Nat /\ s.LBR \in 0 .. WINDOW_SIZE - 1
         /\ s.unackedNums \in SUBSET Nat /\ s.seenAcks \in SUBSET Nat
         /\ s.unackedFINs \in SUBSET Nat /\ s.ackChan \in Seq(Nat) /\ s.earlyPQ \in SUBSET Early
BY DEF NormalSocket

\* The state after a FIN.
LEMMA TakeFinSocket ==
  ASSUME NEW s \in NormalSocket
  PROVE  LET r == TakeFin(s)
         IN  /\ r \in NormalSocket /\ SameNums(r, s)
             /\ r.inTable = s.inTable /\ r.unackedMtx = s.unackedMtx /\ r.unackedFINs = s.unackedFINs
             /\ \/ s.state = "ESTABLISHED" /\ r.state = "CLOSE_WAIT"
                \/ s.state = "FIN_WAIT_2" /\ r.state = "TIME_WAIT"
                \/ r.state = s.state
<1>1. \/ TakeFin(s) = [s EXCEPT !.state = "CLOSE_WAIT"] /\ s.state = "ESTABLISHED"
      \/ TakeFin(s) = [s EXCEPT !.state = "TIME_WAIT"] /\ s.state = "FIN_WAIT_2"
      \/ TakeFin(s) = [s EXCEPT !.stateMtx = TRUE]
  BY DEF TakeFin
<1>2. "CLOSE_WAIT" \in States /\ "TIME_WAIT" \in States
  BY DEF States
<1>3. \A st \in States :
        LET r == [s EXCEPT !.state = st]
        IN  /\ r \in NormalSocket /\ SameNums(r, s) /\ r.inTable = s.inTable /\ r.state = st
            /\ r.unackedMtx = s.unackedMtx /\ r.unackedFINs = s.unackedFINs
  BY Zenon DEF NormalSocket, SameNums, SameSent, SameRead
<1>4. LET r == [s EXCEPT !.stateMtx = TRUE]
      IN  /\ r \in NormalSocket /\ SameNums(r, s) /\ r.inTable = s.inTable /\ r.state = s.state
          /\ r.unackedMtx = s.unackedMtx /\ r.unackedFINs = s.unackedFINs
  BY Zenon DEF NormalSocket, SameNums, SameSent, SameRead
<1>. QED  BY <1>1, <1>2, <1>3, <1>4, Zenon

-----------------------------------------------------------------------------
(* A step of one end.                                                      *)

\* Everything but the network is changed at p only.
StepOf(p) ==
  /\ sk' = [sk EXCEPT ![p] = sk'[p]] /\ snd' = [snd EXCEPT ![p] = snd'[p]]
  /\ rcv' = [rcv EXCEPT ![p] = rcv'[p]] /\ app' = [app EXCEPT ![p] = app'[p]]
  /\ cls' = [cls EXCEPT ![p] = cls'[p]] /\ fin' = [fin EXCEPT ![p] = fin'[p]]
  /\ fins' = [fins EXCEPT ![p] = fins'[p]] /\ finTaken' = [finTaken EXCEPT ![p] = finTaken'[p]]

\* The types at p.
Receiver == [pc : {"recv", "finChan", "fin", "early"}, pkt : Packet]
Application ==
  [pc : {"call", "write", "chan", "loop", "vread", "read", "wait", "woken", "sleep", "done"},
   left : Nat, num : Nat]
Call == [pc : {"idle", "lock", "send", "done"}, seq : Nat, ack : Nat]
TypeAt(p) ==
  /\ sk[p] \in NormalSocket /\ snd[p] \in {"idle", "send", "mtx", "wait", "acked"}
  /\ rcv[p] \in Receiver /\ app[p] \in Application /\ cls[p] \in [Callers -> Call]
  /\ fin[p] \in {"none", "finChan", "delete", "state"}
  /\ fins[p] \in Nat /\ finTaken[p] \in BOOLEAN
NetType == net \in [Peers -> Seq(Packet)]

\* The types of one end.
LEMMA TypesAt ==
  ASSUME TypeOK, NEW p \in Peers
  PROVE  TypeAt(p) /\ net[p] \in Seq(Packet) /\ lost \in Nat
BY Zenon DEF TypeOK, TypeAt, Receiver, Application, Call

\* The other end stays as it is.
Same(q) ==
  /\ sk'[q] = sk[q] /\ snd'[q] = snd[q] /\ rcv'[q] = rcv[q] /\ app'[q] = app[q]
  /\ cls'[q] = cls[q] /\ fin'[q] = fin[q] /\ fins'[q] = fins[q] /\ finTaken'[q] = finTaken[q]

\* A step of p leaves the other end alone.
LEMMA StepSame ==
  ASSUME TypeOK, NEW p \in Peers, StepOf(p)
  PROVE  Same(Other(p))
<1>1. Other(p) \in Peers /\ Other(p) # p
  BY OtherPeer
<1>. QED  BY <1>1, Zenon DEF TypeOK, StepOf, Same

\* After a step of p only p's types and those of the network are to be shown.
LEMMA StepType ==
  ASSUME TypeOK, NEW p \in Peers, StepOf(p), TypeAt(p)', NetType', lost' \in Nat
  PROVE  TypeOK'
<1>1. sk' \in [Peers -> NormalSocket] /\ snd' \in [Peers -> {"idle", "send", "mtx", "wait", "acked"}]
  BY Zenon DEF TypeOK, TypeAt, StepOf
<1>2. rcv' \in [Peers -> Receiver] /\ app' \in [Peers -> Application]
  BY Zenon DEF TypeOK, TypeAt, StepOf, Receiver, Application
<1>3. cls' \in [Peers -> [Callers -> Call]] /\ fin' \in [Peers -> {"none", "finChan", "delete", "state"}]
  BY Zenon DEF TypeOK, TypeAt, StepOf, Call
<1>4. fins' \in [Peers -> Nat] /\ finTaken' \in [Peers -> BOOLEAN]
  BY Zenon DEF TypeOK, TypeAt, StepOf
<1>. QED  BY <1>1, <1>2, <1>3, <1>4, Zenon DEF TypeOK, Receiver, Application, Call, NetType

\* The first invariant is kept if p keeps its part.
LEMMA StepInv ==
  ASSUME IInv, NEW p \in Peers, StepOf(p), TypeAt(p)', NetType', lost' \in Nat, Once(p)'
  PROVE  IInv'
<1>1. TypeOK'
  BY StepType DEF IInv
<1>2. Same(Other(p))
  BY StepSame DEF IInv
<1>3. Once(Other(p))
  BY OtherPeer, Zenon DEF IInv
<1>4. Once(Other(p))'
  <2>1. Opened(Other(p))' = Opened(Other(p))
    BY <1>2, Zenon DEF Opened, Same
  <2>2. /\ app'[Other(p)] = app[Other(p)] /\ cls'[Other(p)] = cls[Other(p)]
        /\ fins'[Other(p)] = fins[Other(p)] /\ fin'[Other(p)] = fin[Other(p)]
        /\ rcv'[Other(p)] = rcv[Other(p)] /\ sk'[Other(p)] = sk[Other(p)]
    BY <1>2, Zenon DEF Same
  <2>. QED  BY <1>3, <2>1, <2>2 DEF Once
<1>. QED  BY <1>1, <1>4, OtherPeer, Zenon DEF IInv

\* What p's step has to keep of the numbers of its own chunks, and of the other's.
KeepsOwn(p) ==
  ~finTaken[Other(p)] /\ Bounds(p) => sk'[p].NXT >= sk[p].NXT /\ SenderNums(p)' /\ NetNums(p)'
KeepsOthers(p) ==
  ~finTaken'[p] /\ Bounds(Other(p)) =>
    ReceiverNums(p, sk[Other(p)].NXT)' /\ NetNums(Other(p))'
KeepsFinTaken(p) == finTaken[p] => finTaken'[p]

\* The second invariant is kept if p keeps its part.
LEMMA StepJInv ==
  ASSUME IInv, JInv, NEW p \in Peers, StepOf(p), TypeAt(p)', Calls(p)', Fins(p)',
         KeepsFinTaken(p), KeepsOwn(p), KeepsOthers(p)
  PROVE  JInv'
<1>. DEFINE o == Other(p)
<1>1. Same(o)
  BY StepSame DEF IInv
<1>2. o \in Peers /\ o # p /\ Other(o) = p /\ \A q \in Peers : q = p \/ q = o
  BY OtherPeer, Zenon
<1>. HIDE DEF o
<1>3. Calls(o)'
  <2>1. Calls(o)
    BY <1>2, Zenon DEF JInv
  <2>. QED  BY <1>1, <2>1, ZenonT(30) DEF Writing, Calls, Called, Silent, Same
<1>4. Fins(o)'
  <2>1. Fins(o)
    BY <1>2, Zenon DEF JInv
  <2>. QED  BY <1>1, <1>2, <2>1, Zenon DEF Fins, Same, KeepsFinTaken
<1>5. Nums(p)'
  <2>. SUFFICES ASSUME ~finTaken'[o]  PROVE Bounds(p)'
    BY Zenon DEF Nums, o
  <2>1. ~finTaken[o] /\ Bounds(p)
    BY <1>1, Zenon DEF JInv, Nums, Same, o
  <2>2. sk'[p].NXT >= sk[p].NXT /\ SenderNums(p)' /\ NetNums(p)'
    BY <2>1, Zenon DEF KeepsOwn, o
  <2>3. ReceiverNums(o, sk[p].NXT)
    BY <2>1, Zenon DEF Bounds, o
  <2>4. sk[o] \in NormalSocket /\ cls[o] \in [Callers -> Call] /\ sk[p] \in NormalSocket
    BY <1>2, TypesAt, Zenon DEF IInv, TypeAt
  <2>5. sk'[p].NXT \in Nat /\ sk[p].NXT \in Nat
    BY <2>4, SocketFields, Zenon DEF TypeAt
  <2>6. sk[o].cumReadNXT <= sk'[p].NXT
    BY <2>2, <2>3, <2>4, <2>5, SocketFields DEF ReceiverNums
  <2>7. \A c \in Callers : cls[o][c].ack <= sk'[p].NXT
    <3>1. \A c \in Callers : cls[o][c].ack \in Nat
      BY <2>4 DEF Call
    <3>. QED  BY <2>2, <2>3, <2>5, <3>1 DEF ReceiverNums
  <2>8. \A e \in sk[o].earlyPQ : UpTo(e, sk'[p].NXT)
    <3>1. \A e \in sk[o].earlyPQ : e \in Early
      BY <2>4, SocketFields, Zenon
    <3>2. \A e \in sk[o].earlyPQ : e.seq + Count(e) \in Nat
      BY <3>1 DEF Early, Count
    <3>. QED  BY <2>2, <2>3, <2>5, <3>2 DEF ReceiverNums, UpTo
  <2>9. ReceiverNums(o, sk[p].NXT)'
    BY <1>1, <2>6, <2>7, <2>8, Zenon DEF ReceiverNums, Same
  <2>. QED  BY <2>2, <2>9, Zenon DEF Bounds, o
<1>6. Nums(o)'
  <2>. SUFFICES ASSUME ~finTaken'[p]  PROVE Bounds(o)'
    BY <1>2, Zenon DEF Nums
  <2>1. Bounds(o)
    BY <1>2, Zenon DEF JInv, Nums, KeepsFinTaken
  <2>2. ReceiverNums(p, sk[o].NXT)' /\ NetNums(o)'
    BY <2>1, Zenon DEF KeepsOthers, o
  <2>3. SenderNums(o)'
    BY <1>1, <2>1, Zenon DEF Bounds, SenderNums, Same
  <2>. QED  BY <1>2, <2>2, <2>3, Zenon DEF Bounds
<1>. QED  BY <1>2, <1>3, <1>4, <1>5, <1>6, Zenon DEF JInv

\* What p's step does to the network: it sends m, takes the i-th packet, or neither.
LEMMA SendNet ==
  ASSUME TypeOK, NEW p \in Peers, NEW m \in Packet, Send(p, m)
  PROVE  /\ NetType' /\ net'[p] = net[p]
         /\ ToSet(net'[Other(p)]) \subseteq ToSet(net[Other(p)]) \cup {m}
<1>. DEFINE o == Other(p)
<1>1. o \in Peers /\ o # p
  BY OtherPeer
<1>. HIDE DEF o
<1>2. net \in [Peers -> Seq(Packet)] /\ net' = [net EXCEPT ![o] = Append(net[o], m)]
  BY Zenon DEF TypeOK, Send, o
<1>3. net[o] \in Seq(Packet)
  BY <1>1, <1>2, Zenon
<1>4. Append(net[o], m) \in Seq(Packet) /\ ToSet(Append(net[o], m)) \subseteq ToSet(net[o]) \cup {m}
  BY <1>3, AppendIn
<1>5. NetType' /\ net'[p] = net[p] /\ net'[o] = Append(net[o], m)
  BY <1>1, <1>2, <1>4, Zenon DEF NetType
<1>. QED  BY <1>4, <1>5, Zenon DEF o

\* Receiving takes one packet from the network and adds none.
LEMMA ReceiveNet ==
  ASSUME TypeOK, NEW p \in Peers, NEW i \in 1 .. Reach, Receive(p, i)
  PROVE  /\ NetType' /\ net'[Other(p)] = net[Other(p)] /\ ToSet(net'[p]) \subseteq ToSet(net[p])
         /\ net[p][i] \in Packet /\ net[p][i] \in ToSet(net[p])
<1>1. net \in [Peers -> Seq(Packet)] /\ net' = [net EXCEPT ![p] = RemoveAt(net[p], i)]
  BY Zenon DEF TypeOK, Receive
<1>2. net[p] \in Seq(Packet)
  BY <1>1, Zenon
<1>3. i \in 1 .. Len(net[p])
  BY <1>2, LenProperties, BoundAssumption DEF Receive
<1>4. /\ RemoveAt(net[p], i) \in Seq(Packet) /\ ToSet(RemoveAt(net[p], i)) \subseteq ToSet(net[p])
      /\ net[p][i] \in ToSet(net[p])
  BY <1>2, <1>3, RemoveAtIn
<1>5. net[p][i] \in Packet
  BY <1>2, <1>3, ElementOfSeq
<1>6. Other(p) \in Peers /\ Other(p) # p
  BY OtherPeer
<1>. QED  BY <1>1, <1>4, <1>5, <1>6, Zenon DEF NetType

NetShrinks == \A q \in Peers : ToSet(net'[q]) \subseteq ToSet(net[q])

\* A step that leaves the network alone adds no packet.
LEMMA SameNet ==
  ASSUME TypeOK, net' = net
  PROVE  NetType' /\ NetShrinks
BY Zenon DEF TypeOK, NetType, NetShrinks

\* A step that leaves alone what a part of the invariant speaks of keeps that part.
LEMMA OnceKept ==
  ASSUME NEW p \in Peers, Once(p), SameState(sk'[p], sk[p]), fins'[p] = fins[p],
         cls'[p] = cls[p], fin'[p] = fin[p], rcv'[p].pc = "finChan" => rcv[p].pc = "finChan",
         app[p].pc = "done" => app'[p].pc = "done"
  PROVE  Once(p)'
<1>1. Opened(p)' = Opened(p) /\ sk'[p].unackedFINs = sk[p].unackedFINs
  BY Zenon DEF Opened, SameState
<1>. QED  BY <1>1 DEF Once

\* A step that neither writes, closes nor sends keeps what is known of the VClose calls.
LEMMA CallsKept ==
  ASSUME NEW p \in Peers, Calls(p), app'[p].left = app[p].left,
         app[p].pc = "done" => app'[p].pc = "done", Writing(p)' => Writing(p),
         cls'[p] = cls[p], fins'[p] = fins[p],
         snd'[p] = "send" => snd[p] = "send", snd[p] = "idle" => snd'[p] = "idle",
         sk'[p].NXT = sk[p].NXT, sk'[p].unackedFINs = sk[p].unackedFINs
  PROVE  Calls(p)'
BY Zenon DEF Calls, Called, Silent

\* A step that changes no state keeps what is known of the FINs.
LEMMA FinsKept ==
  ASSUME NEW p \in Peers, TypeOK, StepOf(p), Fins(p),
         fin'[p] = fin[p], rcv'[p].pc \in {rcv[p].pc, "recv", "early"},
         sk'[p].state = sk[p].state, sk'[p].inTable = sk[p].inTable, KeepsFinTaken(p)
  PROVE  Fins(p)'
<1>1. finTaken'[Other(p)] = finTaken[Other(p)]
  BY StepSame, Zenon DEF Same
<1>. QED  BY <1>1 DEF Fins, KeepsFinTaken

\* A step that neither sends nor counts keeps p's numbers in order.
LEMMA OwnKept ==
  ASSUME NEW p \in Peers, TypeOK, StepOf(p), SameSent(sk'[p], sk[p]),
         snd'[p] \in {"mtx", "wait"} => snd[p] \in {"mtx", "wait"}, rcv'[p].pkt.ack \in {rcv[p].pkt.ack, 0}, NetShrinks
  PROVE  KeepsOwn(p)
<1>. SUFFICES ASSUME ~finTaken[Other(p)], Bounds(p)
              PROVE  sk'[p].NXT >= sk[p].NXT /\ SenderNums(p)' /\ NetNums(p)'
  BY Zenon DEF KeepsOwn
<1>1. sk[p].NXT \in Nat
  BY TypesAt, SocketFields DEF TypeAt
<1>2. sk'[p].NXT = sk[p].NXT /\ sk'[p].cumWriteUNA = sk[p].cumWriteUNA /\ sk'[p].ackChan = sk[p].ackChan
  BY Zenon DEF SameSent
<1>3. sk'[p].NXT >= sk[p].NXT /\ 0 <= sk'[p].NXT
  BY <1>1, <1>2
<1>4. SenderNums(p)'
  BY <1>2, <1>3, Zenon DEF Bounds, SenderNums
<1>5. NetNums(p)'
  BY <1>2, OtherPeer, Zenon DEF Bounds, NetNums, NetShrinks
<1>. QED  BY <1>3, <1>4, <1>5

\* A step that stores nothing keeps the other end's numbers in order.
LEMMA OthersKept ==
  ASSUME NEW p \in Peers, TypeOK, StepOf(p), SameRead(sk'[p], sk[p]),
         \A c \in Callers : cls'[p][c].ack \in {cls[p][c].ack, 0, sk[p].cumReadNXT}, NetShrinks
  PROVE  KeepsOthers(p)
<1>. DEFINE o == Other(p)
<1>0. o \in Peers /\ Other(o) = p
  BY OtherPeer
<1>. SUFFICES ASSUME ~finTaken'[p], Bounds(o)
              PROVE  ReceiverNums(p, sk[o].NXT)' /\ NetNums(o)'
  BY Zenon DEF KeepsOthers
<1>. HIDE DEF o
<1>1. sk'[o] = sk[o]
  BY StepSame, Zenon DEF Same, o
<1>2. sk[o].NXT \in Nat
  BY <1>0, TypesAt, SocketFields DEF TypeAt
<1>3. 0 <= sk[o].NXT
  BY <1>2
<1>4. ReceiverNums(p, sk[o].NXT)
  BY <1>0, Zenon DEF Bounds
<1>5. ReceiverNums(p, sk[o].NXT)'
  BY <1>1, <1>3, <1>4, Zenon DEF ReceiverNums, SameRead
<1>6. NetNums(o)'
  BY <1>0, <1>1, Zenon DEF Bounds, NetNums, NetShrinks
<1>. QED  BY <1>5, <1>6

-----------------------------------------------------------------------------
(* The steps of the applications and of SenderThread.                      *)

\* A step of the application or of SenderThread that changes nothing else.
LEMMA ControlStep ==
  ASSUME IInv, NEW p \in Peers, StepOf(p),
         UNCHANGED <<net, sk, rcv, cls, fin, fins, finTaken, lost>>,
         snd'[p] \in {"idle", "send", "acked", snd[p]}, app'[p] \in Application,
         app[p].pc = "done" => app'[p].pc = "done", JInv => Calls(p)'
  PROVE  IInv' /\ (JInv => JInv')
<1>0. TypeOK /\ Once(p)
  BY Zenon DEF IInv
<1>1. TypeAt(p) /\ lost \in Nat
  BY <1>0, TypesAt
<1>2. /\ sk'[p] = sk[p] /\ rcv'[p] = rcv[p] /\ cls'[p] = cls[p] /\ fin'[p] = fin[p]
      /\ fins'[p] = fins[p] /\ finTaken'[p] = finTaken[p] /\ net' = net /\ lost' = lost
  OBVIOUS
<1>3. SameState(sk'[p], sk[p]) /\ SameSent(sk'[p], sk[p]) /\ SameRead(sk'[p], sk[p])
  BY <1>2, Zenon DEF SameState, SameSent, SameRead
<1>4. TypeAt(p)'
  <2>1. snd'[p] \in {"idle", "send", "mtx", "wait", "acked"}
    BY <1>1 DEF TypeAt
  <2>. QED  BY <1>1, <1>2, <2>1, Zenon DEF TypeAt
<1>5. NetType' /\ NetShrinks
  BY <1>0, <1>2, SameNet
<1>6. Once(p)'
  BY <1>0, <1>2, <1>3, OnceKept, Zenon
<1>7. IInv'
  BY <1>1, <1>2, <1>4, <1>5, <1>6, StepInv
<1>8. ASSUME JInv  PROVE JInv'
  <2>1. Calls(p)' /\ Fins(p) /\ KeepsFinTaken(p)
    BY <1>2, <1>8, Zenon DEF JInv, KeepsFinTaken
  <2>2. Fins(p)'
    BY <1>0, <1>2, <2>1, FinsKept
  <2>3. KeepsOwn(p)
    <3>1. (snd'[p] \in {"mtx", "wait"} => snd[p] \in {"mtx", "wait"}) /\ rcv'[p].pkt.ack \in {rcv[p].pkt.ack, 0}
      BY <1>2
    <3>. QED  BY <1>0, <1>3, <1>5, <3>1, OwnKept, Zenon
  <2>4. KeepsOthers(p)
    <3>1. \A c \in Callers : cls'[p][c].ack \in {cls[p][c].ack, 0, sk[p].cumReadNXT}
      BY <1>2
    <3>. QED  BY <1>0, <1>3, <1>5, <3>1, OthersKept, Zenon
  <2>. QED  BY <1>4, <1>8, <2>1, <2>2, <2>3, <2>4, StepJInv, Zenon
<1>. QED  BY <1>7, <1>8, Zenon

\* The counts of an application.
LEMMA ApplicationFields ==
  ASSUME NEW a \in Application
  PROVE  a.left \in Nat /\ a.num \in Nat
BY DEF Application

\* Whoever writes has not been closed.
LEMMA WriterOpen ==
  ASSUME IInv, JInv, NEW p \in Peers, Chunks[p] # 0, app[p].pc # "done"
  PROVE  ~Called(p) /\ p \notin Closers
<1>1. p \notin Closers
  BY Zenon DEF JInv, Careful
<1>2. cls[p]["app"].pc = "idle" /\ cls[p]["user"].pc = "idle"
  BY <1>1, Zenon DEF IInv, Once, JInv, Calls
<1>. QED  BY <1>1, <1>2 DEF Called, Callers

\* VWrite copies a chunk.
LEMMA VWriteCopyStep ==
  ASSUME IInv, NEW p \in Peers, VWriteCopy(p)
  PROVE  IInv' /\ (JInv => JInv')
<1>0. TypeOK /\ app[p].pc = "write" /\ app[p].pc # "done" /\ app[p].left > 0
  BY Zenon DEF IInv, VWriteCopy
<1>1. /\ app[p] \in Application /\ app[p].left \in Nat
      /\ snd[p] \in {"idle", "send", "mtx", "wait", "acked"}
  BY <1>0, TypesAt, ApplicationFields DEF TypeAt
<1>. DEFINE l == IF Room(p) > 0 THEN app[p].left - 1 ELSE app[p].left
<1>2. l \in Nat
  BY <1>0, <1>1
<1>3. app'[p] = [app[p] EXCEPT !.left = l, !.pc = "chan"]
  BY <1>0, Zenon DEF TypeOK, VWriteCopy
<1>. HIDE DEF l
<1>4. app'[p] \in Application /\ app'[p].pc = "chan"
  BY Zenon, <1>1, <1>2, <1>3 DEF Application
<1>5. snd' = snd /\ UNCHANGED <<net, sk, rcv, cls, fin, fins, finTaken, lost>>
  BY Zenon DEF VWriteCopy
<1>6. StepOf(p)
  BY <1>0, Zenon DEF TypeOK, StepOf, VWriteCopy
<1>7. ASSUME JInv  PROVE Calls(p)'
  <2>1. Calls(p) /\ Chunks[p] # 0
    BY <1>0, <1>7, Zenon DEF JInv, Calls, Writing
  <2>2. ~Called(p)
    BY <1>0, <1>7, <2>1, WriterOpen
  <2>. QED  BY <1>5, <2>1, <2>2, Zenon DEF Calls, Called
<1>8. snd'[p] \in {"idle", "send", "acked", snd[p]} /\ app[p].pc # "done"
  BY <1>0, <1>5
<1>. QED  BY <1>4, <1>5, <1>6, <1>7, <1>8, ControlStep, Zenon

\* SenderThread takes a chunk from VWrite.
LEMMA HandoffStep ==
  ASSUME IInv, NEW p \in Peers, Handoff(p)
  PROVE  IInv' /\ (JInv => JInv')
<1>0. TypeOK /\ app[p].pc = "chan" /\ app[p].pc # "done"
  BY Zenon DEF IInv, Handoff
<1>1. app[p] \in Application
  BY <1>0, TypesAt, Zenon DEF TypeAt
<1>. DEFINE pc == CASE app[p].left > 0 -> "write"
                    [] App[p] = "sendfile" -> "sleep"
                    [] OTHER -> "call"
<1>2. pc \in {"call", "write", "sleep"}
  OBVIOUS
<1>3. app' = [app EXCEPT ![p].pc = pc]
  BY DEF Handoff
<1>. HIDE DEF pc
<1>4. app'[p] = [app[p] EXCEPT !.pc = pc]
  BY <1>0, <1>3, Zenon DEF TypeOK
<1>5. app'[p] \in Application /\ app'[p].pc = pc
  BY <1>1, <1>2, <1>4 DEF Application
<1>6. UNCHANGED <<net, sk, rcv, cls, fin, fins, finTaken, lost>>
  BY Zenon DEF Handoff
<1>7. snd'[p] \in {"idle", "send", "acked", snd[p]}
  <2>1. \/ snd' = [snd EXCEPT ![p] = "idle"]
        \/ snd' = [snd EXCEPT ![p] = "send"]
    BY Zenon DEF Handoff
  <2>. QED  BY <1>0, <2>1, Zenon DEF TypeOK
<1>8. StepOf(p)
  BY <1>0, <1>3, Zenon DEF TypeOK, StepOf, Handoff
<1>9. ASSUME JInv  PROVE Calls(p)'
  <2>1. Calls(p) /\ Chunks[p] # 0
    BY <1>0, <1>9, Zenon DEF JInv, Calls, Writing
  <2>2. ~Called(p)
    BY <1>0, <1>9, <2>1, WriterOpen
  <2>. QED  BY <1>6, <2>1, <2>2, Zenon DEF Calls, Called
<1>. QED  BY <1>0, <1>5, <1>6, <1>7, <1>8, <1>9, ControlStep, Zenon

\* A window is done.
LEMMA WindowDoneStep ==
  ASSUME IInv, NEW p \in Peers, WindowDone(p)
  PROVE  IInv' /\ (JInv => JInv')
<1>0. TypeOK /\ app[p] \in Application
  BY TypesAt, Zenon DEF IInv, TypeAt
<1>1. /\ snd'[p] = "idle" /\ app' = app
      /\ UNCHANGED <<net, sk, rcv, cls, fin, fins, finTaken, lost>>
  BY <1>0, Zenon DEF WindowDone, TypeOK
<1>2. StepOf(p)
  BY <1>0, Zenon DEF TypeOK, StepOf, WindowDone
<1>3. ASSUME JInv  PROVE Calls(p)'
  BY <1>1, <1>3, Zenon DEF Writing, Calls, Called, Silent, JInv
<1>. QED  BY <1>0, <1>1, <1>2, <1>3, ControlStep, Zenon

\* VWrite begins, or returns an error.
LEMMA VWriteStep ==
  ASSUME IInv, NEW p \in Peers, VWrite(p)
  PROVE  IInv' /\ (JInv => JInv')
<1>0. TypeOK /\ app[p].pc = "call" /\ app[p].pc # "done" /\ app[p].left > 0
  BY Zenon DEF IInv, VWrite
<1>1. app[p] \in Application /\ app[p].left \in Nat /\ snd[p] \in {"idle", "send", "mtx", "wait", "acked"}
  BY <1>0, TypesAt, ApplicationFields DEF TypeAt
<1>2. app'[p] \in Application /\ app'[p].pc \in {"call", "write"} /\ app'[p].left \in {0, app[p].left}
  <2>1. \/ app'[p] = [app[p] EXCEPT !.left = 0]
        \/ app'[p] = [app[p] EXCEPT !.pc = "write"]
    BY <1>0, Zenon DEF VWrite, TypeOK
  <2>2. CASE app'[p] = [app[p] EXCEPT !.left = 0]
    BY <1>0, <1>1, <2>2 DEF Application
  <2>3. CASE app'[p] = [app[p] EXCEPT !.pc = "write"]
    BY <1>1, <2>3 DEF Application
  <2>. QED  BY <2>1, <2>2, <2>3
<1>3. snd' = snd /\ UNCHANGED <<net, sk, rcv, cls, fin, fins, finTaken, lost>>
  BY Zenon DEF VWrite
<1>4. StepOf(p)
  BY <1>0, Zenon DEF TypeOK, StepOf, VWrite
<1>5. ASSUME JInv  PROVE Calls(p)'
  <2>1. Calls(p)
    BY <1>5, Zenon DEF JInv
  <2>2. Chunks[p] # 0
    BY <1>0, <2>1 DEF Calls
  <2>3. ~Called(p)
    BY <1>0, <1>5, <2>2, WriterOpen
  <2>4. app'[p].pc # "done"
    BY <1>2
  <2>5. cls'[p] = cls[p] /\ fins'[p] = fins[p] /\ sk'[p] = sk[p]
    BY <1>3
  <2>6. ~Called(p)' /\ \A c \in Callers : cls[p][c].pc \notin {"lock", "send"}
    BY <2>3, <2>5 DEF Called
  <2>. QED  BY <1>0, <2>1, <2>2, <2>3, <2>4, <2>5, <2>6, Zenon DEF Calls
<1>. QED  BY <1>0, <1>1, <1>2, <1>3, <1>4, <1>5, ControlStep, Zenon

\* The amount that VRead computes.
LEMMA UnreadType ==
  ASSUME TypeOK, NEW p \in Peers
  PROVE  Unread(p) \in Nat /\ WINDOW_SIZE \in Nat /\ WINDOW_SIZE > 0
<1>1. sk[p].readNXT - 1 - sk[p].LBR \in Int
  BY TypesAt, SocketFields DEF TypeAt
<1>2. WINDOW_SIZE \in Nat /\ WINDOW_SIZE > 0
  BY AppAssumption, PeersAssumption
<1>. QED  BY <1>1, <1>2 DEF Unread

\* The loop of ReceiveFile, up to VRead.
LEMMA ReadStep ==
  ASSUME IInv, NEW p \in Peers, ReceiveLoop(p) \/ VRead(p)
  PROVE  IInv' /\ (JInv => JInv')
<1>0. TypeOK /\ app[p].pc # "done"
  BY Zenon DEF IInv, ReceiveLoop, VRead
<1>1. app[p] \in Application /\ snd[p] \in {"idle", "send", "mtx", "wait", "acked"} /\ sk[p] \in NormalSocket
  BY <1>0, TypesAt, Zenon DEF TypeAt
<1>2. /\ app'[p] \in Application /\ app'[p].pc \notin {"done", "write", "chan"}
      /\ app'[p].left = app[p].left
  <2>1. Unread(p) \in Nat
    BY <1>0, UnreadType
  <2>2. \/ \E pc \in {"sleep", "vread", "loop"} : app'[p] = [app[p] EXCEPT !.pc = pc]
        \/ app'[p] = [app[p] EXCEPT !.pc = "read", !.num = Unread(p)]
    BY <1>0, Zenon DEF ReceiveLoop, VRead, TypeOK
  <2>3. ASSUME NEW pc \in {"sleep", "vread", "loop"}, app'[p] = [app[p] EXCEPT !.pc = pc]
        PROVE  /\ app'[p] \in Application /\ app'[p].pc \notin {"done", "write", "chan"}
               /\ app'[p].left = app[p].left
    BY <1>1, <2>3 DEF Application
  <2>4. CASE app'[p] = [app[p] EXCEPT !.pc = "read", !.num = Unread(p)]
    BY Zenon, <1>1, <2>1, <2>4 DEF Application
  <2>. QED  BY <2>2, <2>3, <2>4
<1>3. snd' = snd /\ UNCHANGED <<net, sk, rcv, cls, fin, fins, finTaken, lost>>
  BY Zenon DEF ReceiveLoop, VRead
<1>4. StepOf(p)
  BY <1>0, Zenon DEF TypeOK, StepOf, ReceiveLoop, VRead
<1>5. ASSUME JInv  PROVE Calls(p)'
  <2>1. Calls(p)
    BY <1>5, Zenon DEF JInv
  <2>2. Called(p) => Chunks[p] = 0
    BY <1>0, <2>1, Zenon DEF Calls, Silent
  <2>3. ~Writing(p)'
    BY <1>2 DEF Writing
  <2>. QED  BY <1>0, <1>2, <1>3, <2>1, <2>2, <2>3, Zenon DEF Calls, Called, Silent
<1>. QED  BY <1>0, <1>1, <1>2, <1>3, <1>4, <1>5, ControlStep, Zenon

\* A packet that p sends acknowledges what p has read, or had read when VClose was
\* called.
LEMMA OthersSent ==
  ASSUME NEW p \in Peers, TypeOK, StepOf(p), SameRead(sk'[p], sk[p]),
         \A c \in Callers : cls'[p][c].ack \in {cls[p][c].ack, 0}, NEW m \in Packet, Send(p, m),
         m.ack = sk[p].cumReadNXT \/ \E c \in Callers : m.ack = cls[p][c].ack
  PROVE  KeepsOthers(p)
<1>. DEFINE o == Other(p)
<1>0. o \in Peers /\ Other(o) = p
  BY OtherPeer
<1>. SUFFICES ASSUME ~finTaken'[p], Bounds(o)
              PROVE  ReceiverNums(p, sk[o].NXT)' /\ NetNums(o)'
  BY Zenon DEF KeepsOthers
<1>7. net'[p] = net[p] /\ ToSet(net'[o]) \subseteq ToSet(net[o]) \cup {m}
  BY SendNet
<1>. HIDE DEF o
<1>1. sk'[o] = sk[o]
  BY StepSame, Zenon DEF Same, o
<1>2. sk[o].NXT \in Nat
  BY <1>0, TypesAt, SocketFields DEF TypeAt
<1>3. 0 <= sk[o].NXT
  BY <1>2
<1>4. ReceiverNums(p, sk[o].NXT)
  BY <1>0, Zenon DEF Bounds
<1>5. ReceiverNums(p, sk[o].NXT)'
  BY <1>1, <1>3, <1>4, Zenon DEF ReceiverNums, SameRead
<1>8. m.ack <= sk[o].NXT
  BY <1>4, Zenon DEF ReceiverNums
<1>6. NetNums(o)'
  BY <1>0, <1>1, <1>7, <1>8, Zenon DEF Bounds, NetNums
<1>. QED  BY <1>5, <1>6

\* A packet that p sends has a number up to NXT.
LEMMA OwnSent ==
  ASSUME NEW p \in Peers, TypeOK, StepOf(p), SameSent(sk'[p], sk[p]),
         snd'[p] \in {"mtx", "wait"} => snd[p] \in {"mtx", "wait"}, rcv'[p].pkt.ack \in {rcv[p].pkt.ack, 0},
         NEW m \in Packet, Send(p, m), SenderNums(p) => UpTo(m, sk[p].NXT)
  PROVE  KeepsOwn(p)
<1>. SUFFICES ASSUME ~finTaken[Other(p)], Bounds(p)
              PROVE  sk'[p].NXT >= sk[p].NXT /\ SenderNums(p)' /\ NetNums(p)'
  BY Zenon DEF KeepsOwn
<1>1. sk[p].NXT \in Nat
  BY TypesAt, SocketFields DEF TypeAt
<1>2. sk'[p].NXT = sk[p].NXT /\ sk'[p].cumWriteUNA = sk[p].cumWriteUNA /\ sk'[p].ackChan = sk[p].ackChan
  BY Zenon DEF SameSent
<1>3. sk'[p].NXT >= sk[p].NXT /\ 0 <= sk'[p].NXT
  BY <1>1, <1>2
<1>4. SenderNums(p)'
  BY <1>2, <1>3, Zenon DEF Bounds, SenderNums
<1>5. net'[p] = net[p] /\ ToSet(net'[Other(p)]) \subseteq ToSet(net[Other(p)]) \cup {m}
  BY SendNet
<1>6. UpTo(m, sk[p].NXT)
  BY Zenon DEF Bounds
<1>7. NetNums(p)'
  BY <1>2, <1>5, <1>6, Zenon DEF Bounds, NetNums
<1>. QED  BY <1>3, <1>4, <1>7

\* A packet without FIN.
LEMMA SegmentType ==
  ASSUME TypeOK, NEW p \in Peers, NEW seq \in Nat, NEW data \in BOOLEAN
  PROVE  LET m == Segment(p, seq, data)
         IN  /\ m \in Packet /\ m.seq = seq /\ m.ack = sk[p].cumReadNXT
             /\ m.data = data /\ m.fin = FALSE
<1>1. sk[p].cumReadNXT \in Nat
  BY TypesAt, SocketFields DEF TypeAt
<1>. QED  BY <1>1 DEF Segment, Packet

\* NXT counts the next chunk: nobody has called VClose yet.
LEMMA MoveNXTStep ==
  ASSUME IInv, NEW p \in Peers, MoveNXT(p)
  PROVE  IInv' /\ (JInv => JInv')
<1>. DEFINE s == sk[p]
<1>0. TypeOK /\ Once(p)
  BY Zenon DEF IInv
<1>1. TypeAt(p) /\ lost \in Nat /\ s \in NormalSocket
  BY <1>0, TypesAt, Zenon DEF TypeAt
<1>2. s.NXT \in Nat /\ s.NXT + 1 \in Nat /\ s.cumWriteUNA \in Nat
  BY <1>1, SocketFields
<1>3. sk'[p] = [s EXCEPT !.NXT = s.NXT + 1]
  BY <1>0, Zenon DEF MoveNXT, TypeOK
<1>4. /\ sk'[p] \in NormalSocket /\ sk'[p].NXT = s.NXT + 1 /\ SameState(sk'[p], s)
      /\ SameRead(sk'[p], s) /\ sk'[p].cumWriteUNA = s.cumWriteUNA /\ sk'[p].ackChan = s.ackChan
  <2>. HIDE DEF s
  <2>. QED  BY <1>1, <1>2, <1>3, Zenon DEF NormalSocket, SameState, SameRead
<1>5. snd[p] = "send" /\ snd'[p] = "mtx" /\ UNCHANGED <<net, rcv, app, cls, fin, fins, finTaken, lost>>
  BY <1>0, Zenon DEF MoveNXT, TypeOK
<1>6. StepOf(p)
  BY <1>0, Zenon DEF TypeOK, StepOf, MoveNXT
<1>7. TypeAt(p)'
  <2>1. snd'[p] \in {"idle", "send", "mtx", "wait", "acked"}
    BY <1>5
  <2>. QED  BY <1>1, <1>4, <1>5, <2>1, Zenon DEF TypeAt
<1>8. NetType' /\ NetShrinks
  BY <1>0, <1>5, SameNet
<1>9. Once(p)'
  BY <1>0, <1>4, <1>5, OnceKept, Zenon
<1>10. IInv'
  BY <1>1, <1>5, <1>6, <1>7, <1>8, <1>9, StepInv
<1>11. ASSUME JInv  PROVE JInv'
  <2>0. Calls(p) /\ Fins(p) /\ KeepsFinTaken(p)
    BY <1>5, <1>11, Zenon DEF JInv, KeepsFinTaken
  <2>1. Calls(p)'
    <3>1. snd[p] # "idle"
      BY <1>5
    <3>2. ~Called(p) /\ Chunks[p] # 0
      BY <1>5, <2>0, <3>1, Zenon DEF Calls, Silent
    <3>3. fins[p] = 0 /\ s.unackedFINs = {}
      BY <1>0, <2>0, <3>2, Zenon DEF Calls, Once
    <3>4. sk'[p].unackedFINs = {}
      BY <1>4, <3>3, Zenon DEF SameState
    <3>5. ~Called(p)' /\ \A c \in Callers : cls'[p][c].pc \notin {"lock", "send"}
      BY <1>5, <3>2 DEF Called
    <3>. QED  BY <1>5, <2>0, <3>2, <3>3, <3>4, <3>5, Zenon DEF Calls
  <2>2. Fins(p)'
    BY <1>0, <1>4, <1>5, <1>6, <2>0, FinsKept DEF SameState
  <2>3. KeepsOthers(p)
    <3>1. \A c \in Callers : cls'[p][c].ack \in {cls[p][c].ack, 0, sk[p].cumReadNXT}
      BY <1>5
    <3>. QED  BY <1>0, <1>4, <1>6, <1>8, <3>1, OthersKept, Zenon
  <2>4. KeepsOwn(p)
    <3>. SUFFICES ASSUME Bounds(p)
                  PROVE  sk'[p].NXT >= sk[p].NXT /\ SenderNums(p)' /\ NetNums(p)'
      BY Zenon DEF KeepsOwn
    <3>1. \A n \in Nat : n <= s.NXT => n <= s.NXT + 1
      BY <1>2
    <3>2. rcv[p].pkt.ack \in Nat /\ \A a \in ToSet(s.ackChan) : a \in Nat
      <4>1. rcv[p].pkt \in Packet /\ s.ackChan \in Seq(Nat)
        BY <1>1, SocketFields DEF TypeAt, Receiver
      <4>2. rcv[p].pkt.ack \in Nat
        BY <4>1 DEF Packet
      <4>. QED  BY <4>1, <4>2 DEF ToSet
    <3>3. s.cumWriteUNA <= s.NXT + 1 /\ s.cumWriteUNA < s.NXT + 1
      BY <1>2 DEF Bounds, SenderNums
    <3>4. SenderNums(p)'
      BY <1>4, <1>5, <3>1, <3>2, <3>3, Zenon DEF Bounds, SenderNums
    <3>5. \A q \in Peers : \A k \in ToSet(net[q]) : k.ack \in Nat /\ k.seq + Count(k) \in Nat
      <4>1. \A q \in Peers : net[q] \in Seq(Packet)
        BY <1>0, Zenon DEF TypeOK
      <4>2. \A q \in Peers : \A k \in ToSet(net[q]) : k \in Packet
        BY <4>1 DEF ToSet
      <4>3. \A k \in Packet : k.ack \in Nat /\ k.seq + Count(k) \in Nat
        BY DEF Packet, Count
      <4>. QED  BY <4>2, <4>3, Zenon
    <3>6. NetNums(p)'
      BY <1>4, <1>5, <3>1, <3>5, OtherPeer, Zenon DEF Bounds, NetNums, UpTo
    <3>. QED  BY <1>2, <1>4, <3>4, <3>6
  <2>. QED  BY <1>6, <1>7, <1>11, <2>0, <2>1, <2>2, <2>3, <2>4, StepJInv, Zenon
<1>. QED  BY <1>10, <1>11, Zenon

\* slidingWindow handles an acknowledgment.
LEMMA PopAckStep ==
  ASSUME IInv, NEW p \in Peers, PopAck(p)
  PROVE  IInv' /\ (JInv => JInv')
<1>. DEFINE s == sk[p]
            a == Head(s.ackChan)
            q == Tail(s.ackChan)
<1>0. TypeOK /\ Once(p)
  BY Zenon DEF IInv
<1>1. TypeAt(p) /\ lost \in Nat /\ s \in NormalSocket
  BY <1>0, TypesAt, Zenon DEF TypeAt
<1>2. a \in Nat /\ a \in ToSet(s.ackChan) /\ q \in Seq(Nat) /\ ToSet(q) \subseteq ToSet(s.ackChan)
  <2>1. s.ackChan \in Seq(Nat) /\ s.ackChan # <<>>
    BY <1>1, SocketFields, Zenon DEF PopAck
  <2>. QED  BY <2>1, TailIn
<1>3. s.seenAcks \cup {a} \in SUBSET Nat
  BY <1>1, <1>2, SocketFields
<1>4. StepOf(p) /\ UNCHANGED <<net, rcv, app, cls, fin, fins, finTaken, lost>>
  BY <1>0, Zenon DEF TypeOK, StepOf, PopAck
<1>5. /\ sk'[p] \in NormalSocket /\ SameState(sk'[p], s) /\ SameRead(sk'[p], s)
      /\ sk'[p].NXT = s.NXT /\ sk'[p].ackChan = q /\ (s.unackedMtx => sk'[p].unackedMtx)
      /\ \/ sk'[p].cumWriteUNA = s.cumWriteUNA /\ snd'[p] = snd[p]
         \/ sk'[p].cumWriteUNA = a /\ snd'[p] = "acked"
  <2>1. \/ /\ sk'[p] = [[s EXCEPT !.ackChan = q] EXCEPT !.unackedMtx = TRUE]
           /\ snd' = snd
        \/ /\ sk'[p] = [[s EXCEPT !.ackChan = q] EXCEPT
                          !.seenAcks = [s EXCEPT !.ackChan = q].seenAcks \cup {a}, !.cumWriteUNA = a]
           /\ snd'[p] = "acked"
        \/ /\ sk'[p] = [[s EXCEPT !.ackChan = q] EXCEPT
                          !.seenAcks = [s EXCEPT !.ackChan = q].seenAcks \cup {a}]
           /\ snd' = snd
    BY <1>0, Zenon DEF PopAck, TypeOK
  <2>2. [s EXCEPT !.ackChan = q].seenAcks = s.seenAcks
    BY <1>1, Zenon DEF NormalSocket
  <2>. HIDE DEF s, a, q
  <2>3. CASE sk'[p] = [[s EXCEPT !.ackChan = q] EXCEPT !.unackedMtx = TRUE] /\ snd' = snd
    BY <1>1, <1>2, <2>3, Zenon DEF NormalSocket, SameState, SameRead
  <2>4. CASE /\ sk'[p] = [[s EXCEPT !.ackChan = q] EXCEPT
                            !.seenAcks = s.seenAcks \cup {a}, !.cumWriteUNA = a]
             /\ snd'[p] = "acked"
    BY <1>1, <1>2, <1>3, <2>4, Zenon DEF NormalSocket, SameState, SameRead
  <2>5. CASE /\ sk'[p] = [[s EXCEPT !.ackChan = q] EXCEPT !.seenAcks = s.seenAcks \cup {a}]
             /\ snd' = snd
    BY <1>1, <1>2, <1>3, <2>5, Zenon DEF NormalSocket, SameState, SameRead
  <2>. QED  BY <2>1, <2>2, <2>3, <2>4, <2>5, Zenon
<1>. HIDE DEF s, a, q
<1>6. TypeAt(p)'
  <2>1. snd'[p] \in {"idle", "send", "mtx", "wait", "acked"}
    BY <1>1, <1>5 DEF TypeAt
  <2>. QED  BY <1>1, <1>4, <1>5, <2>1, Zenon DEF TypeAt
<1>7. NetType' /\ NetShrinks
  BY <1>0, <1>4, SameNet
<1>8. Once(p)'
  BY <1>0, <1>4, <1>5, OnceKept, Zenon DEF s
<1>9. IInv'
  BY <1>1, <1>4, <1>6, <1>7, <1>8, StepInv
<1>10. ASSUME JInv  PROVE JInv'
  <2>0. Calls(p) /\ Fins(p) /\ KeepsFinTaken(p)
    BY <1>4, <1>10, Zenon DEF JInv, KeepsFinTaken
  <2>1. Calls(p)'
    <3>1. snd[p] \in {"wait", "acked"}
      BY Zenon DEF PopAck
    <3>2. snd[p] # "idle" /\ snd'[p] # "send"
      BY <1>5, <3>1
    <3>3. app'[p] = app[p] /\ cls'[p] = cls[p] /\ fins'[p] = fins[p]
      BY <1>4
    <3>. QED  BY <1>5, <2>0, <3>2, <3>3, CallsKept, Zenon DEF Writing, SameState, s
  <2>2. Fins(p)'
    BY <1>0, <1>4, <1>5, <2>0, FinsKept DEF SameState, s
  <2>3. KeepsOthers(p)
    <3>1. \A c \in Callers : cls'[p][c].ack \in {cls[p][c].ack, 0, sk[p].cumReadNXT}
      BY <1>4
    <3>. QED  BY <1>0, <1>4, <1>5, <1>7, <3>1, OthersKept, Zenon DEF s
  <2>4. KeepsOwn(p)
    <3>. SUFFICES ASSUME Bounds(p)
                  PROVE  sk'[p].NXT >= sk[p].NXT /\ SenderNums(p)' /\ NetNums(p)'
      BY Zenon DEF KeepsOwn
    <3>1. s.NXT \in Nat
      BY <1>1, SocketFields
    <3>2. SenderNums(p)
      BY Zenon DEF Bounds
    <3>3. sk'[p].cumWriteUNA <= s.NXT /\ (snd'[p] = "wait" => sk'[p].cumWriteUNA < s.NXT)
      <4>1. a <= s.NXT
        BY <1>2, <3>2, Zenon DEF SenderNums, s
      <4>2. CASE sk'[p].cumWriteUNA = s.cumWriteUNA /\ snd'[p] = snd[p]
        BY <3>2, <4>2, Zenon DEF SenderNums, s
      <4>3. CASE sk'[p].cumWriteUNA = a /\ snd'[p] = "acked"
        BY <4>1, <4>3
      <4>. QED  BY <1>5, <4>2, <4>3, Zenon
    <3>4. SenderNums(p)'
      BY <1>2, <1>4, <1>5, <3>2, <3>3, Zenon DEF SenderNums, s
    <3>5. NetNums(p)'
      BY <1>4, <1>5, Zenon DEF Bounds, NetNums, s
    <3>. QED  BY <1>5, <3>1, <3>4, <3>5 DEF s
  <2>. QED  BY <1>4, <1>6, <1>10, <2>0, <2>1, <2>2, <2>3, <2>4, StepJInv, Zenon
<1>. QED  BY <1>9, <1>10, Zenon

\* A step that only sends: nothing is read or written, no FIN is sent or taken.
LEMMA SendOnlyStep ==
  ASSUME IInv, NEW p \in Peers, NEW m \in Packet, Send(p, m), m.ack = sk[p].cumReadNXT,
         JInv /\ SenderNums(p) => UpTo(m, sk[p].NXT), StepOf(p), TypeAt(p)',
         rcv'[p].pkt.ack \in {rcv[p].pkt.ack, 0}, rcv'[p].pc \in {"recv", rcv[p].pc},
         SameState(sk'[p], sk[p]), SameSent(sk'[p], sk[p]), SameRead(sk'[p], sk[p]),
         snd'[p] = snd[p] \/ (snd[p] = "mtx" /\ snd'[p] = "wait"),
         app'[p] = app[p] \/ (app'[p] = [app[p] EXCEPT !.pc = "woken"] /\ app[p].pc = "wait"),
         UNCHANGED <<cls, fin, fins, finTaken, lost>>
  PROVE  IInv' /\ (JInv => JInv')
<1>0. TypeOK /\ Once(p)
  BY Zenon DEF IInv
<1>1. TypeAt(p) /\ lost \in Nat
  BY <1>0, TypesAt
<1>2. /\ cls'[p] = cls[p] /\ fin'[p] = fin[p] /\ fins'[p] = fins[p]
      /\ finTaken'[p] = finTaken[p] /\ lost' = lost
  OBVIOUS
<1>3. /\ snd'[p] = "send" => snd[p] = "send"
      /\ snd[p] = "idle" => snd'[p] = "idle"
      /\ snd'[p] \in {"mtx", "wait"} => snd[p] \in {"mtx", "wait"}
  OBVIOUS
<1>4. /\ app[p].pc = "done" => app'[p].pc = "done"
      /\ app'[p].left = app[p].left /\ (Writing(p)' => Writing(p))
  <2>1. app[p] \in Application
    BY <1>1, Zenon DEF TypeAt
  <2>. QED  BY <2>1 DEF Application, Writing
<1>6. NetType'
  BY <1>0, SendNet
<1>7. Once(p)'
  <2>1. rcv'[p].pc = "finChan" => rcv[p].pc = "finChan"
    OBVIOUS
  <2>. QED  BY <1>0, <1>2, <1>4, <2>1, OnceKept, Zenon
<1>8. IInv'
  BY <1>1, <1>2, <1>6, <1>7, StepInv
<1>9. ASSUME JInv  PROVE JInv'
  <2>0. Calls(p) /\ Fins(p) /\ KeepsFinTaken(p)
    BY <1>2, <1>9, Zenon DEF JInv, KeepsFinTaken
  <2>1. Calls(p)'
    BY <1>2, <1>3, <1>4, <2>0, CallsKept, Zenon DEF SameState, SameSent
  <2>2. Fins(p)'
    BY <1>0, <1>2, <2>0, FinsKept DEF SameState
  <2>3. KeepsOwn(p)
    BY <1>0, <1>3, <1>9, OwnSent, Zenon
  <2>4. KeepsOthers(p)
    <3>1. \A c \in Callers : cls'[p][c].ack \in {cls[p][c].ack, 0}
      BY <1>2
    <3>. QED  BY <1>0, <3>1, OthersSent, Zenon
  <2>. QED  BY <1>9, <2>0, <2>1, <2>2, <2>3, <2>4, StepJInv, Zenon
<1>. QED  BY <1>8, <1>9, Zenon

\* A socket that stays as it is.
LEMMA SameSocket ==
  ASSUME NEW p \in Peers, sk' = sk
  PROVE  SameState(sk'[p], sk[p]) /\ SameSent(sk'[p], sk[p]) /\ SameRead(sk'[p], sk[p])
BY Zenon DEF SameState, SameSent, SameRead

\* A chunk is sent: it carries p's numbers.
LEMMA SendChunkStep ==
  ASSUME IInv, NEW p \in Peers, SendChunk(p)
  PROVE  IInv' /\ (JInv => JInv')
<1>. DEFINE s == sk[p]
            m == Segment(p, s.cumWriteUNA, TRUE)
<1>0. TypeOK /\ snd[p] = "mtx" /\ snd'[p] = "wait" /\ Send(p, m)
      /\ UNCHANGED <<rcv, app, cls, fin, fins, finTaken, lost>>
  BY Zenon DEF IInv, SendChunk, TypeOK
<1>1. TypeAt(p) /\ s \in NormalSocket
  BY <1>0, TypesAt, Zenon DEF TypeAt
<1>2. /\ s.NXT \in Nat /\ s.cumWriteUNA \in Nat
      /\ s.unackedNums \cup {s.NXT} \in SUBSET Nat /\ s.seenAcks \ {s.NXT} \in SUBSET Nat
  BY <1>1, SocketFields
<1>3. m \in Packet /\ m.ack = s.cumReadNXT /\ m.seq = s.cumWriteUNA /\ m.data
  BY <1>0, <1>2, SegmentType, Zenon
<1>4. sk'[p] = [s EXCEPT !.unackedNums = s.unackedNums \cup {s.NXT},
                         !.seenAcks = s.seenAcks \ {s.NXT}]
  BY <1>0, Zenon DEF SendChunk, TypeOK
<1>5. /\ sk'[p] \in NormalSocket /\ SameState(sk'[p], s) /\ SameSent(sk'[p], s)
      /\ SameRead(sk'[p], s)
  <2>. HIDE DEF s, m
  <2>. QED  BY <1>1, <1>2, <1>4, Zenon DEF NormalSocket, SameState, SameSent, SameRead
<1>. HIDE DEF m
<1>6. SenderNums(p) => UpTo(m, s.NXT)
  BY <1>0, <1>2, <1>3 DEF SenderNums, UpTo, Count
<1>7. StepOf(p)
  BY <1>0, Zenon DEF TypeOK, StepOf, SendChunk
<1>8. TypeAt(p)'
  <2>1. snd'[p] \in {"idle", "send", "mtx", "wait", "acked"}
    BY <1>0
  <2>. QED  BY <1>0, <1>1, <1>5, <2>1, Zenon DEF TypeAt
<1>9. rcv'[p].pkt.ack \in {rcv[p].pkt.ack, 0} /\ rcv'[p].pc \in {"recv", rcv[p].pc}
  BY <1>0
<1>. QED  BY <1>0, <1>3, <1>5, <1>6, <1>7, <1>8, <1>9, SendOnlyStep, Zenon

\* retransThread sends the chunk again.
LEMMA RetransmitStep ==
  ASSUME IInv, NEW p \in Peers, Retransmit(p)
  PROVE  IInv' /\ (JInv => JInv')
<1>. DEFINE m == Segment(p, sk[p].cumWriteUNA, TRUE)
<1>0. TypeOK /\ snd[p] = "wait" /\ Send(p, m)
      /\ UNCHANGED <<sk, snd, rcv, app, cls, fin, fins, finTaken, lost>>
  BY Zenon DEF IInv, Retransmit
<1>1. TypeAt(p) /\ sk[p].cumWriteUNA \in Nat /\ sk[p].NXT \in Nat
  BY <1>0, TypesAt, SocketFields, Zenon DEF TypeAt
<1>2. m \in Packet /\ m.ack = sk[p].cumReadNXT /\ m.seq = sk[p].cumWriteUNA /\ m.data
  BY <1>0, <1>1, SegmentType, Zenon
<1>. HIDE DEF m
<1>3. SenderNums(p) => UpTo(m, sk[p].NXT)
  BY <1>0, <1>1, <1>2 DEF SenderNums, UpTo, Count
<1>4. StepOf(p) /\ TypeAt(p)'
  BY <1>0, <1>1, Zenon DEF TypeOK, StepOf, TypeAt
<1>5. rcv'[p].pkt.ack \in {rcv[p].pkt.ack, 0} /\ rcv'[p].pc \in {"recv", rcv[p].pc}
  BY <1>0
<1>6. SameState(sk'[p], sk[p]) /\ SameSent(sk'[p], sk[p]) /\ SameRead(sk'[p], sk[p])
  BY <1>0, SameSocket
<1>. QED  BY <1>0, <1>2, <1>3, <1>4, <1>5, <1>6, SendOnlyStep, Zenon

-----------------------------------------------------------------------------
(* The steps of ReceiverThread.                                            *)

\* ReceiverThread acknowledges.
LEMMA AnswerStep ==
  ASSUME IInv, NEW p \in Peers, Answer(p)
  PROVE  IInv' /\ (JInv => JInv')
<1>. DEFINE m == Segment(p, rcv[p].pkt.ack, FALSE)
<1>0. /\ TypeOK /\ Send(p, m) /\ UNCHANGED <<sk, snd, cls, fin, fins, finTaken, lost>>
      /\ rcv' = [rcv EXCEPT ![p] = [pc |-> "recv", pkt |-> NoPacket]]
  BY Zenon DEF IInv, Answer
<1>1. TypeAt(p) /\ rcv[p] \in Receiver /\ app[p] \in Application /\ sk[p].NXT \in Nat
  BY <1>0, TypesAt, SocketFields, Zenon DEF TypeAt
<1>2. rcv[p].pkt.ack \in Nat
  BY <1>1 DEF Receiver, Packet
<1>3. m \in Packet /\ m.ack = sk[p].cumReadNXT /\ m.seq = rcv[p].pkt.ack /\ ~m.data
  BY <1>0, <1>2, SegmentType, Zenon
<1>. HIDE DEF m
<1>4. SenderNums(p) => UpTo(m, sk[p].NXT)
  BY <1>1, <1>2, <1>3 DEF SenderNums, UpTo, Count
<1>5. rcv'[p] = [pc |-> "recv", pkt |-> NoPacket]
  BY <1>0, Zenon DEF TypeOK
<1>6. rcv'[p] \in Receiver /\ rcv'[p].pkt.ack = 0 /\ rcv'[p].pc = "recv"
  BY <1>5 DEF NoPacket, Packet, Receiver
<1>7. rcv'[p].pkt.ack \in {rcv[p].pkt.ack, 0} /\ rcv'[p].pc \in {"recv", rcv[p].pc}
  BY <1>6
<1>8. /\ app'[p] \in Application
      /\ app'[p] = app[p] \/ (app'[p] = [app[p] EXCEPT !.pc = "woken"] /\ app[p].pc = "wait")
  <2>1. app'[p] = [app[p] EXCEPT !.pc = IF app[p].pc = "wait" THEN "woken" ELSE app[p].pc]
    BY <1>0, Zenon DEF TypeOK, Answer
  <2>2. CASE app[p].pc = "wait"
    BY <1>1, <2>1, <2>2 DEF Application
  <2>3. CASE app[p].pc # "wait"
    BY <1>1, <2>1, <2>3 DEF Application
  <2>. QED  BY <2>2, <2>3, Zenon
<1>9. StepOf(p)
  BY <1>0, Zenon DEF TypeOK, StepOf, Answer
<1>10. TypeAt(p)'
  BY <1>0, <1>1, <1>6, <1>8, Zenon DEF TypeAt
<1>11. SameState(sk'[p], sk[p]) /\ SameSent(sk'[p], sk[p]) /\ SameRead(sk'[p], sk[p])
  BY <1>0, SameSocket
<1>. QED  BY <1>0, <1>3, <1>4, <1>7, <1>8, <1>9, <1>10, <1>11, SendOnlyStep, Zenon

\* A step keeps both invariants if it keeps their parts.
LEMMA StepBoth ==
  ASSUME IInv, NEW p \in Peers, StepOf(p), TypeAt(p)', NetType', lost' \in Nat, Once(p)',
         KeepsFinTaken(p), JInv => Calls(p)' /\ Fins(p)' /\ KeepsOwn(p) /\ KeepsOthers(p)
  PROVE  IInv' /\ (JInv => JInv')
<1>1. IInv'
  BY StepInv
<1>2. JInv => JInv'
  BY StepJInv, Zenon
<1>. QED  BY <1>1, <1>2

\* Receiving adds no packet.
LEMMA ReceiveShrinks ==
  ASSUME TypeOK, NEW p \in Peers, NEW i \in 1 .. Reach, Receive(p, i)
  PROVE  NetShrinks
BY ReceiveNet, OtherPeer, Zenon DEF NetShrinks

\* What p takes from the network acknowledges up to NXT.
LEMMA OwnReceived ==
  ASSUME NEW p \in Peers, TypeOK, StepOf(p), NetShrinks, NEW m \in ToSet(net[p]),
         sk'[p].NXT = sk[p].NXT, sk'[p].cumWriteUNA = sk[p].cumWriteUNA,
         ToSet(sk'[p].ackChan) \subseteq ToSet(sk[p].ackChan) \cup {m.ack},
         snd'[p] = snd[p], rcv'[p].pkt.ack \in {rcv[p].pkt.ack, m.ack}
  PROVE  KeepsOwn(p)
<1>. SUFFICES ASSUME ~finTaken[Other(p)], Bounds(p)
              PROVE  sk'[p].NXT >= sk[p].NXT /\ SenderNums(p)' /\ NetNums(p)'
  BY Zenon DEF KeepsOwn
<1>1. sk[p].NXT \in Nat
  BY TypesAt, SocketFields DEF TypeAt
<1>2. sk'[p].NXT >= sk[p].NXT
  BY <1>1
<1>3. m.ack <= sk[p].NXT
  BY Zenon DEF Bounds, NetNums
<1>4. SenderNums(p)'
  BY <1>3, Zenon DEF Bounds, SenderNums
<1>5. NetNums(p)'
  BY OtherPeer, Zenon DEF Bounds, NetNums, NetShrinks
<1>. QED  BY <1>2, <1>4, <1>5

\* What p has read, or keeps as early, was sent to it before, or is a FIN.
LEMMA OthersReceived ==
  ASSUME NEW p \in Peers, TypeOK, StepOf(p), NetShrinks, cls'[p] = cls[p],
         \A n \in Nat : /\ ~finTaken'[p] /\ ReceiverNums(p, n)
                        /\ \A m \in ToSet(net[p]) : UpTo(m, n)
                        => sk'[p].cumReadNXT <= n /\ \A e \in sk'[p].earlyPQ : UpTo(e, n)
  PROVE  KeepsOthers(p)
<1>. DEFINE o == Other(p)
<1>0. o \in Peers /\ Other(o) = p
  BY OtherPeer
<1>. SUFFICES ASSUME ~finTaken'[p], Bounds(o)
              PROVE  ReceiverNums(p, sk[o].NXT)' /\ NetNums(o)'
  BY Zenon DEF KeepsOthers
<1>. HIDE DEF o
<1>1. sk'[o] = sk[o]
  BY StepSame, Zenon DEF Same, o
<1>2. sk[o].NXT \in Nat
  BY <1>0, TypesAt, SocketFields DEF TypeAt
<1>3. ReceiverNums(p, sk[o].NXT) /\ \A m \in ToSet(net[p]) : UpTo(m, sk[o].NXT)
  BY <1>0, Zenon DEF Bounds, NetNums
<1>4. sk'[p].cumReadNXT <= sk[o].NXT /\ \A e \in sk'[p].earlyPQ : UpTo(e, sk[o].NXT)
  BY <1>2, <1>3, Zenon
<1>5. ReceiverNums(p, sk[o].NXT)'
  BY <1>1, <1>3, <1>4, Zenon DEF ReceiverNums
<1>6. NetNums(o)'
  BY <1>0, <1>1, Zenon DEF Bounds, NetNums, NetShrinks
<1>. QED  BY <1>5, <1>6

\* An acknowledgment of a FIN arrives: p has sent one.
LEMMA ReceiveFinAckStep ==
  ASSUME IInv, NEW p \in Peers, NEW i \in 1 .. Reach, ReceiveFinAck(p, i)
  PROVE  IInv' /\ (JInv => JInv')
<1>. DEFINE s == sk[p]
            m == net[p][i]
<1>0. TypeOK /\ Once(p) /\ Receive(p, i) /\ m.ack \in s.unackedFINs
  BY Zenon DEF IInv, ReceiveFinAck, AcksFin
<1>1. TypeAt(p) /\ lost \in Nat /\ s \in NormalSocket
  BY <1>0, TypesAt, Zenon DEF TypeAt
<1>2. NetType' /\ NetShrinks /\ m \in Packet /\ m \in ToSet(net[p])
  BY <1>0, ReceiveNet, ReceiveShrinks, Zenon
<1>3. StepOf(p) /\ UNCHANGED <<snd, app, cls, fin, fins, finTaken, lost>>
  BY <1>0, Zenon DEF TypeOK, StepOf, ReceiveFinAck
<1>4. sk'[p] = [s EXCEPT !.unackedMtx = TRUE] /\ rcv'[p] = [pc |-> "finChan", pkt |-> m]
  BY <1>0, Zenon DEF TypeOK, ReceiveFinAck
<1>. HIDE DEF s, m
<1>5. /\ sk'[p] \in NormalSocket /\ SameState(sk'[p], s) /\ SameSent(sk'[p], s)
      /\ SameRead(sk'[p], s) /\ sk'[p].unackedMtx
  BY <1>1, <1>4, Zenon DEF NormalSocket, SameState, SameSent, SameRead
<1>6. TypeAt(p)'
  <2>1. rcv'[p] \in Receiver
    BY <1>2, <1>4 DEF Receiver
  <2>. QED  BY <1>1, <1>3, <1>5, <2>1, Zenon DEF TypeAt
<1>7. fins[p] # 0
  BY <1>0, Zenon DEF Once, s
<1>8. Once(p)'
  BY <1>0, <1>3, <1>5, <1>7, Zenon DEF Once, Opened, SameState, s
<1>9. KeepsFinTaken(p)
  BY <1>3, Zenon DEF KeepsFinTaken
<1>10. ASSUME JInv  PROVE Calls(p)' /\ Fins(p)' /\ KeepsOwn(p) /\ KeepsOthers(p)
  <2>0. Calls(p) /\ Fins(p) /\ Nums(p)
    BY <1>10, Zenon DEF JInv
  <2>1. finTaken[Other(p)]
    <3>1. m.ack = s.NXT + 1 /\ s.NXT \in Nat
      BY <1>0, <1>1, <2>0, SocketFields DEF Calls, s
    <3>2. ~(m.ack <= s.NXT)
      BY <3>1
    <3>. QED  BY <1>2, <2>0, <3>2, Zenon DEF Nums, Bounds, NetNums, s
  <2>2. Calls(p)'
    BY <1>3, <1>5, <2>0, CallsKept, Zenon DEF Writing, SameState, SameSent, s
  <2>3. finTaken'[Other(p)]
    BY <1>3, <2>1
  <2>4. Fins(p)'
    <3>1. sk'[p].state = s.state /\ sk'[p].inTable = s.inTable /\ rcv'[p].pc # "fin"
      BY <1>4, <1>5 DEF SameState
    <3>. QED  BY <1>3, <2>0, <2>3, <3>1, Zenon DEF Fins, s
  <2>5. KeepsOwn(p)
    BY <2>1, Zenon DEF KeepsOwn
  <2>6. KeepsOthers(p)
    <3>1. \A c \in Callers : cls'[p][c].ack \in {cls[p][c].ack, 0, sk[p].cumReadNXT}
      BY <1>3
    <3>. QED  BY <1>0, <1>2, <1>3, <1>5, <3>1, OthersKept, Zenon DEF s
  <2>. QED  BY <2>2, <2>4, <2>5, <2>6
<1>. QED  BY <1>1, <1>2, <1>3, <1>6, <1>8, <1>9, <1>10, StepBoth, Zenon

\* An answer goes to slidingWindow, an early packet to earlyPQ.
LEMMA ReceiveAsideStep ==
  ASSUME IInv, NEW p \in Peers, NEW i \in 1 .. Reach, ReceiveAside(p, i)
  PROVE  IInv' /\ (JInv => JInv')
<1>. DEFINE s == sk[p]
            m == net[p][i]
            early == [seq |-> m.seq, data |-> m.data, fin |-> m.fin]
<1>0. TypeOK /\ Once(p) /\ Receive(p, i)
  BY Zenon DEF IInv, ReceiveAside
<1>1. TypeAt(p) /\ lost \in Nat /\ s \in NormalSocket
  BY <1>0, TypesAt, Zenon DEF TypeAt
<1>2. NetType' /\ NetShrinks /\ m \in Packet /\ m \in ToSet(net[p])
  BY <1>0, ReceiveNet, ReceiveShrinks, Zenon
<1>3. StepOf(p) /\ UNCHANGED <<snd, rcv, app, cls, fin, fins, finTaken, lost>>
  BY <1>0, Zenon DEF TypeOK, StepOf, ReceiveAside
<1>4. \/ sk'[p] = [s EXCEPT !.ackChan = Append(s.ackChan, m.ack)]
      \/ sk'[p] = [s EXCEPT !.earlyPQ = s.earlyPQ \cup {early}]
  BY <1>0, Zenon DEF TypeOK, ReceiveAside
<1>5. /\ m.ack \in Nat /\ early \in Early /\ early.fin = m.fin
      /\ early.seq + Count(early) = m.seq + Count(m)
  BY <1>2 DEF Packet, Early, Count
<1>. HIDE DEF s, m, early
<1>6. /\ Append(s.ackChan, m.ack) \in Seq(Nat)
      /\ ToSet(Append(s.ackChan, m.ack)) \subseteq ToSet(s.ackChan) \cup {m.ack}
  BY <1>1, <1>5, SocketFields, AppendIn
<1>7. s.earlyPQ \cup {early} \in SUBSET Early
  BY <1>1, <1>5, SocketFields
<1>8. /\ sk'[p] \in NormalSocket /\ SameState(sk'[p], s) /\ sk'[p].unackedMtx = s.unackedMtx
      /\ sk'[p].NXT = s.NXT /\ sk'[p].cumWriteUNA = s.cumWriteUNA
      /\ sk'[p].cumReadNXT = s.cumReadNXT
      /\ ToSet(sk'[p].ackChan) \subseteq ToSet(s.ackChan) \cup {m.ack}
      /\ sk'[p].earlyPQ \subseteq s.earlyPQ \cup {early}
  <2>1. CASE sk'[p] = [s EXCEPT !.ackChan = Append(s.ackChan, m.ack)]
    BY <1>1, <1>6, <2>1, Zenon DEF NormalSocket, SameState
  <2>2. CASE sk'[p] = [s EXCEPT !.earlyPQ = s.earlyPQ \cup {early}]
    BY <1>1, <1>7, <2>2, Zenon DEF NormalSocket, SameState
  <2>. QED  BY <1>4, <2>1, <2>2, Zenon
<1>9. TypeAt(p)'
  BY <1>1, <1>3, <1>8, Zenon DEF TypeAt
<1>10. Once(p)'
  BY <1>0, <1>3, <1>8, OnceKept, Zenon DEF s
<1>11. KeepsFinTaken(p)
  BY <1>3, Zenon DEF KeepsFinTaken
<1>12. ASSUME JInv  PROVE Calls(p)' /\ Fins(p)' /\ KeepsOwn(p) /\ KeepsOthers(p)
  <2>0. Calls(p) /\ Fins(p)
    BY <1>12, Zenon DEF JInv
  <2>1. Calls(p)'
    BY <1>3, <1>8, <2>0, CallsKept, Zenon DEF Writing, SameState, s
  <2>2. Fins(p)'
    BY <1>0, <1>3, <1>8, <1>11, <2>0, FinsKept DEF SameState, s
  <2>3. KeepsOwn(p)
    <3>1. rcv'[p].pkt.ack \in {rcv[p].pkt.ack, m.ack}
      BY <1>3
    <3>. QED  BY <1>0, <1>2, <1>3, <1>8, <3>1, OwnReceived, Zenon DEF s
  <2>4. KeepsOthers(p)
    <3>1. ASSUME NEW n \in Nat, ReceiverNums(p, n), \A k \in ToSet(net[p]) : UpTo(k, n)
          PROVE  sk'[p].cumReadNXT <= n /\ \A e \in sk'[p].earlyPQ : UpTo(e, n)
      <4>1. UpTo(m, n)
        BY <1>2, <3>1, Zenon
      <4>2. UpTo(early, n)
        BY <1>5, <4>1, Zenon DEF UpTo
      <4>. QED  BY <1>8, <3>1, <4>2, Zenon DEF ReceiverNums, s
    <3>2. cls'[p] = cls[p]
      BY <1>3
    <3>. QED  BY <1>0, <1>2, <1>3, <3>1, <3>2, OthersReceived, Zenon
  <2>. QED  BY <2>1, <2>2, <2>3, <2>4
<1>. QED  BY <1>1, <1>2, <1>3, <1>9, <1>10, <1>11, <1>12, StepBoth, Zenon

\* A packet that is not ahead is stored, a FIN is taken.
LEMMA ReceiveNextStep ==
  ASSUME IInv, NEW p \in Peers, NEW i \in 1 .. Reach, ReceiveNext(p, i)
  PROVE  IInv' /\ (JInv => JInv')
<1>. DEFINE s == sk[p]
            m == net[p][i]
            n == m.seq + (IF m.data THEN 1 ELSE 0)
            f == s.cumReadNXT + 1
<1>0. TypeOK /\ Once(p) /\ Receive(p, i)
  BY Zenon DEF IInv, ReceiveNext
<1>1. TypeAt(p) /\ lost \in Nat /\ s \in NormalSocket
  BY <1>0, TypesAt, Zenon DEF TypeAt
<1>2. NetType' /\ NetShrinks /\ m \in Packet /\ m \in ToSet(net[p])
  BY <1>0, ReceiveNet, ReceiveShrinks, Zenon
<1>3. StepOf(p) /\ UNCHANGED <<snd, app, cls, fin, fins, lost>>
  BY <1>0, Zenon DEF TypeOK, StepOf, ReceiveNext
<1>4. \/ /\ sk'[p] = [s EXCEPT !.cumReadNXT = f]
         /\ rcv'[p] = [pc |-> "fin", pkt |-> m] /\ finTaken'[p] = TRUE
      \/ /\ ~m.fin /\ sk'[p] = [s EXCEPT !.cumReadNXT = n, !.readNXT = n]
         /\ rcv'[p] = [pc |-> "early", pkt |-> m] /\ finTaken' = finTaken
  BY <1>0, Zenon DEF TypeOK, ReceiveNext, Stored
<1>5. f \in Nat /\ n \in Nat /\ n = m.seq + Count(m)
  BY <1>1, <1>2, SocketFields DEF Packet, Count
<1>. HIDE DEF s, m, n, f
<1>6. /\ sk'[p] \in NormalSocket /\ SameState(sk'[p], s) /\ sk'[p].unackedMtx = s.unackedMtx
      /\ SameSent(sk'[p], s) /\ sk'[p].earlyPQ = s.earlyPQ
      /\ finTaken'[p] \/ (~m.fin /\ sk'[p].cumReadNXT = n)
  <2>1. CASE sk'[p] = [s EXCEPT !.cumReadNXT = f] /\ finTaken'[p] = TRUE
    <3>1. sk'[p] \in NormalSocket
      <4>1. f \in Nat /\ s \in NormalSocket /\ sk'[p] = [s EXCEPT !.cumReadNXT = f]
        BY <1>1, <1>5, <2>1, Zenon
      <4>. QED  BY <4>1, Zenon DEF NormalSocket
    <3>2. /\ SameState(sk'[p], s) /\ sk'[p].unackedMtx = s.unackedMtx
          /\ SameSent(sk'[p], s) /\ sk'[p].earlyPQ = s.earlyPQ
      BY <1>1, <2>1, Zenon DEF NormalSocket, SameState, SameSent
    <3>. QED  BY <2>1, <3>1, <3>2, Zenon
  <2>2. CASE ~m.fin /\ sk'[p] = [s EXCEPT !.cumReadNXT = n, !.readNXT = n]
    BY <1>1, <1>5, <2>2, Zenon DEF NormalSocket, SameState, SameSent
  <2>. QED  BY <1>4, <2>1, <2>2, Zenon
<1>7. /\ rcv'[p] \in Receiver /\ rcv'[p].pkt = m /\ rcv'[p].pc # "finChan"
      /\ rcv'[p].pc = "fin" => finTaken'[p]
      /\ finTaken'[p] \in {TRUE, finTaken[p]}
  <2>1. CASE rcv'[p] = [pc |-> "fin", pkt |-> m] /\ finTaken'[p] = TRUE
    <3>1. rcv'[p] \in Receiver /\ rcv'[p].pkt = m /\ rcv'[p].pc = "fin"
      BY <1>2, <2>1 DEF Receiver
    <3>. QED  BY <2>1, <3>1, Zenon
  <2>2. CASE rcv'[p] = [pc |-> "early", pkt |-> m] /\ finTaken' = finTaken
    <3>1. rcv'[p] \in Receiver /\ rcv'[p].pkt = m /\ rcv'[p].pc = "early"
      BY <1>2, <2>2 DEF Receiver
    <3>. QED  BY <2>2, <3>1
  <2>. QED  BY <1>4, <2>1, <2>2, Zenon
<1>8. TypeAt(p)'
  <2>1. finTaken'[p] \in BOOLEAN
    BY <1>1, <1>7, Zenon DEF TypeAt
  <2>. QED  BY <1>1, <1>3, <1>6, <1>7, <2>1, Zenon DEF TypeAt
<1>9. Once(p)'
  BY <1>0, <1>3, <1>6, <1>7, OnceKept, Zenon DEF s
<1>10. KeepsFinTaken(p)
  BY <1>7, Zenon DEF KeepsFinTaken
<1>11. ASSUME JInv  PROVE Calls(p)' /\ Fins(p)' /\ KeepsOwn(p) /\ KeepsOthers(p)
  <2>0. Calls(p) /\ Fins(p)
    BY <1>11, Zenon DEF JInv
  <2>1. Calls(p)'
    BY <1>3, <1>6, <2>0, CallsKept, Zenon DEF Writing, SameState, SameSent, s
  <2>2. Fins(p)'
    <3>1. finTaken'[Other(p)] = finTaken[Other(p)]
      BY <1>0, <1>3, StepSame, Zenon DEF Same
    <3>2. fin'[p] = fin[p] /\ sk'[p].state = s.state /\ sk'[p].inTable = s.inTable
      BY <1>3, <1>6 DEF SameState
    <3>. QED  BY <1>7, <1>10, <2>0, <3>1, <3>2, Zenon DEF Fins, KeepsFinTaken, s
  <2>3. KeepsOwn(p)
    <3>1. rcv'[p].pkt.ack \in {rcv[p].pkt.ack, m.ack} /\ snd'[p] = snd[p]
      BY <1>3, <1>7
    <3>2. ToSet(sk'[p].ackChan) \subseteq ToSet(s.ackChan) \cup {m.ack}
      BY <1>6, Zenon DEF SameSent
    <3>. QED  BY <1>0, <1>2, <1>3, <1>6, <3>1, <3>2, OwnReceived, Zenon DEF s, SameSent
  <2>4. KeepsOthers(p)
    <3>1. ASSUME NEW k \in Nat, ~finTaken'[p], ReceiverNums(p, k), \A x \in ToSet(net[p]) : UpTo(x, k)
          PROVE  sk'[p].cumReadNXT <= k /\ \A e \in sk'[p].earlyPQ : UpTo(e, k)
      BY <1>2, <1>5, <1>6, <3>1, Zenon DEF ReceiverNums, UpTo, s
    <3>2. cls'[p] = cls[p]
      BY <1>3
    <3>. QED  BY <1>0, <1>2, <1>3, <3>1, <3>2, OthersReceived, Zenon
  <2>. QED  BY <2>1, <2>2, <2>3, <2>4
<1>. QED  BY <1>1, <1>2, <1>3, <1>8, <1>9, <1>10, <1>11, StepBoth, Zenon

\* A FIN that changes the state: it has been taken.
Moved(r, s) ==
  \/ s.state = "ESTABLISHED" /\ r.state = "CLOSE_WAIT"
  \/ s.state = "FIN_WAIT_2" /\ r.state = "TIME_WAIT"
  \/ r.state = s.state

\* Taking a FIN does not send one.
LEMMA OnceMoved ==
  ASSUME NEW p \in Peers, Once(p), Moved(sk'[p], sk[p]), sk'[p].unackedFINs = sk[p].unackedFINs,
         fins'[p] = fins[p], cls'[p] = cls[p], fin'[p] = fin[p],
         rcv'[p].pc = "finChan" => rcv[p].pc = "finChan", app'[p].pc = app[p].pc
  PROVE  Once(p)'
<1>1. Opened(p)' <=> Opened(p)
  BY DEF Moved, Opened
<1>. QED  BY <1>1, ZenonT(30) DEF Once

\* A state that follows a FIN is entered when that FIN was taken.
LEMMA FinsMoved ==
  ASSUME NEW p \in Peers, TypeOK, StepOf(p), Fins(p), Moved(sk'[p], sk[p]),
         sk'[p].state # sk[p].state => finTaken'[p], fin'[p] = fin[p],
         rcv'[p].pc \in {rcv[p].pc, "early"}, sk'[p].inTable = sk[p].inTable, KeepsFinTaken(p)
  PROVE  Fins(p)'
<1>1. finTaken'[Other(p)] = finTaken[Other(p)]
  BY StepSame, Zenon DEF Same
<1>2. sk'[p].state \in {"FIN_WAIT_2", "TIME_WAIT"} => finTaken[Other(p)]
  BY DEF Fins, Moved
<1>3. sk'[p].state \in {"CLOSE_WAIT", "LAST_ACK", "TIME_WAIT"} => finTaken'[p]
  <2>1. CASE sk'[p].state = sk[p].state
    BY <2>1, Zenon DEF Fins, KeepsFinTaken
  <2>. QED  BY <2>1, Zenon
<1>4. /\ rcv'[p].pc = "fin" => rcv[p].pc = "fin"
      /\ rcv'[p].pc = "finChan" => rcv[p].pc = "finChan"
  OBVIOUS
<1>. QED  BY <1>1, <1>2, <1>3, <1>4, Zenon DEF Fins, KeepsFinTaken

\* ReceiverThread changes the state on a FIN.
LEMMA FinStateStep ==
  ASSUME IInv, NEW p \in Peers, FinState(p)
  PROVE  IInv' /\ (JInv => JInv')
<1>. DEFINE s == sk[p]
<1>0. TypeOK /\ Once(p) /\ rcv[p].pc = "fin"
  BY Zenon DEF IInv, FinState
<1>1. TypeAt(p) /\ lost \in Nat /\ s \in NormalSocket /\ rcv[p] \in Receiver
  BY <1>0, TypesAt, Zenon DEF TypeAt
<1>2. StepOf(p) /\ UNCHANGED <<net, snd, app, cls, fin, fins, finTaken, lost>>
  BY <1>0, Zenon DEF TypeOK, StepOf, FinState
<1>3. sk'[p] = TakeFin(s) /\ rcv'[p] = [rcv[p] EXCEPT !.pc = "early"]
  BY <1>0, Zenon DEF TypeOK, FinState
<1>4. rcv'[p] \in Receiver /\ rcv'[p].pc = "early" /\ rcv'[p].pkt = rcv[p].pkt
  BY <1>1, <1>3 DEF Receiver
<1>5. /\ sk'[p] \in NormalSocket /\ SameNums(sk'[p], s) /\ Moved(sk'[p], s)
      /\ sk'[p].inTable = s.inTable /\ sk'[p].unackedMtx = s.unackedMtx
      /\ sk'[p].unackedFINs = s.unackedFINs
  BY <1>1, <1>3, TakeFinSocket, Zenon DEF Moved
<1>6. SameSent(sk'[p], s) /\ SameRead(sk'[p], s)
  BY <1>5, Zenon DEF SameNums
<1>. HIDE DEF s
<1>7. NetType' /\ NetShrinks
  BY <1>0, <1>2, SameNet
<1>8. TypeAt(p)'
  BY <1>1, <1>2, <1>4, <1>5, Zenon DEF TypeAt
<1>9. Once(p)'
  <2>1. rcv'[p].pc # "finChan"
    BY <1>4
  <2>. QED  BY <1>0, <1>2, <1>5, <2>1, OnceMoved, Zenon DEF s
<1>10. KeepsFinTaken(p)
  BY <1>2, Zenon DEF KeepsFinTaken
<1>11. ASSUME JInv  PROVE Calls(p)' /\ Fins(p)' /\ KeepsOwn(p) /\ KeepsOthers(p)
  <2>0. Calls(p) /\ Fins(p)
    BY <1>11, Zenon DEF JInv
  <2>1. Calls(p)'
    BY <1>2, <1>5, <1>6, <2>0, CallsKept, Zenon DEF Writing, SameSent, s
  <2>2. Fins(p)'
    <3>1. finTaken'[p] /\ fin'[p] = fin[p]
      BY <1>0, <1>2, <2>0, Zenon DEF Fins
    <3>2. rcv'[p].pc \in {rcv[p].pc, "early"}
      BY <1>4
    <3>. QED  BY <1>0, <1>2, <1>5, <1>10, <2>0, <3>1, <3>2, FinsMoved, Zenon DEF s
  <2>3. KeepsOwn(p)
    <3>1. (snd'[p] \in {"mtx", "wait"} => snd[p] \in {"mtx", "wait"}) /\ rcv'[p].pkt.ack \in {rcv[p].pkt.ack, 0}
      BY <1>2, <1>4
    <3>. QED  BY <1>0, <1>2, <1>6, <1>7, <3>1, OwnKept, Zenon DEF s
  <2>4. KeepsOthers(p)
    <3>1. \A c \in Callers : cls'[p][c].ack \in {cls[p][c].ack, 0, sk[p].cumReadNXT}
      BY <1>2
    <3>. QED  BY <1>0, <1>2, <1>6, <1>7, <3>1, OthersKept, Zenon DEF s
  <2>. QED  BY <2>1, <2>2, <2>3, <2>4
<1>. QED  BY <1>1, <1>2, <1>7, <1>8, <1>9, <1>10, <1>11, StepBoth, Zenon

\* An early packet has become due.
LEMMA PopEarlyStep ==
  ASSUME IInv, NEW p \in Peers, PopEarly(p)
  PROVE  IInv' /\ (JInv => JInv')
<1>. DEFINE s == sk[p]
<1>0. TypeOK /\ Once(p)
  BY Zenon DEF IInv
<1>1. TypeAt(p) /\ lost \in Nat /\ s \in NormalSocket
  BY <1>0, TypesAt, Zenon DEF TypeAt
<1>2. StepOf(p) /\ UNCHANGED <<net, snd, rcv, app, cls, fin, fins, lost>>
  BY <1>0, Zenon DEF TypeOK, StepOf, PopEarly
<1>3. PICK e \in s.earlyPQ :
        LET r == [s EXCEPT !.earlyPQ = s.earlyPQ \ {e}]
            n == e.seq + (IF e.data THEN 1 ELSE 0)
        IN  \/ sk'[p] = r /\ finTaken' = finTaken
            \/ sk'[p] = [r EXCEPT !.cumReadNXT = n, !.readNXT = n] /\ ~e.fin /\ finTaken' = finTaken
            \/ sk'[p] = TakeFin(r) /\ finTaken'[p] = TRUE
  BY <1>0, Zenon DEF TypeOK, PopEarly, Stored
<1>. DEFINE r == [s EXCEPT !.earlyPQ = s.earlyPQ \ {e}]
            n == e.seq + (IF e.data THEN 1 ELSE 0)
<1>4. e \in Early /\ s.earlyPQ \ {e} \in SUBSET Early
  BY <1>1, SocketFields
<1>5. n \in Nat /\ n = e.seq + Count(e)
  BY <1>4 DEF Early, Count
<1>. HIDE DEF s, n
<1>6. /\ r \in NormalSocket /\ SameState(r, s) /\ r.unackedMtx = s.unackedMtx /\ SameSent(r, s)
      /\ r.cumReadNXT = s.cumReadNXT /\ r.earlyPQ \subseteq s.earlyPQ
  BY <1>1, <1>4, Zenon DEF NormalSocket, SameState, SameSent
<1>. HIDE DEF r
<1>7. /\ sk'[p] \in NormalSocket /\ Moved(sk'[p], s) /\ SameSent(sk'[p], s)
      /\ sk'[p].inTable = s.inTable /\ sk'[p].unackedMtx = s.unackedMtx
      /\ sk'[p].unackedFINs = s.unackedFINs /\ sk'[p].earlyPQ \subseteq s.earlyPQ
      /\ \/ /\ finTaken' = finTaken /\ sk'[p].state = s.state
            /\ sk'[p].cumReadNXT = s.cumReadNXT \/ (sk'[p].cumReadNXT = n /\ ~e.fin)
         \/ finTaken'[p] = TRUE
  <2>1. CASE sk'[p] = r /\ finTaken' = finTaken
    BY <1>6, <2>1, Zenon DEF SameState, SameSent, Moved
  <2>2. CASE sk'[p] = [r EXCEPT !.cumReadNXT = n, !.readNXT = n] /\ ~e.fin /\ finTaken' = finTaken
    <3>1. /\ sk'[p] \in NormalSocket /\ SameState(sk'[p], r) /\ sk'[p].unackedMtx = r.unackedMtx
          /\ SameSent(sk'[p], r) /\ sk'[p].cumReadNXT = n /\ sk'[p].earlyPQ = r.earlyPQ
      <4>1. n \in Nat /\ r \in NormalSocket /\ sk'[p] = [r EXCEPT !.cumReadNXT = n, !.readNXT = n]
        BY <1>5, <1>6, <2>2, Zenon
      <4>. QED  BY <4>1, Zenon DEF NormalSocket, SameState, SameSent
    <3>. QED  BY <1>6, <2>2, <3>1, Zenon DEF SameState, SameSent, Moved
  <2>3. CASE sk'[p] = TakeFin(r) /\ finTaken'[p] = TRUE
    <3>1. /\ sk'[p] \in NormalSocket /\ Moved(sk'[p], r) /\ SameNums(sk'[p], r)
          /\ sk'[p].inTable = r.inTable /\ sk'[p].unackedMtx = r.unackedMtx
          /\ sk'[p].unackedFINs = r.unackedFINs
      BY <1>6, <2>3, TakeFinSocket, Zenon DEF Moved
    <3>. QED  BY <1>6, <2>3, <3>1, Zenon DEF SameState, SameSent, SameRead, SameNums, Moved
  <2>. QED  BY <1>3, <2>1, <2>2, <2>3, Zenon DEF r, n
<1>8. NetType' /\ NetShrinks
  BY <1>0, <1>2, SameNet
<1>9. TypeAt(p)' /\ KeepsFinTaken(p)
  BY <1>1, <1>2, <1>7, Zenon DEF TypeAt, KeepsFinTaken
<1>10. Once(p)'
  BY <1>0, <1>2, <1>7, OnceMoved, Zenon DEF s
<1>11. ASSUME JInv  PROVE Calls(p)' /\ Fins(p)' /\ KeepsOwn(p) /\ KeepsOthers(p)
  <2>0. Calls(p) /\ Fins(p)
    BY <1>11, Zenon DEF JInv
  <2>1. Calls(p)'
    BY <1>2, <1>7, <2>0, CallsKept, Zenon DEF Writing, SameSent, s
  <2>2. Fins(p)'
    <3>1. rcv'[p].pc \in {rcv[p].pc, "early"}
      BY <1>2
    <3>. QED  BY <1>0, <1>2, <1>7, <1>9, <2>0, <3>1, FinsMoved, Zenon DEF s
  <2>3. KeepsOwn(p)
    <3>1. (snd'[p] \in {"mtx", "wait"} => snd[p] \in {"mtx", "wait"}) /\ rcv'[p].pkt.ack \in {rcv[p].pkt.ack, 0}
      BY <1>2
    <3>. QED  BY <1>0, <1>2, <1>7, <1>8, <3>1, OwnKept, Zenon DEF s
  <2>4. KeepsOthers(p)
    <3>1. ASSUME NEW k \in Nat, ~finTaken'[p], ReceiverNums(p, k)
          PROVE  sk'[p].cumReadNXT <= k /\ \A x \in sk'[p].earlyPQ : UpTo(x, k)
      BY <1>5, <1>7, <3>1, Zenon DEF ReceiverNums, UpTo, s
    <3>. QED  BY <1>0, <1>2, <1>8, <3>1, OthersReceived, Zenon
  <2>. QED  BY <2>1, <2>2, <2>3, <2>4
<1>. QED  BY <1>1, <1>2, <1>8, <1>9, <1>10, <1>11, StepBoth, Zenon

-----------------------------------------------------------------------------
(* The steps of VClose and of the goroutine it starts.                     *)

\* A VClose call moves on, the others do not.
LEMMA CallUpdate ==
  ASSUME TypeOK, NEW p \in Peers, NEW c \in Callers, NEW v \in Call,
         cls' = [cls EXCEPT ![p][c] = v]
  PROVE  /\ cls' = [cls EXCEPT ![p] = cls'[p]] /\ cls'[p] \in [Callers -> Call]
         /\ cls'[p][c] = v /\ \A d \in Callers : d # c => cls'[p][d] = cls[p][d]
<1>1. cls \in [Peers -> [Callers -> Call]]
  BY Zenon DEF TypeOK, Call
<1>2. cls'[p] = [cls[p] EXCEPT ![c] = v] /\ cls[p] \in [Callers -> Call]
  BY <1>1, Zenon
<1>. QED  BY <1>1, <1>2, Zenon

\* VClose checks and changes the state under stateMtx: one call at most gets through.
LEMMA VCloseStateStep ==
  ASSUME IInv, NEW p \in Peers, NEW c \in Callers, VCloseState(p, c)
  PROVE  IInv' /\ (JInv => JInv')
<1>. DEFINE s == sk[p]
            v == cls[p][c]
<1>0. TypeOK /\ Once(p) /\ v.pc = "lock"
  BY Zenon DEF IInv, VCloseState
<1>1. TypeAt(p) /\ lost \in Nat /\ s \in NormalSocket /\ cls[p] \in [Callers -> Call]
  BY <1>0, TypesAt, Zenon DEF TypeAt
<1>2. UNCHANGED <<net, snd, rcv, app, fin, fins, finTaken, lost>>
  BY Zenon DEF VCloseState
<1>3. PICK w \in Call :
        /\ cls' = [cls EXCEPT ![p][c] = w]
        /\ \/ w.pc = "done" /\ w.ack = 0 /\ sk' = sk
           \/ /\ w.pc = "send" /\ w.ack = v.ack /\ w.seq = v.seq
              /\ \/ s.state = "ESTABLISHED" /\ sk'[p] = [s EXCEPT !.state = "FIN_WAIT_1", !.stateMtx = TRUE]
                 \/ s.state = "CLOSE_WAIT" /\ sk'[p] = [s EXCEPT !.state = "LAST_ACK", !.stateMtx = TRUE]
  <2>1. CASE AfterClose(s.state) = "invalid"
    <3>1. [NoCall EXCEPT !.pc = "done"] \in Call
      BY DEF NoCall, Call
    <3>2. [NoCall EXCEPT !.pc = "done"].pc = "done" /\ [NoCall EXCEPT !.pc = "done"].ack = 0
      BY DEF NoCall
    <3>3. cls' = [cls EXCEPT ![p][c] = [NoCall EXCEPT !.pc = "done"]] /\ sk' = sk
      BY <2>1, Zenon DEF VCloseState
    <3>. QED  BY <3>1, <3>2, <3>3, Zenon
  <2>2. CASE AfterClose(s.state) # "invalid"
    <3>1. \/ s.state = "ESTABLISHED" /\ AfterClose(s.state) = "FIN_WAIT_1"
          \/ s.state = "CLOSE_WAIT" /\ AfterClose(s.state) = "LAST_ACK"
      BY <2>2 DEF AfterClose
    <3>2. v \in Call
      BY <1>1, Zenon
    <3>3. LET w == [v EXCEPT !.pc = "send"]
          IN  w \in Call /\ w.pc = "send" /\ w.ack = v.ack /\ w.seq = v.seq
      BY <3>2 DEF Call
    <3>4. cls' = [cls EXCEPT ![p][c] = [v EXCEPT !.pc = "send"]]
      BY <1>0, <2>2, Zenon DEF VCloseState, TypeOK
    <3>5. sk'[p] = [s EXCEPT !.state = AfterClose(s.state), !.stateMtx = TRUE]
      BY <1>0, <2>2, Zenon DEF VCloseState, TypeOK
    <3>. QED  BY <3>1, <3>3, <3>4, <3>5, Zenon
  <2>. QED  BY <2>1, <2>2, Zenon
<1>4. /\ cls' = [cls EXCEPT ![p] = cls'[p]] /\ cls'[p] \in [Callers -> Call]
      /\ cls'[p][c] = w /\ \A d \in Callers : d # c => cls'[p][d] = cls[p][d]
  BY <1>0, <1>3, CallUpdate, Zenon
<1>5. StepOf(p)
  <2>1. sk' = [sk EXCEPT ![p] = sk'[p]]
    BY <1>0, Zenon DEF VCloseState, TypeOK
  <2>. QED  BY <1>0, <1>2, <1>4, <2>1, Zenon DEF TypeOK, StepOf
<1>6. /\ sk'[p] \in NormalSocket /\ SameSent(sk'[p], s) /\ SameRead(sk'[p], s)
      /\ sk'[p].unackedMtx = s.unackedMtx /\ sk'[p].unackedFINs = s.unackedFINs
      /\ sk'[p].inTable = s.inTable
      /\ \/ w.pc = "done" /\ w.ack = 0 /\ sk'[p].state = s.state
         \/ /\ w.pc = "send" /\ w.ack = v.ack /\ w.seq = v.seq
            /\ \/ s.state = "ESTABLISHED" /\ sk'[p].state = "FIN_WAIT_1"
               \/ s.state = "CLOSE_WAIT" /\ sk'[p].state = "LAST_ACK"
  <2>1. "FIN_WAIT_1" \in States /\ "LAST_ACK" \in States
    BY DEF States
  <2>. HIDE DEF s, v
  <2>2. CASE w.pc = "done" /\ w.ack = 0 /\ sk' = sk
    BY <1>1, <2>2, Zenon DEF SameSent, SameRead, s
  <2>3. ASSUME NEW st \in States, sk'[p] = [s EXCEPT !.state = st, !.stateMtx = TRUE]
        PROVE  /\ sk'[p] \in NormalSocket /\ SameSent(sk'[p], s) /\ SameRead(sk'[p], s)
               /\ sk'[p].unackedMtx = s.unackedMtx /\ sk'[p].unackedFINs = s.unackedFINs
               /\ sk'[p].inTable = s.inTable /\ sk'[p].state = st
    BY <1>1, <2>3, Zenon DEF NormalSocket, SameSent, SameRead
  <2>. QED  BY <1>3, <2>1, <2>2, <2>3, Zenon DEF s, v
<1>. HIDE DEF s, v
<1>7. NetType' /\ NetShrinks
  BY <1>0, <1>2, SameNet
<1>8. TypeAt(p)' /\ KeepsFinTaken(p)
  BY <1>1, <1>2, <1>4, <1>6, Zenon DEF TypeAt, KeepsFinTaken
<1>9. Once(p)'
  <2>0. app[p].pc # "done" => c # "app"
    BY <1>0 DEF Once, v
  <2>1. app'[p].pc # "done" => cls'[p]["app"].pc = "idle"
    <3>1. "app" \in Callers
      BY Zenon DEF Callers
    <3>. QED  BY <1>0, <1>2, <1>4, <2>0, <3>1, Zenon DEF Once
  <2>2. CASE w.pc = "done" /\ sk'[p].state = s.state
    <3>1. \A d \in Callers : cls'[p][d].pc = "send" <=> cls[p][d].pc = "send"
      BY <1>0, <1>4, <2>2 DEF v
    <3>2. Opened(p)' = Opened(p)
      BY <2>2, Zenon DEF Opened, s
    <3>. QED  BY <1>0, <1>2, <1>6, <2>1, <3>1, <3>2 DEF Once, s
  <2>3. CASE /\ w.pc = "send"
             /\ \/ s.state = "ESTABLISHED" /\ sk'[p].state = "FIN_WAIT_1"
                \/ s.state = "CLOSE_WAIT" /\ sk'[p].state = "LAST_ACK"
    <3>1. Opened(p) /\ ~Opened(p)'
      BY Zenon, <2>3 DEF Opened, s
    <3>2. \A d \in Callers : cls'[p][d].pc = "send" <=> d = c
      BY <1>0, <1>4, <2>3, <3>1 DEF Once
    <3>. QED  BY <1>0, <1>2, <1>6, <2>1, <3>1, <3>2, Zenon DEF Once, s
  <2>. QED  BY <1>6, <2>2, <2>3, Zenon
<1>10. ASSUME JInv  PROVE Calls(p)' /\ Fins(p)' /\ KeepsOwn(p) /\ KeepsOthers(p)
  <2>0. Calls(p) /\ Fins(p)
    BY <1>10, Zenon DEF JInv
  <2>1. Called(p) /\ Called(p)' /\ (p \notin Closers => c # "user")
    BY Zenon, <1>0, <1>4, <1>6, <2>0 DEF Called, Calls, v
  <2>2. \A d \in Callers : cls'[p][d].pc \in {"lock", "send"} => cls'[p][d].seq = s.NXT
    <3>1. w.pc = "send" => w.seq = s.NXT
      BY <1>0, <1>6, <2>0 DEF Calls, s, v
    <3>2. w.pc # "lock"
      BY <1>6
    <3>. QED  BY Zenon, <1>4, <2>0, <3>1, <3>2 DEF Calls, s
  <2>3. p \notin Closers => cls'[p]["user"].pc = "idle"
    BY <1>4, <2>0, <2>1 DEF Calls, Callers
  <2>4. Calls(p)'
    BY <1>2, <1>6, <2>0, <2>1, <2>2, <2>3, Zenon DEF Writing, Calls, Silent, SameSent, s
  <2>5. Fins(p)'
    <3>1. sk'[p].state \in {"FIN_WAIT_2", "TIME_WAIT"} => sk[p].state = sk'[p].state
      BY <1>6 DEF s
    <3>2. sk'[p].state \in {"CLOSE_WAIT", "LAST_ACK", "TIME_WAIT"}
            => sk[p].state \in {"CLOSE_WAIT", "LAST_ACK", "TIME_WAIT"}
      BY <1>6 DEF s
    <3>. QED  BY <1>2, <1>6, <2>0, <3>1, <3>2, Zenon DEF Fins, s
  <2>6. KeepsOwn(p)
    <3>1. (snd'[p] \in {"mtx", "wait"} => snd[p] \in {"mtx", "wait"}) /\ rcv'[p].pkt.ack \in {rcv[p].pkt.ack, 0}
      BY <1>2
    <3>. QED  BY <1>0, <1>5, <1>6, <1>7, <3>1, OwnKept, Zenon DEF s
  <2>7. KeepsOthers(p)
    <3>1. \A d \in Callers : cls'[p][d].ack \in {cls[p][d].ack, 0, sk[p].cumReadNXT}
      BY <1>4, <1>6 DEF v
    <3>. QED  BY <1>0, <1>5, <1>6, <1>7, <3>1, OthersKept, Zenon DEF s
  <2>. QED  BY <2>4, <2>5, <2>6, <2>7
<1>. QED  BY <1>1, <1>2, <1>5, <1>7, <1>8, <1>9, <1>10, StepBoth, Zenon

\* That call sends the FIN.
LEMMA VCloseSendStep ==
  ASSUME IInv, NEW p \in Peers, NEW c \in Callers, VCloseSend(p, c)
  PROVE  IInv' /\ (JInv => JInv')
<1>. DEFINE s == sk[p]
            v == cls[p][c]
            w == [NoCall EXCEPT !.pc = "done"]
            F == s.unackedFINs \cup {v.seq + 1}
            m == [seq |-> v.seq, ack |-> v.ack, data |-> FALSE, fin |-> TRUE]
<1>0. /\ TypeOK /\ Once(p) /\ v.pc = "send" /\ ~s.unackedMtx
      /\ cls' = [cls EXCEPT ![p][c] = w] /\ Send(p, m)
      /\ UNCHANGED <<snd, rcv, app, finTaken, lost>>
  BY Zenon DEF IInv, VCloseSend
<1>1. TypeAt(p) /\ lost \in Nat /\ s \in NormalSocket /\ cls[p] \in [Callers -> Call] /\ fins[p] \in Nat
  BY <1>0, TypesAt, Zenon DEF TypeAt
<1>2. w \in Call /\ w.pc = "done" /\ w.ack = 0
  BY DEF NoCall, Call
<1>3. v \in Call /\ v.seq \in Nat /\ v.ack \in Nat
  BY <1>1 DEF Call
<1>4. m \in Packet /\ m.fin /\ m.ack = v.ack
  BY <1>3 DEF Packet
<1>5. F \in SUBSET Nat
  BY <1>1, <1>3, SocketFields
<1>6. /\ sk'[p] = [s EXCEPT !.unackedFINs = F, !.stateMtx = FALSE]
      /\ fin'[p] = "finChan" /\ fins'[p] = fins[p] + 1
  BY <1>0, Zenon DEF VCloseSend, TypeOK
<1>7. /\ cls' = [cls EXCEPT ![p] = cls'[p]] /\ cls'[p] \in [Callers -> Call]
      /\ cls'[p][c] = w /\ \A d \in Callers : d # c => cls'[p][d] = cls[p][d]
  BY <1>0, <1>2, CallUpdate, Zenon
<1>8. StepOf(p)
  <2>1. /\ sk' = [sk EXCEPT ![p] = sk'[p]] /\ fin' = [fin EXCEPT ![p] = fin'[p]]
        /\ fins' = [fins EXCEPT ![p] = fins'[p]]
    BY <1>0, Zenon DEF VCloseSend, TypeOK
  <2>. QED  BY <1>0, <1>7, <2>1, Zenon DEF TypeOK, StepOf
<1>. HIDE DEF s, v, w, F, m
<1>9. /\ sk'[p] \in NormalSocket /\ SameSent(sk'[p], s) /\ SameRead(sk'[p], s)
      /\ sk'[p].state = s.state /\ sk'[p].inTable = s.inTable
      /\ sk'[p].unackedMtx = s.unackedMtx /\ sk'[p].unackedFINs = F
  <2>1. F \in SUBSET Nat /\ s \in NormalSocket /\ sk'[p] = [s EXCEPT !.unackedFINs = F, !.stateMtx = FALSE]
    BY <1>1, <1>5, <1>6, Zenon
  <2>. QED  BY <2>1, Zenon DEF NormalSocket, SameSent, SameRead
<1>10. NetType'
  BY <1>0, <1>4, SendNet
<1>11. TypeAt(p)' /\ KeepsFinTaken(p)
  <2>1. fin'[p] \in {"none", "finChan", "delete", "state"} /\ fins'[p] \in Nat
    BY <1>1, <1>6
  <2>. QED  BY <1>0, <1>1, <1>7, <1>9, <2>1, Zenon DEF TypeAt, KeepsFinTaken
<1>12. ~Opened(p) /\ fins[p] = 0 /\ \A d \in Callers : cls[p][d].pc = "send" <=> d = c
  BY <1>0 DEF Once, v
<1>13. Once(p)'
  <2>1. ~Opened(p)' /\ fins'[p] = 1
    BY <1>6, <1>9, <1>12 DEF Opened, s
  <2>2. \A d \in Callers : cls'[p][d].pc # "send"
    BY <1>2, <1>7, <1>12
  <2>3. app'[p].pc # "done" => cls'[p]["app"].pc = "idle"
    BY <1>0, <1>7, <1>12 DEF Once, Callers
  <2>. QED  BY <2>1, <2>2, <2>3 DEF Once
<1>14. ASSUME JInv  PROVE Calls(p)' /\ Fins(p)' /\ KeepsOwn(p) /\ KeepsOthers(p)
  <2>0. Calls(p) /\ Fins(p)
    BY <1>14, Zenon DEF JInv
  <2>1. Called(p) /\ Called(p)' /\ (p \notin Closers => c # "user")
    BY SMTT(20), <1>0, <1>2, <1>7, <2>0 DEF Called, Calls, v
  <2>2. p \notin Closers => cls'[p]["user"].pc = "idle"
    BY <1>7, <2>0, <2>1 DEF Calls, Callers
  <2>3. \A d \in Callers : cls'[p][d].pc \in {"lock", "send"} => cls'[p][d].seq = s.NXT
    BY <1>2, <1>7, <2>0 DEF Calls, s
  <2>4. F \subseteq {s.NXT + 1}
    BY <1>0, <1>12, <2>0 DEF Once, Calls, F, s, v
  <2>5. Silent(p)'
    BY <1>0, <2>0, <2>1, Zenon DEF Calls, Silent, s
  <2>6. Calls(p)'
    BY <1>0, <1>9, <2>0, <2>1, <2>2, <2>3, <2>4, <2>5, Zenon DEF Writing, Calls, SameSent
  <2>7. Fins(p)'
    <3>1. fin'[p] \notin {"delete", "state"}
      BY <1>6
    <3>. QED  BY <1>0, <1>9, <2>0, <3>1, Zenon DEF Fins, s
  <2>8. KeepsOwn(p)
    <3>1. (snd'[p] \in {"mtx", "wait"} => snd[p] \in {"mtx", "wait"}) /\ rcv'[p].pkt.ack \in {rcv[p].pkt.ack, 0}
      BY <1>0
    <3>2. UpTo(m, sk[p].NXT)
      BY <1>4, Zenon DEF UpTo
    <3>. QED  BY <1>0, <1>4, <1>8, <1>9, <3>1, <3>2, OwnSent, Zenon DEF s
  <2>9. KeepsOthers(p)
    <3>1. \A d \in Callers : cls'[p][d].ack \in {cls[p][d].ack, 0}
      BY <1>2, <1>7
    <3>. QED  BY <1>0, <1>4, <1>8, <1>9, <3>1, OthersSent, Zenon DEF s, v
  <2>. QED  BY <2>6, <2>7, <2>8, <2>9
<1>. QED  BY <1>0, <1>1, <1>8, <1>10, <1>11, <1>13, <1>14, StepBoth, Zenon

\* A step of the goroutine that waits on finChan, and of ReceiverThread with it.
LEMMA GoroutineStep ==
  ASSUME IInv, NEW p \in Peers, StepOf(p), fin[p] # "none",
         UNCHANGED <<net, snd, app, cls, fins, finTaken, lost>>,
         sk'[p] \in NormalSocket, SameSent(sk'[p], sk[p]), SameRead(sk'[p], sk[p]),
         sk'[p].unackedFINs \subseteq sk[p].unackedFINs, Opened(p)' = Opened(p),
         rcv'[p] \in Receiver, rcv'[p].pkt.ack \in {rcv[p].pkt.ack, 0},
         fin'[p] \in {"none", "delete", "state"}, JInv => Fins(p)'
  PROVE  IInv' /\ (JInv => JInv')
<1>0. TypeOK /\ Once(p)
  BY Zenon DEF IInv
<1>1. TypeAt(p) /\ lost \in Nat
  BY <1>0, TypesAt
<1>2. NetType' /\ NetShrinks
  BY <1>0, SameNet
<1>3. TypeAt(p)' /\ KeepsFinTaken(p)
  <2>1. fin'[p] \in {"none", "finChan", "delete", "state"}
    OBVIOUS
  <2>. QED  BY <1>1, <2>1, Zenon DEF TypeAt, KeepsFinTaken
<1>4. fins[p] # 0
  BY <1>0, Zenon DEF Once
<1>5. Once(p)'
  BY <1>0, <1>4 DEF Once
<1>6. ASSUME JInv  PROVE Calls(p)' /\ Fins(p)' /\ KeepsOwn(p) /\ KeepsOthers(p)
  <2>1. Calls(p)
    BY <1>6, Zenon DEF JInv
  <2>2. Calls(p)'
    BY <1>4, <2>1, Zenon DEF Writing, Calls, Called, Silent, SameSent
  <2>3. KeepsOwn(p)
    <3>1. snd'[p] \in {"mtx", "wait"} => snd[p] \in {"mtx", "wait"}
      OBVIOUS
    <3>. QED  BY <1>0, <1>2, <3>1, OwnKept, Zenon
  <2>4. KeepsOthers(p)
    <3>1. \A d \in Callers : cls'[p][d].ack \in {cls[p][d].ack, 0, sk[p].cumReadNXT}
      BY Zenon
    <3>. QED  BY <1>0, <1>2, <3>1, OthersKept, ZenonT(30)
  <2>. QED  BY <1>6, <2>2, <2>3, <2>4, Zenon
<1>. QED  BY <1>0, <1>1, <1>2, <1>3, <1>5, <1>6, StepBoth, Zenon

\* The goroutine of VClose is told that its FIN was acknowledged.
LEMMA FinChanStep ==
  ASSUME IInv, NEW p \in Peers, FinChan(p)
  PROVE  IInv' /\ (JInv => JInv')
<1>. DEFINE s == sk[p]
<1>0. TypeOK /\ rcv[p].pc = "finChan" /\ fin[p] = "finChan"
  BY Zenon DEF IInv, FinChan
<1>1. s \in NormalSocket
  BY <1>0, TypesAt, Zenon DEF TypeAt
<1>2. StepOf(p) /\ UNCHANGED <<net, snd, app, cls, fins, finTaken, lost>>
  BY <1>0, Zenon DEF TypeOK, StepOf, FinChan
<1>3. /\ sk'[p] = [s EXCEPT !.unackedMtx = FALSE]
      /\ rcv'[p] = [pc |-> "recv", pkt |-> NoPacket] /\ fin'[p] = "delete"
  BY <1>0, Zenon DEF TypeOK, FinChan
<1>4. rcv'[p] \in Receiver /\ rcv'[p].pkt.ack = 0 /\ rcv'[p].pc = "recv"
  BY <1>3 DEF NoPacket, Packet, Receiver
<1>5. fin[p] # "none" /\ rcv'[p].pkt.ack \in {rcv[p].pkt.ack, 0} /\ rcv'[p].pc # "fin"
      /\ fin'[p] \in {"none", "delete", "state"}
  BY <1>0, <1>3, <1>4
<1>. HIDE DEF s
<1>6. /\ sk'[p] \in NormalSocket /\ SameState(sk'[p], s) /\ SameSent(sk'[p], s)
      /\ SameRead(sk'[p], s)
  BY <1>1, <1>3, Zenon DEF NormalSocket, SameState, SameSent, SameRead
<1>7. Opened(p)' = Opened(p) /\ sk'[p].unackedFINs \subseteq sk[p].unackedFINs
  BY <1>6, Zenon DEF Opened, SameState, s
<1>8. ASSUME JInv  PROVE Fins(p)'
  <2>1. Fins(p)
    BY <1>8, Zenon DEF JInv
  <2>. QED  BY <1>0, <1>2, <1>5, <1>6, <2>1, Zenon DEF Fins, SameState, s
<1>. QED  BY <1>2, <1>4, <1>5, <1>6, <1>7, <1>8, GoroutineStep, Zenon DEF s

\* It forgets the number of the FIN.
LEMMA FinDeleteStep ==
  ASSUME IInv, NEW p \in Peers, FinDelete(p)
  PROVE  IInv' /\ (JInv => JInv')
<1>. DEFINE s == sk[p]
<1>0. TypeOK /\ fin[p] = "delete"
  BY Zenon DEF IInv, FinDelete
<1>1. s \in NormalSocket /\ rcv[p] \in Receiver
  BY <1>0, TypesAt, Zenon DEF TypeAt
<1>2. StepOf(p) /\ UNCHANGED <<net, snd, rcv, app, cls, fins, finTaken, lost>>
  BY <1>0, Zenon DEF TypeOK, StepOf, FinDelete
<1>3. sk'[p] = [s EXCEPT !.unackedFINs = {}] /\ fin'[p] = "state"
  BY <1>0, Zenon DEF TypeOK, FinDelete
<1>4. /\ fin[p] # "none" /\ fin[p] \in {"delete", "state"} /\ rcv'[p].pkt.ack \in {rcv[p].pkt.ack, 0}
      /\ fin'[p] \in {"none", "delete", "state"} /\ {} \in SUBSET Nat
  BY <1>0, <1>2, <1>3
<1>. HIDE DEF s
<1>5. /\ sk'[p] \in NormalSocket /\ sk'[p].state = s.state /\ sk'[p].inTable = s.inTable
      /\ sk'[p].unackedFINs = {} /\ SameSent(sk'[p], s) /\ SameRead(sk'[p], s)
  BY <1>1, <1>3, <1>4, Zenon DEF NormalSocket, SameSent, SameRead
<1>6. Opened(p)' = Opened(p) /\ sk'[p].unackedFINs \subseteq sk[p].unackedFINs
  BY <1>5, Zenon DEF Opened, s
<1>7. ASSUME JInv  PROVE Fins(p)'
  <2>1. Fins(p)
    BY <1>7, Zenon DEF JInv
  <2>. QED  BY <1>2, <1>4, <1>5, <2>1, Zenon DEF Fins, s
<1>. QED  BY <1>1, <1>2, <1>4, <1>5, <1>6, <1>7, GoroutineStep, Zenon DEF s

\* It changes the state, or deletes the socket: both FINs were taken.
LEMMA FinAckedStep ==
  ASSUME IInv, NEW p \in Peers, FinAcked(p)
  PROVE  IInv' /\ (JInv => JInv')
<1>. DEFINE s == sk[p]
            st == IF s.state = "FIN_WAIT_1" THEN "FIN_WAIT_2" ELSE s.state
            t == s.inTable /\ s.state # "LAST_ACK"
<1>0. TypeOK /\ fin[p] = "state"
  BY Zenon DEF IInv, FinAcked
<1>1. s \in NormalSocket /\ rcv[p] \in Receiver
  BY <1>0, TypesAt, Zenon DEF TypeAt
<1>2. StepOf(p) /\ UNCHANGED <<net, snd, rcv, app, cls, fins, finTaken, lost>>
  BY <1>0, Zenon DEF TypeOK, StepOf, FinAcked
<1>3. sk'[p] = [s EXCEPT !.state = st, !.inTable = t] /\ fin'[p] = "none"
  BY <1>0, Zenon DEF TypeOK, FinAcked
<1>4. /\ fin[p] # "none" /\ fin[p] \in {"delete", "state"} /\ rcv'[p].pkt.ack \in {rcv[p].pkt.ack, 0}
      /\ fin'[p] \in {"none", "delete", "state"} /\ fin'[p] \notin {"delete", "state"}
  BY <1>0, <1>2, <1>3
<1>5. st \in States /\ t \in BOOLEAN
  BY <1>1, SocketFields DEF States
<1>6. (st \in {"ESTABLISHED", "CLOSE_WAIT"}) = (s.state \in {"ESTABLISHED", "CLOSE_WAIT"})
  OBVIOUS
<1>7. /\ st \in {"CLOSE_WAIT", "LAST_ACK", "TIME_WAIT"} => st = s.state
      /\ ~t => ~s.inTable \/ s.state \in {"CLOSE_WAIT", "LAST_ACK", "TIME_WAIT"}
  OBVIOUS
<1>. HIDE DEF s, st, t
<1>8. /\ sk'[p] \in NormalSocket /\ sk'[p].state = st /\ sk'[p].inTable = t
      /\ sk'[p].unackedFINs = s.unackedFINs /\ SameSent(sk'[p], s) /\ SameRead(sk'[p], s)
  BY <1>1, <1>3, <1>5, Zenon DEF NormalSocket, SameSent, SameRead
<1>9. Opened(p)' = Opened(p) /\ sk'[p].unackedFINs \subseteq sk[p].unackedFINs
  BY <1>6, <1>8, Zenon DEF Opened, s
<1>10. ASSUME JInv  PROVE Fins(p)'
  <2>1. Fins(p)
    BY <1>10, Zenon DEF JInv
  <2>2. finTaken[Other(p)]
    BY <1>4, <2>1, Zenon DEF Fins
  <2>. QED  BY <1>2, <1>4, <1>7, <1>8, <2>1, <2>2, Zenon DEF Fins, s
<1>. QED  BY <1>1, <1>2, <1>4, <1>8, <1>9, <1>10, GoroutineStep, Zenon DEF s

\* VClose begins: the application has nothing more to send.
LEMMA VCloseCallStep ==
  ASSUME IInv, NEW p \in Peers, NEW c \in Callers, VCloseCall(p, c), cls[p][c].pc = "idle",
         UNCHANGED <<net, sk, snd, rcv, fin, fins, finTaken, lost>>,
         app' = [app EXCEPT ![p] = app'[p]], app'[p] \in Application,
         app'[p].left = app[p].left, app[p].pc = "done" => app'[p].pc = "done",
         Writing(p)' => Writing(p), c = "app" => app'[p].pc = "done", c = "user" => p \in Closers, JInv => Silent(p)'
  PROVE  IInv' /\ (JInv => JInv')
<1>. DEFINE v == [pc |-> "lock", seq |-> sk[p].NXT, ack |-> sk[p].cumReadNXT]
<1>0. TypeOK /\ Once(p) /\ cls' = [cls EXCEPT ![p][c] = v]
  BY Zenon DEF IInv, VCloseCall
<1>1. TypeAt(p) /\ lost \in Nat /\ sk[p] \in NormalSocket
  BY <1>0, TypesAt, Zenon DEF TypeAt
<1>2. v \in Call
  BY Zenon, <1>1, SocketFields DEF Call
<1>3. v.pc = "lock" /\ v.seq = sk[p].NXT /\ v.ack = sk[p].cumReadNXT
  OBVIOUS
<1>. HIDE DEF v
<1>4. /\ cls' = [cls EXCEPT ![p] = cls'[p]] /\ cls'[p] \in [Callers -> Call]
      /\ cls'[p][c] = v /\ \A d \in Callers : d # c => cls'[p][d] = cls[p][d]
  BY <1>0, <1>2, CallUpdate, Zenon
<1>5. StepOf(p)
  BY <1>0, <1>4, Zenon DEF TypeOK, StepOf
<1>6. NetType' /\ NetShrinks
  BY <1>0, SameNet
<1>7. TypeAt(p)' /\ KeepsFinTaken(p)
  BY <1>1, <1>4, Zenon DEF TypeAt, KeepsFinTaken
<1>8. SameSent(sk'[p], sk[p]) /\ SameRead(sk'[p], sk[p])
  BY Zenon DEF SameSent, SameRead
<1>9. Once(p)'
  <2>1. \A d \in Callers : cls'[p][d].pc = "send" <=> cls[p][d].pc = "send"
    BY <1>3, <1>4
  <2>2. app'[p].pc # "done" => cls'[p]["app"].pc = "idle"
    BY <1>0, <1>4 DEF Once, Callers
  <2>3. Opened(p)' = Opened(p)
    BY Zenon DEF Opened
  <2>. QED  BY Zenon, <1>0, <2>1, <2>2, <2>3 DEF Once
<1>10. ASSUME JInv  PROVE Calls(p)' /\ Fins(p)' /\ KeepsOwn(p) /\ KeepsOthers(p)
  <2>0. Calls(p) /\ Fins(p)
    BY <1>10, Zenon DEF JInv
  <2>1. Called(p)'
    BY Zenon, <1>3, <1>4 DEF Called
  <2>2. p \notin Closers => cls'[p]["user"].pc = "idle"
    BY <1>4, <2>0 DEF Calls, Callers
  <2>3. \A d \in Callers : cls'[p][d].pc \in {"lock", "send"} => cls'[p][d].seq = sk[p].NXT
    BY <1>3, <1>4, <2>0, Zenon DEF Calls
  <2>4. Calls(p)'
    BY <1>10, <2>0, <2>1, <2>2, <2>3, Zenon DEF Calls
  <2>5. Fins(p)'
    BY <2>0, Zenon DEF Fins
  <2>6. KeepsOwn(p)
    <3>1. (snd'[p] \in {"mtx", "wait"} => snd[p] \in {"mtx", "wait"}) /\ rcv'[p].pkt.ack \in {rcv[p].pkt.ack, 0}
      OBVIOUS
    <3>. QED  BY <1>0, <1>5, <1>6, <1>8, <3>1, OwnKept, Zenon
  <2>7. KeepsOthers(p)
    <3>1. \A d \in Callers : cls'[p][d].ack \in {cls[p][d].ack, 0, sk[p].cumReadNXT}
      BY <1>3, <1>4
    <3>. QED  BY <1>0, <1>5, <1>6, <1>8, <3>1, OthersKept, Zenon
  <2>. QED  BY <2>4, <2>5, <2>6, <2>7
<1>. QED  BY <1>0, <1>1, <1>5, <1>6, <1>7, <1>9, <1>10, StepBoth, Zenon

\* SendFile wakes up and closes.
LEMMA WakeUpStep ==
  ASSUME IInv, NEW p \in Peers, WakeUp(p)
  PROVE  IInv' /\ (JInv => JInv')
<1>0. /\ TypeOK /\ Once(p) /\ VCloseCall(p, "app") /\ snd[p] # "send"
      /\ app[p].pc = "sleep" /\ app[p].pc # "done" /\ app' = [app EXCEPT ![p].pc = "done"]
      /\ UNCHANGED <<net, sk, snd, rcv, fin, fins, finTaken, lost>>
  BY Zenon DEF IInv, WakeUp
<1>1. "app" \in Callers /\ cls[p]["app"].pc = "idle" /\ "app" # "user"
  BY <1>0 DEF Callers, Once
<1>2. app[p] \in Application
  BY <1>0, TypesAt, Zenon DEF TypeAt
<1>3. app'[p] = [app[p] EXCEPT !.pc = "done"] /\ app' = [app EXCEPT ![p] = app'[p]]
  BY <1>0, Zenon DEF TypeOK
<1>4. /\ app'[p] \in Application /\ app'[p].pc = "done" /\ app'[p].left = app[p].left
      /\ (Writing(p)' => Writing(p))
  BY <1>2, <1>3 DEF Application, Writing
<1>5. ASSUME JInv  PROVE Silent(p)'
  BY <1>0, <1>4, Zenon DEF Silent
<1>. QED  BY <1>0, <1>1, <1>3, <1>4, <1>5, VCloseCallStep, Zenon

\* The user closes: Careful says that p writes nothing.
LEMMA UserCloseStep ==
  ASSUME IInv, NEW p \in Peers, UserClose(p)
  PROVE  IInv' /\ (JInv => JInv')
<1>0. /\ TypeOK /\ VCloseCall(p, "user") /\ cls[p]["user"].pc = "idle" /\ p \in Closers
      /\ UNCHANGED <<net, sk, snd, rcv, app, fin, fins, finTaken, lost>>
  BY Zenon DEF IInv, UserClose
<1>1. "user" \in Callers /\ "user" # "app"
  BY DEF Callers
<1>2. /\ app'[p] = app[p] /\ app[p] \in Application /\ app' = [app EXCEPT ![p] = app'[p]]
      /\ (Writing(p)' => Writing(p))
  BY <1>0, TypesAt, Zenon DEF TypeAt, TypeOK, Writing
<1>3. ASSUME JInv  PROVE Silent(p)'
  BY <1>0, <1>3, Zenon DEF JInv, Careful, Silent
<1>. QED  BY <1>0, <1>1, <1>2, <1>3, VCloseCallStep, Zenon

-----------------------------------------------------------------------------
(* The remaining steps.                                                    *)

\* A step that keeps what the invariants say of p's socket, and loses packets at most.
LEMMA QuietStep ==
  ASSUME IInv, NEW p \in Peers, StepOf(p), NetType', NetShrinks, lost' \in Nat,
         UNCHANGED <<snd, rcv, cls, fin, fins, finTaken>>,
         sk'[p] \in NormalSocket, SameSent(sk'[p], sk[p]), SameRead(sk'[p], sk[p]),
         sk'[p].state = sk[p].state, sk'[p].unackedMtx = sk[p].unackedMtx,
         sk'[p].unackedFINs = sk[p].unackedFINs,
         app'[p] \in Application, app'[p].left = app[p].left,
         app[p].pc = "done" <=> app'[p].pc = "done", Writing(p)' => Writing(p), JInv => Fins(p)'
  PROVE  IInv' /\ (JInv => JInv')
<1>0. TypeOK /\ Once(p)
  BY Zenon DEF IInv
<1>1. TypeAt(p)
  BY <1>0, TypesAt
<1>2. TypeAt(p)' /\ KeepsFinTaken(p)
  BY <1>1, Zenon DEF TypeAt, KeepsFinTaken
<1>3. Once(p)'
  <2>1. Opened(p)' = Opened(p)
    BY Zenon DEF Opened
  <2>. QED  BY Zenon, <1>0, <2>1 DEF Once
<1>4. ASSUME JInv  PROVE Calls(p)' /\ Fins(p)' /\ KeepsOwn(p) /\ KeepsOthers(p)
  <2>1. Calls(p)
    BY <1>4, Zenon DEF JInv
  <2>2. Calls(p)'
    BY <2>1, Zenon DEF Calls, Called, Silent, SameSent
  <2>3. KeepsOwn(p)
    <3>1. (snd'[p] \in {"mtx", "wait"} => snd[p] \in {"mtx", "wait"}) /\ rcv'[p].pkt.ack \in {rcv[p].pkt.ack, 0}
      OBVIOUS
    <3>. QED  BY <1>0, <3>1, OwnKept, ZenonT(30)
  <2>4. KeepsOthers(p)
    <3>1. \A d \in Callers : cls'[p][d].ack \in {cls[p][d].ack, 0, sk[p].cumReadNXT}
      OBVIOUS
    <3>. QED  BY <1>0, <3>1, OthersKept, Zenon
  <2>. QED  BY <1>4, <2>2, <2>3, <2>4, Zenon
<1>. QED  BY <1>2, <1>3, <1>4, StepBoth, Zenon

\* VRead returns bytes, or waits for some.
LEMMA VReadLockedStep ==
  ASSUME IInv, NEW p \in Peers, VReadLocked(p)
  PROVE  IInv' /\ (JInv => JInv')
<1>. DEFINE s == sk[p]
            num == IF app[p].pc = "read" THEN app[p].num ELSE Unread(p)
            l == (s.LBR + num) % WINDOW_SIZE
<1>0. TypeOK /\ app[p].pc \in {"read", "woken"}
  BY Zenon DEF IInv, VReadLocked
<1>1. s \in NormalSocket /\ app[p] \in Application /\ app[p].num \in Nat /\ lost \in Nat
  BY <1>0, TypesAt, ApplicationFields DEF TypeAt
<1>2. StepOf(p) /\ UNCHANGED <<net, snd, rcv, cls, fin, fins, finTaken, lost>>
  BY <1>0, Zenon DEF TypeOK, StepOf, VReadLocked
<1>3. \/ sk'[p] = [s EXCEPT !.LBR = l] /\ app'[p] = [app[p] EXCEPT !.pc = "loop"]
      \/ sk' = sk /\ app'[p] = [app[p] EXCEPT !.pc = "wait"]
  BY <1>0, Zenon DEF TypeOK, VReadLocked, ReadOut
<1>4. l \in 0 .. WINDOW_SIZE - 1
  <2>1. s.LBR \in Nat /\ Unread(p) \in Nat /\ WINDOW_SIZE \in Nat /\ WINDOW_SIZE > 0
    BY <1>0, <1>1, SocketFields, UnreadType
  <2>2. num \in Nat
    BY <1>1, <2>1
  <2>3. s.LBR + num \in Nat
    BY <2>1, <2>2
  <2>. HIDE DEF s, num
  <2>. QED  BY <2>1, <2>3
<1>5. /\ app'[p] \in Application /\ app'[p].left = app[p].left
      /\ app'[p].pc \notin {"done", "write", "chan"}
  BY <1>1, <1>3 DEF Application
<1>6. (app[p].pc = "done" <=> app'[p].pc = "done") /\ (Writing(p)' => Writing(p))
  BY <1>0, <1>5 DEF Writing
<1>. HIDE DEF s, l
<1>7. /\ sk'[p] \in NormalSocket /\ SameState(sk'[p], s) /\ SameSent(sk'[p], s)
      /\ SameRead(sk'[p], s) /\ sk'[p].unackedMtx = s.unackedMtx
  <2>1. CASE sk'[p] = [s EXCEPT !.LBR = l]
    BY <1>1, <1>4, <2>1, Zenon DEF NormalSocket, SameState, SameSent, SameRead
  <2>2. CASE sk' = sk
    BY <1>1, <2>2, SameSocket, Zenon DEF s
  <2>. QED  BY <1>3, <2>1, <2>2, Zenon
<1>8. NetType' /\ NetShrinks
  BY <1>0, <1>2, SameNet
<1>9. ASSUME JInv  PROVE Fins(p)'
  <2>1. Fins(p)
    BY <1>9, Zenon DEF JInv
  <2>. QED  BY <1>2, <1>7, <2>1, Zenon DEF Fins, SameState, s
<1>. QED  BY <1>1, <1>2, <1>5, <1>6, <1>7, <1>8, <1>9, QuietStep, Zenon DEF SameState, s

\* TIME_WAIT is over, and the socket is deleted.
LEMMA TimeWaitOverStep ==
  ASSUME IInv, NEW p \in Peers, TimeWaitOver(p)
  PROVE  IInv' /\ (JInv => JInv')
<1>. DEFINE s == sk[p]
<1>0. TypeOK /\ s.state = "TIME_WAIT"
  BY Zenon DEF IInv, TimeWaitOver
<1>1. s \in NormalSocket /\ app[p] \in Application /\ lost \in Nat
  BY <1>0, TypesAt, Zenon DEF TypeAt
<1>2. StepOf(p) /\ UNCHANGED <<net, snd, rcv, app, cls, fin, fins, finTaken, lost>>
  BY <1>0, Zenon DEF TypeOK, StepOf, TimeWaitOver
<1>3. sk'[p] = [s EXCEPT !.inTable = FALSE]
  BY <1>0, Zenon DEF TypeOK, TimeWaitOver
<1>. HIDE DEF s
<1>4. /\ sk'[p] \in NormalSocket /\ sk'[p].state = s.state /\ SameSent(sk'[p], s)
      /\ SameRead(sk'[p], s) /\ sk'[p].unackedMtx = s.unackedMtx
      /\ sk'[p].unackedFINs = s.unackedFINs
  BY <1>1, <1>3, Zenon DEF NormalSocket, SameSent, SameRead
<1>5. NetType' /\ NetShrinks
  BY <1>0, <1>2, SameNet
<1>6. ASSUME JInv  PROVE Fins(p)'
  <2>1. Fins(p)
    BY <1>6, Zenon DEF JInv
  <2>2. s.state \in {"FIN_WAIT_2", "TIME_WAIT"} /\ s.state \in {"CLOSE_WAIT", "LAST_ACK", "TIME_WAIT"}
    BY <1>0
  <2>3. finTaken[p] /\ finTaken[Other(p)]
    BY <2>1, <2>2, Zenon DEF Fins, s
  <2>. QED  BY <1>2, <1>4, <2>1, <2>3, Zenon DEF Fins, s
<1>7. Writing(p)' => Writing(p)
  BY <1>2, Zenon DEF Writing
<1>. QED  BY <1>1, <1>2, <1>4, <1>5, <1>6, <1>7, QuietStep, Zenon DEF s

\* Packets for p disappear, by UDP or because p's socket is gone.
LEMMA DropStep ==
  ASSUME IInv, NEW p \in Peers, Lose(p) \/ Unknown(p)
  PROVE  IInv' /\ (JInv => JInv')
<1>0. TypeOK /\ UNCHANGED <<sk, snd, rcv, app, cls, fin, fins, finTaken>>
  BY Zenon DEF IInv, Lose, Unknown
<1>1. sk[p] \in NormalSocket /\ app[p] \in Application /\ lost \in Nat /\ net[p] \in Seq(Packet)
  BY <1>0, TypesAt, Zenon DEF TypeAt
<1>2. lost' \in Nat
  BY <1>1 DEF Lose, Unknown
<1>3. PICK q \in Seq(Packet) : net' = [net EXCEPT ![p] = q] /\ ToSet(q) \subseteq ToSet(net[p])
  <2>1. CASE Lose(p)
    BY <1>1, <2>1, RemoveAtIn, Zenon DEF Lose
  <2>2. CASE Unknown(p)
    BY <1>1, <2>2, TailIn, Zenon DEF Unknown
  <2>. QED  BY <2>1, <2>2, Zenon
<1>4. NetType' /\ NetShrinks
  BY <1>0, <1>3, Zenon DEF TypeOK, NetType, NetShrinks
<1>5. StepOf(p)
  BY <1>0, Zenon DEF TypeOK, StepOf
<1>6. SameSent(sk'[p], sk[p]) /\ SameRead(sk'[p], sk[p])
  BY <1>0, Zenon DEF SameSent, SameRead
<1>7. ASSUME JInv  PROVE Fins(p)'
  <2>1. Fins(p)
    BY <1>7, Zenon DEF JInv
  <2>. QED  BY <1>0, <2>1, Zenon DEF Fins
<1>8. Writing(p)' => Writing(p)
  BY <1>0, Zenon DEF Writing
<1>. QED  BY <1>0, <1>1, <1>2, <1>4, <1>5, <1>6, <1>7, <1>8, QuietStep, Zenon

-----------------------------------------------------------------------------
(* The theorems.                                                           *)

\* The ends in an initial state.
LEMMA InitFields ==
  ASSUME Init, NEW p \in Peers
  PROVE  /\ TypeAt(p) /\ net[p] = <<>> /\ snd[p] = "idle" /\ rcv[p].pc = "recv" /\ rcv[p].pkt.ack = 0
         /\ app[p].pc # "done" /\ ~Writing(p) /\ app[p].left = Chunks[p] /\ fin[p] = "none"
         /\ fins[p] = 0 /\ finTaken[p] = FALSE
         /\ \A c \in Callers : cls[p][c].pc = "idle" /\ cls[p][c].ack = 0
         /\ sk[p].state = "ESTABLISHED" /\ sk[p].inTable /\ sk[p].NXT = 1 /\ sk[p].cumWriteUNA = 1
         /\ sk[p].cumReadNXT = 1 /\ sk[p].unackedFINs = {} /\ sk[p].ackChan = <<>>
         /\ sk[p].earlyPQ = {}
<1>. DEFINE s == [state |-> "ESTABLISHED", inTable |-> TRUE, stateMtx |-> FALSE, unackedMtx |-> FALSE,
                  NXT |-> 1, cumWriteUNA |-> 1, cumReadNXT |-> 1, readNXT |-> 1, LBR |-> 0,
                  unackedNums |-> {}, seenAcks |-> {}, unackedFINs |-> {}, ackChan |-> <<>>,
                  earlyPQ |-> {}]
<1>1. s \in NormalSocket
  <2>1. "ESTABLISHED" \in States /\ 0 \in 0 .. WINDOW_SIZE - 1 /\ 1 \in Nat
    BY AppAssumption DEF States
  <2>2. <<>> \in Seq(Nat) /\ {} \in SUBSET Nat /\ {} \in SUBSET Early
    OBVIOUS
  <2>. QED  BY <2>1, <2>2, Zenon DEF NormalSocket
<1>2. /\ s.state = "ESTABLISHED" /\ s.inTable /\ s.NXT = 1 /\ s.cumWriteUNA = 1
      /\ s.cumReadNXT = 1 /\ s.unackedFINs = {} /\ s.ackChan = <<>> /\ s.earlyPQ = {}
  BY Zenon
<1>3. sk[p] = s
  BY Zenon DEF Init
<1>. HIDE DEF s
<1>4. rcv[p] \in Receiver /\ rcv[p].pc = "recv" /\ rcv[p].pkt.ack = 0
  <2>1. rcv[p] = [pc |-> "recv", pkt |-> NoPacket]
    BY Zenon DEF Init
  <2>. QED  BY <2>1 DEF Receiver, NoPacket, Packet
<1>5. app[p] \in Application /\ app[p].pc # "done" /\ ~Writing(p) /\ app[p].left = Chunks[p]
  <2>1. app[p] = [pc |-> IF App[p] = "recvfile" THEN "loop" ELSE "call", left |-> Chunks[p], num |-> 0]
    BY Zenon DEF Init
  <2>2. Chunks[p] \in Nat
    BY AppAssumption
  <2>. QED  BY <2>1, <2>2 DEF Application, Writing
<1>6. cls[p] \in [Callers -> Call] /\ \A c \in Callers : cls[p][c].pc = "idle" /\ cls[p][c].ack = 0
  <2>1. cls[p] = [c \in Callers |-> NoCall]
    BY Zenon DEF Init
  <2>2. NoCall \in Call /\ NoCall.pc = "idle" /\ NoCall.ack = 0
    BY DEF NoCall, Call
  <2>. QED  BY <2>1, <2>2, Zenon
<1>7. net[p] = <<>> /\ snd[p] = "idle" /\ fin[p] = "none" /\ fins[p] = 0 /\ finTaken[p] = FALSE
  BY Zenon DEF Init
<1>8. TypeAt(p)
  <2>1. /\ snd[p] \in {"idle", "send", "mtx", "wait", "acked"} /\ fins[p] \in Nat
        /\ fin[p] \in {"none", "finChan", "delete", "state"}
    BY <1>7
  <2>2. finTaken[p] \in BOOLEAN
    BY <1>7, Zenon
  <2>. QED  BY <1>1, <1>3, <1>4, <1>5, <1>6, <2>1, <2>2, Zenon DEF TypeAt
<1>. QED  BY <1>2, <1>3, <1>4, <1>5, <1>6, <1>7, <1>8, Zenon

\* No VClose has been called in an initial state.
LEMMA InitCalls ==
  ASSUME Init, NEW p \in Peers, NEW c \in Callers
  PROVE  cls[p][c].pc = "idle" /\ cls[p][c].ack = 0
<1>1. cls[p][c] = NoCall
  BY Zenon DEF Init
<1>. QED  BY <1>1 DEF NoCall

\* IInv holds initially.
LEMMA IInvInit == Init => IInv
<1>. SUFFICES ASSUME Init  PROVE IInv
  OBVIOUS
<1>1. \A p \in Peers : TypeAt(p) /\ net[p] = <<>>
  BY InitFields, Zenon
<1>2. TypeOK
  <2>1. net \in [Peers -> Seq(Packet)]
    <3>1. net = [p \in Peers |-> <<>>] /\ <<>> \in Seq(Packet)
      BY DEF Init
    <3>. QED  BY <3>1, Zenon
  <2>2. /\ sk \in [Peers -> NormalSocket] /\ snd \in [Peers -> {"idle", "send", "mtx", "wait", "acked"}]
        /\ rcv \in [Peers -> Receiver] /\ app \in [Peers -> Application]
    BY <1>1, Zenon DEF Init, TypeAt
  <2>3. /\ cls \in [Peers -> [Callers -> Call]] /\ fins \in [Peers -> Nat]
        /\ fin \in [Peers -> {"none", "finChan", "delete", "state"}] /\ finTaken \in [Peers -> BOOLEAN]
    BY <1>1, Zenon DEF Init, TypeAt
  <2>4. lost \in Nat
    BY DEF Init
  <2>. QED  BY <2>1, <2>2, <2>3, <2>4, Zenon DEF TypeOK, Receiver, Application, Call
<1>3. ASSUME NEW p \in Peers  PROVE Once(p)
  <2>1. app[p].pc # "done" => cls[p]["app"].pc = "idle"
    BY <1>3, InitFields, Zenon DEF Callers
  <2>2. /\ Opened(p) /\ fins[p] = 0 /\ sk[p].unackedFINs = {} /\ fin[p] = "none"
        /\ rcv[p].pc # "finChan" /\ \A c \in Callers : cls[p][c].pc # "send"
    BY <1>3, InitFields, Zenon DEF Opened
  <2>. QED  BY <2>1, <2>2, Zenon DEF Once
<1>. QED  BY <1>2, <1>3, Zenon DEF IInv

\* JInv holds initially if users are careful.
LEMMA JInvInit == Init /\ Careful => JInv
<1>. SUFFICES ASSUME Init, Careful  PROVE JInv
  OBVIOUS
<1>1. ASSUME NEW p \in Peers  PROVE Calls(p)
  <2>0. \A c \in Callers : cls[p][c].pc = "idle"
    BY <1>1, InitCalls, Zenon
  <2>1. ~Called(p) /\ \A c \in Callers : cls[p][c].pc \notin {"lock", "send"}
    BY <2>0 DEF Called
  <2>2. cls[p]["user"].pc = "idle"
    BY <1>1, InitFields, Zenon DEF Callers
  <2>3. fins[p] = 0 /\ snd[p] = "idle" /\ app[p].left = Chunks[p] /\ sk[p].unackedFINs = {}
    BY <1>1, InitFields, Zenon
  <2>4. ~Writing(p)
    BY <1>1, InitFields, Zenon
  <2>. QED  BY <2>1, <2>2, <2>3, <2>4, Zenon DEF Calls
<1>2. ASSUME NEW p \in Peers  PROVE Fins(p)
  BY <1>2, InitFields, Zenon DEF Fins
<1>3. ASSUME NEW p \in Peers  PROVE Nums(p)
  <2>0. Other(p) \in Peers
    BY OtherPeer
  <2>1. \A q \in Peers : ToSet(net[q]) = {} /\ ToSet(sk[q].ackChan) = {}
    <3>1. ToSet(<<>>) = {}
      BY DEF ToSet
    <3>. QED  BY <3>1, InitFields, Zenon
  <2>2. SenderNums(p)
    <3>1. rcv[p].pkt.ack = 0 /\ sk[p].NXT = 1 /\ sk[p].cumWriteUNA = 1 /\ snd[p] = "idle"
      BY InitFields, Zenon
    <3>. QED  BY <2>1, <3>1 DEF SenderNums
  <2>3. ReceiverNums(Other(p), sk[p].NXT)
    <3>1. sk[p].NXT = 1 /\ sk[Other(p)].cumReadNXT = 1 /\ sk[Other(p)].earlyPQ = {}
      BY <2>0, InitFields, Zenon
    <3>2. \A c \in Callers : cls[Other(p)][c].ack = 0
      BY <2>0, InitCalls, Zenon
    <3>. QED  BY <3>1, <3>2 DEF ReceiverNums
  <2>4. NetNums(p)
    BY <2>0, <2>1, Zenon DEF NetNums
  <2>. QED  BY <2>2, <2>3, <2>4, Zenon DEF Nums, Bounds
<1>. QED  BY <1>1, <1>2, <1>3, Zenon DEF JInv

\* Every step keeps IInv, and JInv with it.
LEMMA InvNext == IInv /\ [Next]_vars => IInv' /\ (JInv => JInv')
<1>. SUFFICES ASSUME IInv, [Next]_vars  PROVE IInv' /\ (JInv => JInv')
  OBVIOUS
<1>1. CASE UNCHANGED vars
  <2>1. /\ net' = net /\ sk' = sk /\ snd' = snd /\ rcv' = rcv /\ app' = app /\ cls' = cls /\ fin' = fin
        /\ fins' = fins /\ finTaken' = finTaken /\ lost' = lost
    BY <1>1, Zenon DEF vars
  <2>2. PICK p \in Peers : TRUE
    BY PeersAssumption, Zenon
  <2>3. TypeOK /\ sk[p] \in NormalSocket /\ app[p] \in Application /\ lost \in Nat
    BY TypesAt, Zenon DEF IInv, TypeAt
  <2>4. NetType' /\ NetShrinks /\ StepOf(p)
    BY <2>1, <2>3, SameNet, Zenon DEF TypeOK, StepOf
  <2>5. SameSent(sk'[p], sk[p]) /\ SameRead(sk'[p], sk[p])
    BY <2>1, Zenon DEF SameSent, SameRead
  <2>6. JInv => Fins(p)'
    BY <2>1, Zenon DEF JInv, Fins
  <2>7. Writing(p)' => Writing(p)
    BY <2>1, Zenon DEF Writing
  <2>. QED  BY <2>1, <2>3, <2>4, <2>5, <2>6, <2>7, QuietStep, Zenon
<1>2. ASSUME NEW p \in Peers, SenderStep(p)  PROVE IInv' /\ (JInv => JInv')
  BY <1>2, MoveNXTStep, SendChunkStep, PopAckStep, WindowDoneStep, Zenon DEF SenderStep
<1>3. ASSUME NEW p \in Peers, ReceiverStep(p)  PROVE IInv' /\ (JInv => JInv')
  BY <1>3, ReceiveFinAckStep, ReceiveAsideStep, ReceiveNextStep, FinStateStep, PopEarlyStep,
     AnswerStep, Zenon DEF ReceiverStep
<1>4. ASSUME NEW p \in Peers, FinStep(p)  PROVE IInv' /\ (JInv => JInv')
  BY <1>4, FinChanStep, FinDeleteStep, FinAckedStep, Zenon DEF FinStep
<1>5. ASSUME NEW p \in Peers, FileStep(p)  PROVE IInv' /\ (JInv => JInv')
  BY <1>5, ReadStep, VReadLockedStep, Zenon DEF FileStep
<1>6. ASSUME NEW p \in Peers, NEW c \in Callers, CloseStep(p, c)  PROVE IInv' /\ (JInv => JInv')
  BY <1>6, VCloseStateStep, VCloseSendStep, Zenon DEF CloseStep
<1>7. ASSUME NEW p \in Peers,
             WriterStep(p) \/ VWrite(p) \/ WakeUp(p) \/ UserClose(p) \/ Retransmit(p)
               \/ TimeWaitOver(p) \/ Lose(p) \/ Unknown(p)
      PROVE  IInv' /\ (JInv => JInv')
  BY <1>7, VWriteCopyStep, HandoffStep, VWriteStep, WakeUpStep, UserCloseStep, RetransmitStep,
     TimeWaitOverStep, DropStep, Zenon DEF WriterStep
<1>. QED  BY <1>1, <1>2, <1>3, <1>4, <1>5, <1>6, <1>7, Zenon DEF Next, Soon

\* TypeOK: the types of the sockets, threads, calls and packets of TCPClose.
THEOREM CloseTypeCorrect == Spec => []TypeOK
<1>1. IInv /\ [Next]_vars => IInv'
  BY InvNext, Zenon
<1>2. IInv => TypeOK
  BY Zenon DEF IInv
<1>. QED  BY IInvInit, <1>1, <1>2, PTL DEF Spec

\* OneFin: VClose sends one FIN at most, whoever calls it and however often.
THEOREM CloseOneFin == Spec => []OneFin
<1>1. IInv /\ [Next]_vars => IInv'
  BY InvNext, Zenon
<1>2. IInv => OneFin
  <2>1. ASSUME NEW p \in Peers, Once(p)  PROVE fins[p] <= 1
    BY <2>1 DEF Once
  <2>. QED  BY <2>1, Zenon DEF IInv, OneFin
<1>. QED  BY IInvInit, <1>1, <1>2, PTL DEF Spec

\* FinsExchanged: where no user closes a socket that an application writes to, the code
\* goes to FIN_WAIT_2 and deletes a socket only after the FINs really were taken.
THEOREM CloseFinsExchanged ==
  ASSUME Careful
  PROVE  Spec => []FinsExchanged
<1>1. Init => IInv /\ JInv
  BY IInvInit, JInvInit, Zenon
<1>2. IInv /\ JInv /\ [Next]_vars => IInv' /\ JInv'
  BY InvNext, Zenon
<1>3. JInv => FinsExchanged
  BY Zenon DEF JInv, Fins, FinsExchanged
<1>. QED  BY <1>1, <1>2, <1>3, PTL DEF Spec

=============================================================================
