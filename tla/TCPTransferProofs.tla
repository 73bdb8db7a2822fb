-------------------------- MODULE TCPTransferProofs -------------------------
(***************************************************************************)
(* Theorems about TCPTransfer, for all buffer sizes, workloads, losses,    *)
(* reorderings and timers: types, acknowledgments, retransThreads.         *)
(***************************************************************************)
EXTENDS TCPTransferTypes

-----------------------------------------------------------------------------
(* More lemmas on the operators of the model.                              *)

\* The least of two numbers is one of them.
LEMMA LeastOf ==
  ASSUME NEW a \in Int, NEW b \in Int
  PROVE  /\ Least(a, b) \in Int /\ Least(a, b) <= a /\ Least(a, b) <= b
         /\ a \in Nat /\ b \in Nat => Least(a, b) \in Nat
BY DEF Least

\* Copying bytes into a buffer gives a buffer.
LEMMA PutType ==
  ASSUME NEW buf \in [Cells -> Nat], NEW pos \in Int, NEW s \in Seq(Nat)
  PROVE  Put(buf, pos, s) \in [Cells -> Nat]
<1> SUFFICES ASSUME NEW c \in Cells
             PROVE  (LET k == (c - pos) % W
                     IN  IF k < Len(s) THEN s[k + 1] ELSE buf[c]) \in Nat
  BY DEF Put
<1> DEFINE k == (c - pos) % W
<1>0. c - pos \in Int
  BY CellNat
<1>1. k \in Nat
  BY <1>0, ModCell, CellNat, ZenonT(60)
<1>2. k < Len(s) => s[k + 1] \in Nat
  BY <1>1, ElementOfSeq, LenProperties
<1> QED
  BY Zenon, <1>2

\* Reading bytes from a buffer gives a sequence of that many bytes.
LEMMA SliceType ==
  ASSUME NEW buf \in [Cells -> Nat], NEW pos \in Int, NEW n \in Nat
  PROVE  Slice(buf, pos, n) \in Seq(Nat) /\ Len(Slice(buf, pos, n)) = n
<1>1. ASSUME NEW k \in 1 .. n
      PROVE  buf[(pos + k - 1) % W] \in Nat
  BY ModCell, pos + k - 1 \in Int
<1>2. Slice(buf, pos, n) \in [1 .. n -> Nat]
  BY Zenon, <1>1 DEF Slice
<1> QED
  BY Zenon, <1>2, FunctionIsSeq

\* What remains of a sequence when one element is removed.
LEMMA RemoveAtProperties ==
  ASSUME NEW S, NEW s \in Seq(S), NEW i \in 1 .. Len(s)
  PROVE  /\ RemoveAt(s, i) \in Seq(S)
         /\ \A j \in DOMAIN RemoveAt(s, i) : \E k \in DOMAIN s : RemoveAt(s, i)[j] = s[k]
<1> DEFINE l == SubSeq(s, 1, i - 1)
           r == SubSeq(s, i + 1, Len(s))
<1>1. /\ l \in Seq(S) /\ Len(l) = i - 1
      /\ \A j \in 1 .. i - 1 : l[j] = s[j]
  BY SubSeqProperties, ElementOfSeq, LenProperties
<1>2. /\ r \in Seq(S) /\ Len(r) = Len(s) - i
      /\ \A j \in 1 .. Len(s) - i : r[j] = s[i + j]
  BY SubSeqProperties, ElementOfSeq, LenProperties
<1>a. Len(s) \in Nat /\ DOMAIN s = 1 .. Len(s)
  BY Zenon, LenProperties
<1> HIDE DEF l, r
<1> DEFINE c == l \o r
<1>b. /\ c \in Seq(S)
      /\ Len(c) = Len(l) + Len(r)
      /\ \A j \in 1 .. Len(l) + Len(r) : c[j] = IF j <= Len(l) THEN l[j] ELSE r[j - Len(l)]
  BY <1>1, <1>2, ConcatProperties, ZenonT(60)
<1> HIDE DEF c
<1>3. /\ c \in Seq(S) /\ Len(c) = Len(s) - 1
      /\ \A j \in 1 .. Len(s) - 1 : c[j] = IF j <= i - 1 THEN l[j] ELSE r[j - (i - 1)]
  BY <1>1, <1>2, <1>a, <1>b
<1>4. ASSUME NEW j \in 1 .. Len(s) - 1
      PROVE  \E k \in 1 .. Len(s) : c[j] = s[k]
  <2>1. CASE j <= i - 1
    BY <2>1, <1>1, <1>3, <1>a
  <2>2. CASE j > i - 1
    <3>1. j - (i - 1) \in 1 .. Len(s) - i /\ i + (j - (i - 1)) \in 1 .. Len(s)
      BY <2>2, <1>a
    <3>2. c[j] = r[j - (i - 1)]
      BY <2>2, <1>3, <1>a
    <3> QED
      BY Zenon, <3>1, <3>2, <1>2
  <2> QED
    BY <2>1, <2>2, <1>a
<1>5. RemoveAt(s, i) = c
  BY DEF RemoveAt, l, r, c
<1>6. DOMAIN c = 1 .. Len(s) - 1
  BY Zenon, <1>3, LenProperties
<1> QED
  BY ZenonT(60), <1>3, <1>4, <1>5, <1>6, <1>a

\* The window keeps a suffix of its nodes when some are acknowledged.
LEMMA UnackedProperties ==
  ASSUME NEW nodes \in Seq(WindowNode), NEW n \in Nat
  PROVE  /\ Unacked(nodes, n) \in Seq(WindowNode)
         /\ \A j \in DOMAIN Unacked(nodes, n) :
              \E k \in DOMAIN nodes : Unacked(nodes, n)[j] = nodes[k]
<1> DEFINE m == CHOOSE i \in DOMAIN nodes : IsFirstLeft(nodes, n, i)
<1>1. DOMAIN nodes = 1 .. Len(nodes) /\ Len(nodes) \in Nat
  BY Zenon, LenProperties
<1>2. CASE ~ \E i \in DOMAIN nodes : IsFirstLeft(nodes, n, i)
  <2>1. Unacked(nodes, n) = <<>>
    BY Zenon, <1>2 DEF Unacked
  <2> QED
    BY <2>1, EmptySeq
<1>3. CASE \E i \in DOMAIN nodes : IsFirstLeft(nodes, n, i)
  <2>1. m \in 1 .. Len(nodes)
    BY Zenon, <1>1, <1>3
  <2>4. Unacked(nodes, n) = SubSeq(nodes, m, Len(nodes))
    BY Zenon, <1>3 DEF Unacked
  <2> HIDE DEF m
  <2> DEFINE u == SubSeq(nodes, m, Len(nodes))
  <2>2. /\ u \in Seq(WindowNode) /\ Len(u) = Len(nodes) - m + 1
        /\ \A i \in 1 .. Len(nodes) - m + 1 : u[i] = nodes[m + i - 1]
    BY <1>1, <2>1, SubSeqProperties, ElementOfSeq
  <2>3. DOMAIN u = 1 .. Len(nodes) - m + 1
    BY Zenon, <2>2, LenProperties
  <2>5. Unacked(nodes, n) = u
    BY Zenon, <2>4
  <2> HIDE DEF u
  <2>6. ASSUME NEW j \in DOMAIN u PROVE \E k \in DOMAIN nodes : u[j] = nodes[k]
    BY <1>1, <2>1, <2>2, <2>3, m + j - 1 \in 1 .. Len(nodes)
  <2> QED
    BY Zenon, <2>2, <2>5, <2>6
<1> QED
  BY Zenon, <1>2, <1>3

-----------------------------------------------------------------------------
(* The shape of a window.                                                  *)

\* A window: there is a tail between the send and what follows it, and the first
\* segment of the call has the length slidingWindow believes.
ShapeOf(s) ==
  /\ s.pc = "sent" => s.nodes # <<>>
  /\ \A i \in DOMAIN s.nodes : s.nodes[i].idx = 0 => Len(s.nodes[i].pkt.data) = s.tailLen

WindowShape == \A p \in Peers : ShapeOf(sw[p])

-----------------------------------------------------------------------------
(* The types of common updates.                                            *)

\* What slidingWindow starts with.
LEMMA WindowAtType ==
  ASSUME TypeOK, NEW p \in Peers, NEW seq \in Nat, NEW payload \in Seq(Nat),
         NEW una \in Nat, NEW cws \in Cells, NEW dist \in Cells
  PROVE  LET w == WindowAt(p, seq, payload, una, cws, dist)
         IN  /\ w \in Window /\ w.pc \in {"loop", "end"}
             /\ w.probe = NoPacket /\ w.taken = NoAck
             /\ \A i \in DOMAIN w.nodes :
                  /\ w.nodes[i].pkt.ack = sock[p].cumReadNXT
                  /\ Len(w.nodes[i].pkt.data) = w.tailLen
<1> DEFINE n == Least(Least(MSS, Len(payload)), cws)
           head == SubSeq(payload, 1, n)
           rest == SubSeq(payload, n + 1, Len(payload))
           node == [pkt |-> Segment(p, seq, head), exp |-> dist + una + n, idx |-> 0, sent |-> FALSE]
<1>0. Len(payload) \in Nat /\ cws \in Nat /\ dist \in Nat /\ MSS \in Nat
  BY Zenon, SizeAssumption, CellNat, LenProperties
<1>1. n \in Nat /\ n <= Len(payload) /\ Len(payload) \in Nat
  BY <1>0 DEF Least
<1> HIDE DEF n
<1>2. head \in Seq(Nat) /\ Len(head) = n
  BY <1>1, SubSeqProperties, ElementOfSeq
<1>3. rest \in Seq(Nat)
  BY <1>1, SubSeqProperties, ElementOfSeq
<1> HIDE DEF head, rest
<1>4. node \in WindowNode /\ node.pkt.ack = sock[p].cumReadNXT /\ node.pkt.data = head
  BY <1>0, <1>1, <1>2, SegmentType DEF WindowNode
<1> HIDE DEF node
<1>5. NoWindow \in Window
  BY SizeAssumption, EmptySeq DEF NoWindow, Window, NoPacket, NoAck, Packet, Ack, Cells
<1>6. /\ <<node>> \in Seq(WindowNode) /\ DOMAIN <<node>> = {1} /\ <<node>>[1] = node
  BY <1>4
<1>7. CASE payload = <<>>
  <2> DEFINE w == [NoWindow EXCEPT !.pc = "end"]
  <2>1. WindowAt(p, seq, payload, una, cws, dist) = w
    BY Zenon, <1>7 DEF WindowAt
  <2>2. w \in Window
    BY ZenonT(60), <1>5 DEF Window
  <2>3. /\ w.pc = "end" /\ w.probe = NoPacket /\ w.taken = NoAck /\ DOMAIN w.nodes = {}
    BY DEF NoWindow
  <2> HIDE DEF w
  <2> QED
    BY Zenon, <2>1, <2>2, <2>3
<1>8. CASE payload # <<>>
  <2> DEFINE w == [NoWindow EXCEPT !.pc = "loop", !.size = Len(payload), !.toSend = n,
                            !.tailLen = n, !.rest = rest, !.nodes = <<node>>]
  <2>1. WindowAt(p, seq, payload, una, cws, dist) = w
    BY Zenon, <1>8 DEF WindowAt, n, head, rest, node
  <2>0. n \in Int
    BY <1>1
  <2>2. w \in Window
    BY <1>1, <1>3, <1>5, <1>6, <2>0, ZenonT(60) DEF Window
  <2>3. /\ w.pc = "loop" /\ w.probe = NoPacket /\ w.taken = NoAck
        /\ w.nodes = <<node>> /\ w.tailLen = n
    BY DEF NoWindow
  <2> HIDE DEF w
  <2> QED
    BY Zenon, <1>2, <1>4, <1>6, <2>1, <2>2, <2>3
<1> QED
  BY Zenon, <1>7, <1>8

\* An append to the network keeps its type.
LEMMA SendType ==
  ASSUME TypeOK, NEW p \in Peers, NEW m \in Packet, Send(p, m)
  PROVE  net' \in [Peers -> Seq(Packet)]
<1>1. Append(net[Other(p)], m) \in Seq(Packet)
  BY Zenon, OtherPeer, PeerTypes, AppendProperties
<1> QED
  BY ZenonT(60), <1>1 DEF Send, TypeOK

\* The retransThreads' part.
LEMMA ThrType == TypeOK => thr \in [Peers -> [Threads -> {"none", "select", "reset"}]]
BY DEF TypeOK

\* A step that changes no window keeps the shape of all of them.
LEMMA SameWindow ==
  ASSUME WindowShape, UNCHANGED sw
  PROVE  WindowShape'
BY DEF WindowShape, ShapeOf

\* The head and the tail of ackChan.
LEMMA AckChanTypes ==
  ASSUME TypeOK, NEW p \in Peers, sock[p].ackChan # <<>>
  PROVE  /\ Head(sock[p].ackChan) \in Ack /\ Head(sock[p].ackChan).ack \in Nat
         /\ Head(sock[p].ackChan).ack \in Int /\ Head(sock[p].ackChan).win \in Cells
         /\ [sock[p] EXCEPT !.ackChan = Tail(@)] \in NormalSocket
<1>1. sock[p].ackChan \in Seq(Ack)
  BY Zenon, SocketFields
<1>2. Head(sock[p].ackChan) \in Ack /\ Tail(sock[p].ackChan) \in Seq(Ack)
  BY Zenon, <1>1, HeadTailProperties
<1>3. Head(sock[p].ackChan).ack \in Nat /\ Head(sock[p].ackChan).win \in Cells
  BY Zenon, <1>2 DEF Ack
<1> DEFINE r == Tail(sock[p].ackChan)
<1>4. r \in Seq(Ack)
  BY Zenon, <1>2
<1> HIDE DEF r
<1>5. [sock[p] EXCEPT !.ackChan = r] \in NormalSocket
  BY ZenonT(60), <1>4, SockType DEF NormalSocket
<1> QED
  BY <1>2, <1>3, <1>5 DEF r

\* The packet received, and what remains on the network.
LEMMA ReceiveTypes ==
  ASSUME TypeOK, NEW p \in Peers, NEW i \in Nat \ {0}, i <= Len(net[p]),
         net' = [net EXCEPT ![p] = RemoveAt(@, i)]
  PROVE  /\ net[p][i] \in Packet /\ net' \in [Peers -> Seq(Packet)]
         /\ net[p][i].seq \in Nat /\ net[p][i].ack \in Nat
         /\ net[p][i].win \in Cells /\ net[p][i].data \in Seq(Nat)
<1>1. net[p] \in Seq(Packet) /\ Len(net[p]) \in Nat
  BY Zenon, PeerTypes, LenProperties
<1>2. i \in 1 .. Len(net[p])
  BY <1>1
<1>3. net[p][i] \in Packet
  BY Zenon, <1>1, <1>2, ElementOfSeq
<1>4. RemoveAt(net[p], i) \in Seq(Packet)
  BY Zenon, <1>1, <1>2, RemoveAtProperties
<1>5. net' \in [Peers -> Seq(Packet)]
  BY Zenon, <1>4 DEF TypeOK
<1> QED
  BY ZenonT(60), <1>3, <1>5 DEF Packet

\* An update that changes nothing.
LEMMA NoUpdate ==
  ASSUME TypeOK, NEW p \in Peers
  PROVE  /\ sock = [sock EXCEPT ![p] = sock[p]] /\ sw = [sw EXCEPT ![p] = sw[p]]
         /\ rcv = [rcv EXCEPT ![p] = rcv[p]]
BY Zenon, SockType, SwType, RcvType

-----------------------------------------------------------------------------
(* The steps of the applications' VWrite, SenderThread and its timers.     *)

\* VWrite copies a chunk into the cells of the write buffer and moves LBW within them.
LEMMA VWriteTypes ==
  ASSUME TypeOK, NEW p \in Peers,
         (\E n \in 1 .. MaxMsg : VWriteCall(p, n)) \/ VWriteCopy(p)
  PROVE  TypeOK' /\ UNCHANGED sw
<1>1. ASSUME NEW n \in 1 .. MaxMsg, VWriteCall(p, n)
      PROVE  TypeOK' /\ UNCHANGED sw
  <2>1. /\ vw' = [vw EXCEPT ![p] = [pc |-> "loop", left |-> n, new |-> TRUE]]
        /\ UNCHANGED <<net, wb, rb, sock, sw, rcv, vr, written, got, arrived, lost, ticks, thr>>
    BY Zenon, <1>1 DEF VWriteCall
  <2>2. n \in Nat
    BY BoundAssumption
  <2>3. vw' \in [Peers -> WriteCall]
    BY Zenon, <2>1, <2>2 DEF TypeOK, WriteCall
  <2> QED
    BY Zenon, <2>1, <2>3 DEF TypeOK
<1>2. CASE VWriteCopy(p)
  <2> DEFINE k == Least(Least(vw[p].left, Space(p)), MSS)
             chunk == [i \in 1 .. k |-> written[p] + i]
  <2>1. /\ vw[p].left \in Nat /\ wb[p].LBW \in Cells /\ wb[p].UNA \in Cells
        /\ wb[p].buf \in [Cells -> Nat] /\ wb[p] \in WriteBuffer /\ written[p] \in Nat
        /\ wb[p].LBW \in Int /\ wb[p].UNA \in Int
    BY Zenon, PeerTypes, BufferFields DEF WriteCall
  <2>2. Space(p) \in Nat
    <3>1. (wb[p].UNA - 1 - wb[p].LBW) % W \in Nat
      <4>1. wb[p].UNA - 1 - wb[p].LBW \in Int
        BY <2>1
      <4> QED
        BY ZenonT(60), <4>1, ModCell, CellNat
    <3>2. W - 1 - wb[p].LBW \in Nat
      BY <2>1, SizeAssumption DEF Cells
    <3> QED
      BY Zenon, <3>1, <3>2 DEF Space
  <2>3. k \in Nat /\ k <= vw[p].left
    BY <2>1, <2>2, SizeAssumption DEF Least
  <2> HIDE DEF k
  <2>4. chunk \in Seq(Nat)
    BY <2>1, <2>3, FunctionIsSeq, chunk \in [1 .. k -> Nat]
  <2> HIDE DEF chunk
  <2>5. Put(wb[p].buf, FirstCell(p), chunk) \in [Cells -> Nat]
    <3>1. wb[p].LBW + 1 \in Int
      BY <2>1
    <3> QED
      BY ZenonT(60), <2>1, <2>4, <3>1, PutType DEF FirstCell
  <2>6. (wb[p].LBW + k) % W \in Cells
    <3>1. wb[p].LBW + k \in Int
      BY <2>1, <2>3
    <3> QED
      BY Zenon, <3>1, ModCell
  <2>7. vw[p].left - k \in Nat /\ written[p] + k \in Nat
    BY <2>1, <2>3
  <2>8. /\ wb' = [wb EXCEPT ![p].buf = Put(wb[p].buf, FirstCell(p), chunk),
                            ![p].LBW = (wb[p].LBW + k) % W]
        /\ written' = [written EXCEPT ![p] = written[p] + k]
        /\ vw' = [vw EXCEPT ![p] = [pc |-> "chan", left |-> vw[p].left - k, new |-> FALSE]]
        /\ UNCHANGED <<net, rb, sock, sw, rcv, vr, got, arrived, lost, ticks, thr>>
    BY Zenon, <1>2 DEF VWriteCopy, k, chunk
  <2>9. wb' \in [Peers -> WriteBuffer]
    BY ZenonT(60), <2>1, <2>5, <2>6, <2>8 DEF TypeOK, WriteBuffer
  <2>10. written' \in [Peers -> Nat] /\ vw' \in [Peers -> WriteCall]
    BY Zenon, <2>7, <2>8 DEF TypeOK, WriteCall
  <2> QED
    BY Zenon, <2>8, <2>9, <2>10 DEF TypeOK
<1> QED
  BY Zenon, <1>1, <1>2

\* A step that changes p's window to w, of the right type and shape.
LEMMA NewWindow ==
  ASSUME TypeOK, WindowShape, NEW p \in Peers, NEW w \in Window, ShapeOf(w),
         sw' = [sw EXCEPT ![p] = w]
  PROVE  sw' \in [Peers -> Window] /\ WindowShape'
<1>1. sw \in [Peers -> Window]
  BY DEF TypeOK
<1>2. \A q \in Peers : sw'[q] = IF q = p THEN w ELSE sw[q]
  BY Zenon, <1>1
<1>3. \A q \in Peers : ShapeOf(sw[q])
  BY DEF WindowShape
<1>4. \A q \in Peers : ShapeOf(sw'[q])
  BY Zenon, <1>2, <1>3
<1>5. WindowShape'
  BY Zenon, <1>4 DEF WindowShape, ShapeOf
<1> QED
  BY Zenon, <1>1, <1>5

\* SenderThread collects a payload of buffer bytes and opens a window on it.
LEMMA HandoffTypes ==
  ASSUME TypeOK, WindowShape, NEW p \in Peers, Handoff(p)
  PROVE  TypeOK' /\ WindowShape'
<1> DEFINE dist == (wb[p].NXT - wb[p].UNA) % W
           payload == Slice(wb[p].buf, wb[p].NXT, ToCollect(p))
           w == WindowAt(p, sock[p].cumWriteUNA, payload, sock[p].cumWriteUNA,
                         sock[p].ClientWindowSize, dist)
<1>1. dist \in Cells
  <2>1. wb[p].NXT - wb[p].UNA \in Int
    BY BufferFields
  <2> QED
    BY Zenon, <2>1, ModCell
<1>2. payload \in Seq(Nat)
  <2>1. wb[p].LBW - wb[p].NXT + 1 \in Int
    BY BufferFields
  <2>2. ToCollect(p) \in Nat
    BY ZenonT(60), <2>1, ModCell, CellNat DEF ToCollect
  <2> QED
    BY ZenonT(60), <2>2, SliceType, BufferFields
<1> HIDE DEF dist, payload
<1>3. w \in Window /\ ShapeOf(w)
  <2>1. /\ w \in Window /\ w.pc # "sent"
        /\ \A i \in DOMAIN w.nodes : Len(w.nodes[i].pkt.data) = w.tailLen
    BY SMTT(20), <1>1, <1>2, WindowAtType, SocketFields
  <2> QED
    BY Zenon, <2>1 DEF ShapeOf
<1>4. \/ sw' = [sw EXCEPT ![p] = w]
      \/ UNCHANGED sw
  BY DEF Handoff, OpenWindow, dist, payload
<1> HIDE DEF w
<1>5. sw' \in [Peers -> Window] /\ WindowShape'
  BY Zenon, <1>3, <1>4, NewWindow, SameWindow DEF TypeOK
<1>6. vw' = [vw EXCEPT ![p].pc = IF vw[p].left > 0 THEN "loop" ELSE "idle"]
  BY DEF Handoff
<1>7. vw' \in [Peers -> WriteCall]
  BY Zenon, <1>6, CallTypes DEF WriteCall
<1>8. sock' \in [Peers -> NormalSocket]
  <2>1. UNCHANGED sock \/ sock' = [sock EXCEPT ![p].ticker = FALSE]
    BY DEF Handoff
  <2>2. [sock[p] EXCEPT !.ticker = FALSE] \in NormalSocket
    BY ZenonT(60), SockType DEF NormalSocket
  <2> QED
    BY ZenonT(60), <2>1, <2>2, SockType
<1>9. thr' \in [Peers -> [Threads -> {"none", "select", "reset"}]]
  <2>1. UNCHANGED thr \/ thr' = [thr EXCEPT ![p]["cur"] = "select"]
    BY DEF Handoff
  <2> QED
    BY <2>1, ThrType
<1>10. UNCHANGED <<net, wb, rb, rcv, vr, written, got, arrived, lost, ticks>>
  BY DEF Handoff
<1> QED
  BY Zenon, <1>5, <1>7, <1>8, <1>9, <1>10 DEF TypeOK

\* unackedNums[n] = 0 keeps the socket's type.
LEMMA ExpectType ==
  ASSUME NEW s \in NormalSocket, NEW n \in Nat
  PROVE  Expect(s, n) \in NormalSocket
BY ZenonT(60) DEF Expect, NormalSocket

\* The probe of a zero window is a packet, and NXT stays a cell.
LEMMA SendProbeTypes ==
  ASSUME TypeOK, WindowShape, NEW p \in Peers, SendProbe(p)
  PROVE  TypeOK' /\ WindowShape'
<1> DEFINE exp == ((wb[p].NXT + 1 - wb[p].UNA) % W) + sock[p].cumWriteUNA
           m == Segment(p, exp - 1, <<wb[p].buf[wb[p].UNA]>>)
           w == [sw[p] EXCEPT !.pc = "probe", !.exp = exp, !.probe = m]
<1>1. /\ wb' = [wb EXCEPT ![p].NXT = (wb[p].NXT + 1) % W]
      /\ sock' = [sock EXCEPT ![p] = Expect(sock[p], exp)]
      /\ sw' = [sw EXCEPT ![p] = w]
      /\ Send(p, m)
      /\ UNCHANGED <<rb, rcv, vr, vw, written, got, arrived, lost, ticks, thr>>
      /\ wb[p].NXT = wb[p].UNA
  BY ZenonT(60), SwType DEF SendProbe, ProbeDue
<1>2. exp \in Nat /\ exp - 1 \in Nat
  <2>1. wb[p].NXT + 1 - wb[p].UNA = 1
    BY <1>1, BufferFields
  <2>2. 1 % W = 1
    <3>1. W \in Nat /\ W >= 2
      BY SizeAssumption
    <3> QED
      BY <3>1
  <2>3. exp = 1 + sock[p].cumWriteUNA
    BY Zenon, <2>1, <2>2
  <2>4. sock[p].cumWriteUNA \in Nat
    BY Zenon, SocketFields
  <2> HIDE DEF exp
  <2> QED
    BY <2>3, <2>4
<1> HIDE DEF exp
<1>3. m \in Packet
  <2>1. wb[p].buf[wb[p].UNA] \in Nat
    BY Zenon, BufferFields
  <2>2. <<wb[p].buf[wb[p].UNA]>> \in Seq(Nat)
    BY <2>1
  <2> QED
    BY ZenonT(60), <1>2, <2>2, SegmentType
<1> HIDE DEF m
<1>4. w \in Window
  BY ZenonT(60), <1>2, <1>3, SwType DEF Window
<1>5. ShapeOf(w)
  <2>1. w.pc = "probe" /\ w.nodes = sw[p].nodes /\ w.tailLen = sw[p].tailLen
    BY Zenon, SwType DEF Window
  <2> QED
    BY Zenon, <2>1 DEF WindowShape, ShapeOf
<1> HIDE DEF w
<1>6. sw' \in [Peers -> Window] /\ WindowShape'
  BY ZenonT(60), <1>1, <1>4, <1>5, NewWindow
<1>7. wb' \in [Peers -> WriteBuffer]
  <2>1. (wb[p].NXT + 1) % W \in Cells
    BY BufferFields, ModCell
  <2> QED
    BY Zenon, <1>1, <2>1, BufferTypes DEF WriteBuffer
<1>8. sock' \in [Peers -> NormalSocket]
  BY Zenon, <1>1, <1>2, SockType, ExpectType
<1> QED
  BY Zenon, <1>1, <1>3, <1>6, <1>7, <1>8, SendType DEF TypeOK

\* What Busy and Outliving compute.
LEMMA OutlivingType ==
  ASSUME NEW p \in Peers
  PROVE  Busy(p) \in BOOLEAN /\ Outliving(p) \in [Threads -> {"none", "select", "reset"}]
BY DEF Busy, Outliving

\* Cutting the probed byte from the first segment of a call.
LEMMA CutType ==
  ASSUME NEW nodes \in Seq(WindowNode), NEW len \in Nat, len > 0,
         \A i \in DOMAIN nodes : nodes[i].idx = 0 => Len(nodes[i].pkt.data) = len
  PROVE  LET cut == WithoutProbed(nodes)
         IN  /\ cut \in Seq(WindowNode) /\ DOMAIN cut = DOMAIN nodes
             /\ \A i \in DOMAIN cut : /\ cut[i].idx = 0 => Len(cut[i].pkt.data) = len - 1
                                      /\ cut[i].pkt.ack = nodes[i].pkt.ack
<1> DEFINE Cut(i) == IF nodes[i].idx = 0 THEN [nodes[i] EXCEPT !.pkt.data = Tail(@)] ELSE nodes[i]
           cut == [i \in DOMAIN nodes |-> Cut(i)]
<1>1. DOMAIN nodes = 1 .. Len(nodes) /\ Len(nodes) \in Nat
  BY Zenon, LenProperties
<1>2. ASSUME NEW i \in DOMAIN nodes
      PROVE  /\ Cut(i) \in WindowNode
             /\ Cut(i).idx = 0 => Len(Cut(i).pkt.data) = len - 1
             /\ Cut(i).pkt.ack = nodes[i].pkt.ack
  <2>1. nodes[i] \in WindowNode
    BY Zenon, <1>1, ElementOfSeq
  <2>2. CASE nodes[i].idx = 0
    <3> DEFINE d == nodes[i].pkt.data
               t == Tail(d)
    <3>1. d \in Seq(Nat) /\ d # <<>> /\ Len(d) = len
      <4>1. d \in Seq(Nat) /\ Len(d) = len
        BY ZenonT(60), <2>1, <2>2 DEF WindowNode, Packet
      <4> QED
        BY <4>1, EmptySeq
    <3>2. t \in Seq(Nat) /\ Len(t) = len - 1
      BY Zenon, <3>1, HeadTailProperties
    <3>3. Cut(i) = [nodes[i] EXCEPT !.pkt.data = t]
      BY Zenon, <2>2
    <3> HIDE DEF d, t
    <3>4. Cut(i) \in WindowNode /\ Cut(i).pkt.data = t /\ Cut(i).pkt.ack = nodes[i].pkt.ack
      BY ZenonT(60), <2>1, <3>2, <3>3 DEF WindowNode, Packet
    <3> QED
      BY Zenon, <3>2, <3>4
  <2>3. CASE nodes[i].idx # 0
    BY Zenon, <2>1, <2>3
  <2> QED
    BY Zenon, <2>2, <2>3
<1> HIDE DEF Cut
<1>3. cut \in [1 .. Len(nodes) -> WindowNode]
  BY Zenon, <1>1, <1>2
<1>4. cut \in Seq(WindowNode) /\ DOMAIN cut = DOMAIN nodes
  BY Zenon, <1>1, <1>3, FunctionIsSeq
<1>5. \A i \in DOMAIN cut : /\ cut[i].idx = 0 => Len(cut[i].pkt.data) = len - 1
                            /\ cut[i].pkt.ack = nodes[i].pkt.ack
  BY Zenon, <1>2
<1>6. cut = WithoutProbed(nodes)
  BY DEF Cut, WithoutProbed
<1> QED
  BY Zenon, <1>4, <1>5, <1>6

\* An acknowledgment of a probe: the window starts over, is cut, or stays.
LEMMA ProbeAckTypes ==
  ASSUME TypeOK, WindowShape, NEW p \in Peers, ProbeAck(p)
  PROVE  TypeOK' /\ WindowShape'
<1> DEFINE m == Head(sock[p].ackChan)
           s == sw[p]
           nxt == [sock[p] EXCEPT !.ackChan = Tail(@)]
           opened == [nxt EXCEPT !.ClientWindowSize = m.win, !.cumWriteUNA = m.ack]
           left == Tail(s.rest)
           dist == (wb[p].NXT - m.ack) % W
           fresh == OpenWindow(p, left, m.ack, m.win, dist)
           cut == WithoutProbed(s.nodes)
           w == [s EXCEPT !.pc = "normal", !.skip = TRUE, !.sent = s.sent + 1,
                          !.tailLen = s.tailLen - 1, !.nodes = cut]
           Opens == wb' = [wb EXCEPT ![p].UNA = m.ack % W]
           Restarts == /\ sw' = [sw EXCEPT ![p] = fresh] /\ s.rest # <<>>
                       /\ sock' = [sock EXCEPT ![p] = [opened EXCEPT !.ticker = FALSE,
                                                                     !.packetDone = Busy(p)]]
                       /\ thr' = [thr EXCEPT ![p] = [Outliving(p) EXCEPT !["cur"] = "select"]]
           Cuts == /\ sw' = [sw EXCEPT ![p] = w] /\ s.tailLen > 0
                   /\ sock' = [sock EXCEPT ![p] = opened]
                   /\ UNCHANGED thr
           Drops == sock' = [sock EXCEPT ![p] = nxt] /\ UNCHANGED <<wb, sw, thr>>
<1>1. /\ sock[p].ackChan # <<>>
      /\ (Opens /\ Restarts) \/ (Opens /\ Cuts) \/ Drops
      /\ UNCHANGED <<net, rb, rcv, vr, vw, written, got, arrived, lost, ticks>>
  BY Zenon DEF ProbeAck
<1>2. m \in Ack /\ m.ack \in Nat /\ m.ack \in Int /\ m.win \in Cells /\ nxt \in NormalSocket
  BY Zenon, <1>1, AckChanTypes
<1> HIDE DEF m, nxt
<1>3. opened \in NormalSocket
  BY ZenonT(60), <1>2 DEF NormalSocket
<1> HIDE DEF opened
<1>4. ASSUME Opens
      PROVE  wb' \in [Peers -> WriteBuffer]
  <2>1. m.ack % W \in Cells
    BY Zenon, <1>2, ModCell
  <2> QED
    BY Zenon, <1>4, <2>1, BufferTypes DEF WriteBuffer
<1> HIDE DEF Opens
<1>5. CASE Opens /\ Restarts
  <2>1. left \in Seq(Nat)
    BY Zenon, <1>5, WindowFields, HeadTailProperties
  <2>2. dist \in Cells
    <3>1. wb[p].NXT - m.ack \in Int
      BY <1>2, BufferFields
    <3> QED
      BY Zenon, <3>1, ModCell
  <2> HIDE DEF left, dist
  <2>3. /\ fresh \in Window /\ fresh.pc # "sent"
        /\ \A i \in DOMAIN fresh.nodes : Len(fresh.nodes[i].pkt.data) = fresh.tailLen
    BY <1>2, <2>1, <2>2, WindowAtType DEF OpenWindow
  <2> HIDE DEF fresh
  <2>4. ShapeOf(fresh)
    BY Zenon, <2>3 DEF ShapeOf
  <2>5. sw' \in [Peers -> Window] /\ WindowShape'
    BY ZenonT(60), <1>5, <2>3, <2>4, NewWindow
  <2>6. [opened EXCEPT !.ticker = FALSE, !.packetDone = Busy(p)] \in NormalSocket
    BY ZenonT(60), <1>3, OutlivingType DEF NormalSocket
  <2>7. sock' \in [Peers -> NormalSocket]
    BY Zenon, <1>5, <2>6, SockType
  <2>8. thr' \in [Peers -> [Threads -> {"none", "select", "reset"}]]
    <3>1. [Outliving(p) EXCEPT !["cur"] = "select"] \in [Threads -> {"none", "select", "reset"}]
      BY ZenonT(60), OutlivingType
    <3> QED
      BY Zenon, <1>5, <3>1, ThrType
  <2> QED
    BY Zenon, <1>1, <1>4, <1>5, <2>5, <2>7, <2>8 DEF TypeOK
<1>6. CASE Opens /\ Cuts
  <2>1. /\ cut \in Seq(WindowNode)
        /\ \A i \in DOMAIN cut : cut[i].idx = 0 => Len(cut[i].pkt.data) = s.tailLen - 1
    BY ZenonT(60), <1>6, WindowFields, CutType DEF WindowShape, ShapeOf
  <2> HIDE DEF cut
  <2>2. s.tailLen - 1 \in Nat /\ s.sent + 1 \in Nat
    BY <1>6, WindowFields
  <2>3. w \in Window
    BY ZenonT(60), <2>1, <2>2, SwType DEF Window
  <2>4. w.pc = "normal" /\ w.nodes = cut /\ w.tailLen = s.tailLen - 1
    BY Zenon, SwType DEF Window
  <2> HIDE DEF w
  <2>5. ShapeOf(w)
    BY Zenon, <2>1, <2>4 DEF ShapeOf
  <2>6. sw' \in [Peers -> Window] /\ WindowShape'
    BY ZenonT(60), <1>6, <2>3, <2>5, NewWindow
  <2>7. sock' \in [Peers -> NormalSocket]
    BY Zenon, <1>3, <1>6, SockType
  <2> QED
    BY Zenon, <1>1, <1>4, <1>6, <2>6, <2>7 DEF TypeOK
<1>7. CASE Drops
  <2>1. sock' \in [Peers -> NormalSocket]
    BY Zenon, <1>2, <1>7, SockType
  <2> QED
    BY Zenon, <1>1, <1>7, <2>1, SameWindow DEF TypeOK
<1> QED
  BY Zenon, <1>1, <1>5, <1>6, <1>7

\* The tail of the window is marked as sent and is the packet on the network.
LEMMA SendTailTypes ==
  ASSUME TypeOK, WindowShape, NEW p \in Peers, SendTail(p)
  PROVE  TypeOK' /\ WindowShape'
<1> DEFINE s == sw[p]
           nxt == (wb[p].NXT + s.toSend) % W
           exp == ((nxt - wb[p].UNA) % W) + sock[p].cumWriteUNA
           tail == Len(s.nodes)
           nodes == [s.nodes EXCEPT ![tail] = [s.nodes[tail] EXCEPT !.sent = TRUE]]
           w == [s EXCEPT !.pc = "sent", !.exp = exp, !.nodes = nodes]
<1>1. /\ s.nodes # <<>>
      /\ wb' = [wb EXCEPT ![p].NXT = nxt]
      /\ sock' = [sock EXCEPT ![p] = Expect(sock[p], exp)]
      /\ Send(p, Last(s.nodes).pkt)
      /\ UNCHANGED <<rb, rcv, vr, vw, written, got, arrived, lost, ticks, thr>>
  BY DEF SendTail
<1>2. sw' = [sw EXCEPT ![p] = w]
  BY ZenonT(60), SwType DEF SendTail
<1>3. nxt \in Cells /\ exp \in Nat
  <2>1. wb[p].NXT + s.toSend \in Int
    BY BufferFields, WindowFields
  <2>2. nxt \in Cells
    BY Zenon, <2>1, ModCell
  <2> HIDE DEF nxt
  <2>3. nxt - wb[p].UNA \in Int
    BY <2>2, BufferFields, CellNat
  <2>4. (nxt - wb[p].UNA) % W \in Nat
    BY ZenonT(60), <2>3, ModCell, CellNat
  <2> QED
    BY <2>2, <2>4, SocketFields
<1>4. s.nodes \in Seq(WindowNode)
  BY Zenon, WindowFields
<1>5. tail \in DOMAIN s.nodes /\ Last(s.nodes) = s.nodes[tail] /\ s.nodes[tail] \in WindowNode
  BY Zenon, <1>1, <1>4, TailType
<1>6. s.nodes[tail].pkt \in Packet /\ [s.nodes[tail] EXCEPT !.sent = TRUE] \in WindowNode
  BY ZenonT(60), <1>5 DEF WindowNode
<1>7. nodes \in Seq(WindowNode) /\ DOMAIN nodes = DOMAIN s.nodes
  BY Zenon, <1>4, <1>5, <1>6, ReplaceNode
<1>8. \A i \in DOMAIN nodes : /\ nodes[i].idx = s.nodes[i].idx
                              /\ nodes[i].pkt = s.nodes[i].pkt
  BY Zenon, <1>5, <1>7 DEF WindowNode
<1>9. nodes # <<>>
  BY <1>5, <1>7
<1> HIDE DEF nodes, exp, nxt
<1>10. w \in Window /\ w.nodes = nodes /\ w.tailLen = s.tailLen
  BY ZenonT(60), <1>3, <1>7, SwType DEF Window
<1> HIDE DEF w
<1>11. ShapeOf(w)
  BY Zenon, <1>7, <1>8, <1>9, <1>10 DEF WindowShape, ShapeOf
<1>12. sw' \in [Peers -> Window] /\ WindowShape'
  BY ZenonT(60), <1>2, <1>10, <1>11, NewWindow
<1>13. wb' \in [Peers -> WriteBuffer]
  BY ZenonT(60), <1>1, <1>3, BufferTypes DEF WriteBuffer
<1>14. sock' \in [Peers -> NormalSocket]
  BY Zenon, <1>1, <1>3, SockType, ExpectType
<1>15. net' \in [Peers -> Seq(Packet)]
  BY Zenon, <1>1, <1>5, <1>6, SendType
<1> QED
  BY Zenon, <1>1, <1>12, <1>13, <1>14, <1>15 DEF TypeOK

\* The predicted window is a uint16, and the next segment is appended to the window.
LEMMA AfterSendTypes ==
  ASSUME TypeOK, WindowShape, NEW p \in Peers, AfterSend(p)
  PROVE  TypeOK' /\ WindowShape'
<1> DEFINE s == sw[p]
           tail == Last(s.nodes)
           cws == Predicted(p, Len(tail.pkt.data))
           n == Least(Least(MSS, s.size - MSS * tail.idx), Len(s.rest))
           node == [pkt |-> Segment(p, s.exp, SubSeq(s.rest, 1, n)),
                    exp |-> s.exp + n, idx |-> tail.idx + 1, sent |-> FALSE]
           nodes == IF n > 0 THEN Append(s.nodes, node) ELSE s.nodes
           rest == IF n > 0 THEN SubSeq(s.rest, n + 1, Len(s.rest)) ELSE s.rest
           skip == s.skip /\ cws # 0
           w == [s EXCEPT !.pc = "acks", !.first = FALSE, !.toSend = n, !.skip = skip,
                          !.nodes = nodes, !.rest = rest]
           on == sock[p].ticker \/ s.first
<1>1. /\ s.pc = "sent"
      /\ sock' = [sock EXCEPT ![p].ClientWindowSize = cws, ![p].ticker = on]
      /\ sw' = [sw EXCEPT ![p] = w]
      /\ UNCHANGED <<net, wb, rb, rcv, vr, vw, written, got, arrived, lost, ticks, thr>>
  BY DEF AfterSend
<1>2. s.nodes # <<>>
  BY Zenon, <1>1 DEF WindowShape, ShapeOf
<1>3. tail \in WindowNode
  BY Zenon, <1>2, WindowFields, TailType
<1>4. tail.pkt.data \in Seq(Nat) /\ tail.idx \in Nat
  BY Zenon, <1>3 DEF WindowNode, Packet
<1> HIDE DEF tail
<1>5. cws \in Cells
  <2>1. Len(tail.pkt.data) \in Int
    BY <1>4, LenProperties
  <2>2. sock[p].ClientWindowSize - Len(tail.pkt.data) \in Int
    BY <2>1, SocketFields
  <2> QED
    BY Zenon, <2>2, ModCell DEF Predicted
<1> HIDE DEF cws
<1>6. n \in Int /\ n <= Len(s.rest) /\ Len(s.rest) \in Nat
  <2>1. Len(s.rest) \in Nat /\ s.size \in Nat
    BY Zenon, WindowFields, LenProperties
  <2>2. MSS * tail.idx \in Int /\ MSS \in Int
    BY <1>4, SizeAssumption
  <2>3. s.size - MSS * tail.idx \in Int
    BY <2>1, <2>2
  <2> QED
    BY <2>1, <2>2, <2>3 DEF Least
<1> HIDE DEF n
<1>7. rest \in Seq(Nat)
  <2>1. n > 0 => SubSeq(s.rest, n + 1, Len(s.rest)) \in Seq(Nat)
    BY <1>6, WindowFields, SubSeqProperties, ElementOfSeq
  <2> QED
    BY Zenon, <2>1, WindowFields
<1> HIDE DEF rest
<1>8. ASSUME n > 0
      PROVE  node \in WindowNode /\ node.idx # 0
  <2> DEFINE d == SubSeq(s.rest, 1, n)
  <2>1. d \in Seq(Nat)
    BY <1>6, <1>8, WindowFields, SubSeqProperties, ElementOfSeq
  <2> HIDE DEF d
  <2>2. Segment(p, s.exp, d) \in Packet
    BY Zenon, <2>1, WindowFields, SegmentType
  <2>3. s.exp + n \in Nat /\ tail.idx + 1 \in Nat /\ tail.idx + 1 # 0
    BY <1>4, <1>6, <1>8, WindowFields
  <2>4. [pkt |-> Segment(p, s.exp, d), exp |-> s.exp + n, idx |-> tail.idx + 1, sent |-> FALSE]
          \in WindowNode
    BY Zenon, <2>2, <2>3 DEF WindowNode
  <2> QED
    BY Zenon, <2>3, <2>4 DEF d
<1> HIDE DEF node
<1>9. /\ nodes \in Seq(WindowNode)
      /\ \A i \in DOMAIN nodes : nodes[i].idx = 0 => Len(nodes[i].pkt.data) = s.tailLen
  <2>1. /\ s.nodes \in Seq(WindowNode)
        /\ \A i \in DOMAIN s.nodes : s.nodes[i].idx = 0 => Len(s.nodes[i].pkt.data) = s.tailLen
    BY Zenon, WindowFields DEF WindowShape, ShapeOf
  <2>2. CASE n > 0
    <3> DEFINE app == Append(s.nodes, node)
    <3>1. /\ app \in Seq(WindowNode) /\ Len(app) = Len(s.nodes) + 1
          /\ \A i \in 1 .. Len(s.nodes) : app[i] = s.nodes[i]
          /\ app[Len(s.nodes) + 1] = node
      BY <1>8, <2>1, <2>2, AppendProperties
    <3>2. nodes = app
      BY Zenon, <2>2
    <3> HIDE DEF app, nodes
    <3>3. /\ DOMAIN s.nodes = 1 .. Len(s.nodes) /\ Len(s.nodes) \in Nat
          /\ DOMAIN app = 1 .. Len(s.nodes) + 1
      BY Zenon, <2>1, <3>1, LenProperties
    <3>4. \A i \in 1 .. Len(s.nodes) + 1 : i \in 1 .. Len(s.nodes) \/ i = Len(s.nodes) + 1
      BY <3>3
    <3> QED
      BY Zenon, <1>8, <2>1, <2>2, <3>1, <3>2, <3>3, <3>4
  <2>3. CASE ~(n > 0)
    BY Zenon, <2>1, <2>3
  <2> QED
    BY Zenon, <2>2, <2>3
<1> HIDE DEF nodes
<1>10. skip \in BOOLEAN /\ on \in BOOLEAN
  BY ZenonT(60)
<1> HIDE DEF skip, on
<1>11. w \in Window /\ w.pc = "acks" /\ w.nodes = nodes /\ w.tailLen = s.tailLen
  BY ZenonT(60), <1>6, <1>7, <1>9, <1>10, SwType DEF Window
<1> HIDE DEF w
<1>12. ShapeOf(w)
  BY Zenon, <1>9, <1>11 DEF ShapeOf
<1>13. sw' \in [Peers -> Window] /\ WindowShape'
  BY ZenonT(60), <1>1, <1>11, <1>12, NewWindow
<1>14. sock' \in [Peers -> NormalSocket]
  <2>1. [sock[p] EXCEPT !.ClientWindowSize = cws, !.ticker = on] \in NormalSocket
    BY ZenonT(60), <1>5, <1>10, SockType DEF NormalSocket
  <2> QED
    BY Zenon, <1>1, <2>1, SockType
<1> QED
  BY Zenon, <1>1, <1>13, <1>14 DEF TypeOK

\* A window keeps its shape when its nodes stay and it is not just sent.
LEMMA SameNodes ==
  ASSUME WindowShape, NEW p \in Peers, NEW w, w.pc # "sent",
         w.nodes = sw[p].nodes, w.tailLen = sw[p].tailLen
  PROVE  ShapeOf(w)
BY DEF WindowShape, ShapeOf

\* The ends of a round of the sending loop change only the program point.
LEMMA RoundTypes ==
  ASSUME TypeOK, WindowShape, NEW p \in Peers, SkipSend(p) \/ EndRound(p)
  PROVE  TypeOK' /\ WindowShape'
<1>1. UNCHANGED <<net, wb, rb, sock, rcv, vr, vw, written, got, arrived, lost, ticks, thr>>
  BY DEF SkipSend, EndRound
<1>2. CASE SkipSend(p)
  <2> DEFINE skip == sw[p].skip /\ sock[p].ClientWindowSize # 0
             w == [sw[p] EXCEPT !.pc = "acks", !.skip = skip]
  <2>1. sw' = [sw EXCEPT ![p] = w]
    BY ZenonT(60), <1>2, SwType DEF SkipSend
  <2>2. skip \in BOOLEAN
    BY ZenonT(60)
  <2> HIDE DEF skip
  <2>3. w \in Window /\ w.pc = "acks" /\ w.nodes = sw[p].nodes /\ w.tailLen = sw[p].tailLen
    BY ZenonT(60), <2>2, SwType DEF Window
  <2> HIDE DEF w
  <2>4. sw' \in [Peers -> Window] /\ WindowShape'
    BY ZenonT(60), <2>1, <2>3, SameNodes, NewWindow
  <2> QED
    BY Zenon, <1>1, <2>4 DEF TypeOK
<1>3. CASE EndRound(p)
  <2> DEFINE pc == IF sw[p].sent < sw[p].size THEN "loop" ELSE "end"
             w == [sw[p] EXCEPT !.pc = pc]
  <2>1. sw' = [sw EXCEPT ![p] = w]
    BY Zenon, <1>3 DEF EndRound
  <2>2. pc \in {"loop", "end"}
    OBVIOUS
  <2> HIDE DEF pc
  <2>3. w \in Window /\ w.pc # "sent" /\ w.nodes = sw[p].nodes /\ w.tailLen = sw[p].tailLen
    BY ZenonT(60), <2>2, SwType DEF Window
  <2> HIDE DEF w
  <2>4. sw' \in [Peers -> Window] /\ WindowShape'
    BY ZenonT(60), <2>1, <2>3, SameNodes, NewWindow
  <2> QED
    BY Zenon, <1>1, <2>4 DEF TypeOK
<1> QED
  BY Zenon, <1>2, <1>3

\* slidingWindow takes an acknowledgment from ackChan.
LEMMA PopAckTypes ==
  ASSUME TypeOK, WindowShape, NEW p \in Peers, PopAck(p)
  PROVE  TypeOK' /\ WindowShape'
<1> DEFINE m == Head(sock[p].ackChan)
           w == [sw[p] EXCEPT !.pc = "ack", !.taken = m]
           nxt == [sock[p] EXCEPT !.ackChan = Tail(@)]
<1>1. /\ sock[p].ackChan # <<>>
      /\ sock' = [sock EXCEPT ![p] = nxt]
      /\ UNCHANGED <<net, wb, rb, rcv, vr, vw, written, got, arrived, lost, ticks, thr>>
  BY DEF PopAck
<1>2. sw' = [sw EXCEPT ![p] = w]
  BY ZenonT(60), SwType DEF PopAck
<1>3. m \in Ack /\ nxt \in NormalSocket
  BY Zenon, <1>1, AckChanTypes
<1> HIDE DEF m, nxt
<1>4. w \in Window /\ w.pc = "ack" /\ w.nodes = sw[p].nodes /\ w.tailLen = sw[p].tailLen
  BY ZenonT(60), <1>3, SwType DEF Window
<1> HIDE DEF w
<1>5. sw' \in [Peers -> Window] /\ WindowShape'
  BY ZenonT(60), <1>2, <1>4, SameNodes, NewWindow
<1>6. sock' \in [Peers -> NormalSocket]
  BY Zenon, <1>1, <1>3, SockType
<1> QED
  BY Zenon, <1>1, <1>5, <1>6 DEF TypeOK

\* An acknowledgment moves UNA to a cell and drops segments from the head.
LEMMA TakeAckTypes ==
  ASSUME TypeOK, WindowShape, NEW p \in Peers, TakeAck(p)
  PROVE  TypeOK' /\ WindowShape'
<1> DEFINE m == sw[p].taken
           back == [sw[p] EXCEPT !.pc = "acks", !.taken = NoAck]
           counted == [sock[p] EXCEPT !.seenAcks = @ \cup {m.ack}, !.ClientWindowSize = m.win]
           una == sock[p].cumWriteUNA
           nodes == Unacked(sw[p].nodes, m.ack)
           w == [back EXCEPT !.sent = back.sent + (m.ack - una), !.nodes = nodes]
           locked == [sock[p] EXCEPT !.unackedMtx = "sender"]
           moved == [counted EXCEPT !.cumWriteUNA = m.ack]
           Leaks == sock' = [sock EXCEPT ![p] = locked] /\ sw' = [sw EXCEPT ![p] = back] /\ UNCHANGED wb
           Moves == /\ m.ack > una
                    /\ sock' = [sock EXCEPT ![p] = moved]
                    /\ wb' = [wb EXCEPT ![p].UNA = m.ack % W]
                    /\ sw' = [sw EXCEPT ![p] = [back EXCEPT !.sent = @ + (m.ack - una),
                                                            !.nodes = Unacked(@, m.ack)]]
           Ignores == sock' = [sock EXCEPT ![p] = counted] /\ sw' = [sw EXCEPT ![p] = back] /\ UNCHANGED wb
<1>1. /\ Leaks \/ Moves \/ Ignores
      /\ UNCHANGED <<net, rb, rcv, vr, vw, written, got, arrived, lost, ticks, thr>>
  BY DEF TakeAck
<1>2. m \in Ack /\ m.ack \in Nat /\ m.win \in Cells /\ una \in Nat
  <2>1. m \in Ack
    BY Zenon, WindowFields
  <2> QED
    BY Zenon, <2>1, SocketFields DEF Ack
<1>3. back \in Window /\ back.pc = "acks" /\ back.nodes = sw[p].nodes /\ back.tailLen = sw[p].tailLen
  <2>1. NoAck \in Ack
    BY SizeAssumption DEF NoAck, Ack, Cells
  <2> QED
    BY ZenonT(60), <2>1, SwType DEF Window
<1>4. ShapeOf(back)
  BY ZenonT(60), <1>3, SameNodes
<1>5. locked \in NormalSocket /\ counted \in NormalSocket
  BY ZenonT(60), <1>2, SockType DEF NormalSocket
<1>6. moved \in NormalSocket
  BY ZenonT(60), <1>2, <1>5 DEF NormalSocket
<1> HIDE DEF m, counted, una, locked, moved
<1>7. CASE Leaks \/ Ignores
  <2>1. sw' \in [Peers -> Window] /\ WindowShape'
    BY Zenon, <1>3, <1>4, <1>7, NewWindow
  <2>2. sock' \in [Peers -> NormalSocket]
    BY Zenon, <1>5, <1>7, SockType
  <2> QED
    BY Zenon, <1>1, <1>7, <2>1, <2>2 DEF TypeOK
<1>8. CASE Moves
  <2>1. sw' = [sw EXCEPT ![p] = w]
    BY Zenon, <1>3, <1>8
  <2> HIDE DEF back
  <2>2. /\ nodes \in Seq(WindowNode)
        /\ \A i \in DOMAIN nodes : nodes[i].idx = 0 => Len(nodes[i].pkt.data) = sw[p].tailLen
    <3>1. /\ nodes \in Seq(WindowNode)
          /\ \A j \in DOMAIN nodes : \E k \in DOMAIN sw[p].nodes : nodes[j] = sw[p].nodes[k]
      BY ZenonT(60), <1>2, WindowFields, UnackedProperties
    <3> HIDE DEF nodes
    <3> QED
      BY Zenon, <3>1 DEF WindowShape, ShapeOf
  <2> HIDE DEF nodes
  <2>3. back.sent + (m.ack - una) \in Nat
    <3>1. back.sent \in Nat
      BY Zenon, <1>3 DEF Window
    <3> QED
      BY <3>1, <1>2, <1>8
  <2>4. w \in Window /\ w.pc = "acks" /\ w.nodes = nodes /\ w.tailLen = sw[p].tailLen
    BY ZenonT(60), <1>3, <2>2, <2>3 DEF Window
  <2> HIDE DEF w
  <2>5. ShapeOf(w)
    BY Zenon, <2>2, <2>4 DEF ShapeOf
  <2>6. sw' \in [Peers -> Window] /\ WindowShape'
    BY ZenonT(60), <2>1, <2>4, <2>5, NewWindow
  <2>7. wb' \in [Peers -> WriteBuffer]
    <3>1. m.ack % W \in Cells
      BY <1>2, ModCell
    <3> QED
      BY Zenon, <1>8, <3>1, BufferTypes DEF WriteBuffer
  <2>8. sock' \in [Peers -> NormalSocket]
    BY Zenon, <1>6, <1>8, SockType
  <2> QED
    BY Zenon, <1>1, <2>6, <2>7, <2>8 DEF TypeOK
<1> QED
  BY Zenon, <1>1, <1>7, <1>8

\* slidingWindow returns and its window is gone.
LEMMA ReturnTypes ==
  ASSUME TypeOK, WindowShape, NEW p \in Peers, Return(p)
  PROVE  TypeOK' /\ WindowShape'
<1>1. /\ sw' = [sw EXCEPT ![p] = NoWindow]
      /\ sock' = [sock EXCEPT ![p].packetDone = Busy(p)]
      /\ thr' = [thr EXCEPT ![p] = Outliving(p)]
      /\ UNCHANGED <<net, wb, rb, rcv, vr, vw, written, got, arrived, lost, ticks>>
  BY DEF Return
<1>2. NoWindow \in Window /\ NoWindow.pc = "idle" /\ DOMAIN NoWindow.nodes = {}
  BY SizeAssumption, EmptySeq DEF NoWindow, Window, NoPacket, NoAck, Packet, Ack, Cells
<1>3. ShapeOf(NoWindow)
  BY Zenon, <1>2 DEF ShapeOf
<1>4. sw' \in [Peers -> Window] /\ WindowShape'
  BY ZenonT(60), <1>1, <1>2, <1>3, NewWindow
<1>5. sock' \in [Peers -> NormalSocket]
  <2>1. [sock[p] EXCEPT !.packetDone = Busy(p)] \in NormalSocket
    BY ZenonT(60), SockType, OutlivingType DEF NormalSocket
  <2> QED
    BY Zenon, <1>1, <2>1, SockType
<1>6. thr' \in [Peers -> [Threads -> {"none", "select", "reset"}]]
  BY Zenon, <1>1, ThrType, OutlivingType
<1> QED
  BY Zenon, <1>1, <1>4, <1>5, <1>6 DEF TypeOK

\* The head of the window is rebuilt with the current ackNum and sent again.
LEMMA RetransmitTypes ==
  ASSUME TypeOK, WindowShape, NEW p \in Peers, Retransmit(p)
  PROVE  TypeOK' /\ WindowShape'
<1> DEFINE s == sw[p]
           m == Segment(p, s.nodes[1].pkt.seq, s.nodes[1].pkt.data)
           node == [s.nodes[1] EXCEPT !.pkt = m]
           nodes == [s.nodes EXCEPT ![1] = node]
           w == [s EXCEPT !.nodes = nodes]
           Resends == s.nodes # <<>> /\ sw' = [sw EXCEPT ![p].nodes[1].pkt = m] /\ Send(p, m)
<1>1. /\ s.pc \in {"loop", "end"}
      /\ Resends \/ UNCHANGED <<sw, net>>
      /\ ticks' = ticks + 1
      /\ sock' = [sock EXCEPT ![p].ticker = FALSE]
      /\ thr' = [thr EXCEPT ![p]["cur"] = "reset"]
      /\ UNCHANGED <<wb, rb, rcv, vr, vw, written, got, arrived, lost>>
  BY DEF Retransmit
<1>2. sw' \in [Peers -> Window] /\ WindowShape' /\ net' \in [Peers -> Seq(Packet)]
  <2>1. CASE Resends
    <3>1. sw' = [sw EXCEPT ![p] = w]
      BY Zenon, <2>1
    <3>2. s.nodes \in Seq(WindowNode)
      BY Zenon, WindowFields
    <3>3. 1 \in DOMAIN s.nodes
      BY <2>1, <3>2, LenProperties, EmptySeq
    <3>4. s.nodes[1] \in WindowNode
      BY Zenon, <3>2, <3>3, ElementOfSeq, LenProperties
    <3>5. s.nodes[1].pkt.seq \in Nat /\ s.nodes[1].pkt.data \in Seq(Nat)
      BY Zenon, <3>4 DEF WindowNode, Packet
    <3>6. m \in Packet /\ m.data = s.nodes[1].pkt.data
      BY Zenon, <3>5, SegmentType
    <3> HIDE DEF m
    <3>7. node \in WindowNode /\ node.pkt = m /\ node.idx = s.nodes[1].idx
      BY Zenon, <3>4, <3>6 DEF WindowNode
    <3> HIDE DEF node
    <3>8. nodes \in Seq(WindowNode) /\ DOMAIN nodes = DOMAIN s.nodes
      BY Zenon, <3>2, <3>3, <3>7, ReplaceNode
    <3>9. \A i \in DOMAIN nodes : /\ nodes[i].idx = s.nodes[i].idx
                                  /\ nodes[i].pkt.data = s.nodes[i].pkt.data
      BY Zenon, <3>3, <3>6, <3>7, <3>8
    <3> HIDE DEF nodes
    <3>10. w \in Window /\ w.pc = s.pc /\ w.nodes = nodes /\ w.tailLen = s.tailLen
      BY ZenonT(60), <3>8, SwType DEF Window
    <3> HIDE DEF w
    <3>11. ShapeOf(w)
      BY Zenon, <1>1, <3>8, <3>9, <3>10 DEF WindowShape, ShapeOf
    <3>12. sw' \in [Peers -> Window] /\ WindowShape'
      BY ZenonT(60), <3>1, <3>10, <3>11, NewWindow
    <3> QED
      BY Zenon, <2>1, <3>6, <3>12, SendType
  <2>2. CASE UNCHANGED <<sw, net>>
    BY Zenon, <2>2, SameWindow DEF TypeOK
  <2> QED
    BY Zenon, <1>1, <2>1, <2>2
<1>3. sock' \in [Peers -> NormalSocket]
  BY ZenonT(60), <1>1, SockType DEF NormalSocket
<1>4. thr' \in [Peers -> [Threads -> {"none", "select", "reset"}]]
  BY ZenonT(60), <1>1, ThrType
<1>5. ticks' \in Nat
  BY <1>1 DEF TypeOK
<1> QED
  BY Zenon, <1>1, <1>2, <1>3, <1>4, <1>5 DEF TypeOK

\* retransThread restarts the ticker or takes the token of packetDoneChan.
LEMMA ThreadTypes ==
  ASSUME TypeOK, WindowShape, NEW p \in Peers, NEW t \in Threads, ThreadStep(p, t)
  PROVE  TypeOK' /\ WindowShape'
<1>1. UNCHANGED <<net, wb, rb, sw, rcv, vr, vw, written, got, arrived, lost, ticks>>
  BY DEF ThreadStep, ResetTicker, TakeDone
<1>2. \/ /\ thr' = [thr EXCEPT ![p][t] = "select"]
         /\ sock' = [sock EXCEPT ![p].ticker = TRUE]
      \/ /\ thr' = [thr EXCEPT ![p][t] = "none"]
         /\ sock' = [sock EXCEPT ![p].packetDone = FALSE]
  BY DEF ThreadStep, ResetTicker, TakeDone
<1>3. /\ [sock[p] EXCEPT !.ticker = TRUE] \in NormalSocket
      /\ [sock[p] EXCEPT !.packetDone = FALSE] \in NormalSocket
  BY ZenonT(60), SockType DEF NormalSocket
<1>4. sock' \in [Peers -> NormalSocket]
  BY ZenonT(60), <1>2, <1>3, SockType
<1>5. thr' \in [Peers -> [Threads -> {"none", "select", "reset"}]]
  BY <1>2, ThrType
<1> QED
  BY Zenon, <1>1, <1>4, <1>5, SameWindow DEF TypeOK

\* The probe is sent again.
LEMMA ProbeAgainTypes ==
  ASSUME TypeOK, WindowShape, NEW p \in Peers, ProbeAgain(p)
  PROVE  TypeOK' /\ WindowShape'
<1>1. /\ Send(p, sw[p].probe)
      /\ ticks' = ticks \/ ticks' = ticks + 1
      /\ UNCHANGED <<wb, rb, sock, sw, rcv, vr, vw, written, got, arrived, lost, thr>>
  BY DEF ProbeAgain
<1>2. net' \in [Peers -> Seq(Packet)]
  BY Zenon, <1>1, WindowFields, SendType
<1>3. ticks' \in Nat
  BY <1>1 DEF TypeOK
<1> QED
  BY Zenon, <1>1, <1>2, <1>3, SameWindow DEF TypeOK

-----------------------------------------------------------------------------
(* The steps of ReceiverThread and VRead, and a loss.                      *)

\* An acknowledgment is appended to ackChan.
LEMMA AckChanAppend ==
  ASSUME TypeOK, NEW p \in Peers, NEW a \in Nat, NEW win \in Cells
  PROVE  Append(sock[p].ackChan, [ack |-> a, win |-> win]) \in Seq(Ack)
<1>1. [ack |-> a, win |-> win] \in Ack
  BY DEF Ack
<1> QED
  BY Zenon, <1>1, SocketFields, AppendProperties

\* ReceiverThread passes an acknowledgment on, or blocks on a full ackChan.
LEMMA ReceiveAckTypes ==
  ASSUME TypeOK, WindowShape, NEW p \in Peers, NEW i \in Nat \ {0}, ReceiveAck(p, i)
  PROVE  TypeOK' /\ WindowShape'
<1> DEFINE m == net[p][i]
           chan == Append(sock[p].ackChan, [ack |-> m.ack, win |-> m.win])
           queued == [sock[p] EXCEPT !.ClientWindowSize = m.win, !.ackChan = chan]
           blocked == [sock[p] EXCEPT !.ClientWindowSize = m.win, !.unackedMtx = "receiver"]
<1>1. /\ i <= Len(net[p]) /\ net' = [net EXCEPT ![p] = RemoveAt(@, i)]
      /\ UNCHANGED <<wb, rb, sw, vr, vw, written, got, arrived, lost, ticks, thr>>
  BY DEF ReceiveAck, Receive
<1>2. \/ sock' = [sock EXCEPT ![p] = queued] /\ UNCHANGED rcv
      \/ /\ sock' = [sock EXCEPT ![p] = blocked]
         /\ rcv' = [rcv EXCEPT ![p] = [pc |-> "full", pkt |-> m]]
  BY ZenonT(60), SockType DEF ReceiveAck
<1>3. m \in Packet /\ m.ack \in Nat /\ m.win \in Cells /\ net' \in [Peers -> Seq(Packet)]
  BY ZenonT(60), <1>1, ReceiveTypes
<1> HIDE DEF m
<1>4. chan \in Seq(Ack)
  BY Zenon, <1>3, AckChanAppend
<1> HIDE DEF chan
<1>5. queued \in NormalSocket /\ blocked \in NormalSocket
  BY ZenonT(60), <1>3, <1>4, SockType DEF NormalSocket
<1> HIDE DEF queued, blocked
<1>6. sock' \in [Peers -> NormalSocket]
  BY Zenon, <1>2, <1>5, SockType
<1>7. rcv' \in [Peers -> Receiver]
  <2>1. [pc |-> "full", pkt |-> m] \in Receiver
    BY Zenon, <1>3 DEF Receiver
  <2> QED
    BY Zenon, <1>2, <2>1, RcvType
<1> QED
  BY Zenon, <1>1, <1>3, <1>6, <1>7, SameWindow DEF TypeOK

\* ReceiverThread is ready for the next packet.
LEMMA ReadyType == [pc |-> "recv", pkt |-> NoPacket] \in Receiver
BY SizeAssumption, EmptySeq DEF Receiver, NoPacket, Packet, Cells

\* ReceiverThread goes on once ackChan has room.
LEMMA AckChanRoomTypes ==
  ASSUME TypeOK, WindowShape, NEW p \in Peers, AckChanRoom(p)
  PROVE  TypeOK' /\ WindowShape'
<1> DEFINE m == rcv[p].pkt
           chan == Append(sock[p].ackChan, [ack |-> m.ack, win |-> m.win])
           s == [sock[p] EXCEPT !.unackedMtx = "free", !.ackChan = chan]
<1>1. /\ rcv' = [rcv EXCEPT ![p] = [pc |-> "recv", pkt |-> NoPacket]]
      /\ UNCHANGED <<net, wb, rb, sw, vr, vw, written, got, arrived, lost, ticks, thr>>
  BY DEF AckChanRoom
<1>2. sock' = [sock EXCEPT ![p] = s]
  BY ZenonT(60), SockType DEF AckChanRoom
<1>3. m.ack \in Nat /\ m.win \in Cells
  BY Zenon, RcvType DEF Receiver, Packet
<1> HIDE DEF m
<1>4. chan \in Seq(Ack)
  BY Zenon, <1>3, AckChanAppend
<1> HIDE DEF chan
<1>5. s \in NormalSocket
  BY ZenonT(60), <1>4, SockType DEF NormalSocket
<1> HIDE DEF s
<1>6. sock' \in [Peers -> NormalSocket]
  BY Zenon, <1>2, <1>5, SockType
<1>7. rcv' \in [Peers -> Receiver]
  BY Zenon, <1>1, ReadyType, RcvType
<1> QED
  BY Zenon, <1>1, <1>6, <1>7, SameWindow DEF TypeOK

\* A segment ahead of cumReadNXT is kept in earlyPQ.
LEMMA ReceiveEarlyTypes ==
  ASSUME TypeOK, WindowShape, NEW p \in Peers, NEW i \in Nat \ {0}, ReceiveEarly(p, i)
  PROVE  TypeOK' /\ WindowShape'
<1> DEFINE m == net[p][i]
           pq == sock[p].earlyPQ \cup {[seq |-> m.seq, data |-> m.data]}
           s == [sock[p] EXCEPT !.ClientWindowSize = m.win, !.earlyPQ = pq]
<1>1. /\ i <= Len(net[p]) /\ net' = [net EXCEPT ![p] = RemoveAt(@, i)]
      /\ UNCHANGED <<wb, rb, sw, rcv, vr, vw, written, got, arrived, lost, ticks, thr>>
  BY DEF ReceiveEarly, Receive
<1>2. sock' = [sock EXCEPT ![p] = s]
  BY ZenonT(60), SockType DEF ReceiveEarly
<1>3. /\ m.seq \in Nat /\ m.win \in Cells /\ m.data \in Seq(Nat)
      /\ net' \in [Peers -> Seq(Packet)]
  BY ZenonT(60), <1>1, ReceiveTypes
<1> HIDE DEF m
<1>4. pq \subseteq Early
  BY <1>3, SocketFields DEF Early
<1> HIDE DEF pq
<1>5. s \in NormalSocket
  BY ZenonT(60), <1>3, <1>4, SockType DEF NormalSocket
<1> HIDE DEF s
<1>6. sock' \in [Peers -> NormalSocket]
  BY Zenon, <1>2, <1>5, SockType
<1> QED
  BY Zenon, <1>1, <1>3, <1>6, SameWindow DEF TypeOK

\* What Store writes.
LEMMA StoreTypes ==
  ASSUME TypeOK, NEW p \in Peers, NEW s \in NormalSocket, NEW seq \in Nat,
         NEW data \in Seq(Nat), Store(p, s, seq, data)
  PROVE  /\ rb' \in [Peers -> ReadBuffer] /\ sock' \in [Peers -> NormalSocket]
         /\ arrived' \in [Peers -> SUBSET Nat]
<1>1. Len(data) \in Nat /\ seq + Len(data) \in Nat /\ seq + Len(data) \in Int
  <2>1. Len(data) \in Nat
    BY Zenon, LenProperties
  <2> QED
    BY <2>1
<1> DEFINE buf == Put(rb[p].buf, rb[p].NXT, data)
           nxt == (seq + Len(data)) % W
           r == [rb[p] EXCEPT !.buf = buf, !.NXT = nxt]
           t == [s EXCEPT !.cumReadNXT = seq + Len(data)]
           new == arrived[p] \cup (seq .. seq + Len(data) - 1)
<1>2. rb' = [rb EXCEPT ![p] = r]
  BY ZenonT(60), BufferTypes DEF Store
<1>3. sock' = [sock EXCEPT ![p] = t] /\ arrived' = [arrived EXCEPT ![p] = new]
  BY DEF Store
<1>4. buf \in [Cells -> Nat]
  BY ZenonT(60), PutType, BufferFields
<1>5. nxt \in Cells
  BY Zenon, <1>1, ModCell
<1> HIDE DEF buf, nxt
<1>6. r \in ReadBuffer
  BY ZenonT(60), <1>4, <1>5, BufferTypes DEF ReadBuffer
<1> HIDE DEF r
<1>7. rb' \in [Peers -> ReadBuffer]
  BY Zenon, <1>2, <1>6, BufferTypes
<1>8. t \in NormalSocket
  BY ZenonT(60), <1>1 DEF NormalSocket
<1> HIDE DEF t
<1>9. sock' \in [Peers -> NormalSocket]
  BY Zenon, <1>3, <1>8, SockType
<1>10. new \subseteq Nat
  <2>1. seq .. seq + Len(data) - 1 \subseteq Nat
    BY <1>1
  <2> QED
    BY Zenon, <2>1, PeerTypes
<1> HIDE DEF new
<1>11. arrived' \in [Peers -> SUBSET Nat]
  BY Zenon, <1>3, <1>10 DEF TypeOK
<1> QED
  BY Zenon, <1>7, <1>9, <1>11

\* A segment that is not ahead is stored.
LEMMA ReceiveDataTypes ==
  ASSUME TypeOK, WindowShape, NEW p \in Peers, NEW i \in Nat \ {0}, ReceiveData(p, i)
  PROVE  TypeOK' /\ WindowShape'
<1> DEFINE m == net[p][i]
           s == [sock[p] EXCEPT !.ClientWindowSize = m.win]
<1>1. /\ i <= Len(net[p]) /\ net' = [net EXCEPT ![p] = RemoveAt(@, i)]
      /\ Store(p, s, m.seq, m.data)
      /\ rcv' = [rcv EXCEPT ![p] = [pc |-> "early", pkt |-> m]]
      /\ UNCHANGED <<wb, sw, vr, vw, written, got, lost, ticks, thr>>
  BY DEF ReceiveData, Receive
<1>2. /\ m \in Packet /\ m.seq \in Nat /\ m.win \in Cells /\ m.data \in Seq(Nat)
      /\ net' \in [Peers -> Seq(Packet)]
  BY ZenonT(60), <1>1, ReceiveTypes
<1> HIDE DEF m
<1>3. s \in NormalSocket
  BY ZenonT(60), <1>2, SockType DEF NormalSocket
<1> HIDE DEF s
<1>4. /\ rb' \in [Peers -> ReadBuffer] /\ sock' \in [Peers -> NormalSocket]
      /\ arrived' \in [Peers -> SUBSET Nat]
  BY Zenon, <1>1, <1>2, <1>3, StoreTypes
<1>5. rcv' \in [Peers -> Receiver]
  <2>1. [pc |-> "early", pkt |-> m] \in Receiver
    BY Zenon, <1>2 DEF Receiver
  <2> QED
    BY Zenon, <1>1, <2>1, RcvType
<1> QED
  BY Zenon, <1>1, <1>2, <1>4, <1>5, SameWindow DEF TypeOK

\* Waking VRead keeps the type of its call.
LEMMA BroadcastType ==
  ASSUME TypeOK, NEW p \in Peers, Broadcast(p)
  PROVE  vr' \in [Peers -> ReadCall]
<1>1. vr \in [Peers -> ReadCall]
  BY Zenon, CallTypes
<1>2. \/ vr' = [vr EXCEPT ![p].pc = "woken"]
      \/ vr' = [vr EXCEPT ![p].pc = vr[p].pc]
  BY ZenonT(60) DEF Broadcast
<1>3. /\ [vr[p] EXCEPT !.pc = "woken"] \in ReadCall
      /\ [vr[p] EXCEPT !.pc = vr[p].pc] \in ReadCall
  BY Zenon, <1>1 DEF ReadCall
<1> QED
  BY Zenon, <1>1, <1>2, <1>3

\* A segment is dropped because the read buffer is full.
LEMMA ReceiveFullTypes ==
  ASSUME TypeOK, WindowShape, NEW p \in Peers, NEW i \in Nat \ {0}, ReceiveFull(p, i)
  PROVE  TypeOK' /\ WindowShape'
<1> DEFINE m == net[p][i]
<1>1. /\ i <= Len(net[p]) /\ net' = [net EXCEPT ![p] = RemoveAt(@, i)]
      /\ sock' = [sock EXCEPT ![p].ClientWindowSize = m.win]
      /\ Broadcast(p)
      /\ UNCHANGED <<wb, rb, sw, rcv, vw, written, got, arrived, lost, ticks, thr>>
  BY DEF ReceiveFull, Receive
<1>2. m.win \in Cells /\ net' \in [Peers -> Seq(Packet)]
  BY ZenonT(60), <1>1, ReceiveTypes
<1> HIDE DEF m
<1>3. sock' \in [Peers -> NormalSocket]
  BY ZenonT(60), <1>1, <1>2, SockType DEF NormalSocket
<1> QED
  BY Zenon, <1>1, <1>2, <1>3, BroadcastType, SameWindow DEF TypeOK

\* An early packet is stored or dropped.
LEMMA PopEarlyTypes ==
  ASSUME TypeOK, WindowShape, NEW p \in Peers, PopEarly(p)
  PROVE  TypeOK' /\ WindowShape'
<1>1. UNCHANGED <<net, wb, sw, rcv, vr, vw, written, got, lost, ticks, thr>>
  BY DEF PopEarly
<1>2. PICK e \in sock[p].earlyPQ :
         LET s == [sock[p] EXCEPT !.earlyPQ = sock[p].earlyPQ \ {e}]
         IN  \/ sock' = [sock EXCEPT ![p] = s] /\ UNCHANGED <<rb, arrived>>
             \/ Store(p, s, e.seq, e.data)
  BY ZenonT(60) DEF PopEarly, Earliest
<1> DEFINE pq == sock[p].earlyPQ \ {e}
           s == [sock[p] EXCEPT !.earlyPQ = pq]
<1>3. e.seq \in Nat /\ e.data \in Seq(Nat) /\ pq \subseteq Early
  BY Zenon, SocketFields DEF Early
<1> HIDE DEF pq
<1>4. s \in NormalSocket
  BY ZenonT(60), <1>3, SockType DEF NormalSocket
<1>5. \/ sock' = [sock EXCEPT ![p] = s] /\ UNCHANGED <<rb, arrived>>
      \/ Store(p, s, e.seq, e.data)
  BY Zenon, <1>2 DEF pq
<1> HIDE DEF s
<1>6. /\ rb' \in [Peers -> ReadBuffer] /\ sock' \in [Peers -> NormalSocket]
      /\ arrived' \in [Peers -> SUBSET Nat]
  <2>1. CASE sock' = [sock EXCEPT ![p] = s] /\ UNCHANGED <<rb, arrived>>
    BY Zenon, <1>4, <2>1, SockType DEF TypeOK
  <2>2. CASE Store(p, s, e.seq, e.data)
    BY Zenon, <1>3, <1>4, <2>2, StoreTypes
  <2> QED
    BY Zenon, <1>5, <2>1, <2>2
<1> QED
  BY Zenon, <1>1, <1>6, SameWindow DEF TypeOK

\* readMtx is unlocked, and the acknowledgment is a packet.
LEMMA AnswerTypes ==
  ASSUME TypeOK, WindowShape, NEW p \in Peers, Unlock(p) \/ Answer(p)
  PROVE  TypeOK' /\ WindowShape'
<1>1. CASE Unlock(p)
  <2>1. /\ Broadcast(p)
        /\ rcv' = [rcv EXCEPT ![p].pc = "answer"]
        /\ UNCHANGED <<net, wb, rb, sock, sw, vw, written, got, arrived, lost, ticks, thr>>
    BY Zenon, <1>1 DEF Unlock
  <2>2. rcv' \in [Peers -> Receiver]
    BY Zenon, <2>1, RcvType DEF Receiver
  <2> QED
    BY Zenon, <2>1, <2>2, BroadcastType, SameWindow DEF TypeOK
<1>2. CASE Answer(p)
  <2>1. /\ Send(p, Segment(p, rcv[p].pkt.ack, <<>>))
        /\ rcv' = [rcv EXCEPT ![p] = [pc |-> "recv", pkt |-> NoPacket]]
        /\ UNCHANGED <<wb, rb, sock, sw, vr, vw, written, got, arrived, lost, ticks, thr>>
    BY Zenon, <1>2 DEF Answer
  <2>2. rcv[p].pkt.ack \in Nat
    BY Zenon, RcvType DEF Receiver, Packet
  <2>3. Segment(p, rcv[p].pkt.ack, <<>>) \in Packet
    BY ZenonT(60), <2>2, SegmentType, EmptySeq
  <2>4. net' \in [Peers -> Seq(Packet)]
    BY Zenon, <2>1, <2>3, SendType
  <2>5. rcv' \in [Peers -> Receiver]
    BY Zenon, <2>1, ReadyType, RcvType
  <2> QED
    BY Zenon, <2>1, <2>4, <2>5, SameWindow DEF TypeOK
<1> QED
  BY Zenon, <1>1, <1>2

\* num_buf is a cell index.
LEMMA UnreadType ==
  ASSUME TypeOK, NEW p \in Peers
  PROVE  Unread(p) \in Cells
<1>1. rb[p].NXT - 1 - rb[p].LBR \in Int
  BY BufferFields
<1> QED
  BY Zenon, <1>1, ModCell DEF Unread

\* VRead returns bytes of the read buffer and moves LBR to a cell.
LEMMA VReadTypes ==
  ASSUME TypeOK, WindowShape, NEW p \in Peers,
         VReadLocked(p) \/ \E n \in Wants[p] : VReadCall(p, n)
  PROVE  TypeOK' /\ WindowShape'
<1>1. ASSUME NEW n \in Wants[p], VReadCall(p, n)
      PROVE  TypeOK' /\ WindowShape'
  <2>1. /\ vr' = [vr EXCEPT ![p] = [pc |-> "lock", want |-> n, num |-> Unread(p)]]
        /\ UNCHANGED <<net, wb, rb, sock, sw, rcv, vw, written, got, arrived, lost, ticks, thr>>
    BY Zenon, <1>1 DEF VReadCall
  <2>2. n \in Nat
    BY BoundAssumption, SizeAssumption
  <2>3. [pc |-> "lock", want |-> n, num |-> Unread(p)] \in ReadCall
    BY Zenon, <2>2, UnreadType DEF ReadCall
  <2>4. vr' \in [Peers -> ReadCall]
    BY Zenon, <2>1, <2>3, CallTypes
  <2> QED
    BY Zenon, <2>1, <2>4, SameWindow DEF TypeOK
<1>2. CASE VReadLocked(p)
  <2> DEFINE num == IF vr[p].pc = "woken" THEN Unread(p) ELSE vr[p].num
             n == Least(num, vr[p].want)
             data == Slice(rb[p].buf, rb[p].LBR + 1, n)
  <2>1. /\ \/ vr' = [vr EXCEPT ![p].pc = "wait"] /\ UNCHANGED <<rb, got>>
           \/ /\ got' = [got EXCEPT ![p] = got[p] \o data]
              /\ rb' = [rb EXCEPT ![p].LBR = (rb[p].LBR + n) % W]
              /\ vr' = [vr EXCEPT ![p] = [pc |-> "idle", want |-> 0, num |-> 0]]
        /\ UNCHANGED <<net, wb, sock, sw, rcv, vw, written, arrived, lost, ticks, thr>>
    BY ZenonT(60), <1>2 DEF VReadLocked, ReadOut
  <2>2. vr[p].num \in Cells /\ vr[p].want \in Nat
    BY Zenon, CallTypes DEF ReadCall
  <2>3. num \in Nat
    BY ZenonT(60), <2>2, UnreadType, CellNat
  <2> HIDE DEF num
  <2>4. n \in Nat
    BY Zenon, <2>2, <2>3 DEF Least
  <2> HIDE DEF n
  <2>5. data \in Seq(Nat)
    <3>1. rb[p].LBR + 1 \in Int
      BY BufferFields
    <3> QED
      BY ZenonT(60), <2>4, <3>1, BufferFields, SliceType
  <2> HIDE DEF data
  <2> DEFINE all == got[p] \o data
  <2>6. all \in Seq(Nat)
    BY <2>5, PeerTypes, ConcatProperties, ZenonT(60)
  <2>7. (rb[p].LBR + n) % W \in Cells
    <3>1. rb[p].LBR + n \in Int
      BY <2>4, BufferFields
    <3> QED
      BY Zenon, <3>1, ModCell
  <2>8. \/ vr' = [vr EXCEPT ![p].pc = "wait"] /\ UNCHANGED <<rb, got>>
        \/ /\ got' = [got EXCEPT ![p] = all]
           /\ rb' = [rb EXCEPT ![p].LBR = (rb[p].LBR + n) % W]
           /\ vr' = [vr EXCEPT ![p] = [pc |-> "idle", want |-> 0, num |-> 0]]
    BY <2>1, ZenonT(60)
  <2> HIDE DEF all
  <2>9. got' \in [Peers -> Seq(Nat)]
    <3>1. got' = [got EXCEPT ![p] = all] \/ UNCHANGED got
      BY <2>8, ZenonT(60)
    <3>2. got \in [Peers -> Seq(Nat)]
      BY DEF TypeOK
    <3> QED
      BY Zenon, <2>6, <3>1, <3>2
  <2>10. rb' \in [Peers -> ReadBuffer]
    <3>1. rb' = [rb EXCEPT ![p].LBR = (rb[p].LBR + n) % W] \/ UNCHANGED rb
      BY <2>8, ZenonT(60)
    <3>2. [rb[p] EXCEPT !.LBR = (rb[p].LBR + n) % W] \in ReadBuffer
      BY Zenon, <2>7, BufferTypes DEF ReadBuffer
    <3> QED
      BY Zenon, <3>1, <3>2, BufferTypes
  <2>11. vr' \in [Peers -> ReadCall]
    <3>1. \/ vr' = [vr EXCEPT ![p].pc = "wait"]
          \/ vr' = [vr EXCEPT ![p] = [pc |-> "idle", want |-> 0, num |-> 0]]
      BY <2>8, ZenonT(60)
    <3>2. [vr[p] EXCEPT !.pc = "wait"] \in ReadCall
      BY Zenon, CallTypes DEF ReadCall
    <3>3. [pc |-> "idle", want |-> 0, num |-> 0] \in ReadCall
      BY SizeAssumption DEF ReadCall, Cells
    <3> QED
      BY Zenon, <3>1, <3>2, <3>3, CallTypes
  <2> QED
    BY Zenon, <2>1, <2>9, <2>10, <2>11, SameWindow DEF TypeOK
<1> QED
  BY Zenon, <1>1, <1>2

\* The network loses a packet.
LEMMA LoseTypes ==
  ASSUME TypeOK, WindowShape, NEW p \in Peers, NEW i \in 1 .. Len(net[p]), Lose(p, i)
  PROVE  TypeOK' /\ WindowShape'
<1>1. /\ i <= Len(net[p]) /\ net' = [net EXCEPT ![p] = RemoveAt(@, i)]
      /\ lost' = lost + 1
      /\ UNCHANGED <<wb, rb, sock, sw, rcv, vr, vw, written, got, arrived, ticks, thr>>
  BY DEF Lose
<1>2. i \in Nat \ {0}
  BY PeerTypes, LenProperties
<1>3. net' \in [Peers -> Seq(Packet)]
  BY ZenonT(60), <1>1, <1>2, ReceiveTypes
<1>4. lost' \in Nat
  BY <1>1 DEF TypeOK
<1> QED
  BY Zenon, <1>1, <1>3, <1>4, SameWindow DEF TypeOK

-----------------------------------------------------------------------------
(* The invariant on acknowledgments.                                       *)

\* Every byte before n is in A.
Got(A, n) == 1 .. n - 1 \subseteq A

\* The acknowledgment numbers in one socket, window, network and receiver are
\* true, where A is what arrived on this side and B what arrived on the other.
SockAcks(A, B, s) ==
  /\ Got(A, s.cumReadNXT) /\ Got(B, s.cumWriteUNA)
  /\ \A i \in DOMAIN s.ackChan : Got(B, s.ackChan[i].ack)

SwAcks(A, B, w) ==
  /\ Got(A, w.probe.ack) /\ Got(B, w.taken.ack)
  /\ \A i \in DOMAIN w.nodes : Got(A, w.nodes[i].pkt.ack)

NetAcks(B, n) == \A i \in DOMAIN n : Got(B, n[i].ack)

RcvAcks(B, r) == Got(B, r.pkt.ack)

\* Whatever p counts as received has arrived, and so has whatever an ackNum says
\* that is under way: in a segment of the window, on the network, held by the
\* receiver, in ackChan, in slidingWindow.
AcksTrue ==
  \A p \in Peers :
    /\ SockAcks(arrived[p], arrived[Other(p)], sock[p])
    /\ SwAcks(arrived[p], arrived[Other(p)], sw[p])
    /\ NetAcks(arrived[Other(p)], net[p])
    /\ RcvAcks(arrived[Other(p)], rcv[p])

\* What holds of p and of what p has sent.
LEMMA Known ==
  ASSUME AcksTrue, NEW p \in Peers
  PROVE  /\ SockAcks(arrived[p], arrived[Other(p)], sock[p])
         /\ SwAcks(arrived[p], arrived[Other(p)], sw[p])
         /\ NetAcks(arrived[Other(p)], net[p])
         /\ NetAcks(arrived[p], net[Other(p)])
         /\ RcvAcks(arrived[Other(p)], rcv[p])
BY Zenon, OtherPeer DEF AcksTrue

\* More bytes arrive: what was true stays true.
LEMMA Monotone ==
  ASSUME NEW A, NEW B, NEW A2, NEW B2, A \subseteq A2, B \subseteq B2
  PROVE  /\ \A s : SockAcks(A, B, s) => SockAcks(A2, B2, s)
         /\ \A w : SwAcks(A, B, w) => SwAcks(A2, B2, w)
         /\ \A n : NetAcks(B, n) => NetAcks(B2, n)
         /\ \A r : RcvAcks(B, r) => RcvAcks(B2, r)
BY DEF SockAcks, SwAcks, NetAcks, RcvAcks, Got

\* A step of p keeps AcksTrue if it does so for p's own state and for what is on
\* the way, and leaves the other side alone.
LEMMA AcksFrame ==
  ASSUME AcksTrue, NEW p \in Peers,
         arrived[p] \subseteq arrived'[p], arrived'[Other(p)] = arrived[Other(p)],
         SockAcks(arrived'[p], arrived'[Other(p)], sock'[p]),
         SwAcks(arrived'[p], arrived'[Other(p)], sw'[p]),
         NetAcks(arrived'[Other(p)], net'[p]),
         NetAcks(arrived'[p], net'[Other(p)]),
         RcvAcks(arrived'[Other(p)], rcv'[p]),
         sock'[Other(p)] = sock[Other(p)], sw'[Other(p)] = sw[Other(p)],
         rcv'[Other(p)] = rcv[Other(p)]
  PROVE  AcksTrue'
<1> DEFINE q == Other(p)
<1>1. q \in Peers /\ Other(q) = p /\ \A r \in Peers : r = p \/ r = q
  BY Zenon, OtherPeer, PeersAssumption DEF Other
<1>2. /\ SockAcks(arrived[q], arrived[p], sock[q]) /\ SwAcks(arrived[q], arrived[p], sw[q])
      /\ RcvAcks(arrived[p], rcv[q])
  BY Zenon, <1>1, Known
<1> HIDE DEF q
<1>3. /\ SockAcks(arrived'[q], arrived'[p], sock'[q]) /\ SwAcks(arrived'[q], arrived'[p], sw'[q])
      /\ RcvAcks(arrived'[p], rcv'[q])
  BY ZenonT(60), <1>2, Monotone DEF q
<1>4. \A r \in Peers :
        /\ SockAcks(arrived'[r], arrived'[Other(r)], sock'[r])
        /\ SwAcks(arrived'[r], arrived'[Other(r)], sw'[r])
        /\ NetAcks(arrived'[Other(r)], net'[r])
        /\ RcvAcks(arrived'[Other(r)], rcv'[r])
  BY Zenon, <1>1, <1>3 DEF q
<1> QED
  BY Zenon, <1>4 DEF AcksTrue, SockAcks, SwAcks, NetAcks, RcvAcks, Got, Other

\* What one update of a variable changes.
LEMMA Updates ==
  ASSUME TypeOK, NEW p \in Peers, NEW r
  PROVE  /\ sock' = [sock EXCEPT ![p] = r] => sock'[p] = r /\ sock'[Other(p)] = sock[Other(p)]
         /\ sw' = [sw EXCEPT ![p] = r] => sw'[p] = r /\ sw'[Other(p)] = sw[Other(p)]
         /\ rcv' = [rcv EXCEPT ![p] = r] => rcv'[p] = r /\ rcv'[Other(p)] = rcv[Other(p)]
BY Zenon, OtherPeer, SockType, SwType, RcvType

\* A packet with a true acknowledgment number is sent.
LEMMA SentAcks ==
  ASSUME TypeOK, AcksTrue, NEW p \in Peers, NEW m, Got(arrived[p], m.ack), Send(p, m)
  PROVE  NetAcks(arrived[p], net'[Other(p)]) /\ NetAcks(arrived[Other(p)], net'[p])
<1> DEFINE q == Other(p)
           app == Append(net[q], m)
<1>1. q \in Peers /\ q # p /\ net \in [Peers -> Seq(Packet)]
  BY Zenon, OtherPeer DEF TypeOK
<1>2. net' = [net EXCEPT ![q] = app]
  BY DEF Send
<1>3. NetAcks(arrived[p], net[q]) /\ NetAcks(arrived[q], net[p])
  BY Zenon, Known
<1>4. \A i \in DOMAIN app : app[i] = m \/ \E j \in DOMAIN net[q] : app[i] = net[q][j]
  BY <1>1, AppendElements
<1> HIDE DEF q, app
<1>5. NetAcks(arrived[p], app)
  BY Zenon, <1>3, <1>4 DEF NetAcks
<1>6. net'[q] = app /\ net'[p] = net[p]
  BY Zenon, <1>1, <1>2
<1> QED
  BY Zenon, <1>3, <1>5, <1>6 DEF q

\* A packet is taken from the network.
LEMMA TakenAcks ==
  ASSUME TypeOK, AcksTrue, NEW p \in Peers, NEW i \in Nat \ {0}, i <= Len(net[p]),
         net' = [net EXCEPT ![p] = RemoveAt(@, i)]
  PROVE  /\ NetAcks(arrived[p], net'[Other(p)]) /\ NetAcks(arrived[Other(p)], net'[p])
         /\ Got(arrived[Other(p)], net[p][i].ack)
<1>1. net[p] \in Seq(Packet) /\ Len(net[p]) \in Nat /\ DOMAIN net[p] = 1 .. Len(net[p])
  BY Zenon, PeerTypes, LenProperties
<1>2. i \in 1 .. Len(net[p])
  BY <1>1
<1> DEFINE left == RemoveAt(net[p], i)
<1>3. \A j \in DOMAIN left : \E k \in DOMAIN net[p] : left[j] = net[p][k]
  BY ZenonT(60), <1>1, <1>2, RemoveAtProperties
<1>4. net'[p] = left /\ net'[Other(p)] = net[Other(p)]
  BY Zenon, OtherPeer DEF TypeOK
<1> HIDE DEF left
<1>5. NetAcks(arrived[p], net[Other(p)]) /\ NetAcks(arrived[Other(p)], net[p])
  BY Zenon, Known
<1>6. NetAcks(arrived[Other(p)], left) /\ Got(arrived[Other(p)], net[p][i].ack)
  BY Zenon, <1>1, <1>2, <1>3, <1>5 DEF NetAcks
<1> QED
  BY Zenon, <1>4, <1>5, <1>6

\* Nothing under way changes.
LEMMA SameNet ==
  ASSUME AcksTrue, NEW p \in Peers, UNCHANGED net
  PROVE  NetAcks(arrived[p], net'[Other(p)]) /\ NetAcks(arrived[Other(p)], net'[p])
BY Zenon, Known

\* A step of p that stores nothing keeps AcksTrue if the new socket, window and
\* receiver are true, and what is on the way.
LEMMA AcksKept ==
  ASSUME TypeOK, AcksTrue, NEW p \in Peers, UNCHANGED arrived, NEW s, NEW w, NEW r,
         NetAcks(arrived[p], net'[Other(p)]), NetAcks(arrived[Other(p)], net'[p]),
         sock' = [sock EXCEPT ![p] = s], SockAcks(arrived[p], arrived[Other(p)], s),
         sw' = [sw EXCEPT ![p] = w], SwAcks(arrived[p], arrived[Other(p)], w),
         rcv' = [rcv EXCEPT ![p] = r], RcvAcks(arrived[Other(p)], r)
  PROVE  AcksTrue'
<1>1. /\ sock'[p] = s /\ sock'[Other(p)] = sock[Other(p)]
      /\ sw'[p] = w /\ sw'[Other(p)] = sw[Other(p)]
      /\ rcv'[p] = r /\ rcv'[Other(p)] = rcv[Other(p)]
  BY ZenonT(60), Updates
<1>2. arrived'[p] = arrived[p] /\ arrived'[Other(p)] = arrived[Other(p)]
  OBVIOUS
<1>3. /\ SockAcks(arrived'[p], arrived'[Other(p)], sock'[p])
      /\ SwAcks(arrived'[p], arrived'[Other(p)], sw'[p])
      /\ NetAcks(arrived'[Other(p)], net'[p]) /\ NetAcks(arrived'[p], net'[Other(p)])
      /\ RcvAcks(arrived'[Other(p)], rcv'[p])
  BY Zenon, <1>1, <1>2
<1> QED
  BY Zenon, <1>1, <1>2, <1>3, AcksFrame

\* Steps of the applications change no acknowledgment number.
LEMMA AcksSame ==
  ASSUME AcksTrue, UNCHANGED <<net, sock, sw, rcv, arrived>>
  PROVE  AcksTrue'
BY DEF AcksTrue, SockAcks, SwAcks, NetAcks, RcvAcks, Got, Other

-----------------------------------------------------------------------------
(* Every step keeps it.                                                    *)

\* A socket or window whose acknowledgment numbers are those of another.
LEMMA SameNumbers ==
  ASSUME NEW A, NEW B, NEW x, NEW y
  PROVE  /\ /\ SockAcks(A, B, x) /\ y.cumReadNXT = x.cumReadNXT
            /\ y.cumWriteUNA = x.cumWriteUNA /\ y.ackChan = x.ackChan
            => SockAcks(A, B, y)
         /\ /\ SwAcks(A, B, x) /\ y.probe = x.probe /\ y.taken = x.taken /\ y.nodes = x.nodes
            => SwAcks(A, B, y)
BY DEF SockAcks, SwAcks

\* Nothing is acknowledged by 0.
LEMMA GotNone ==
  ASSUME NEW A
  PROVE  Got(A, NoAck.ack) /\ Got(A, NoPacket.ack)
BY DEF Got, NoAck, NoPacket

\* A new window carries the current cumReadNXT.
LEMMA WindowAtAcks ==
  ASSUME AcksTrue, NEW p \in Peers, NEW seq, NEW payload, NEW una, NEW cws, NEW dist
  PROVE  SwAcks(arrived[p], arrived[Other(p)], WindowAt(p, seq, payload, una, cws, dist))
<1> DEFINE n == Least(Least(MSS, Len(payload)), cws)
           node == [pkt |-> Segment(p, seq, SubSeq(payload, 1, n)),
                    exp |-> dist + una + n, idx |-> 0, sent |-> FALSE]
           rest == SubSeq(payload, n + 1, Len(payload))
           w == WindowAt(p, seq, payload, una, cws, dist)
           len == Len(payload)
<1>1. node.pkt.ack = sock[p].cumReadNXT
  BY DEF Segment
<1>2. w = IF payload = <<>> THEN [NoWindow EXCEPT !.pc = "end"]
          ELSE [NoWindow EXCEPT !.pc = "loop", !.size = len, !.toSend = n, !.tailLen = n,
                                !.rest = rest, !.nodes = <<node>>]
  BY DEF WindowAt
<1> HIDE DEF n, node, rest, w, len
<1>3. w.probe = NoPacket /\ w.taken = NoAck /\ w.nodes \in {<<>>, <<node>>}
  BY Zenon, <1>2 DEF NoWindow
<1>4. \A i \in DOMAIN w.nodes : w.nodes[i].pkt.ack = sock[p].cumReadNXT
  BY <1>1, <1>3
<1>5. Got(arrived[p], sock[p].cumReadNXT)
  BY Zenon, Known DEF SockAcks
<1>6. SwAcks(arrived[p], arrived[Other(p)], w)
  BY Zenon, <1>3, <1>4, <1>5, GotNone DEF SwAcks
<1> QED
  BY Zenon, <1>6 DEF w

\* The new window carries cumReadNXT.
LEMMA HandoffAcks ==
  ASSUME TypeOK, AcksTrue, NEW p \in Peers, Handoff(p)
  PROVE  AcksTrue'
<1> DEFINE s == [sock[p] EXCEPT !.ticker = FALSE]
<1>1. /\ UNCHANGED <<net, rcv, arrived>>
      /\ \/ UNCHANGED <<sw, sock>>
         \/ /\ \E seq, payload, una, cws, dist :
                  sw' = [sw EXCEPT ![p] = WindowAt(p, seq, payload, una, cws, dist)]
            /\ sock' = [sock EXCEPT ![p] = s]
  BY DEF Handoff, OpenWindow
<1>2. SockAcks(arrived[p], arrived[Other(p)], s)
  <2>1. /\ s.cumReadNXT = sock[p].cumReadNXT /\ s.cumWriteUNA = sock[p].cumWriteUNA
        /\ s.ackChan = sock[p].ackChan
    BY Zenon, SockType DEF NormalSocket
  <2> HIDE DEF s
  <2> QED
    BY Zenon, <2>1, Known, SameNumbers
<1> HIDE DEF s
<1>3. CASE UNCHANGED <<sw, sock>>
  BY Zenon, <1>1, <1>3, AcksSame
<1>4. CASE ~UNCHANGED <<sw, sock>>
  <2>1. PICK seq, payload, una, cws, dist :
           sw' = [sw EXCEPT ![p] = WindowAt(p, seq, payload, una, cws, dist)]
    BY Zenon, <1>1, <1>4
  <2>2. /\ sock' = [sock EXCEPT ![p] = s] /\ rcv' = [rcv EXCEPT ![p] = rcv[p]]
    BY Zenon, <1>1, <1>4, NoUpdate
  <2>3. SwAcks(arrived[p], arrived[Other(p)], WindowAt(p, seq, payload, una, cws, dist))
    BY Zenon, WindowAtAcks
  <2>4. RcvAcks(arrived[Other(p)], rcv[p])
    BY Zenon, Known
  <2>5. NetAcks(arrived[p], net'[Other(p)]) /\ NetAcks(arrived[Other(p)], net'[p])
    BY Zenon, <1>1, SameNet
  <2> QED
    BY ZenonT(60), <1>1, <1>2, <2>1, <2>2, <2>3, <2>4, <2>5, AcksKept
<1> QED
  BY Zenon, <1>3, <1>4

\* A packet built by p carries p's cumReadNXT.
LEMMA SegmentAcks ==
  ASSUME AcksTrue, NEW p \in Peers, NEW seq, NEW data
  PROVE  Got(arrived[p], Segment(p, seq, data).ack)
BY Zenon, Known DEF Segment, SockAcks

\* Expecting a number changes no acknowledgment number.
LEMMA ExpectAcks ==
  ASSUME TypeOK, AcksTrue, NEW p \in Peers, NEW n
  PROVE  SockAcks(arrived[p], arrived[Other(p)], Expect(sock[p], n))
<1> DEFINE s == Expect(sock[p], n)
<1>1. /\ s.cumReadNXT = sock[p].cumReadNXT /\ s.cumWriteUNA = sock[p].cumWriteUNA
      /\ s.ackChan = sock[p].ackChan
  BY Zenon, SockType DEF Expect, NormalSocket
<1> HIDE DEF s
<1>2. SockAcks(arrived[p], arrived[Other(p)], s)
  BY Zenon, <1>1, Known, SameNumbers
<1> QED
  BY Zenon, <1>2 DEF s

\* The probe carries cumReadNXT.
LEMMA SendProbeAcks ==
  ASSUME TypeOK, AcksTrue, NEW p \in Peers, SendProbe(p)
  PROVE  AcksTrue'
<1> DEFINE exp == ((wb[p].NXT + 1 - wb[p].UNA) % W) + sock[p].cumWriteUNA
           m == Segment(p, exp - 1, <<wb[p].buf[wb[p].UNA]>>)
           w == [sw[p] EXCEPT !.pc = "probe", !.exp = exp, !.probe = m]
<1>1. /\ sock' = [sock EXCEPT ![p] = Expect(sock[p], exp)]
      /\ sw' = [sw EXCEPT ![p] = w]
      /\ Send(p, m)
      /\ UNCHANGED <<rcv, arrived>>
  BY ZenonT(60), SwType DEF SendProbe
<1> HIDE DEF exp
<1>2. Got(arrived[p], m.ack)
  BY Zenon, SegmentAcks
<1> HIDE DEF m
<1>3. w.probe = m /\ w.taken = sw[p].taken /\ w.nodes = sw[p].nodes
  BY Zenon, SwType DEF Window
<1> HIDE DEF w
<1>4. SwAcks(arrived[p], arrived[Other(p)], w)
  BY Zenon, <1>2, <1>3, Known DEF SwAcks
<1>5. rcv' = [rcv EXCEPT ![p] = rcv[p]] /\ RcvAcks(arrived[Other(p)], rcv[p])
  BY Zenon, <1>1, NoUpdate, Known
<1>6. NetAcks(arrived[p], net'[Other(p)]) /\ NetAcks(arrived[Other(p)], net'[p])
  BY Zenon, <1>1, <1>2, SentAcks
<1> QED
  BY ZenonT(60), <1>1, <1>4, <1>5, <1>6, ExpectAcks, AcksKept

\* The numbers left when the head of ackChan is taken.
LEMMA AckChanAcks ==
  ASSUME TypeOK, AcksTrue, NEW p \in Peers, sock[p].ackChan # <<>>
  PROVE  /\ Got(arrived[Other(p)], Head(sock[p].ackChan).ack)
         /\ \A i \in DOMAIN Tail(sock[p].ackChan) :
              Got(arrived[Other(p)], Tail(sock[p].ackChan)[i].ack)
<1> DEFINE c == sock[p].ackChan
           t == Tail(c)
<1>1. c \in Seq(Ack) /\ c # <<>> /\ \A i \in DOMAIN c : Got(arrived[Other(p)], c[i].ack)
  BY Zenon, SocketFields, Known DEF SockAcks
<1> HIDE DEF c
<1>2. Len(c) \in Nat /\ Len(c) > 0 /\ DOMAIN c = 1 .. Len(c)
  BY <1>1, LenProperties, EmptySeq
<1>3. /\ t \in Seq(Ack) /\ Len(t) = Len(c) - 1
      /\ \A i \in 1 .. Len(c) - 1 : t[i] = c[i + 1]
  BY Zenon, <1>1, <1>2, HeadTailProperties, ElementOfSeq
<1>4. DOMAIN t = 1 .. Len(c) - 1
  BY Zenon, <1>3, LenProperties
<1> HIDE DEF t
<1>5. \A i \in 1 .. Len(c) - 1 : i + 1 \in 1 .. Len(c)
  BY <1>2
<1>6. \A i \in DOMAIN t : Got(arrived[Other(p)], t[i].ack)
  BY Zenon, <1>1, <1>2, <1>3, <1>4, <1>5
<1>7. 1 \in DOMAIN c /\ Head(c) = c[1]
  BY <1>1, <1>2
<1> QED
  BY Zenon, <1>1, <1>6, <1>7 DEF c, t

\* Cutting the probed byte changes no acknowledgment number.
LEMMA CutAcks ==
  ASSUME TypeOK, NEW p \in Peers, NEW i \in DOMAIN WithoutProbed(sw[p].nodes)
  PROVE  i \in DOMAIN sw[p].nodes /\ WithoutProbed(sw[p].nodes)[i].pkt.ack = sw[p].nodes[i].pkt.ack
<1>1. i \in DOMAIN sw[p].nodes
  BY DEF WithoutProbed
<1>2. sw[p].nodes[i] \in WindowNode
  BY Zenon, <1>1, WindowFields, ElementOfSeq, LenProperties
<1> DEFINE n == sw[p].nodes[i]
           t == Tail(n.pkt.data)
<1>3. WithoutProbed(sw[p].nodes)[i] \in {n, [n EXCEPT !.pkt.data = t]}
  BY Zenon, <1>1 DEF WithoutProbed
<1> HIDE DEF t, n
<1>4. [n EXCEPT !.pkt.data = t].pkt.ack = n.pkt.ack
  BY Zenon, <1>2 DEF n, WindowNode, Packet
<1> QED
  BY ZenonT(60), <1>1, <1>3, <1>4 DEF n

\* cumWriteUNA follows an acknowledgment taken from ackChan.
LEMMA ProbeAckAcks ==
  ASSUME TypeOK, AcksTrue, NEW p \in Peers, ProbeAck(p)
  PROVE  AcksTrue'
<1> DEFINE A == arrived[p]
           B == arrived[Other(p)]
           m == Head(sock[p].ackChan)
           nxt == [sock[p] EXCEPT !.ackChan = Tail(@)]
           opened == [nxt EXCEPT !.ClientWindowSize = m.win, !.cumWriteUNA = m.ack]
           again == [opened EXCEPT !.ticker = FALSE, !.packetDone = Busy(p)]
           cut == WithoutProbed(sw[p].nodes)
           w == [sw[p] EXCEPT !.pc = "normal", !.skip = TRUE, !.sent = sw[p].sent + 1,
                              !.tailLen = sw[p].tailLen - 1, !.nodes = cut]
           Restarts == /\ \E seq, payload, una, cws, dist :
                            sw' = [sw EXCEPT ![p] = WindowAt(p, seq, payload, una, cws, dist)]
                       /\ sock' = [sock EXCEPT ![p] = again]
           Cuts == sw' = [sw EXCEPT ![p] = w] /\ sock' = [sock EXCEPT ![p] = opened]
           Drops == UNCHANGED sw /\ sock' = [sock EXCEPT ![p] = nxt]
<1>1. /\ sock[p].ackChan # <<>>
      /\ Restarts \/ Cuts \/ Drops
      /\ UNCHANGED <<net, rcv, arrived>>
  BY DEF ProbeAck, OpenWindow
<1>2. Got(B, m.ack) /\ \A i \in DOMAIN Tail(sock[p].ackChan) : Got(B, Tail(sock[p].ackChan)[i].ack)
  BY Zenon, <1>1, AckChanAcks
<1>3. Got(A, sock[p].cumReadNXT) /\ Got(B, sock[p].cumWriteUNA)
  BY Zenon, Known DEF SockAcks
<1>4. /\ nxt.cumReadNXT = sock[p].cumReadNXT /\ nxt.cumWriteUNA = sock[p].cumWriteUNA
      /\ nxt.ackChan = Tail(sock[p].ackChan) /\ nxt \in NormalSocket
  BY ZenonT(60), <1>1, SockType, AckChanTypes DEF NormalSocket
<1> HIDE DEF m, nxt
<1>5. /\ opened.cumReadNXT = sock[p].cumReadNXT /\ opened.cumWriteUNA = m.ack
      /\ opened.ackChan = Tail(sock[p].ackChan)
      /\ again.cumReadNXT = sock[p].cumReadNXT /\ again.cumWriteUNA = m.ack
      /\ again.ackChan = Tail(sock[p].ackChan)
  BY Zenon, <1>4 DEF NormalSocket
<1> HIDE DEF opened, again
<1>6. SockAcks(A, B, nxt) /\ SockAcks(A, B, opened) /\ SockAcks(A, B, again)
  BY Zenon, <1>2, <1>3, <1>4, <1>5 DEF SockAcks
<1>7. SwAcks(A, B, w)
  <2>1. w.probe = sw[p].probe /\ w.taken = sw[p].taken /\ w.nodes = cut
    BY Zenon, SwType DEF Window
  <2> HIDE DEF w
  <2>2. \A i \in DOMAIN cut : i \in DOMAIN sw[p].nodes /\ cut[i].pkt.ack = sw[p].nodes[i].pkt.ack
    BY Zenon, CutAcks
  <2> HIDE DEF cut
  <2> QED
    BY Zenon, <2>1, <2>2, Known DEF SwAcks
<1> HIDE DEF w
<1>8. /\ rcv' = [rcv EXCEPT ![p] = rcv[p]] /\ RcvAcks(B, rcv[p])
      /\ NetAcks(A, net'[Other(p)]) /\ NetAcks(B, net'[p])
  BY Zenon, <1>1, NoUpdate, SameNet, Known
<1>9. CASE Restarts
  <2>1. PICK seq, payload, una, cws, dist :
           sw' = [sw EXCEPT ![p] = WindowAt(p, seq, payload, una, cws, dist)]
    BY ZenonT(60), <1>9
  <2>2. SwAcks(A, B, WindowAt(p, seq, payload, una, cws, dist))
    BY Zenon, WindowAtAcks
  <2> QED
    BY ZenonT(60), <1>1, <1>6, <1>8, <1>9, <2>1, <2>2, AcksKept
<1>10. CASE Cuts
  BY ZenonT(60), <1>1, <1>6, <1>7, <1>8, <1>10, AcksKept
<1>11. CASE Drops
  <2>1. sw' = [sw EXCEPT ![p] = sw[p]] /\ SwAcks(A, B, sw[p])
    BY Zenon, <1>11, NoUpdate, Known
  <2> QED
    BY ZenonT(60), <1>1, <1>6, <1>8, <1>11, <2>1, AcksKept
<1> QED
  BY Zenon, <1>1, <1>9, <1>10, <1>11

\* The tail of the window is put on the network with the number it was built with.
LEMMA SendTailAcks ==
  ASSUME TypeOK, AcksTrue, NEW p \in Peers, SendTail(p)
  PROVE  AcksTrue'
<1> DEFINE s == sw[p]
           exp == ((((wb[p].NXT + s.toSend) % W) - wb[p].UNA) % W) + sock[p].cumWriteUNA
           tail == Len(s.nodes)
           nodes == [s.nodes EXCEPT ![tail] = [s.nodes[tail] EXCEPT !.sent = TRUE]]
           w == [s EXCEPT !.pc = "sent", !.exp = exp, !.nodes = nodes]
<1>1. /\ s.nodes # <<>>
      /\ sock' = [sock EXCEPT ![p] = Expect(sock[p], exp)]
      /\ Send(p, Last(s.nodes).pkt)
      /\ UNCHANGED <<rcv, arrived>>
  BY DEF SendTail
<1>2. sw' = [sw EXCEPT ![p] = w]
  BY ZenonT(60), SwType DEF SendTail
<1> HIDE DEF exp
<1>3. s.nodes \in Seq(WindowNode) /\ \A i \in DOMAIN s.nodes : Got(arrived[p], s.nodes[i].pkt.ack)
  BY Zenon, WindowFields, Known DEF SwAcks
<1>4. tail \in DOMAIN s.nodes /\ Last(s.nodes) = s.nodes[tail] /\ s.nodes[tail] \in WindowNode
  BY Zenon, <1>1, <1>3, TailType
<1>5. \A i \in DOMAIN nodes : i \in DOMAIN s.nodes /\ nodes[i].pkt = s.nodes[i].pkt
  BY Zenon, <1>4 DEF WindowNode
<1> HIDE DEF nodes
<1>6. w.probe = s.probe /\ w.taken = s.taken /\ w.nodes = nodes
  BY Zenon, SwType DEF Window
<1> HIDE DEF w
<1>7. SwAcks(arrived[p], arrived[Other(p)], w)
  BY Zenon, <1>3, <1>5, <1>6, Known DEF SwAcks
<1>8. Got(arrived[p], Last(s.nodes).pkt.ack)
  BY Zenon, <1>3, <1>4
<1>9. NetAcks(arrived[p], net'[Other(p)]) /\ NetAcks(arrived[Other(p)], net'[p])
  BY Zenon, <1>1, <1>8, SentAcks
<1>10. rcv' = [rcv EXCEPT ![p] = rcv[p]] /\ RcvAcks(arrived[Other(p)], rcv[p])
  BY Zenon, <1>1, NoUpdate, Known
<1> QED
  BY ZenonT(60), <1>1, <1>2, <1>7, <1>9, <1>10, ExpectAcks, AcksKept

\* The next segment carries cumReadNXT.
LEMMA AfterSendAcks ==
  ASSUME TypeOK, AcksTrue, NEW p \in Peers, AfterSend(p)
  PROVE  AcksTrue'
<1> DEFINE s == sw[p]
           tail == Last(s.nodes)
           cws == Predicted(p, Len(tail.pkt.data))
           n == Least(Least(MSS, s.size - MSS * tail.idx), Len(s.rest))
           pkt == Segment(p, s.exp, SubSeq(s.rest, 1, n))
           node == [pkt |-> pkt, exp |-> s.exp + n, idx |-> tail.idx + 1, sent |-> FALSE]
           nodes == IF n > 0 THEN Append(s.nodes, node) ELSE s.nodes
           rest == IF n > 0 THEN SubSeq(s.rest, n + 1, Len(s.rest)) ELSE s.rest
           skip == s.skip /\ cws # 0
           w == [s EXCEPT !.pc = "acks", !.first = FALSE, !.toSend = n, !.skip = skip,
                          !.nodes = nodes, !.rest = rest]
           on == sock[p].ticker \/ s.first
           t == [sock[p] EXCEPT !.ClientWindowSize = cws, !.ticker = on]
<1>1. sw' = [sw EXCEPT ![p] = w] /\ UNCHANGED <<net, rcv, arrived>>
  BY DEF AfterSend
<1>2. sock' = [sock EXCEPT ![p] = t]
  BY ZenonT(60), SockType DEF AfterSend
<1>3. SockAcks(arrived[p], arrived[Other(p)], t)
  <2> HIDE DEF cws, on
  <2>1. /\ t.cumReadNXT = sock[p].cumReadNXT /\ t.cumWriteUNA = sock[p].cumWriteUNA
        /\ t.ackChan = sock[p].ackChan
    BY Zenon, SockType DEF NormalSocket
  <2> HIDE DEF t
  <2> QED
    BY Zenon, <2>1, Known, SameNumbers
<1> HIDE DEF t
<1>4. Got(arrived[p], pkt.ack)
  BY Zenon, SegmentAcks
<1> HIDE DEF pkt
<1>5. node.pkt = pkt
  OBVIOUS
<1> HIDE DEF node, n
<1>6. s.nodes \in Seq(WindowNode) /\ \A i \in DOMAIN s.nodes : Got(arrived[p], s.nodes[i].pkt.ack)
  BY Zenon, WindowFields, Known DEF SwAcks
<1>7. \A i \in DOMAIN nodes : nodes[i] = node \/ \E j \in DOMAIN s.nodes : nodes[i] = s.nodes[j]
  <2> DEFINE app == Append(s.nodes, node)
  <2>1. \A i \in DOMAIN app : app[i] = node \/ \E j \in DOMAIN s.nodes : app[i] = s.nodes[j]
    BY <1>6, AppendElements
  <2>2. nodes = app \/ nodes = s.nodes
    OBVIOUS
  <2> HIDE DEF nodes, app
  <2> QED
    BY Zenon, <2>1, <2>2
<1> HIDE DEF nodes
<1>8. \A i \in DOMAIN nodes : Got(arrived[p], nodes[i].pkt.ack)
  BY Zenon, <1>4, <1>5, <1>6, <1>7
<1> HIDE DEF rest, skip
<1>9. w.probe = s.probe /\ w.taken = s.taken /\ w.nodes = nodes
  BY Zenon, SwType DEF Window
<1> HIDE DEF w
<1>10. SwAcks(arrived[p], arrived[Other(p)], w)
  BY Zenon, <1>8, <1>9, Known DEF SwAcks
<1>11. /\ rcv' = [rcv EXCEPT ![p] = rcv[p]] /\ RcvAcks(arrived[Other(p)], rcv[p])
       /\ NetAcks(arrived[p], net'[Other(p)]) /\ NetAcks(arrived[Other(p)], net'[p])
  BY Zenon, <1>1, NoUpdate, SameNet, Known
<1> QED
  BY ZenonT(60), <1>1, <1>2, <1>3, <1>10, <1>11, AcksKept

\* A round of the sending loop begins or ends.
LEMMA RoundAcks ==
  ASSUME TypeOK, AcksTrue, NEW p \in Peers, SkipSend(p) \/ EndRound(p)
  PROVE  AcksTrue'
<1> DEFINE skip == sw[p].skip /\ sock[p].ClientWindowSize # 0
           pc == IF sw[p].sent < sw[p].size THEN "loop" ELSE "end"
           v == [sw[p] EXCEPT !.pc = "acks", !.skip = skip]
           w == [sw[p] EXCEPT !.pc = pc]
<1>1. UNCHANGED <<net, sock, rcv, arrived>>
  BY DEF SkipSend, EndRound
<1>2. sw' = [sw EXCEPT ![p] = v] \/ sw' = [sw EXCEPT ![p] = w]
  BY ZenonT(60), SwType DEF SkipSend, EndRound
<1> HIDE DEF skip, pc
<1>3. /\ v.probe = sw[p].probe /\ v.taken = sw[p].taken /\ v.nodes = sw[p].nodes
      /\ w.probe = sw[p].probe /\ w.taken = sw[p].taken /\ w.nodes = sw[p].nodes
  BY Zenon, SwType DEF Window
<1> HIDE DEF v, w
<1>4. SwAcks(arrived[p], arrived[Other(p)], v) /\ SwAcks(arrived[p], arrived[Other(p)], w)
  BY Zenon, <1>3, Known, SameNumbers
<1>5. /\ rcv' = [rcv EXCEPT ![p] = rcv[p]] /\ RcvAcks(arrived[Other(p)], rcv[p])
      /\ sock' = [sock EXCEPT ![p] = sock[p]] /\ SockAcks(arrived[p], arrived[Other(p)], sock[p])
      /\ NetAcks(arrived[p], net'[Other(p)]) /\ NetAcks(arrived[Other(p)], net'[p])
  BY Zenon, <1>1, NoUpdate, SameNet, Known
<1> QED
  BY ZenonT(60), <1>1, <1>2, <1>4, <1>5, AcksKept

\* An acknowledgment moves from ackChan to slidingWindow.
LEMMA PopAckAcks ==
  ASSUME TypeOK, AcksTrue, NEW p \in Peers, PopAck(p)
  PROVE  AcksTrue'
<1> DEFINE B == arrived[Other(p)]
           m == Head(sock[p].ackChan)
           w == [sw[p] EXCEPT !.pc = "ack", !.taken = m]
           nxt == [sock[p] EXCEPT !.ackChan = Tail(@)]
<1>1. /\ sock[p].ackChan # <<>>
      /\ sock' = [sock EXCEPT ![p] = nxt]
      /\ UNCHANGED <<net, rcv, arrived>>
  BY DEF PopAck
<1>2. sw' = [sw EXCEPT ![p] = w]
  BY ZenonT(60), SwType DEF PopAck
<1>3. Got(B, m.ack) /\ \A i \in DOMAIN Tail(sock[p].ackChan) : Got(B, Tail(sock[p].ackChan)[i].ack)
  BY Zenon, <1>1, AckChanAcks
<1>4. /\ nxt.cumReadNXT = sock[p].cumReadNXT /\ nxt.cumWriteUNA = sock[p].cumWriteUNA
      /\ nxt.ackChan = Tail(sock[p].ackChan)
  BY Zenon, SockType DEF NormalSocket
<1> HIDE DEF m, nxt
<1>5. SockAcks(arrived[p], B, nxt)
  BY Zenon, <1>3, <1>4, Known DEF SockAcks
<1>6. w.probe = sw[p].probe /\ w.taken = m /\ w.nodes = sw[p].nodes
  BY Zenon, SwType DEF Window
<1> HIDE DEF w
<1>7. SwAcks(arrived[p], B, w)
  BY Zenon, <1>3, <1>6, Known DEF SwAcks
<1>8. /\ rcv' = [rcv EXCEPT ![p] = rcv[p]] /\ RcvAcks(B, rcv[p])
      /\ NetAcks(arrived[p], net'[Other(p)]) /\ NetAcks(B, net'[p])
  BY Zenon, <1>1, NoUpdate, SameNet, Known
<1> QED
  BY ZenonT(60), <1>1, <1>2, <1>5, <1>7, <1>8, AcksKept

\* cumWriteUNA moves to the acknowledgment taken, the head of the window is dropped.
LEMMA TakeAckAcks ==
  ASSUME TypeOK, AcksTrue, NEW p \in Peers, TakeAck(p)
  PROVE  AcksTrue'
<1> DEFINE A == arrived[p]
           B == arrived[Other(p)]
           m == sw[p].taken
           back == [sw[p] EXCEPT !.pc = "acks", !.taken = NoAck]
           counted == [sock[p] EXCEPT !.seenAcks = @ \cup {m.ack}, !.ClientWindowSize = m.win]
           locked == [sock[p] EXCEPT !.unackedMtx = "sender"]
           moved == [counted EXCEPT !.cumWriteUNA = m.ack]
           sent == back.sent + (m.ack - sock[p].cumWriteUNA)
           nodes == Unacked(back.nodes, m.ack)
           w == [back EXCEPT !.sent = sent, !.nodes = nodes]
<1>1. UNCHANGED <<net, rcv, arrived>>
  BY DEF TakeAck
<1>2. \/ sock' = [sock EXCEPT ![p] = locked] /\ sw' = [sw EXCEPT ![p] = back]
      \/ sock' = [sock EXCEPT ![p] = moved] /\ sw' = [sw EXCEPT ![p] = w]
      \/ sock' = [sock EXCEPT ![p] = counted] /\ sw' = [sw EXCEPT ![p] = back]
  BY DEF TakeAck
<1>3. Got(B, m.ack) /\ m.ack \in Nat
  BY Zenon, Known, WindowFields DEF SwAcks, Ack
<1>4. back.probe = sw[p].probe /\ back.taken = NoAck /\ back.nodes = sw[p].nodes /\ DOMAIN back = DOMAIN sw[p]
  BY Zenon, SwType DEF Window
<1>5. /\ locked.cumReadNXT = sock[p].cumReadNXT /\ locked.cumWriteUNA = sock[p].cumWriteUNA
      /\ locked.ackChan = sock[p].ackChan
      /\ counted.cumReadNXT = sock[p].cumReadNXT /\ counted.cumWriteUNA = sock[p].cumWriteUNA
      /\ counted.ackChan = sock[p].ackChan
  BY Zenon, SockType DEF NormalSocket
<1>6. /\ moved.cumReadNXT = sock[p].cumReadNXT /\ moved.cumWriteUNA = m.ack
      /\ moved.ackChan = sock[p].ackChan
  BY Zenon, SockType DEF NormalSocket
<1> HIDE DEF m, locked, counted, moved
<1>7. SockAcks(A, B, locked) /\ SockAcks(A, B, counted) /\ SockAcks(A, B, moved)
  BY Zenon, <1>3, <1>5, <1>6, Known DEF SockAcks
<1>8. \A j \in DOMAIN nodes : \E k \in DOMAIN sw[p].nodes : nodes[j] = sw[p].nodes[k]
  BY <1>3, <1>4, WindowFields, UnackedProperties
<1> HIDE DEF nodes, sent
<1>9. w.probe = sw[p].probe /\ w.taken = NoAck /\ w.nodes = nodes
  BY Zenon, <1>4, SwType DEF Window
<1> HIDE DEF w, back
<1>10. SwAcks(A, B, back) /\ SwAcks(A, B, w)
  BY Zenon, <1>4, <1>8, <1>9, Known, GotNone DEF SwAcks
<1>11. /\ rcv' = [rcv EXCEPT ![p] = rcv[p]] /\ RcvAcks(B, rcv[p])
       /\ NetAcks(A, net'[Other(p)]) /\ NetAcks(B, net'[p])
  BY Zenon, <1>1, NoUpdate, SameNet, Known
<1> QED
  BY ZenonT(60), <1>1, <1>2, <1>7, <1>10, <1>11, AcksKept

\* slidingWindow returns.
LEMMA ReturnAcks ==
  ASSUME TypeOK, AcksTrue, NEW p \in Peers, Return(p)
  PROVE  AcksTrue'
<1> DEFINE s == [sock[p] EXCEPT !.packetDone = Busy(p)]
<1>1. /\ sw' = [sw EXCEPT ![p] = NoWindow] /\ sock' = [sock EXCEPT ![p] = s]
      /\ UNCHANGED <<net, rcv, arrived>>
  BY DEF Return
<1>2. /\ s.cumReadNXT = sock[p].cumReadNXT /\ s.cumWriteUNA = sock[p].cumWriteUNA
      /\ s.ackChan = sock[p].ackChan
  BY Zenon, SockType DEF NormalSocket
<1> HIDE DEF s
<1>3. SockAcks(arrived[p], arrived[Other(p)], s)
  BY Zenon, <1>2, Known, SameNumbers
<1>4. NoWindow.probe = NoPacket /\ NoWindow.taken = NoAck /\ DOMAIN NoWindow.nodes = {}
  BY DEF NoWindow
<1>5. SwAcks(arrived[p], arrived[Other(p)], NoWindow)
  BY Zenon, <1>4, GotNone DEF SwAcks
<1>6. /\ rcv' = [rcv EXCEPT ![p] = rcv[p]] /\ RcvAcks(arrived[Other(p)], rcv[p])
      /\ NetAcks(arrived[p], net'[Other(p)]) /\ NetAcks(arrived[Other(p)], net'[p])
  BY Zenon, <1>1, NoUpdate, SameNet, Known
<1> QED
  BY ZenonT(60), <1>1, <1>3, <1>5, <1>6, AcksKept

\* The segment sent again carries the present cumReadNXT.
LEMMA RetransmitAcks ==
  ASSUME TypeOK, AcksTrue, NEW p \in Peers, Retransmit(p)
  PROVE  AcksTrue'
<1> DEFINE s == sw[p]
           m == Segment(p, s.nodes[1].pkt.seq, s.nodes[1].pkt.data)
           node == [s.nodes[1] EXCEPT !.pkt = m]
           nodes == [s.nodes EXCEPT ![1] = node]
           w == [s EXCEPT !.nodes = nodes]
           t == [sock[p] EXCEPT !.ticker = FALSE]
           Resends == s.nodes # <<>> /\ sw' = [sw EXCEPT ![p] = w] /\ Send(p, m)
<1>1. /\ Resends \/ UNCHANGED <<sw, net>>
      /\ sock' = [sock EXCEPT ![p] = t]
      /\ UNCHANGED <<rcv, arrived>>
  BY Zenon DEF Retransmit
<1>2. /\ t.cumReadNXT = sock[p].cumReadNXT /\ t.cumWriteUNA = sock[p].cumWriteUNA
      /\ t.ackChan = sock[p].ackChan
  BY Zenon, SockType DEF NormalSocket
<1> HIDE DEF t
<1>3. SockAcks(arrived[p], arrived[Other(p)], t)
  BY Zenon, <1>2, Known, SameNumbers
<1>4. rcv' = [rcv EXCEPT ![p] = rcv[p]] /\ RcvAcks(arrived[Other(p)], rcv[p])
  BY Zenon, <1>1, NoUpdate, Known
<1>5. CASE Resends
  <2>1. Got(arrived[p], m.ack)
    BY Zenon, SegmentAcks
  <2> HIDE DEF m
  <2>2. s.nodes \in Seq(WindowNode)
    BY Zenon, WindowFields
  <2>3. 1 \in DOMAIN s.nodes
    BY <1>5, <2>2, LenProperties, EmptySeq
  <2>4. s.nodes[1] \in WindowNode
    BY Zenon, <2>2, <2>3, ElementOfSeq, LenProperties
  <2>5. node.pkt = m
    BY Zenon, <2>4 DEF WindowNode
  <2> HIDE DEF node
  <2>6. \A i \in DOMAIN nodes : i \in DOMAIN s.nodes /\ (nodes[i] = node \/ nodes[i] = s.nodes[i])
    OBVIOUS
  <2> HIDE DEF nodes
  <2>7. w.probe = s.probe /\ w.taken = s.taken /\ w.nodes = nodes
    BY Zenon, SwType DEF Window
  <2> HIDE DEF w
  <2>8. SwAcks(arrived[p], arrived[Other(p)], w)
    BY Zenon, <2>1, <2>5, <2>6, <2>7, Known DEF SwAcks
  <2>9. NetAcks(arrived[p], net'[Other(p)]) /\ NetAcks(arrived[Other(p)], net'[p])
    BY Zenon, <1>5, <2>1, SentAcks
  <2> QED
    BY ZenonT(60), <1>1, <1>3, <1>4, <1>5, <2>8, <2>9, AcksKept
<1>6. CASE UNCHANGED <<sw, net>>
  <2>1. /\ sw' = [sw EXCEPT ![p] = sw[p]] /\ SwAcks(arrived[p], arrived[Other(p)], sw[p])
        /\ NetAcks(arrived[p], net'[Other(p)]) /\ NetAcks(arrived[Other(p)], net'[p])
    BY Zenon, <1>6, NoUpdate, SameNet, Known
  <2> QED
    BY ZenonT(60), <1>1, <1>3, <1>4, <2>1, AcksKept
<1> QED
  BY Zenon, <1>1, <1>5, <1>6

\* retransThread's own steps change no acknowledgment number.
LEMMA ThreadAcks ==
  ASSUME TypeOK, AcksTrue, NEW p \in Peers, NEW t \in Threads, ThreadStep(p, t)
  PROVE  AcksTrue'
<1> DEFINE x == [sock[p] EXCEPT !.ticker = TRUE]
           y == [sock[p] EXCEPT !.packetDone = FALSE]
<1>1. /\ UNCHANGED <<net, sw, rcv, arrived>>
      /\ sock' = [sock EXCEPT ![p] = x] \/ sock' = [sock EXCEPT ![p] = y]
  BY DEF ThreadStep, ResetTicker, TakeDone
<1>2. /\ x.cumReadNXT = sock[p].cumReadNXT /\ x.cumWriteUNA = sock[p].cumWriteUNA
      /\ x.ackChan = sock[p].ackChan
      /\ y.cumReadNXT = sock[p].cumReadNXT /\ y.cumWriteUNA = sock[p].cumWriteUNA
      /\ y.ackChan = sock[p].ackChan
  BY Zenon, SockType DEF NormalSocket
<1> HIDE DEF x, y
<1>3. SockAcks(arrived[p], arrived[Other(p)], x) /\ SockAcks(arrived[p], arrived[Other(p)], y)
  BY Zenon, <1>2, Known, SameNumbers
<1>4. /\ rcv' = [rcv EXCEPT ![p] = rcv[p]] /\ RcvAcks(arrived[Other(p)], rcv[p])
      /\ sw' = [sw EXCEPT ![p] = sw[p]] /\ SwAcks(arrived[p], arrived[Other(p)], sw[p])
      /\ NetAcks(arrived[p], net'[Other(p)]) /\ NetAcks(arrived[Other(p)], net'[p])
  BY Zenon, <1>1, NoUpdate, SameNet, Known
<1> QED
  BY ZenonT(60), <1>1, <1>3, <1>4, AcksKept

\* The probe is sent again with the number it was built with.
LEMMA ProbeAgainAcks ==
  ASSUME TypeOK, AcksTrue, NEW p \in Peers, ProbeAgain(p)
  PROVE  AcksTrue'
<1>1. Send(p, sw[p].probe) /\ UNCHANGED <<sock, sw, rcv, arrived>>
  BY DEF ProbeAgain
<1>2. Got(arrived[p], sw[p].probe.ack)
  BY Zenon, Known DEF SwAcks
<1>3. NetAcks(arrived[p], net'[Other(p)]) /\ NetAcks(arrived[Other(p)], net'[p])
  BY Zenon, <1>1, <1>2, SentAcks
<1>4. /\ rcv' = [rcv EXCEPT ![p] = rcv[p]] /\ RcvAcks(arrived[Other(p)], rcv[p])
      /\ sw' = [sw EXCEPT ![p] = sw[p]] /\ SwAcks(arrived[p], arrived[Other(p)], sw[p])
      /\ sock' = [sock EXCEPT ![p] = sock[p]] /\ SockAcks(arrived[p], arrived[Other(p)], sock[p])
  BY Zenon, <1>1, NoUpdate, Known
<1> QED
  BY ZenonT(60), <1>1, <1>3, <1>4, AcksKept

-----------------------------------------------------------------------------
(* The steps of ReceiverThread, the network and the applications.          *)

\* An acknowledgment moves from the network to ackChan or stays with ReceiverThread.
LEMMA ReceiveAckAcks ==
  ASSUME TypeOK, AcksTrue, NEW p \in Peers, NEW i \in Nat \ {0}, ReceiveAck(p, i)
  PROVE  AcksTrue'
<1> DEFINE A == arrived[p]
           B == arrived[Other(p)]
           m == net[p][i]
           e == [ack |-> m.ack, win |-> m.win]
           chan == Append(sock[p].ackChan, e)
           queued == [sock[p] EXCEPT !.ClientWindowSize = m.win, !.ackChan = chan]
           blocked == [sock[p] EXCEPT !.ClientWindowSize = m.win, !.unackedMtx = "receiver"]
           r == [pc |-> "full", pkt |-> m]
<1>1. /\ i <= Len(net[p]) /\ net' = [net EXCEPT ![p] = RemoveAt(@, i)]
      /\ UNCHANGED <<sw, arrived>>
  BY DEF ReceiveAck, Receive
<1>2. \/ sock' = [sock EXCEPT ![p] = queued] /\ UNCHANGED rcv
      \/ sock' = [sock EXCEPT ![p] = blocked] /\ rcv' = [rcv EXCEPT ![p] = r]
  BY ZenonT(60), SockType DEF ReceiveAck
<1>3. Got(B, m.ack) /\ NetAcks(A, net'[Other(p)]) /\ NetAcks(B, net'[p])
  BY ZenonT(60), <1>1, TakenAcks
<1>4. r.pkt = m /\ e.ack = m.ack
  OBVIOUS
<1> HIDE DEF m, e, r
<1>5. \A j \in DOMAIN chan : chan[j] = e \/ \E k \in DOMAIN sock[p].ackChan : chan[j] = sock[p].ackChan[k]
  BY SocketFields, AppendElements
<1> HIDE DEF chan
<1>6. \A j \in DOMAIN chan : Got(B, chan[j].ack)
  BY Zenon, <1>3, <1>4, <1>5, Known DEF SockAcks
<1>7. /\ queued.cumReadNXT = sock[p].cumReadNXT /\ queued.cumWriteUNA = sock[p].cumWriteUNA
      /\ queued.ackChan = chan
      /\ blocked.cumReadNXT = sock[p].cumReadNXT /\ blocked.cumWriteUNA = sock[p].cumWriteUNA
      /\ blocked.ackChan = sock[p].ackChan
  BY Zenon, SockType DEF NormalSocket
<1> HIDE DEF queued, blocked
<1>8. SockAcks(A, B, queued) /\ SockAcks(A, B, blocked)
  BY Zenon, <1>6, <1>7, Known DEF SockAcks
<1>9. RcvAcks(B, r) /\ RcvAcks(B, rcv[p])
  BY Zenon, <1>3, <1>4, Known DEF RcvAcks
<1>10. sw' = [sw EXCEPT ![p] = sw[p]] /\ SwAcks(A, B, sw[p])
  BY Zenon, <1>1, NoUpdate, Known
<1>11. rcv = [rcv EXCEPT ![p] = rcv[p]]
  BY Zenon, NoUpdate
<1>12. CASE sock' = [sock EXCEPT ![p] = queued] /\ UNCHANGED rcv
  BY ZenonT(60), <1>1, <1>3, <1>8, <1>9, <1>10, <1>11, <1>12, AcksKept
<1>13. CASE sock' = [sock EXCEPT ![p] = blocked] /\ rcv' = [rcv EXCEPT ![p] = r]
  BY ZenonT(60), <1>1, <1>3, <1>8, <1>9, <1>10, <1>13, AcksKept
<1> QED
  BY Zenon, <1>2, <1>12, <1>13

\* The acknowledgment ReceiverThread held moves to ackChan.
LEMMA AckChanRoomAcks ==
  ASSUME TypeOK, AcksTrue, NEW p \in Peers, AckChanRoom(p)
  PROVE  AcksTrue'
<1> DEFINE A == arrived[p]
           B == arrived[Other(p)]
           m == rcv[p].pkt
           e == [ack |-> m.ack, win |-> m.win]
           chan == Append(sock[p].ackChan, e)
           s == [sock[p] EXCEPT !.unackedMtx = "free", !.ackChan = chan]
           r == [pc |-> "recv", pkt |-> NoPacket]
<1>1. rcv' = [rcv EXCEPT ![p] = r] /\ UNCHANGED <<net, sw, arrived>>
  BY DEF AckChanRoom
<1>2. sock' = [sock EXCEPT ![p] = s]
  BY ZenonT(60), SockType DEF AckChanRoom
<1>3. e.ack = m.ack /\ r.pkt = NoPacket /\ Got(B, m.ack)
  BY Zenon, Known DEF RcvAcks
<1> HIDE DEF m, e, r
<1>4. \A j \in DOMAIN chan : chan[j] = e \/ \E k \in DOMAIN sock[p].ackChan : chan[j] = sock[p].ackChan[k]
  BY SocketFields, AppendElements
<1> HIDE DEF chan
<1>5. \A j \in DOMAIN chan : Got(B, chan[j].ack)
  BY Zenon, <1>3, <1>4, Known DEF SockAcks
<1>6. /\ s.cumReadNXT = sock[p].cumReadNXT /\ s.cumWriteUNA = sock[p].cumWriteUNA
      /\ s.ackChan = chan
  BY Zenon, SockType DEF NormalSocket
<1> HIDE DEF s
<1>7. SockAcks(A, B, s) /\ RcvAcks(B, r)
  BY Zenon, <1>3, <1>5, <1>6, Known, GotNone DEF SockAcks, RcvAcks
<1>8. /\ sw' = [sw EXCEPT ![p] = sw[p]] /\ SwAcks(A, B, sw[p])
      /\ NetAcks(A, net'[Other(p)]) /\ NetAcks(B, net'[p])
  BY Zenon, <1>1, NoUpdate, SameNet, Known
<1> QED
  BY ZenonT(60), <1>1, <1>2, <1>7, <1>8, AcksKept

\* A packet is put aside or dropped: only ClientWindowSize and earlyPQ change.
LEMMA PutAsideAcks ==
  ASSUME TypeOK, AcksTrue, NEW p \in Peers, NEW i \in Nat \ {0},
         ReceiveEarly(p, i) \/ ReceiveFull(p, i)
  PROVE  AcksTrue'
<1> DEFINE A == arrived[p]
           B == arrived[Other(p)]
           win == net[p][i].win
           pq == sock[p].earlyPQ \cup {[seq |-> net[p][i].seq, data |-> net[p][i].data]}
           x == [sock[p] EXCEPT !.ClientWindowSize = win, !.earlyPQ = pq]
           y == [sock[p] EXCEPT !.ClientWindowSize = win]
<1>1. /\ i <= Len(net[p]) /\ net' = [net EXCEPT ![p] = RemoveAt(@, i)]
      /\ UNCHANGED <<sw, rcv, arrived>>
  BY DEF ReceiveEarly, ReceiveFull, Receive
<1>2. sock' = [sock EXCEPT ![p] = x] \/ sock' = [sock EXCEPT ![p] = y]
  BY Zenon, SockType DEF ReceiveEarly, ReceiveFull
<1> HIDE DEF win, pq
<1>3. /\ x.cumReadNXT = sock[p].cumReadNXT /\ x.cumWriteUNA = sock[p].cumWriteUNA
      /\ x.ackChan = sock[p].ackChan
      /\ y.cumReadNXT = sock[p].cumReadNXT /\ y.cumWriteUNA = sock[p].cumWriteUNA
      /\ y.ackChan = sock[p].ackChan
  BY Zenon, SockType DEF NormalSocket
<1> HIDE DEF x, y
<1>4. SockAcks(A, B, x) /\ SockAcks(A, B, y)
  BY Zenon, <1>3, Known, SameNumbers
<1>5. NetAcks(A, net'[Other(p)]) /\ NetAcks(B, net'[p])
  BY ZenonT(60), <1>1, TakenAcks
<1>6. /\ sw' = [sw EXCEPT ![p] = sw[p]] /\ SwAcks(A, B, sw[p])
      /\ rcv' = [rcv EXCEPT ![p] = rcv[p]] /\ RcvAcks(B, rcv[p])
  BY Zenon, <1>1, NoUpdate, Known
<1> QED
  BY ZenonT(60), <1>1, <1>2, <1>4, <1>5, <1>6, AcksKept

\* Storing data that is not ahead of cumReadNXT: every byte before the new
\* cumReadNXT has arrived.
LEMMA StoreAcks ==
  ASSUME TypeOK, AcksTrue, NEW p \in Peers, NEW s \in NormalSocket, NEW seq \in Nat,
         NEW data \in Seq(Nat), Store(p, s, seq, data), seq <= sock[p].cumReadNXT,
         s.ackChan = sock[p].ackChan, s.cumWriteUNA = sock[p].cumWriteUNA
  PROVE  /\ arrived[p] \subseteq arrived'[p] /\ arrived'[Other(p)] = arrived[Other(p)]
         /\ SockAcks(arrived'[p], arrived'[Other(p)], sock'[p])
         /\ sock'[Other(p)] = sock[Other(p)]
<1> DEFINE A == arrived[p]
           B == arrived[Other(p)]
           len == Len(data)
           new == A \cup (seq .. seq + len - 1)
           t == [s EXCEPT !.cumReadNXT = seq + len]
<1>1. len \in Nat /\ sock[p].cumReadNXT \in Nat
  BY Zenon, LenProperties, SocketFields
<1>2. sock' = [sock EXCEPT ![p] = t] /\ arrived' = [arrived EXCEPT ![p] = new]
  BY DEF Store
<1> HIDE DEF len
<1>3. arrived'[p] = new /\ arrived'[Other(p)] = B
  BY Zenon, <1>2, OtherPeer DEF TypeOK
<1>4. sock'[p] = t /\ sock'[Other(p)] = sock[Other(p)]
  BY ZenonT(60), <1>2, Updates
<1>5. t.cumReadNXT = seq + len /\ t.ackChan = sock[p].ackChan /\ t.cumWriteUNA = sock[p].cumWriteUNA
  BY DEF NormalSocket
<1> HIDE DEF t
<1>6. Got(new, seq + len)
  <2>1. 1 .. sock[p].cumReadNXT - 1 \subseteq A
    BY Zenon, Known DEF SockAcks, Got
  <2>2. ASSUME NEW x \in 1 .. seq + len - 1
        PROVE  x \in A \/ x \in seq .. seq + len - 1
    <3>1. CASE x < seq
      <4>1. x \in 1 .. sock[p].cumReadNXT - 1
        BY <1>1, <3>1
      <4> QED
        BY Zenon, <2>1, <4>1
    <3>2. CASE x >= seq
      BY <1>1, <3>2
    <3> QED
      BY <1>1, <3>1, <3>2
  <2>3. 1 .. seq + len - 1 \subseteq new
    BY <2>2, ZenonT(60)
  <2>4. (seq + len) - 1 = seq + len - 1
    BY <1>1
  <2> QED
    BY <2>3, <2>4, ZenonT(60) DEF Got
<1>7. A \subseteq new
  OBVIOUS
<1> HIDE DEF new
<1>8. SockAcks(new, B, t)
  BY Zenon, <1>5, <1>6, Known DEF SockAcks
<1> QED
  BY Zenon, <1>3, <1>4, <1>7, <1>8

\* A step that stores keeps AcksTrue if the rest of p's state is true.
LEMMA StoredAcks ==
  ASSUME TypeOK, AcksTrue, NEW p \in Peers, NEW r,
         arrived[p] \subseteq arrived'[p], arrived'[Other(p)] = arrived[Other(p)],
         SockAcks(arrived'[p], arrived'[Other(p)], sock'[p]), sock'[Other(p)] = sock[Other(p)],
         NetAcks(arrived[p], net'[Other(p)]), NetAcks(arrived[Other(p)], net'[p]),
         UNCHANGED sw, rcv' = [rcv EXCEPT ![p] = r], RcvAcks(arrived[Other(p)], r)
  PROVE  AcksTrue'
<1>1. rcv'[p] = r /\ rcv'[Other(p)] = rcv[Other(p)]
  BY ZenonT(60), Updates
<1>2. SwAcks(arrived[p], arrived[Other(p)], sw[p])
  BY Zenon, Known
<1>3. /\ SwAcks(arrived'[p], arrived'[Other(p)], sw'[p])
      /\ NetAcks(arrived'[p], net'[Other(p)]) /\ NetAcks(arrived'[Other(p)], net'[p])
      /\ RcvAcks(arrived'[Other(p)], rcv'[p])
  BY ZenonT(60), <1>1, <1>2, Monotone
<1> QED
  BY Zenon, <1>1, <1>3, AcksFrame

\* A segment that is not ahead is stored: cumReadNXT covers only what has arrived.
LEMMA ReceiveDataAcks ==
  ASSUME TypeOK, AcksTrue, NEW p \in Peers, NEW i \in Nat \ {0}, ReceiveData(p, i)
  PROVE  AcksTrue'
<1> DEFINE m == net[p][i]
           s == [sock[p] EXCEPT !.ClientWindowSize = m.win]
           r == [pc |-> "early", pkt |-> m]
<1>1. /\ i <= Len(net[p]) /\ net' = [net EXCEPT ![p] = RemoveAt(@, i)]
      /\ ~(m.seq > sock[p].cumReadNXT)
      /\ Store(p, s, m.seq, m.data)
      /\ rcv' = [rcv EXCEPT ![p] = r]
      /\ UNCHANGED sw
  BY DEF ReceiveData, Receive, IsEarly
<1>2. m.seq \in Nat /\ m.win \in Cells /\ m.data \in Seq(Nat)
  BY ZenonT(60), <1>1, ReceiveTypes
<1>3. /\ Got(arrived[Other(p)], m.ack)
      /\ NetAcks(arrived[p], net'[Other(p)]) /\ NetAcks(arrived[Other(p)], net'[p])
  BY ZenonT(60), <1>1, TakenAcks
<1>4. r.pkt = m
  OBVIOUS
<1> HIDE DEF m, r
<1>5. RcvAcks(arrived[Other(p)], r)
  BY Zenon, <1>3, <1>4 DEF RcvAcks
<1>6. /\ s \in NormalSocket /\ s.ackChan = sock[p].ackChan
      /\ s.cumWriteUNA = sock[p].cumWriteUNA
  BY ZenonT(60), <1>2, SockType DEF NormalSocket
<1> HIDE DEF s
<1>7. m.seq <= sock[p].cumReadNXT
  BY <1>1, <1>2, SocketFields
<1>8. /\ arrived[p] \subseteq arrived'[p] /\ arrived'[Other(p)] = arrived[Other(p)]
      /\ SockAcks(arrived'[p], arrived'[Other(p)], sock'[p])
      /\ sock'[Other(p)] = sock[Other(p)]
  BY Zenon, <1>1, <1>2, <1>6, <1>7, StoreAcks
<1> QED
  BY ZenonT(60), <1>1, <1>3, <1>5, <1>8, StoredAcks

\* An early packet is stored once cumReadNXT has reached it, or dropped.
LEMMA PopEarlyAcks ==
  ASSUME TypeOK, AcksTrue, NEW p \in Peers, PopEarly(p)
  PROVE  AcksTrue'
<1>1. UNCHANGED <<net, sw, rcv>>
  BY DEF PopEarly
<1>2. PICK e \in sock[p].earlyPQ :
         LET s == [sock[p] EXCEPT !.earlyPQ = sock[p].earlyPQ \ {e}]
         IN  \/ sock' = [sock EXCEPT ![p] = s] /\ UNCHANGED arrived
             \/ e.seq = sock[p].cumReadNXT /\ Store(p, s, e.seq, e.data)
  BY ZenonT(60) DEF PopEarly, Earliest
<1> DEFINE pq == sock[p].earlyPQ \ {e}
           s == [sock[p] EXCEPT !.earlyPQ = pq]
<1>3. e.seq \in Nat /\ e.data \in Seq(Nat) /\ pq \subseteq Early
  BY Zenon, SocketFields DEF Early
<1> HIDE DEF pq
<1>4. /\ s \in NormalSocket /\ s.cumReadNXT = sock[p].cumReadNXT
      /\ s.ackChan = sock[p].ackChan /\ s.cumWriteUNA = sock[p].cumWriteUNA
  BY ZenonT(60), <1>3, SockType DEF NormalSocket
<1>5. \/ sock' = [sock EXCEPT ![p] = s] /\ UNCHANGED arrived
      \/ e.seq = sock[p].cumReadNXT /\ Store(p, s, e.seq, e.data)
  BY Zenon, <1>2 DEF pq
<1> HIDE DEF s
<1>6. /\ sw' = [sw EXCEPT ![p] = sw[p]] /\ SwAcks(arrived[p], arrived[Other(p)], sw[p])
      /\ rcv' = [rcv EXCEPT ![p] = rcv[p]] /\ RcvAcks(arrived[Other(p)], rcv[p])
      /\ NetAcks(arrived[p], net'[Other(p)]) /\ NetAcks(arrived[Other(p)], net'[p])
  BY Zenon, <1>1, NoUpdate, SameNet, Known
<1>7. CASE sock' = [sock EXCEPT ![p] = s] /\ UNCHANGED arrived
  <2>1. SockAcks(arrived[p], arrived[Other(p)], s)
    BY Zenon, <1>4, Known, SameNumbers
  <2> QED
    BY ZenonT(60), <1>6, <1>7, <2>1, AcksKept
<1>8. CASE e.seq = sock[p].cumReadNXT /\ Store(p, s, e.seq, e.data)
  <2>1. e.seq <= sock[p].cumReadNXT
    BY <1>3, <1>8
  <2>2. /\ arrived[p] \subseteq arrived'[p] /\ arrived'[Other(p)] = arrived[Other(p)]
        /\ SockAcks(arrived'[p], arrived'[Other(p)], sock'[p])
        /\ sock'[Other(p)] = sock[Other(p)]
    BY Zenon, <1>3, <1>4, <1>8, <2>1, StoreAcks
  <2> QED
    BY ZenonT(60), <1>1, <1>6, <2>2, StoredAcks
<1> QED
  BY Zenon, <1>5, <1>7, <1>8

\* VRead is woken, or the segment received is acknowledged.
LEMMA AnswerAcks ==
  ASSUME TypeOK, AcksTrue, NEW p \in Peers, Unlock(p) \/ Answer(p)
  PROVE  AcksTrue'
<1>1. /\ sock' = [sock EXCEPT ![p] = sock[p]] /\ sw' = [sw EXCEPT ![p] = sw[p]]
      /\ SockAcks(arrived[p], arrived[Other(p)], sock[p])
      /\ SwAcks(arrived[p], arrived[Other(p)], sw[p])
      /\ UNCHANGED arrived
  BY Zenon, NoUpdate, Known DEF Unlock, Answer
<1>2. CASE Unlock(p)
  <2> DEFINE r == [rcv[p] EXCEPT !.pc = "answer"]
  <2>1. rcv' = [rcv EXCEPT ![p] = r] /\ UNCHANGED net
    BY Zenon, <1>2, RcvType DEF Unlock
  <2>2. r.pkt = rcv[p].pkt
    BY Zenon, RcvType DEF Receiver
  <2> HIDE DEF r
  <2>3. RcvAcks(arrived[Other(p)], r)
    BY Zenon, <2>2, Known DEF RcvAcks
  <2>4. NetAcks(arrived[p], net'[Other(p)]) /\ NetAcks(arrived[Other(p)], net'[p])
    BY Zenon, <2>1, SameNet
  <2> QED
    BY ZenonT(60), <1>1, <2>1, <2>3, <2>4, AcksKept
<1>3. CASE Answer(p)
  <2> DEFINE r == [pc |-> "recv", pkt |-> NoPacket]
             m == Segment(p, rcv[p].pkt.ack, <<>>)
  <2>1. rcv' = [rcv EXCEPT ![p] = r] /\ Send(p, m)
    BY Zenon, <1>3 DEF Answer
  <2>2. RcvAcks(arrived[Other(p)], r)
    BY Zenon, GotNone DEF RcvAcks
  <2> HIDE DEF r
  <2>3. Got(arrived[p], m.ack)
    BY Zenon, SegmentAcks
  <2> HIDE DEF m
  <2>4. NetAcks(arrived[p], net'[Other(p)]) /\ NetAcks(arrived[Other(p)], net'[p])
    BY Zenon, <2>1, <2>3, SentAcks
  <2> QED
    BY ZenonT(60), <1>1, <2>1, <2>2, <2>4, AcksKept
<1> QED
  BY Zenon, <1>2, <1>3

\* A packet is lost.
LEMMA LoseAcks ==
  ASSUME TypeOK, AcksTrue, NEW p \in Peers, NEW i \in 1 .. Len(net[p]), Lose(p, i)
  PROVE  AcksTrue'
<1>1. /\ sock' = [sock EXCEPT ![p] = sock[p]] /\ sw' = [sw EXCEPT ![p] = sw[p]]
      /\ rcv' = [rcv EXCEPT ![p] = rcv[p]] /\ UNCHANGED arrived
      /\ net' = [net EXCEPT ![p] = RemoveAt(@, i)]
  BY Zenon, NoUpdate DEF Lose
<1>2. Len(net[p]) \in Nat
  BY Zenon, PeerTypes, LenProperties
<1>3. i \in Nat \ {0} /\ i <= Len(net[p])
  BY <1>2
<1>4. NetAcks(arrived[p], net'[Other(p)]) /\ NetAcks(arrived[Other(p)], net'[p])
  BY ZenonT(60), <1>1, <1>3, TakenAcks
<1>5. /\ SockAcks(arrived[p], arrived[Other(p)], sock[p])
      /\ SwAcks(arrived[p], arrived[Other(p)], sw[p]) /\ RcvAcks(arrived[Other(p)], rcv[p])
  BY Zenon, Known
<1> QED
  BY ZenonT(60), <1>1, <1>4, <1>5, AcksKept

\* The applications' own steps touch neither the socket's numbers nor the network.
LEMMA CallAcks ==
  ASSUME AcksTrue, NEW p \in Peers,
         \/ \E n \in 1 .. MaxMsg : VWriteCall(p, n)
         \/ VWriteCopy(p)
         \/ \E n \in Wants[p] : VReadCall(p, n)
         \/ VReadLocked(p)
  PROVE  AcksTrue'
<1>1. UNCHANGED <<net, sock, sw, rcv, arrived>>
  BY DEF VWriteCall, VWriteCopy, VReadCall, VReadLocked
<1> QED
  BY Zenon, <1>1, AcksSame

\* Every step keeps the acknowledgment numbers true.
LEMMA AcksStep ==
  ASSUME TypeOK, AcksTrue, [Next]_vars
  PROVE  AcksTrue'
<1>1. CASE UNCHANGED vars
  BY Zenon, <1>1, AcksSame DEF vars
<1>2. ASSUME NEW p \in Peers,
             \/ \E n \in 1 .. MaxMsg : VWriteCall(p, n)
             \/ VWriteCopy(p)
             \/ SenderStep(p) \/ ReceiverStep(p) \/ TimerStep(p)
             \/ \E t \in Threads : ThreadStep(p, t)
             \/ \E n \in Wants[p] : VReadCall(p, n)
             \/ VReadLocked(p)
             \/ \E i \in 1 .. Len(net[p]) : Lose(p, i)
      PROVE  AcksTrue'
  <2>1. CASE SenderStep(p)
    BY Zenon, <2>1, HandoffAcks, SendProbeAcks, ProbeAckAcks, SendTailAcks, AfterSendAcks,
       RoundAcks, PopAckAcks, TakeAckAcks, ReturnAcks DEF SenderStep
  <2>2. CASE ReceiverStep(p)
    <3>1. \A i \in 1 .. Reach : i \in Nat \ {0}
      BY BoundAssumption
    <3> QED
      BY Zenon, <2>2, <3>1, ReceiveAckAcks, PutAsideAcks, ReceiveDataAcks, AckChanRoomAcks,
         PopEarlyAcks, AnswerAcks DEF ReceiverStep
  <2>3. CASE TimerStep(p)
    BY Zenon, <2>3, RetransmitAcks, ProbeAgainAcks DEF TimerStep
  <2>4. CASE \E t \in Threads : ThreadStep(p, t)
    BY Zenon, <2>4, ThreadAcks
  <2>5. CASE \E i \in 1 .. Len(net[p]) : Lose(p, i)
    BY Zenon, <2>5, LoseAcks
  <2> QED
    BY Zenon, <1>2, <2>1, <2>2, <2>3, <2>4, <2>5, CallAcks
<1> QED
  BY Zenon, <1>1, <1>2 DEF Next

-----------------------------------------------------------------------------
(* The retransThreads and the tokens of packetDoneChan are in balance.     *)

\* What one peer's threads, window and token have to do with each other.  The
\* thread of the present window exists only while slidingWindow runs; that makes
\* ThreadPerToken inductive, since a new window starts a new thread.
Accounted(th, pc, done) ==
  /\ pc = "idle" => th["cur"] = "none"
  /\ LET Count(b) == IF b THEN 1 ELSE 0
     IN  Count(th["cur"] # "none") + Count(th["old"] # "none") = Count(pc # "idle") + Count(done)

AllAccounted == \A p \in Peers : Accounted(thr[p], sw[p].pc, sock[p].packetDone)

\* The account stays if threads, token and the life of the window do.
LEMMA AccountKept ==
  ASSUME AllAccounted, UNCHANGED thr,
         \A p \in Peers : /\ sock'[p].packetDone = sock[p].packetDone
                          /\ sw'[p].pc = "idle" <=> sw[p].pc = "idle"
  PROVE  AllAccounted'
<1> SUFFICES ASSUME NEW p \in Peers
             PROVE  Accounted(thr'[p], sw'[p].pc, sock'[p].packetDone)
  BY ZenonT(60) DEF AllAccounted, Accounted
<1>1. Accounted(thr[p], sw[p].pc, sock[p].packetDone)
  BY DEF AllAccounted
<1> QED
  BY Zenon, <1>1 DEF Accounted

\* A step of p that changes p's account only.
LEMMA AccountMoved ==
  ASSUME TypeOK, AllAccounted, NEW p \in Peers, NEW th, NEW s, NEW w,
         thr' = [thr EXCEPT ![p] = th], sock' = [sock EXCEPT ![p] = s],
         sw' = [sw EXCEPT ![p] = w], Accounted(th, w.pc, s.packetDone)
  PROVE  AllAccounted'
<1>1. \A q \in Peers : /\ q = p => thr'[q] = th /\ sock'[q] = s /\ sw'[q] = w
                       /\ q # p => thr'[q] = thr[q] /\ sock'[q] = sock[q] /\ sw'[q] = sw[q]
  BY Zenon, SockType, SwType, ThrType
<1>2. \A q \in Peers : Accounted(thr'[q], sw'[q].pc, sock'[q].packetDone)
  BY Zenon, <1>1 DEF AllAccounted
<1> QED
  BY <1>2, ZenonT(60) DEF AllAccounted, Accounted

\* The end of a window: its thread takes the token, or goes on and leaves it.
LEMMA WindowDone ==
  ASSUME TypeOK, AllAccounted, NEW p \in Peers, sw[p].pc # "idle", ~sock[p].packetDone
  PROVE  /\ Accounted(Outliving(p), "idle", Busy(p))
         /\ \A pc : pc # "idle" => Accounted([Outliving(p) EXCEPT !["cur"] = "select"], pc, Busy(p))
<1> DEFINE o == Outliving(p)
           n == [o EXCEPT !["cur"] = "select"]
<1>1. Busy(p) \in BOOLEAN
  BY DEF Busy
<1>2. /\ o["cur"] = "none" /\ o["old"] = IF Busy(p) THEN "reset" ELSE "none"
      /\ n["cur"] = "select" /\ n["old"] = o["old"]
  BY DEF Outliving, Threads
<1> HIDE DEF o, n
<1>3. Accounted(o, "idle", Busy(p)) /\ \A pc : pc # "idle" => Accounted(n, pc, Busy(p))
  BY Zenon, <1>1, <1>2 DEF Accounted
<1> QED
  BY ZenonT(60), <1>3 DEF o, n

\* A new window is not idle.
LEMMA WindowRuns ==
  ASSUME NEW p, NEW seq, NEW payload, NEW una, NEW cws, NEW dist
  PROVE  WindowAt(p, seq, payload, una, cws, dist).pc # "idle"
BY DEF WindowAt, NoWindow

\* Steps of slidingWindow between its start and its end.
LEMMA LoopAccount ==
  ASSUME TypeOK, AllAccounted, NEW p \in Peers,
         \/ SendProbe(p) \/ SendTail(p) \/ AfterSend(p) \/ SkipSend(p)
         \/ PopAck(p) \/ TakeAck(p) \/ EndRound(p)
  PROVE  AllAccounted'
<1>1. UNCHANGED thr /\ sw[p].pc # "idle"
  BY ZenonT(60) DEF SendProbe, ProbeDue, SendTail, AfterSend, SkipSend, PopAck, TakeAck, EndRound
<1>2. /\ sock'[p].packetDone = sock[p].packetDone
      /\ \A q \in Peers \ {p} : sock'[q] = sock[q]
  <2>1. CASE SendProbe(p) \/ SendTail(p)
    BY ZenonT(60), <2>1, SockType DEF SendProbe, SendTail, Expect, NormalSocket
  <2>2. CASE AfterSend(p) \/ SkipSend(p) \/ EndRound(p) \/ PopAck(p)
    <3>1. CASE SkipSend(p) \/ EndRound(p)
      BY ZenonT(60), <3>1 DEF SkipSend, EndRound
    <3>2. CASE AfterSend(p)
      <4>1. PICK cws, ticker :
              sock' = [sock EXCEPT ![p].ClientWindowSize = cws, ![p].ticker = ticker]
        BY ZenonT(60), <3>2 DEF AfterSend
      <4> QED
        BY SMTT(60), <4>1, SockType DEF NormalSocket
    <3>3. CASE PopAck(p)
      <4>1. sock' = [sock EXCEPT ![p].ackChan = Tail(sock[p].ackChan)]
        BY ZenonT(60), <3>3 DEF PopAck
      <4> QED
        BY SMTT(60), <4>1, SockType DEF NormalSocket
    <3> QED
      BY Zenon, <2>2, <3>1, <3>2, <3>3
  <2>3. CASE TakeAck(p)
    BY ZenonT(60), <2>3, SockType DEF TakeAck, NormalSocket
  <2> QED
    BY Zenon, <2>1, <2>2, <2>3
<1>3. /\ sw'[p].pc # "idle"
      /\ \A q \in Peers \ {p} : sw'[q] = sw[q]
  <2>1. CASE SendProbe(p)
    BY Zenon, <2>1, SwType DEF SendProbe, Window
  <2>2. CASE SendTail(p)
    BY Zenon, <2>2, SwType DEF SendTail, Window
  <2>3. CASE AfterSend(p)
    BY <2>3, SwType DEF AfterSend, Window
  <2>4. CASE SkipSend(p)
    BY Zenon, <2>4, SwType DEF SkipSend, Window
  <2>5. CASE PopAck(p) \/ EndRound(p)
    BY Zenon, <2>5, SwType DEF PopAck, EndRound, Window
  <2>6. CASE TakeAck(p)
    BY ZenonT(60), <2>6, SwType DEF TakeAck, Window
  <2> QED
    BY Zenon, <2>1, <2>2, <2>3, <2>4, <2>5, <2>6
<1>4. ASSUME NEW q \in Peers
      PROVE  /\ sock'[q].packetDone = sock[q].packetDone
             /\ sw'[q].pc = "idle" <=> sw[q].pc = "idle"
  <2>1. CASE q = p
    BY Zenon, <1>1, <1>2, <1>3, <2>1
  <2>2. CASE q # p
    <3>1. sock'[q] = sock[q] /\ sw'[q] = sw[q]
      BY <1>2, <1>3, <2>2, ZenonT(60)
    <3> QED
      BY Zenon, <3>1
  <2> QED
    BY Zenon, <2>1, <2>2
<1> QED
  BY Zenon, <1>1, <1>4, AccountKept

\* A handoff starts a window together with its thread.
LEMMA HandoffAccount ==
  ASSUME TypeOK, AllAccounted, NEW p \in Peers, Handoff(p)
  PROVE  AllAccounted'
<1> DEFINE s == [sock[p] EXCEPT !.ticker = FALSE]
           th == [thr[p] EXCEPT !["cur"] = "select"]
<1>1. \/ UNCHANGED <<sw, sock, thr>>
      \/ /\ sw[p].pc = "idle"
         /\ \E seq, payload, una, cws, dist :
               sw' = [sw EXCEPT ![p] = WindowAt(p, seq, payload, una, cws, dist)]
         /\ sock' = [sock EXCEPT ![p] = s]
         /\ thr' = [thr EXCEPT ![p] = th]
  <2>1. [thr EXCEPT ![p]["cur"] = "select"] = [thr EXCEPT ![p] = th]
    BY Zenon, ThrType
  <2>2. sw[p].pc = "idle"
    BY DEF Handoff
  <2>3. \/ UNCHANGED <<sw, sock, thr>>
        \/ /\ \E seq, payload, una, cws, dist :
                 sw' = [sw EXCEPT ![p] = WindowAt(p, seq, payload, una, cws, dist)]
           /\ sock' = [sock EXCEPT ![p] = s]
           /\ thr' = [thr EXCEPT ![p]["cur"] = "select"]
    BY DEF Handoff, OpenWindow
  <2> QED
    BY Zenon, <2>1, <2>2, <2>3
<1>2. CASE UNCHANGED <<sw, sock, thr>>
  BY Zenon, <1>2, AccountKept
<1>3. CASE ~UNCHANGED <<sw, sock, thr>>
  <2>1. PICK w : sw' = [sw EXCEPT ![p] = w] /\ w.pc # "idle"
    BY <1>1, <1>3, WindowRuns
  <2>2. s.packetDone = sock[p].packetDone
    BY Zenon, SockType DEF NormalSocket
  <2>3. th["cur"] = "select" /\ th["old"] = thr[p]["old"]
    BY Zenon, ThrType DEF Threads
  <2>4. Accounted(thr[p], "idle", sock[p].packetDone)
    BY Zenon, <1>1, <1>3 DEF AllAccounted
  <2>5. sock' = [sock EXCEPT ![p] = s] /\ thr' = [thr EXCEPT ![p] = th]
    BY Zenon, <1>1, <1>3
  <2> HIDE DEF s, th
  <2>6. Accounted(th, w.pc, s.packetDone)
    BY <2>1, <2>2, <2>3, <2>4 DEF Accounted
  <2> QED
    BY <2>1, <2>5, <2>6, AccountMoved, ZenonT(60)
<1> QED
  BY Zenon, <1>2, <1>3

\* An acknowledgment of a probe, which may end a window and start the next.
LEMMA ProbeAckAccount ==
  ASSUME TypeOK, AllAccounted, NEW p \in Peers, ProbeAck(p)
  PROVE  AllAccounted'
<1> DEFINE m == Head(sock[p].ackChan)
           nxt == [sock[p] EXCEPT !.ackChan = Tail(@)]
           opened == [nxt EXCEPT !.ClientWindowSize = m.win, !.cumWriteUNA = m.ack]
           s == [opened EXCEPT !.ticker = FALSE, !.packetDone = Busy(p)]
           cut == [sw[p] EXCEPT !.pc = "normal", !.skip = TRUE, !.sent = sw[p].sent + 1,
                                !.tailLen = sw[p].tailLen - 1, !.nodes = WithoutProbed(sw[p].nodes)]
           th == [Outliving(p) EXCEPT !["cur"] = "select"]
<1>1. sw[p].pc # "idle"
  BY SMTT(20) DEF ProbeAck
<1>2. \/ /\ ~sock[p].packetDone
         /\ \E seq, payload, una, cws, dist :
               sw' = [sw EXCEPT ![p] = WindowAt(p, seq, payload, una, cws, dist)]
         /\ sock' = [sock EXCEPT ![p] = s]
         /\ thr' = [thr EXCEPT ![p] = th]
      \/ sw' = [sw EXCEPT ![p] = cut] /\ sock' = [sock EXCEPT ![p] = opened] /\ UNCHANGED thr
      \/ UNCHANGED <<sw, thr>> /\ sock' = [sock EXCEPT ![p] = nxt]
  BY SMTT(60) DEF ProbeAck, OpenWindow
<1>3. /\ nxt.packetDone = sock[p].packetDone /\ opened.packetDone = sock[p].packetDone
      /\ s.packetDone = Busy(p) /\ cut.pc = "normal"
  BY SockType, SwType DEF NormalSocket, Window
<1> HIDE DEF s, nxt, opened, cut
<1>4. CASE UNCHANGED thr /\ (sw' = [sw EXCEPT ![p] = cut] \/ UNCHANGED sw)
           /\ (sock' = [sock EXCEPT ![p] = opened] \/ sock' = [sock EXCEPT ![p] = nxt])
  <2>1. \A q \in Peers : /\ sock'[q].packetDone = sock[q].packetDone
                         /\ sw'[q].pc = "idle" <=> sw[q].pc = "idle"
    BY Zenon, <1>1, <1>3, <1>4, SockType, SwType
  <2> QED
    BY Zenon, <1>4, <2>1, AccountKept
<1>5. CASE /\ ~sock[p].packetDone
           /\ \E seq, payload, una, cws, dist :
                 sw' = [sw EXCEPT ![p] = WindowAt(p, seq, payload, una, cws, dist)]
           /\ sock' = [sock EXCEPT ![p] = s]
           /\ thr' = [thr EXCEPT ![p] = th]
  <2>a. PICK seq, payload, una, cws, dist :
           sw' = [sw EXCEPT ![p] = WindowAt(p, seq, payload, una, cws, dist)]
    BY <1>5, ZenonT(60)
  <2>1. PICK w : sw' = [sw EXCEPT ![p] = w] /\ w.pc # "idle"
    BY ZenonT(60), <2>a, WindowRuns
  <2>2. Accounted(th, w.pc, s.packetDone)
    BY Zenon, <1>1, <1>3, <1>5, <2>1, WindowDone
  <2> HIDE DEF th
  <2> QED
    BY <1>5, <2>1, <2>2, AccountMoved, ZenonT(60)
<1> QED
  BY Zenon, <1>2, <1>4, <1>5

\* slidingWindow returns, and retransThread comes and goes.
LEMMA ThreadAccount ==
  ASSUME TypeOK, AllAccounted, NEW p \in Peers, NEW t \in Threads,
         Return(p) \/ Retransmit(p) \/ ThreadStep(p, t)
  PROVE  AllAccounted'
<1>1. CASE Return(p)
  <2> DEFINE s == [sock[p] EXCEPT !.packetDone = Busy(p)]
  <2>1. /\ sw[p].pc # "idle" /\ ~sock[p].packetDone
        /\ sw' = [sw EXCEPT ![p] = NoWindow] /\ thr' = [thr EXCEPT ![p] = Outliving(p)]
        /\ sock' = [sock EXCEPT ![p] = s]
    BY Zenon, <1>1 DEF Return
  <2>2. s.packetDone = Busy(p) /\ NoWindow.pc = "idle"
    BY Zenon, SockType DEF NormalSocket, NoWindow
  <2> HIDE DEF s
  <2>3. Accounted(Outliving(p), NoWindow.pc, s.packetDone)
    BY ZenonT(60), <2>1, <2>2, WindowDone
  <2> QED
    BY <2>1, <2>3, AccountMoved, ZenonT(60)
<1>2. CASE Retransmit(p)
  <2> DEFINE s == [sock[p] EXCEPT !.ticker = FALSE]
             th == [thr[p] EXCEPT !["cur"] = "reset"]
  <2>1. thr[p]["cur"] = "select" /\ sw[p].pc # "idle"
    BY Zenon, <1>2 DEF Retransmit
  <2>2. sock' = [sock EXCEPT ![p] = s] /\ thr' = [thr EXCEPT ![p] = th]
    BY Zenon, <1>2, ThrType, SockType DEF Retransmit
  <2>3. PICK w : sw' = [sw EXCEPT ![p] = w] /\ w.pc = sw[p].pc
    <3>1. \/ UNCHANGED sw
          \/ \E m : sw' = [sw EXCEPT ![p].nodes[1].pkt = m]
      BY ZenonT(60), <1>2 DEF Retransmit
    <3>2. CASE UNCHANGED sw
      BY Zenon, <3>2, NoUpdate
    <3>3. CASE \E m : sw' = [sw EXCEPT ![p].nodes[1].pkt = m]
      <4>1. PICK m : sw' = [sw EXCEPT ![p].nodes[1].pkt = m]
        BY ZenonT(60), <3>3
      <4> DEFINE w == [sw[p] EXCEPT !.nodes[1].pkt = m]
      <4>2. sw' = [sw EXCEPT ![p] = w]
        BY Zenon, <4>1, SwType
      <4>3. w.pc = sw[p].pc
        BY Zenon, SwType DEF Window
      <4> QED
        BY <4>2, <4>3, ZenonT(60)
    <3> QED
      BY Zenon, <3>1, <3>2, <3>3
  <2>4. s.packetDone = sock[p].packetDone /\ th["cur"] = "reset" /\ th["old"] = thr[p]["old"]
    BY Zenon, SockType, ThrType DEF NormalSocket, Threads
  <2>5. Accounted(thr[p], sw[p].pc, sock[p].packetDone)
    BY DEF AllAccounted
  <2> HIDE DEF s, th
  <2>6. Accounted(th, w.pc, s.packetDone)
    BY Zenon, <2>1, <2>3, <2>4, <2>5 DEF Accounted
  <2> QED
    BY <2>2, <2>3, <2>6, AccountMoved, ZenonT(60)
<1>3. CASE ResetTicker(p, t)
  <2> DEFINE s == [sock[p] EXCEPT !.ticker = TRUE]
             th == [thr[p] EXCEPT ![t] = "select"]
  <2>1. thr[p][t] = "reset" /\ sw' = [sw EXCEPT ![p] = sw[p]]
    BY Zenon, <1>3, NoUpdate DEF ResetTicker
  <2>2. sock' = [sock EXCEPT ![p] = s] /\ thr' = [thr EXCEPT ![p] = th]
    BY Zenon, <1>3, ThrType, SockType DEF ResetTicker
  <2>3. /\ s.packetDone = sock[p].packetDone
        /\ \A u \in Threads : th[u] = IF u = t THEN "select" ELSE thr[p][u]
    BY Zenon, SockType, ThrType DEF NormalSocket
  <2>4. Accounted(thr[p], sw[p].pc, sock[p].packetDone)
    BY DEF AllAccounted
  <2> HIDE DEF s, th
  <2>5. Accounted(th, sw[p].pc, s.packetDone)
    BY Zenon, <2>1, <2>3, <2>4 DEF Accounted, Threads
  <2> QED
    BY <2>1, <2>2, <2>5, AccountMoved, ZenonT(60)
<1>4. CASE TakeDone(p, t)
  <2> DEFINE s == [sock[p] EXCEPT !.packetDone = FALSE]
             th == [thr[p] EXCEPT ![t] = "none"]
  <2>1. thr[p][t] = "select" /\ sock[p].packetDone /\ sw' = [sw EXCEPT ![p] = sw[p]]
    BY Zenon, <1>4, NoUpdate DEF TakeDone
  <2>2. sock' = [sock EXCEPT ![p] = s] /\ thr' = [thr EXCEPT ![p] = th]
    BY Zenon, <1>4, ThrType, SockType DEF TakeDone
  <2>3. /\ s.packetDone = FALSE
        /\ \A u \in Threads : th[u] = IF u = t THEN "none" ELSE thr[p][u]
    BY Zenon, SockType, ThrType DEF NormalSocket
  <2>4. Accounted(thr[p], sw[p].pc, sock[p].packetDone)
    BY DEF AllAccounted
  <2> HIDE DEF s, th
  <2>5. Accounted(th, sw[p].pc, s.packetDone)
    BY <2>1, <2>3, <2>4 DEF Accounted, Threads
  <2> QED
    BY <2>1, <2>2, <2>5, AccountMoved, ZenonT(60)
<1> QED
  BY Zenon, <1>1, <1>2, <1>3, <1>4 DEF ThreadStep

\* ReceiverThread leaves packetDoneChan alone.
LEMMA ReceiverToken ==
  ASSUME TypeOK, NEW p \in Peers, ReceiverStep(p)
  PROVE  \A q \in Peers : sock'[q].packetDone = sock[q].packetDone
<1> DEFINE Kept == \A q \in Peers : sock'[q].packetDone = sock[q].packetDone
<1>1. ASSUME NEW s, sock' = [sock EXCEPT ![p] = s], s.packetDone = sock[p].packetDone
      PROVE  Kept
  BY Zenon, <1>1, SockType
<1>2. ASSUME NEW i \in 1 .. Reach, ReceiveAck(p, i)
      PROVE  Kept
  <2> DEFINE m == net[p][i]
             chan == Append(sock[p].ackChan, [ack |-> m.ack, win |-> m.win])
             queued == [sock[p] EXCEPT !.ClientWindowSize = m.win, !.ackChan = chan]
             blocked == [sock[p] EXCEPT !.ClientWindowSize = m.win, !.unackedMtx = "receiver"]
  <2>1. sock' = [sock EXCEPT ![p] = queued] \/ sock' = [sock EXCEPT ![p] = blocked]
    BY <1>2, SockType, ZenonT(60) DEF ReceiveAck
  <2> HIDE DEF m, chan
  <2>2. queued.packetDone = sock[p].packetDone /\ blocked.packetDone = sock[p].packetDone
    BY Zenon, SockType DEF NormalSocket
  <2> HIDE DEF queued, blocked, Kept
  <2> QED
    BY Zenon, <1>1, <2>1, <2>2
<1>3. ASSUME NEW i \in 1 .. Reach, ReceiveEarly(p, i) \/ ReceiveFull(p, i)
      PROVE  Kept
  <2> DEFINE win == net[p][i].win
             pq == sock[p].earlyPQ \cup {[seq |-> net[p][i].seq, data |-> net[p][i].data]}
             x == [sock[p] EXCEPT !.ClientWindowSize = win, !.earlyPQ = pq]
             y == [sock[p] EXCEPT !.ClientWindowSize = win]
  <2>1. sock' = [sock EXCEPT ![p] = x] \/ sock' = [sock EXCEPT ![p] = y]
    BY Zenon, <1>3, SockType DEF ReceiveEarly, ReceiveFull
  <2> HIDE DEF win, pq
  <2>2. x.packetDone = sock[p].packetDone /\ y.packetDone = sock[p].packetDone
    BY Zenon, SockType DEF NormalSocket
  <2> HIDE DEF x, y, Kept
  <2> QED
    BY Zenon, <1>1, <2>1, <2>2
<1>4. ASSUME NEW s \in NormalSocket, NEW seq, NEW data, Store(p, s, seq, data),
             s.packetDone = sock[p].packetDone
      PROVE  Kept
  <2> DEFINE t == [s EXCEPT !.cumReadNXT = seq + Len(data)]
  <2>1. sock' = [sock EXCEPT ![p] = t]
    BY Zenon, <1>4 DEF Store
  <2>2. t.packetDone = sock[p].packetDone
    BY Zenon, <1>4 DEF NormalSocket
  <2> HIDE DEF t, Kept
  <2> QED
    BY ZenonT(60), <1>1, <2>1, <2>2
<1>5. ASSUME NEW i \in 1 .. Reach, ReceiveData(p, i)
      PROVE  Kept
  <2> DEFINE s == [sock[p] EXCEPT !.ClientWindowSize = net[p][i].win]
  <2>1. i \in Nat \ {0}
    BY BoundAssumption
  <2>2. i <= Len(net[p]) /\ net' = [net EXCEPT ![p] = RemoveAt(@, i)]
    BY Zenon, <1>5 DEF ReceiveData, Receive
  <2>3. net[p][i].win \in Cells
    BY ZenonT(60), <2>1, <2>2, ReceiveTypes
  <2>4. s \in NormalSocket /\ s.packetDone = sock[p].packetDone
    BY ZenonT(60), <2>3, SockType DEF NormalSocket
  <2>5. Store(p, s, net[p][i].seq, net[p][i].data)
    BY Zenon, <1>5 DEF ReceiveData
  <2> HIDE DEF s, Kept
  <2> QED
    BY Zenon, <1>4, <2>4, <2>5
<1>6. ASSUME PopEarly(p)
      PROVE  Kept
  <2>1. PICK pq \in SUBSET sock[p].earlyPQ :
           LET s == [sock[p] EXCEPT !.earlyPQ = pq]
           IN  \/ sock' = [sock EXCEPT ![p] = s]
               \/ \E seq, data : Store(p, s, seq, data)
    BY Zenon, <1>6 DEF PopEarly
  <2> DEFINE s == [sock[p] EXCEPT !.earlyPQ = pq]
  <2>2. sock' = [sock EXCEPT ![p] = s] \/ \E seq, data : Store(p, s, seq, data)
    BY Zenon, <2>1
  <2>3. pq \in SUBSET Early
    BY Zenon, SocketFields
  <2>4. s \in NormalSocket /\ s.packetDone = sock[p].packetDone
    BY ZenonT(60), <2>3, SockType DEF NormalSocket
  <2> HIDE DEF s, Kept
  <2> QED
    BY Zenon, <1>1, <1>4, <2>2, <2>4
<1>7. ASSUME AckChanRoom(p)
      PROVE  Kept
  <2> DEFINE chan == Append(sock[p].ackChan, [ack |-> rcv[p].pkt.ack, win |-> rcv[p].pkt.win])
             s == [sock[p] EXCEPT !.unackedMtx = "free", !.ackChan = chan]
  <2>1. sock' = [sock EXCEPT ![p] = s]
    BY <1>7, SockType, ZenonT(60) DEF AckChanRoom
  <2> HIDE DEF chan
  <2>2. s.packetDone = sock[p].packetDone
    BY Zenon, SockType DEF NormalSocket
  <2> HIDE DEF s, Kept
  <2> QED
    BY ZenonT(60), <1>1, <2>1, <2>2
<1>8. ASSUME Unlock(p) \/ Answer(p)
      PROVE  Kept
  BY Zenon, <1>8 DEF Unlock, Answer
<1> HIDE DEF Kept
<1>9. Kept
  BY Zenon, <1>2, <1>3, <1>5, <1>6, <1>7, <1>8 DEF ReceiverStep
<1> QED
  BY Zenon, <1>9 DEF Kept

\* ReceiverThread, the applications, the probe's timer and the network have no
\* part in the account.
LEMMA OthersAccount ==
  ASSUME TypeOK, AllAccounted, NEW p \in Peers,
         \/ \E n \in 1 .. MaxMsg : VWriteCall(p, n)
         \/ VWriteCopy(p) \/ ReceiverStep(p) \/ ProbeAgain(p)
         \/ \E n \in Wants[p] : VReadCall(p, n)
         \/ VReadLocked(p)
         \/ \E i \in 1 .. Len(net[p]) : Lose(p, i)
  PROVE  AllAccounted'
<1>1. UNCHANGED <<sw, thr>>
  BY ZenonT(60) DEF VWriteCall, VWriteCopy, ReceiverStep, ReceiveAck, ReceiveEarly, ReceiveData, ReceiveFull,
         AckChanRoom, PopEarly, Unlock, Answer, ProbeAgain, VReadCall, VReadLocked, Lose
<1>2. \A q \in Peers : sock'[q].packetDone = sock[q].packetDone
  <2>1. CASE ReceiverStep(p)
    BY Zenon, <2>1, ReceiverToken
  <2>2. CASE UNCHANGED sock
    BY Zenon, <2>2
  <2> QED
    BY Zenon, <2>1, <2>2 DEF VWriteCall, VWriteCopy, ProbeAgain, VReadCall, VReadLocked, Lose
<1> QED
  BY ZenonT(60), <1>1, <1>2, AccountKept

-----------------------------------------------------------------------------
(* The inductive invariant.                                                *)

IInv == TypeOK /\ WindowShape /\ AcksTrue

\* Every step keeps the types and the shape of the windows.
LEMMA TypeStep ==
  ASSUME TypeOK, WindowShape, [Next]_vars
  PROVE  TypeOK' /\ WindowShape'
<1>1. CASE UNCHANGED vars
  BY Zenon, <1>1, SameWindow DEF vars, TypeOK
<1>2. ASSUME NEW p \in Peers,
             \/ \E n \in 1 .. MaxMsg : VWriteCall(p, n)
             \/ VWriteCopy(p)
             \/ SenderStep(p) \/ ReceiverStep(p) \/ TimerStep(p)
             \/ \E t \in Threads : ThreadStep(p, t)
             \/ \E n \in Wants[p] : VReadCall(p, n)
             \/ VReadLocked(p)
             \/ \E i \in 1 .. Len(net[p]) : Lose(p, i)
      PROVE  TypeOK' /\ WindowShape'
  <2>1. CASE (\E n \in 1 .. MaxMsg : VWriteCall(p, n)) \/ VWriteCopy(p)
    BY Zenon, <2>1, VWriteTypes, SameWindow
  <2>2. CASE SenderStep(p)
    BY Zenon, <2>2, HandoffTypes, SendProbeTypes, ProbeAckTypes, SendTailTypes, AfterSendTypes,
       RoundTypes, PopAckTypes, TakeAckTypes, ReturnTypes DEF SenderStep
  <2>3. CASE ReceiverStep(p)
    <3>1. \A i \in 1 .. Reach : i \in Nat \ {0}
      BY BoundAssumption
    <3> QED
      BY Zenon, <2>3, <3>1, ReceiveAckTypes, ReceiveEarlyTypes, ReceiveDataTypes, ReceiveFullTypes,
         AckChanRoomTypes, PopEarlyTypes, AnswerTypes DEF ReceiverStep
  <2>4. CASE TimerStep(p)
    BY Zenon, <2>4, RetransmitTypes, ProbeAgainTypes DEF TimerStep
  <2>5. CASE \E t \in Threads : ThreadStep(p, t)
    BY Zenon, <2>5, ThreadTypes
  <2>6. CASE VReadLocked(p) \/ \E n \in Wants[p] : VReadCall(p, n)
    BY Zenon, <2>6, VReadTypes
  <2>7. CASE \E i \in 1 .. Len(net[p]) : Lose(p, i)
    BY Zenon, <2>7, LoseTypes
  <2> QED
    BY Zenon, <1>2, <2>1, <2>2, <2>3, <2>4, <2>5, <2>6, <2>7
<1> QED
  BY Zenon, <1>1, <1>2 DEF Next

\* It holds initially: nothing has arrived and nothing is acknowledged.
LEMMA InitInv == Init => IInv
<1> SUFFICES ASSUME Init PROVE IInv
  OBVIOUS
<1>1. TypeOK
  <2>1. /\ 0 \in Cells /\ 1 \in Cells /\ W - 1 \in Cells /\ Cells \subseteq Nat
    BY SizeAssumption DEF Cells
  <2>2. /\ \A S : <<>> \in Seq(S)
        /\ NoPacket \in Packet /\ NoAck \in Ack
    BY <2>1 DEF NoPacket, NoAck, Packet, Ack
  <2>3. NoWindow \in Window
    BY <2>2 DEF NoWindow, Window
  <2>4. /\ sock \in [Peers -> NormalSocket] /\ sw \in [Peers -> Window]
        /\ rcv \in [Peers -> Receiver]
    BY Zenon, <2>1, <2>2, <2>3 DEF Init, NormalSocket, Receiver
  <2>5. /\ wb \in [Peers -> WriteBuffer] /\ rb \in [Peers -> ReadBuffer]
        /\ vw \in [Peers -> WriteCall] /\ vr \in [Peers -> ReadCall]
    BY Zenon, <2>1 DEF Init, WriteBuffer, ReadBuffer, WriteCall, ReadCall
  <2> QED
    BY ZenonT(60), <2>2, <2>4, <2>5 DEF Init, TypeOK
<1>2. WindowShape
  BY DEF Init, WindowShape, ShapeOf, NoWindow
<1>3. AcksTrue
  <2> SUFFICES ASSUME NEW p \in Peers
               PROVE  /\ SockAcks(arrived[p], arrived[Other(p)], sock[p])
                      /\ SwAcks(arrived[p], arrived[Other(p)], sw[p])
                      /\ NetAcks(arrived[Other(p)], net[p])
                      /\ RcvAcks(arrived[Other(p)], rcv[p])
    BY ZenonT(60) DEF AcksTrue
  <2>1. /\ sock[p].cumReadNXT = 1 /\ sock[p].cumWriteUNA = 1 /\ sock[p].ackChan = <<>>
        /\ sw[p].probe = NoPacket /\ sw[p].taken = NoAck /\ sw[p].nodes = <<>>
        /\ net[p] = <<>> /\ rcv[p].pkt = NoPacket
    BY DEF Init, NoWindow
  <2>2. \A A : Got(A, 1) /\ Got(A, NoAck.ack) /\ Got(A, NoPacket.ack)
    BY GotNone DEF Got
  <2>3. DOMAIN <<>> = {}
    OBVIOUS
  <2> QED
    BY Zenon, <2>1, <2>2, <2>3 DEF SockAcks, SwAcks, NetAcks, RcvAcks
<1> QED
  BY Zenon, <1>1, <1>2, <1>3 DEF IInv

\* IInv is an invariant of the transfer.
LEMMA Inductive == Spec => []IInv
<1>1. IInv /\ [Next]_vars => IInv'
  BY Zenon, TypeStep, AcksStep DEF IInv
<1> QED
  BY <1>1, InitInv, PTL DEF Spec

-----------------------------------------------------------------------------
(* The theorems.                                                           *)

\* Every pointer of the two buffers stays a cell of its buffer, every uint16 in
\* range, and every goroutine at one of its program points, whatever VWrite,
\* VRead, the threads and the network do.
THEOREM TypeCorrect == Spec => []TypeOK
<1>1. IInv => TypeOK
  BY Zenon DEF IInv
<1> QED
  BY <1>1, Inductive, PTL

\* What ReceiverThread and slidingWindow acknowledge, or count as acknowledged,
\* has arrived: for all window sizes, losses, retransmissions and reorderings.
THEOREM AcksArrived == Spec => []AckedArrived
<1>1. IInv => AckedArrived
  BY ZenonT(60) DEF IInv, AcksTrue, SockAcks, NetAcks, Got, AckedArrived
<1> QED
  BY <1>1, Inductive, PTL

\* For every window in progress and every token not yet taken there is exactly one
\* retransThread: slidingWindow's send on packetDoneChan never meets a full
\* channel without a thread that will empty it, and no thread is left over.
THEOREM ThreadsAccounted == Spec => []ThreadPerToken
<1>1. Init => AllAccounted
  <2> SUFFICES ASSUME Init, NEW p \in Peers
               PROVE  Accounted(thr[p], sw[p].pc, sock[p].packetDone)
    BY ZenonT(60) DEF AllAccounted
  <2>1. /\ thr[p]["cur"] = "none" /\ thr[p]["old"] = "none" /\ sw[p].pc = "idle"
        /\ sock[p].packetDone = FALSE
    BY DEF Init, NoWindow, Threads
  <2> QED
    BY Zenon, <2>1 DEF Accounted
<1>2. TypeOK /\ AllAccounted /\ [Next]_vars => AllAccounted'
  <2> SUFFICES ASSUME TypeOK, AllAccounted, [Next]_vars PROVE AllAccounted'
    OBVIOUS
  <2>1. CASE UNCHANGED vars
    <3>1. UNCHANGED <<thr, sw, sock>>
      BY Zenon, <2>1 DEF vars
    <3> QED
      BY Zenon, <3>1, AccountKept
  <2>2. ASSUME NEW p \in Peers,
               \/ \E n \in 1 .. MaxMsg : VWriteCall(p, n)
               \/ VWriteCopy(p)
               \/ SenderStep(p) \/ ReceiverStep(p) \/ TimerStep(p)
               \/ \E t \in Threads : ThreadStep(p, t)
               \/ \E n \in Wants[p] : VReadCall(p, n)
               \/ VReadLocked(p)
               \/ \E i \in 1 .. Len(net[p]) : Lose(p, i)
        PROVE  AllAccounted'
    <3>1. "cur" \in Threads
      BY DEF Threads
    <3>2. CASE SenderStep(p)
      BY Zenon, <3>1, <3>2, HandoffAccount, ProbeAckAccount, LoopAccount, ThreadAccount DEF SenderStep
    <3>3. CASE TimerStep(p)
      BY Zenon, <3>1, <3>3, ThreadAccount, OthersAccount DEF TimerStep
    <3>4. CASE \E t \in Threads : ThreadStep(p, t)
      BY Zenon, <3>4, ThreadAccount
    <3> QED
      BY Zenon, <2>2, <3>2, <3>3, <3>4, OthersAccount
  <2> QED
    BY Zenon, <2>1, <2>2 DEF Next
<1>3. AllAccounted => ThreadPerToken
  BY ZenonT(60) DEF AllAccounted, Accounted, ThreadPerToken
<1> QED
  BY <1>1, <1>2, <1>3, TypeCorrect, PTL DEF Spec
=============================================================================
