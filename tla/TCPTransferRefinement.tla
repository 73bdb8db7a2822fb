------------------------ MODULE TCPTransferRefinement -----------------------
(***************************************************************************)
(* TCPTransfer implements ByteStream, and the other theorems about the     *)
(* stream with room in the buffers and timers that are not early: the last *)
(* steps that keep StreamInv, the simulation, and the theorems.            *)
(***************************************************************************)
EXTENDS TCPTransferProofs, TCPTransferStream

-----------------------------------------------------------------------------
(* A segment arrives.                                                      *)

\* What p's ReceiverThread may find: an acknowledgment of the segment that p has
\* sent, or the segment that q has sent, which is not ahead of what p expects.
LEMMA Received ==
  ASSUME Roomy, TypeOK, StreamInv, NEW p \in Peers, NEW q, q = Other(p),
         NEW m, Fits(m, q, p), Kind(m) = "ack" => ~None(net[p], "ack")
  PROVE  /\ m.win >= MSS
         /\ IsAnswer(p, m) <=> Kind(m) = "ack"
         /\ Kind(m) = "data" => /\ m.seq = Una(q) /\ m.data = Bytes(Una(q), Flight(q))
                                /\ ~IsEarly(p, m)
<1>1. q \in Peers /\ q # p /\ Stream1(p, q) /\ Stream1(q, p) /\ p = Other(q)
  BY Zenon, Numbers
<1>2. m.win >= MSS
  BY DEF Fits
<1>3. IsAnswer(p, m) => Kind(m) = "ack"
  BY DEF IsAnswer, Kind
<1>4. ASSUME Kind(m) = "ack" PROVE IsAnswer(p, m)
  <2>1. Flight(p) \in 0 .. MSS /\ MSS \in Nat /\ Token(p, q) /\ Phase(p)
    BY Zenon, <1>1, Phases, SizeAssumption DEF Stream1
  <2>2. Flight(p) \in Nat
    BY <2>1
  <2>3. Flight(p) > 0
    BY Zenon, <1>1, <1>4, <2>1, <2>2, OnePlace
  <2>4. sw[p].nodes # <<>> /\ sw[p].nodes[1].sent /\ Flight(p) = sw[p].size
    BY <2>3 DEF Flight
  <2>5. Una(p) + Flight(p) \in sock[p].unackedNums
    BY Zenon, <2>1, <2>4 DEF Phase, Closed, Ready, Out
  <2>. QED  BY Zenon, <1>4, <2>5 DEF IsAnswer, Fits, Kind
<1>5. ASSUME Kind(m) = "data"
      PROVE  m.seq = Una(q) /\ m.data = Bytes(Una(q), Flight(q)) /\ ~IsEarly(p, m)
  <2>1. m.seq = Una(q) /\ m.data = Bytes(Una(q), Flight(q))
    BY Zenon, <1>5 DEF Fits
  <2>2. Una(q) \in Nat /\ Flight(q) \in 0 .. MSS
    BY Zenon, <1>1, Phases DEF Stream1
  <2>3. sock[p].cumReadNXT = Una(q) \/ sock[p].cumReadNXT = Una(q) + Flight(q)
    BY Zenon, <1>1 DEF Stream1, Reads
  <2>. QED  BY SMTT(20), <2>1, <2>2, <2>3, SizeAssumption DEF IsEarly
<1>. QED  BY Zenon, <1>2, <1>3, <1>4, <1>5

\* Copying s in from the cell of number r on: what the cell of number x then holds.
LEMMA PutBehind ==
  ASSUME NEW buf \in [Cells -> Nat], NEW r \in Int, NEW s \in Seq(Nat), NEW x \in Int
  PROVE  /\ r + Len(s) - W <= x /\ x < r => Put(buf, r % W, s)[x % W] = buf[x % W]
         /\ r <= x /\ x < r + Len(s) /\ x < r + W => Put(buf, r % W, s)[x % W] = s[x - r + 1]
<1> DEFINE pos == r % W
<1>0. pos \in 0 .. W - 1
  BY Zenon, Quotient
<1> HIDE DEF pos
<1>1. pos \in Int /\ 0 <= pos /\ pos < W
  BY <1>0, SizeAssumption
<1>2. pos % W = r % W
  BY Zenon, <1>1, ModSmall DEF pos
<1>3. ASSUME r + Len(s) - W <= x, x < r
      PROVE  Put(buf, pos, s)[x % W] = buf[x % W]
  BY Zenon, <1>1, <1>2, <1>3, PutOld
<1>4. ASSUME r <= x, x < r + Len(s), x < r + W
      PROVE  Put(buf, pos, s)[x % W] = s[x - r + 1]
  BY Zenon, <1>1, <1>2, <1>4, PutNew
<1>. QED  BY Zenon, <1>3, <1>4 DEF pos

\* p stores the segment, for the first time or again.
LEMMA ReceiveDataStream ==
  ASSUME Roomy, TypeOK, StreamInv, NEW p \in Peers, NEW i \in Nat \ {0}, ReceiveData(p, i)
  PROVE  /\ StreamInv'
         /\ LET q == Other(p)
                g == Len(got[p])
            IN  /\ sock'[q].cumReadNXT = sock[q].cumReadNXT /\ rb'[q] = rb[q]
                /\ sock'[p].cumReadNXT \in Nat /\ sock'[p].cumReadNXT >= sock[p].cumReadNXT
                /\ sock'[p].cumReadNXT <= g + W
                /\ rb'[p].LBR = rb[p].LBR /\ rb'[p].NXT = sock'[p].cumReadNXT % W
                /\ \A x \in g + 1 .. sock'[p].cumReadNXT - 1 : rb'[p].buf[x % W] = x
<1> DEFINE q == Other(p)
           m == net[p][i]
           g == Len(got[p])
           r == sock[p].cumReadNXT
           u == Una(q)
           f == Flight(q)
<1>1. q \in Peers /\ q # p /\ Stream1(p, q) /\ Stream1(q, p) /\ p = Other(q)
  BY Zenon, Numbers
<1>2. /\ net' = [net EXCEPT ![p] = RemoveAt(@, i)] /\ i <= Len(net[p]) /\ ~IsAnswer(p, m)
      /\ Store(p, [sock[p] EXCEPT !.ClientWindowSize = m.win], m.seq, m.data)
      /\ rcv' = [rcv EXCEPT ![p] = [pc |-> "early", pkt |-> m]]
      /\ UNCHANGED <<wb, sw, vr, vw, written, got>>
  BY Zenon DEF ReceiveData, Receive
<1>3. /\ net'[q] = net[q] /\ m \in Packet /\ Fits(m, q, p)
      /\ One(net'[p], "ack") /\ One(net'[p], "data")
      /\ Kind(m) = "ack" => /\ None(net'[p], "ack") /\ ~None(net[p], "ack")
                            /\ None(net'[p], "data") <=> None(net[p], "data")
      /\ Kind(m) = "data" => /\ None(net'[p], "data") /\ ~None(net[p], "data")
                             /\ None(net'[p], "ack") <=> None(net[p], "ack")
      /\ \A j \in DOMAIN net'[p] : \E l \in DOMAIN net[p] : net'[p][j] = net[p][l]
  <2>1. net' = [net EXCEPT ![p] = RemoveAt(@, i)] /\ i <= Len(net[p])
    BY Zenon, <1>2
  <2> HIDE DEF q, m
  <2>. QED  BY Zenon, <2>1, TakeOne DEF q, m
<1> HIDE DEF m
<1>4. Kind(m) = "data" /\ m.win >= MSS /\ m.seq = u /\ m.data = Bytes(u, f)
  <2>1. Kind(m) = "ack" => ~None(net[p], "ack")
    BY Zenon, <1>3
  <2>2. /\ m.win >= MSS /\ (IsAnswer(p, m) <=> Kind(m) = "ack")
        /\ Kind(m) = "data" => m.seq = u /\ m.data = Bytes(u, f)
    BY Zenon, <1>3, <2>1, Received
  <2>3. Kind(m) = "data"
    BY Zenon, <1>2, <2>2 DEF Kind
  <2>. QED  BY Zenon, <2>2, <2>3
<1>5. /\ u \in Nat /\ f \in 0 .. MSS /\ MSS \in Nat /\ f \in Nat
      /\ Token(p, q) /\ Token(q, p)
  <2>1. u \in Nat /\ f \in 0 .. MSS /\ MSS \in Nat
    BY Zenon, <1>1, Phases, SizeAssumption DEF Stream1
  <2>2. f \in Nat
    BY <2>1
  <2>. QED  BY Zenon, <1>1, <2>1, <2>2 DEF Stream1
<1>6. /\ rcv[p].pc = "recv" /\ None(net[q], "ack") /\ sock[q].ackChan = <<>> /\ sw[q].pc # "ack"
      /\ f > 0
  BY Zenon, <1>1, <1>3, <1>4, <1>5, OnePlace
<1>7. Len(m.data) = f
  <2>1. u \in Nat /\ f \in Nat
    BY Zenon, <1>5
  <2> HIDE DEF u, f
  <2>2. Len(Bytes(u, f)) = f
    BY Zenon, <2>1, BytesSeq
  <2>. QED  BY Zenon, <1>4, <2>2
<1>8. /\ rb' = [rb EXCEPT ![p].buf = Put(rb[p].buf, rb[p].NXT, Bytes(u, f)), ![p].NXT = (u + f) % W]
      /\ sock' = [sock EXCEPT ![p] = [sock[p] EXCEPT !.ClientWindowSize = m.win,
                                                     !.cumReadNXT = u + f]]
  BY Zenon, <1>2, <1>4, <1>7 DEF Store
<1>9. /\ rb'[p].buf = Put(rb[p].buf, rb[p].NXT, Bytes(u, f)) /\ rb'[p].NXT = (u + f) % W
      /\ rb'[p].LBR = rb[p].LBR /\ rb'[q] = rb[q]
  BY Zenon, <1>1, <1>8, BufferTypes DEF ReadBuffer
<1>10. /\ sock'[q] = sock[q] /\ sock'[p].cumReadNXT = u + f
       /\ sock'[p].earlyPQ = sock[p].earlyPQ /\ sock'[p].ackChan = sock[p].ackChan
       /\ sock'[p].cumWriteUNA = sock[p].cumWriteUNA
       /\ sock'[p].unackedNums = sock[p].unackedNums
       /\ sock'[p].ClientWindowSize = m.win
  BY Zenon, <1>1, <1>8, SockType DEF NormalSocket
<1>11. Una(p)' = Una(p) /\ Flight(p)' = Flight(p) /\ Una(q)' = u /\ Flight(q)' = f
  BY Zenon, <1>2, <1>10 DEF Una, Flight
<1>12. rcv'[p].pc = "early" /\ rcv'[q] = rcv[q]
  BY Zenon, <1>1, <1>2, RcvType
<1>13. /\ g \in Nat /\ r \in Nat /\ g < r /\ r + f <= g + W /\ r <= u + f
       /\ r = u \/ r = u + f
  <2>1. /\ g \in Nat /\ r \in Nat /\ g < r /\ r <= written[q] + 1 /\ written[q] \in Nat
        /\ written[q] + vw[q].left <= g + Outstanding /\ vw[q].left \in Nat
        /\ W \in Nat /\ Outstanding \in Nat /\ Outstanding + MSS < W
    BY Zenon, <1>1, Numbers
  <2>2. r = u \/ r = u + f
    BY Zenon, <1>1 DEF Stream1, Reads
  <2> HIDE DEF g, r, u, f
  <2>. QED  BY <1>5, <2>1, <2>2
<1>14. /\ rb[p].LBR = g % W /\ rb[p].NXT = r % W /\ got[p] = Bytes(1, g) /\ sock[p].earlyPQ = {}
       /\ written[q] + vw[q].left <= g + Outstanding
       /\ \A x \in g + 1 .. r - 1 : rb[p].buf[x % W] = x
       /\ vr[p].pc = "lock" => g + vr[p].num < r
  BY Zenon, <1>1 DEF Stream1, Reads
<1>15. ASSUME NEW x \in g + 1 .. (u + f) - 1
       PROVE  rb'[p].buf[x % W] = x
  <2> DEFINE d == Bytes(u, f)
             buf == rb[p].buf
  <2>1. buf \in [Cells -> Nat] /\ r \in Int /\ x \in Int /\ W \in Nat
    BY SMTT(20), <1>5, <1>13, BufferFields, SizeAssumption
  <2>2. d \in Seq(Nat) /\ Len(d) = f /\ \A j \in 1 .. f : d[j] = u + j - 1
    <3>1. u \in Nat /\ f \in Nat
      BY Zenon, <1>5
    <3> HIDE DEF u, f
    <3>. QED  BY Zenon, <3>1, BytesSeq
  <2>3. rb'[p].buf = Put(buf, r % W, d)
    BY Zenon, <1>9, <1>14
  <2>4. \A z \in g + 1 .. r - 1 : buf[z % W] = z
    BY Zenon, <1>14
  <2> HIDE DEF d, buf, g, r, u, f
  <2>5. /\ r + Len(d) - W <= x /\ x < r => Put(buf, r % W, d)[x % W] = buf[x % W]
        /\ r <= x /\ x < r + Len(d) /\ x < r + W => Put(buf, r % W, d)[x % W] = d[x - r + 1]
    BY Zenon, <2>1, <2>2, PutBehind
  <2>6. CASE x < r
    <3>1. r + Len(d) - W <= x /\ x \in g + 1 .. r - 1
      BY SMTT(20), <1>5, <1>13, <2>1, <2>2, <2>6
    <3>. QED  BY Zenon, <2>3, <2>4, <2>5, <2>6, <3>1
  <2>7. CASE r <= x
    <3>1. r <= x /\ x < r + Len(d) /\ x < r + W /\ x - r + 1 \in 1 .. f /\ u + (x - r + 1) - 1 = x
      BY SMTT(20), <1>5, <1>13, <2>1, <2>2, <2>7
    <3>. QED  BY Zenon, <2>2, <2>3, <2>5, <3>1
  <2>8. x < r \/ r <= x
    BY <2>1
  <2>. QED  BY Zenon, <2>6, <2>7, <2>8
<1>16. Reads(q, p)'
  <2>1. g < u + f /\ (vr[p].pc = "lock" => g + vr[p].num < u + f)
    <3>1. vr[p].num \in Nat
      BY Zenon, PeerTypes, CellNat DEF ReadCall
    <3>2. vr[p].pc = "lock" => g + vr[p].num < r
      BY Zenon, <1>14
    <3> HIDE DEF g, r, u, f
    <3>. QED  BY SMTT(20), <1>5, <1>13, <3>1, <3>2
  <2>2. /\ rb'[p].LBR = Len(got'[p]) % W /\ rb'[p].NXT = sock'[p].cumReadNXT % W
        /\ Len(got'[p]) < sock'[p].cumReadNXT /\ sock'[p].cumReadNXT = Una(q)' + Flight(q)'
    BY Zenon, <1>2, <1>9, <1>10, <1>11, <1>14, <2>1
  <2>4. got'[p] = Bytes(1, Len(got'[p]))
    BY Zenon, <1>2, <1>14
  <2>3. /\ written'[q] + vw'[q].left <= Len(got'[p]) + Outstanding
        /\ \A x \in Len(got'[p]) + 1 .. sock'[p].cumReadNXT - 1 : rb'[p].buf[x % W] = x
        /\ vr'[p].pc = "lock" => Len(got'[p]) + vr'[p].num < sock'[p].cumReadNXT
        /\ sock'[p].earlyPQ = {}
    <3>1. got' = got /\ written' = written /\ vw' = vw /\ vr' = vr
      BY Zenon, <1>2
    <3>2. \A x \in g + 1 .. (u + f) - 1 : rb'[p].buf[x % W] = x
      BY Zenon, <1>15
    <3>. QED  BY Zenon, <1>10, <1>14, <2>1, <3>1, <3>2
  <2>. QED  BY Zenon, <2>2, <2>3, <2>4 DEF Reads, Bytes
<1>17. Packets(q, p)' /\ Packets(p, q)'
  <2>1. Packets(q, p) /\ Packets(p, q)
    BY Zenon, <1>1 DEF Stream1
  <2>4. Una(q)' = Una(q) /\ Flight(q)' = Flight(q)
    BY Zenon, <1>11
  <2> HIDE DEF q
  <2>2. Packets(q, p)'
    BY Zenon, <1>1, <1>3, <1>11, <2>1, <2>4, PacketsKept
  <2>3. Packets(p, q)'
    BY Zenon, <1>1, <1>3, <1>11, <2>1, <2>4, PacketsKept
  <2>. QED  BY Zenon, <2>2, <2>3
<1>18. Token(p, q)'
  <2>1. One(net[q], "data") /\ rcv[q].pc # "full"
    BY Zenon, <1>5 DEF Token
  <2>. QED  BY Zenon, <1>1, <1>2, <1>3, <1>4, <1>5, <1>10, <1>11, <1>12, <2>1, TokenKept
<1>19. Token(q, p)'
  <2>1. Len(sock'[q].ackChan) = 0 /\ rcv'[p].pc # "recv" /\ rcv'[p].pc # "full"
    BY SMTT(20), <1>6, <1>10, <1>12
  <2>2. None(net'[p], "data") /\ None(net'[q], "ack") /\ sw'[q].pc # "ack"
    BY Zenon, <1>2, <1>3, <1>4, <1>6
  <2>3. Places(q, p)' = 1
    BY Zenon, <1>1, <2>1, <2>2, PlacesNow
  <2>4. Places(q, p)' <= 1 /\ One(net'[q], "ack")
    BY SMTT(20), <2>2, <2>3 DEF One, None
  <2>. QED  BY Zenon, <1>3, <1>6, <1>10, <1>11, <2>1, <2>4 DEF Token, One, Kind
<1>20. sock'[p].ClientWindowSize >= MSS /\ vr'[q] = vr[q] /\ got'[q] = got[q]
  BY Zenon, <1>2, <1>4, <1>10
<1>21. u + f \in Nat /\ u + f >= r /\ u + f <= g + W
  <2>1. /\ written[q] + vw[q].left <= g + Outstanding /\ written[q] \in Nat /\ vw[q].left \in Nat
        /\ g \in Nat /\ W \in Nat /\ Outstanding \in Nat /\ Outstanding + MSS < W
    BY Zenon, <1>1, Numbers
  <2>2. u + Open(q) <= written[q] + 1 /\ Open(q) \in 0 .. MSS /\ (f = 0 \/ f = Open(q))
    BY Zenon, <1>1, Phases DEF Stream1, Sends
  <2> HIDE DEF g, r, u, f, q
  <2>. QED  BY SMTT(20), <1>5, <1>13, <2>1, <2>2
<1>22. StreamInv'
  <2> HIDE DEF q
  <2>. QED  BY Zenon, <1>1, <1>2, <1>9, <1>10, <1>16, <1>17, <1>18, <1>19, <1>20, ReaderFrame DEF q
<1>23. \A x \in g + 1 .. (u + f) - 1 : rb'[p].buf[x % W] = x
  BY Zenon, <1>15
<1>. QED  BY Zenon, <1>9, <1>10, <1>21, <1>22, <1>23

-----------------------------------------------------------------------------
(* Steps that cannot be taken.                                             *)

\* The peer's window is never known to be zero while nothing is unacknowledged, so
\* slidingWindow never probes.
LEMMA NoProbe ==
  ASSUME Roomy, TypeOK, StreamInv, NEW p \in Peers
  PROVE  ~SendProbe(p) /\ ~ProbeAck(p) /\ ~ProbeAgain(p)
<1> DEFINE q == Other(p)
           u == Una(p)
           f == Flight(p)
<1>1. Stream1(p, q)
  BY Zenon, Numbers
<1>2. sw[p].pc # "probe"
  BY Zenon, <1>1 DEF Stream1, Phase, Closed, Ready, Out
<1>3. ASSUME ProbeDue(p) PROVE FALSE
  <2>1. /\ u \in Nat /\ f \in 0 .. MSS /\ MSS \in Nat /\ 0 < MSS /\ MSS < W /\ W \in Nat
        /\ wb[p].UNA = u % W /\ wb[p].NXT = (u + f) % W
        /\ f = 0 => sock[p].ClientWindowSize >= MSS
    BY Zenon, <1>1, Phases, SizeAssumption DEF Stream1, Sends
  <2>2. wb[p].NXT = wb[p].UNA /\ sock[p].ClientWindowSize = 0
    BY Zenon, <1>3 DEF ProbeDue
  <2>3. f # 0
    BY <2>1, <2>2
  <2>4. u + f \in Int /\ u \in Int /\ 0 \in Int /\ 0 <= u + f + 0 - u /\ u + f + 0 - u < W
        /\ u + f + 0 - u = f
    BY <2>1
  <2>5. (((u + f) % W) + 0 - (u % W)) % W = u + f + 0 - u
    BY Zenon, <2>4, ModDistance
  <2>6. (u + f) % W = u % W
    BY Zenon, <2>1, <2>2
  <2> DEFINE z == u % W
  <2>7. z \in Int /\ 0 % W = 0
    BY SMTT(20), <2>1, <2>4, Quotient, ModSmall
  <2>8. (z + 0 - z) % W = f
    BY Zenon, <2>4, <2>5, <2>6
  <2> HIDE DEF z
  <2>9. z + 0 - z = 0
    BY <2>7
  <2>. QED  BY Zenon, <2>3, <2>7, <2>8, <2>9
<1>. QED  BY Zenon, <1>2, <1>3 DEF SendProbe, ProbeAck, ProbeAgain

\* No segment is early, the read buffer is never full, and neither is ackChan.
LEMMA NeverEarly ==
  ASSUME Roomy, TypeOK, StreamInv, NEW p \in Peers
  PROVE  /\ ~AckChanRoom(p) /\ ~PopEarly(p)
         /\ \A i \in Nat \ {0} : ~ReceiveEarly(p, i) /\ ~ReceiveFull(p, i)
<1> DEFINE q == Other(p)
<1>1. q \in Peers /\ p = Other(q) /\ Stream1(q, p)
  BY Zenon, Numbers
<1>2. ~AckChanRoom(p)
  BY Zenon, <1>1 DEF AckChanRoom, Stream1, Token
<1>3. ~PopEarly(p)
  <2>1. sock[p].earlyPQ = {}
    BY Zenon, <1>1 DEF Stream1, Reads
  <2>2. Earliest(sock[p].earlyPQ) = {}
    BY Zenon, <2>1 DEF Earliest
  <2>. QED  BY Zenon, <2>2 DEF PopEarly
<1>4. ASSUME NEW i \in Nat \ {0}
      PROVE  ~ReceiveEarly(p, i) /\ ~ReceiveFull(p, i)
  <2>1. FreeSpace(p) # 0
    BY Zenon, <1>1, ReceiverRoom
  <2>2. ASSUME ReceiveEarly(p, i) PROVE FALSE
    <3> DEFINE m == net[p][i]
    <3>1. /\ net' = [net EXCEPT ![p] = RemoveAt(@, i)] /\ i <= Len(net[p])
          /\ ~IsAnswer(p, m) /\ IsEarly(p, m)
      BY Zenon, <2>2 DEF ReceiveEarly, Receive
    <3> HIDE DEF m
    <3>2. Fits(m, q, p) /\ (Kind(m) = "ack" => ~None(net[p], "ack"))
      BY ZenonT(30), <3>1, TakeOne DEF m
    <3>3. (IsAnswer(p, m) <=> Kind(m) = "ack") /\ (Kind(m) = "data" => ~IsEarly(p, m))
      BY Zenon, <3>2, Received
    <3>. QED  BY Zenon, <3>1, <3>3 DEF Kind
  <2>. QED  BY Zenon, <2>1, <2>2 DEF ReceiveFull
<1>. QED  BY Zenon, <1>2, <1>3, <1>4

-----------------------------------------------------------------------------
(* Every step.                                                             *)

\* The invariant says nothing of the variables that may stutter.
LEMMA StutterStream ==
  ASSUME Roomy, TypeOK, StreamInv, UNCHANGED vars
  PROVE  StreamInv'
<1>1. UNCHANGED <<net, wb, sw, vw, written, sock, rb, vr, got, rcv>>
  BY DEF vars
<1>2. ASSUME NEW p \in Peers PROVE Stream1(p, Other(p))'
  <2>1. Stream1(p, Other(p))
    BY DEF StreamInv
  <2>2. /\ Una(p)' = Una(p) /\ Flight(p)' = Flight(p) /\ Open(p)' = Open(p)
        /\ Una(Other(p))' = Una(Other(p)) /\ Flight(Other(p))' = Flight(Other(p))
    BY Zenon, <1>1 DEF Una, Flight, Open
  <2>3. Phase(p)' /\ Sends(p)'
    BY Zenon, <1>1, <2>1, <2>2 DEF Stream1, Phase, Sends
  <2>4. Reads(p, Other(p))'
    BY Zenon, <1>1, <2>1, <2>2 DEF Stream1, Reads
  <2>5. Packets(p, Other(p))' /\ Acks(p)'
    BY Zenon, <1>1, <2>1, <2>2 DEF Stream1, Packets, Fits, Acks
  <2>6. Token(p, Other(p))'
    BY Zenon, <1>1, <2>1, <2>2 DEF Stream1, Token, Places, Answered
  <2>. QED  BY Zenon, <2>3, <2>4, <2>5, <2>6 DEF Stream1
<1>. QED  BY Zenon, <1>2 DEF StreamInv

\* Every step keeps the invariant.
LEMMA StreamStep ==
  ASSUME Roomy, TypeOK, StreamInv, [Next]_vars
  PROVE  StreamInv'
<1>1. CASE UNCHANGED vars
  BY Zenon, <1>1, StutterStream
<1>2. ASSUME NEW p \in Peers,
             \/ \E n \in 1 .. MaxMsg : VWriteCall(p, n)
             \/ VWriteCopy(p)
             \/ SenderStep(p) \/ ReceiverStep(p) \/ TimerStep(p)
             \/ \E t \in Threads : ThreadStep(p, t)
             \/ \E n \in Wants[p] : VReadCall(p, n)
             \/ VReadLocked(p)
             \/ \E i \in 1 .. Len(net[p]) : Lose(p, i)
      PROVE  StreamInv'
  <2>1. CASE \E n \in 1 .. MaxMsg : VWriteCall(p, n)
    <3>1. 1 .. MaxMsg \subseteq Nat
      BY BoundAssumption
    <3>. QED  BY Zenon, <2>1, <3>1, VWriteCallStream
  <2>2. CASE SenderStep(p)
    BY Zenon, <2>2, NoProbe, HandoffStream, SendTailStream, AfterSendStream, SkipSendStream,
       PopAckStream, TakeAckStream, EndRoundStream, ReturnStream DEF SenderStep
  <2>3. CASE ReceiverStep(p)
    <3>1. \A i \in 1 .. Reach : i \in Nat \ {0}
      BY BoundAssumption
    <3>. QED  BY Zenon, <2>3, <3>1, NeverEarly, ReceiveAckStream, ReceiveDataStream, UnlockStream,
                 AnswerStream DEF ReceiverStep
  <2>4. CASE TimerStep(p)
    BY Zenon, <2>4, NoProbe, RetransmitStream DEF TimerStep
  <2>5. CASE \E t \in Threads : ThreadStep(p, t)
    BY Zenon, <2>5, ThreadStream DEF ThreadStep
  <2>6. CASE VReadLocked(p) \/ \E n \in Wants[p] : VReadCall(p, n)
    BY Zenon, <2>6, VReadLockedStream, VReadCallStream
  <2>7. CASE \E i \in 1 .. Len(net[p]) : Lose(p, i)
    BY Zenon, <2>7, LoseStream
  <2>. QED  BY Zenon, <1>2, <2>1, <2>2, <2>3, <2>4, <2>5, <2>6, <2>7, VWriteCopyStream
<1>. QED  BY Zenon, <1>1, <1>2 DEF Next

\* It holds initially: nothing is written, and the peer's window is the buffer.
LEMMA StreamInit ==
  ASSUME Roomy, Init
  PROVE  StreamInv
<1>1. W \in Nat /\ MSS \in Nat /\ 0 < MSS /\ MSS < W /\ Outstanding \in Nat
  BY Zenon, SizeAssumption, BoundAssumption
<1>2. 0 % W = 0 /\ 1 % W = 1
  <2>1. 0 \in Int /\ 1 \in Int /\ 0 <= 0 /\ 0 < W /\ 0 <= 1 /\ 1 < W
    BY SMTT(20), <1>1
  <2>. QED  BY Zenon, <2>1, ModSmall
<1>3. ASSUME NEW p \in Peers
      PROVE  /\ sock[p].cumWriteUNA = 1 /\ sock[p].cumReadNXT = 1
             /\ sock[p].ClientWindowSize = W - 1
             /\ sock[p].ackChan = <<>> /\ sock[p].earlyPQ = {}
             /\ wb[p].UNA = 1 /\ wb[p].NXT = 1 /\ wb[p].LBW = 0
             /\ rb[p].LBR = 0 /\ rb[p].NXT = 1
             /\ sw[p].nodes = <<>> /\ sw[p].pc = "idle"
             /\ net[p] = <<>> /\ rcv[p].pc = "recv" /\ vr[p].pc = "idle"
             /\ vw[p].pc = "idle" /\ vw[p].left = 0 /\ written[p] = 0 /\ got[p] = <<>>
  BY DEF Init, NoWindow
<1>4. ASSUME NEW p \in Peers, NEW q \in Peers, q = Other(p) PROVE Stream1(p, q)
  <2>1. Una(p) = 1 /\ Open(p) = 0 /\ Flight(p) = 0 /\ Len(got[q]) = 0
    BY <1>3 DEF Una, Open, Flight
  <2>2. Phase(p)
    BY Zenon, <1>3 DEF Phase, Closed
  <2>3. Sends(p)
    <3>1. /\ 1 + 0 = 1 /\ 0 + 1 = 1 /\ 1 >= 1 /\ 1 <= 1 /\ 1 <= 1 + MSS /\ W - 1 >= MSS
          /\ 1 .. 0 = {}
      BY <1>1
    <3>. QED  BY ZenonT(30), <1>2, <1>3, <2>1, <3>1 DEF Sends
  <2>4. Reads(p, q)
    <3>1. 0 < 1 /\ 0 + 0 <= 0 + Outstanding /\ 0 + 1 .. 1 - 1 = {}
      BY <1>1
    <3>2. <<>> = Bytes(1, 0)
      BY Zenon, BytesSeq, EmptySeq, LenProperties DEF Bytes
    <3>. QED  BY Zenon, <1>2, <1>3, <2>1, <3>1, <3>2 DEF Reads
  <2>5. Packets(p, q) /\ Acks(p)
    <3>1. DOMAIN <<>> = {}
      OBVIOUS
    <3>. QED  BY Zenon, <1>3, <3>1 DEF Packets, Acks
  <2>6. Token(p, q)
    <3>1. \A k : None(<<>>, k) /\ One(<<>>, k)
      BY DEF None, One
    <3>2. /\ None(net[p], "ack") /\ None(net[q], "data") /\ One(net[p], "ack")
          /\ One(net[q], "data")
      BY Zenon, <1>3, <3>1
    <3>3. /\ Bit(rcv[q].pc # "recv") = 0 /\ Bit(~None(net[p], "ack")) = 0
          /\ Bit(~None(net[q], "data")) = 0 /\ Bit(sw[p].pc = "ack") = 0
      BY Zenon, <1>3, <3>2 DEF Bit
    <3>4. Len(sock[p].ackChan) = 0
      BY <1>3
    <3>5. Places(p, q) = 0 /\ Answered(p, q) = 0
      BY <3>3, <3>4 DEF Places, Answered
    <3>. QED  BY SMTT(20), <1>3, <3>2, <3>5 DEF Token
  <2>. QED  BY Zenon, <2>2, <2>3, <2>4, <2>5, <2>6 DEF Stream1
<1>. QED  BY Zenon, <1>4, OtherPeer DEF StreamInv

-----------------------------------------------------------------------------
(* What the steps do to the two ends of a stream.                          *)

\* slidingWindow, retransThread and the acknowledgments leave cumReadNXT alone.
LEMMA SameReadNXT ==
  ASSUME TypeOK, NEW p \in Peers, NEW i, NEW t,
         \/ Handoff(p) \/ SendTail(p) \/ AfterSend(p) \/ PopAck(p) \/ TakeAck(p) \/ Return(p)
         \/ Retransmit(p) \/ ResetTicker(p, t) \/ TakeDone(p, t) \/ ReceiveAck(p, i)
  PROVE  \A q \in Peers : sock'[q].cumReadNXT = sock[q].cumReadNXT
<1> DEFINE Kept == \A q \in Peers : sock'[q].cumReadNXT = sock[q].cumReadNXT
<1>1. ASSUME NEW s, sock' = [sock EXCEPT ![p] = s], s.cumReadNXT = sock[p].cumReadNXT
      PROVE  Kept
  BY Zenon, <1>1, SockType
<1>2. CASE Handoff(p)
  <2>1. UNCHANGED sock \/ sock' = [sock EXCEPT ![p].ticker = FALSE]
    BY Zenon, <1>2 DEF Handoff
  <2>2. CASE UNCHANGED sock
    BY Zenon, <2>2
  <2>3. CASE sock' = [sock EXCEPT ![p].ticker = FALSE]
    BY Zenon, <2>3, SockType DEF NormalSocket
  <2>. QED  BY Zenon, <2>1, <2>2, <2>3
<1>3. CASE SendTail(p)
  <2> DEFINE exp == ((((wb[p].NXT + sw[p].toSend) % W) - wb[p].UNA) % W) + sock[p].cumWriteUNA
  <2>1. sock' = [sock EXCEPT ![p] = Expect(@, exp)]
    BY Zenon, <1>3 DEF SendTail
  <2> HIDE DEF exp
  <2>. QED  BY Zenon, <2>1, SockType DEF Expect, NormalSocket
<1>4. CASE AfterSend(p)
  <2> DEFINE cws == Predicted(p, Len(Last(sw[p].nodes).pkt.data))
  <2>1. sock' = [sock EXCEPT ![p].ClientWindowSize = cws, ![p].ticker = @ \/ sw[p].first]
    BY Zenon, <1>4 DEF AfterSend
  <2> HIDE DEF cws
  <2>. QED  BY Zenon, <2>1, SockType DEF NormalSocket
<1>5. CASE PopAck(p)
  BY Zenon, <1>5, SockType DEF PopAck, NormalSocket
<1>6. CASE TakeAck(p)
  <2> DEFINE m == sw[p].taken
             locked == [sock[p] EXCEPT !.unackedMtx = "sender"]
             counted == [sock[p] EXCEPT !.seenAcks = @ \cup {m.ack}, !.ClientWindowSize = m.win]
             moved == [counted EXCEPT !.cumWriteUNA = m.ack]
  <2>1. \/ sock' = [sock EXCEPT ![p] = locked] \/ sock' = [sock EXCEPT ![p] = counted]
        \/ sock' = [sock EXCEPT ![p] = moved]
    BY Zenon, <1>6, SockType DEF TakeAck
  <2> HIDE DEF m
  <2>2. /\ locked.cumReadNXT = sock[p].cumReadNXT /\ counted.cumReadNXT = sock[p].cumReadNXT
        /\ moved.cumReadNXT = sock[p].cumReadNXT
    BY Zenon, SockType DEF NormalSocket
  <2> HIDE DEF locked, counted, moved, Kept
  <2>. QED  BY Zenon, <1>1, <2>1, <2>2 DEF Kept
<1>7. CASE Return(p)
  BY Zenon, <1>7, SockType DEF Return, NormalSocket
<1>8. CASE Retransmit(p)
  <2>1. sock' = [sock EXCEPT ![p].ticker = FALSE]
    BY Zenon, <1>8 DEF Retransmit
  <2>. QED  BY Zenon, <2>1, SockType DEF NormalSocket
<1>9. CASE ResetTicker(p, t)
  BY Zenon, <1>9, SockType DEF ResetTicker, NormalSocket
<1>11. CASE TakeDone(p, t)
  BY Zenon, <1>11, SockType DEF TakeDone, NormalSocket
<1>10. CASE ReceiveAck(p, i)
  <2> DEFINE m == net[p][i]
             chan == Append(sock[p].ackChan, [ack |-> m.ack, win |-> m.win])
             queued == [sock[p] EXCEPT !.ClientWindowSize = m.win, !.ackChan = chan]
             blocked == [sock[p] EXCEPT !.ClientWindowSize = m.win, !.unackedMtx = "receiver"]
  <2>1. sock' = [sock EXCEPT ![p] = queued] \/ sock' = [sock EXCEPT ![p] = blocked]
    BY <1>10, SockType, ZenonT(60) DEF ReceiveAck
  <2> HIDE DEF m, chan
  <2>2. queued.cumReadNXT = sock[p].cumReadNXT /\ blocked.cumReadNXT = sock[p].cumReadNXT
    BY Zenon, SockType DEF NormalSocket
  <2> HIDE DEF queued, blocked, Kept
  <2>. QED  BY Zenon, <1>1, <2>1, <2>2 DEF Kept
<1>. QED  BY Zenon, <1>2, <1>3, <1>4, <1>5, <1>6, <1>7, <1>8, <1>9, <1>10, <1>11

\* A step that leaves the ends of both streams alone: the bytes written and returned,
\* the read buffers and what their pointers stand for.
Inner ==
  /\ UNCHANGED <<written, got, rb>>
  /\ \A q \in Peers : sock'[q].cumReadNXT = sock[q].cumReadNXT

\* Only VWrite, the arrival of data and VRead are no inner steps.
LEMMA InnerStep ==
  ASSUME Roomy, TypeOK, StreamInv, [Next]_vars
  PROVE  \/ Inner
         \/ \E p \in Peers : \/ VWriteCopy(p) \/ VReadLocked(p)
                             \/ \E i \in Nat \ {0} : ReceiveData(p, i)
<1>1. CASE UNCHANGED vars
  BY Zenon, <1>1 DEF vars, Inner
<1>2. ASSUME NEW p \in Peers,
             \/ \E n \in 1 .. MaxMsg : VWriteCall(p, n)
             \/ VWriteCopy(p)
             \/ SenderStep(p) \/ ReceiverStep(p) \/ TimerStep(p)
             \/ \E t \in Threads : ThreadStep(p, t)
             \/ \E n \in Wants[p] : VReadCall(p, n)
             \/ VReadLocked(p)
             \/ \E i \in 1 .. Len(net[p]) : Lose(p, i)
      PROVE  \/ Inner
             \/ VWriteCopy(p) \/ VReadLocked(p) \/ \E i \in Nat \ {0} : ReceiveData(p, i)
  <2>1. CASE \/ \E n \in 1 .. MaxMsg : VWriteCall(p, n)
             \/ \E n \in Wants[p] : VReadCall(p, n)
             \/ \E i \in 1 .. Len(net[p]) : Lose(p, i)
    BY Zenon, <2>1 DEF VWriteCall, VReadCall, Lose, Inner
  <2>2. CASE SkipSend(p) \/ EndRound(p) \/ Unlock(p) \/ Answer(p)
    BY Zenon, <2>2 DEF SkipSend, EndRound, Unlock, Answer, Inner
  <2>3. CASE \/ Handoff(p) \/ SendTail(p) \/ AfterSend(p) \/ PopAck(p) \/ TakeAck(p) \/ Return(p)
             \/ Retransmit(p) \/ (\E t : ResetTicker(p, t) \/ TakeDone(p, t))
             \/ (\E i : ReceiveAck(p, i))
    <3>1. UNCHANGED <<written, got, rb>>
      BY Zenon, <2>3 DEF Handoff, SendTail, AfterSend, PopAck, TakeAck, Return, Retransmit,
         ResetTicker, TakeDone, ReceiveAck
    <3>2. \A q \in Peers : sock'[q].cumReadNXT = sock[q].cumReadNXT
      BY Zenon, <2>3, SameReadNXT
    <3>. QED  BY Zenon, <3>1, <3>2 DEF Inner
  <2>4. \A i \in 1 .. Reach : i \in Nat \ {0}
    BY BoundAssumption
  <2>5. /\ ~SendProbe(p) /\ ~ProbeAck(p) /\ ~ProbeAgain(p) /\ ~AckChanRoom(p) /\ ~PopEarly(p)
        /\ \A i \in Nat \ {0} : ~ReceiveEarly(p, i) /\ ~ReceiveFull(p, i)
    BY Zenon, NoProbe, NeverEarly
  <2>. QED  BY Zenon, <1>2, <2>1, <2>2, <2>3, <2>4, <2>5
               DEF SenderStep, ReceiverStep, TimerStep, ThreadStep
<1>. QED  BY Zenon, <1>1, <1>2 DEF Next

\* Every step is a step of ByteStream or leaves its variables alone.
LEMMA StreamRefined ==
  ASSUME Roomy, TypeOK, StreamInv, [Next]_vars
  PROVE  [Stream!Next]_<<written, got>>
<1>1. CASE Inner
  BY Zenon, <1>1 DEF Inner
<1>2. ASSUME NEW p \in Peers, VWriteCopy(p)
      PROVE  [Stream!Next]_<<written, got>>
  <2>1. PICK n \in Nat : written' = [written EXCEPT ![p] = written[p] + n]
    BY Zenon, <1>2, VWriteCopyStream
  <2>2. UNCHANGED got
    BY Zenon, <1>2, VWriteCopyStream
  <2>3. written[p] \in Nat /\ written \in [Peers -> Nat]
    BY DEF TypeOK
  <2>4. CASE n = 0
    <3>1. written[p] + 0 = written[p]
      BY <2>3
    <3>. QED  BY Zenon, <2>1, <2>2, <2>3, <2>4, <3>1
  <2>5. CASE n # 0
    <3>1. written'[p] = written[p] + n
      BY Zenon, <2>1, <2>3
    <3>2. n \in 1 .. written'[p] - written[p]
      BY SMTT(20), <2>3, <2>5, <3>1
    <3>3. Stream!Write(p, n)
      BY Zenon, <2>1, <2>2 DEF Stream!Write
    <3>. QED  BY Zenon, <3>2, <3>3 DEF Stream!Next
  <2>. QED  BY Zenon, <2>4, <2>5
<1>3. ASSUME NEW p \in Peers, NEW i \in Nat \ {0}, ReceiveData(p, i)
      PROVE  UNCHANGED <<written, got>>
  BY Zenon, <1>3 DEF ReceiveData
<1>4. ASSUME NEW p \in Peers, VReadLocked(p)
      PROVE  [Stream!Next]_<<written, got>>
  <2>1. UNCHANGED written
    BY Zenon, <1>4 DEF VReadLocked
  <2>2. CASE UNCHANGED got
    BY Zenon, <2>1, <2>2
  <2>3. CASE ~UNCHANGED got
    <3>1. PICK n \in Nat : /\ got' = [got EXCEPT ![p] = @ \o Bytes(Len(got[p]) + 1, n)]
                           /\ Len(got'[p]) = Len(got[p]) + n
                           /\ Len(got[p]) + n <= written[Other(p)]
      BY Zenon, <1>4, <2>3, VReadLockedStream
    <3>2. Len(got[p]) \in Nat /\ got[p] \in Seq(Nat)
      BY Zenon, PeerTypes, LenProperties
    <3>3. Bytes(Len(got[p]) + 1, n) = [k \in 1 .. n |-> Len(got[p]) + k]
      <4>1. \A k \in 1 .. n : Len(got[p]) + 1 + k - 1 = Len(got[p]) + k
        BY <3>2
      <4>. QED  BY Zenon, <4>1 DEF Bytes
    <3>4. n # 0
      <4>1. SUFFICES ASSUME n = 0 PROVE FALSE
        OBVIOUS
      <4>2. Bytes(Len(got[p]) + 1, 0) = <<>>
        BY <3>2, BytesSeq
      <4>3. got[p] \o <<>> = got[p]
        BY Zenon, <3>2, ConcatEmptySeq
      <4>4. got' = [got EXCEPT ![p] = got[p]]
        BY Zenon, <3>1, <4>1, <4>2, <4>3
      <4>. QED  BY Zenon, <2>3, <4>4 DEF TypeOK
    <3>5. n \in 1 .. Len(got'[p]) - Len(got[p])
      BY SMTT(20), <3>1, <3>2, <3>4
    <3>6. Stream!From(p) = Other(p)
      BY Zenon DEF Stream!From, Other
    <3>7. Stream!Read(p, n)
      BY Zenon, <2>1, <3>1, <3>3, <3>6 DEF Stream!Read
    <3>. QED  BY Zenon, <3>5, <3>7 DEF Stream!Next
  <2>. QED  BY Zenon, <2>2, <2>3
<1>. QED  BY Zenon, <1>1, <1>2, <1>3, <1>4, InnerStep

\* The next byte expected never moves back in a step.
LEMMA ReadNXTStep ==
  ASSUME Roomy, TypeOK, StreamInv, [Next]_vars, NEW q \in Peers
  PROVE  sock'[q].cumReadNXT >= sock[q].cumReadNXT
<1>1. sock[q].cumReadNXT \in Nat
  BY Zenon, SocketFields
<1>2. CASE sock'[q].cumReadNXT = sock[q].cumReadNXT
  BY <1>1, <1>2
<1>3. ASSUME NEW p \in Peers, VWriteCopy(p) \/ VReadLocked(p)
      PROVE  sock'[q].cumReadNXT = sock[q].cumReadNXT
  BY Zenon, <1>3 DEF VWriteCopy, VReadLocked
<1>4. ASSUME NEW p \in Peers, NEW i \in Nat \ {0}, ReceiveData(p, i)
      PROVE  \/ sock'[q].cumReadNXT = sock[q].cumReadNXT
             \/ sock'[q].cumReadNXT >= sock[q].cumReadNXT
  <2>1. q = p \/ q = Other(p)
    BY PeersAssumption DEF Other
  <2>. QED  BY Zenon, <1>4, <2>1, ReceiveDataStream
<1>. QED  BY Zenon, <1>2, <1>3, <1>4, InnerStep DEF Inner

\* The bytes p has not read stay in its buffer in a step.
LEMMA UnreadStep ==
  ASSUME Roomy, TypeOK, StreamInv, [Next]_vars, NEW q \in Peers, rb'[q].LBR = rb[q].LBR
  PROVE  /\ Unread(q)' >= Unread(q)
         /\ \A k \in 1 .. Unread(q) :
              LET c == (rb[q].LBR + k) % W IN rb'[q].buf[c] = rb[q].buf[c]
<1> DEFINE Kept == /\ Unread(q)' >= Unread(q)
                   /\ \A k \in 1 .. Unread(q) :
                        LET c == (rb[q].LBR + k) % W IN rb'[q].buf[c] = rb[q].buf[c]
<1>1. ASSUME rb'[q].buf = rb[q].buf, rb'[q].NXT = rb[q].NXT
      PROVE  Kept
  <2>1. Unread(q)' = Unread(q)
    BY Zenon, <1>1 DEF Unread
  <2>2. Unread(q) \in Int
    <3>1. rb[q].NXT - 1 - rb[q].LBR \in Int
      BY BufferFields
    <3>2. Unread(q) \in Cells
      BY Zenon, <3>1, ModCell DEF Unread
    <3>3. \A c \in Cells : c \in Int
      BY CellNat
    <3>. QED  BY Zenon, <3>2, <3>3
  <2>3. Unread(q) >= Unread(q)
    BY <2>2
  <2>. QED  BY Zenon, <1>1, <2>1, <2>3
<1>2. CASE Inner
  BY Zenon, <1>1, <1>2 DEF Inner
<1>3. ASSUME NEW p \in Peers, VWriteCopy(p) PROVE Kept
  BY Zenon, <1>1, <1>3 DEF VWriteCopy
<1>4. ASSUME NEW p \in Peers, VReadLocked(p) PROVE Kept
  <2>1. UNCHANGED rb \/ \E n : rb' = [rb EXCEPT ![p].LBR = n]
    BY Zenon, <1>4 DEF VReadLocked, ReadOut
  <2>2. rb'[q].buf = rb[q].buf /\ rb'[q].NXT = rb[q].NXT
    BY SMTT(20), <2>1, BufferTypes DEF ReadBuffer
  <2>. QED  BY Zenon, <1>1, <2>2
<1>5. ASSUME NEW p \in Peers, NEW i \in Nat \ {0}, ReceiveData(p, i) PROVE Kept
  <2>1. q = p \/ q = Other(p)
    BY PeersAssumption DEF Other
  <2>2. CASE q = Other(p)
    BY Zenon, <1>1, <1>5, <2>2, ReceiveDataStream
  <2>3. CASE q = p
    <3> DEFINE g == Len(got[q])
               r == sock[q].cumReadNXT
               x == sock'[q].cumReadNXT
    <3>1. /\ x \in Nat /\ x >= r /\ x <= g + W /\ rb'[q].NXT = x % W
          /\ \A y \in g + 1 .. x - 1 : rb'[q].buf[y % W] = y
      BY Zenon, <1>5, <2>3, ReceiveDataStream
    <3>2. Other(q) \in Peers /\ q = Other(Other(q))
      BY Zenon, OtherPeer
    <3>3. /\ g \in Nat /\ r \in Nat /\ g < r /\ Stream1(Other(q), q)
      BY Zenon, <3>2, Numbers
    <3>4. rb[q].LBR = g % W /\ \A y \in g + 1 .. r - 1 : rb[q].buf[y % W] = y
      BY Zenon, <3>3 DEF Stream1, Reads
    <3>5. Unread(q) = r - 1 - g
      BY Zenon, <3>2, ReceiverRoom
    <3>6. Unread(q)' = x - 1 - g
      <4>1. g < x
        BY SMTT(20), <3>1, <3>3
      <4>2. ((x % W) - 1 - (g % W)) % W = x - 1 - g
        BY Zenon, <3>1, <3>3, <4>1, Room
      <4>. QED  BY Zenon, <3>1, <3>4, <4>2 DEF Unread
    <3> HIDE DEF g, r, x
    <3>7. x - 1 - g >= r - 1 - g
      BY SMTT(20), <3>1, <3>3
    <3>8. ASSUME NEW k \in 1 .. r - 1 - g
          PROVE  rb'[q].buf[(rb[q].LBR + k) % W] = rb[q].buf[(rb[q].LBR + k) % W]
      <4>1. /\ g \in Int /\ k \in Int /\ g + k \in g + 1 .. r - 1 /\ g + k \in g + 1 .. x - 1
        BY <3>1, <3>3
      <4>2. (rb[q].LBR + k) % W = (g + k) % W
        BY Zenon, <3>4, <4>1, ModPlus
      <4>. QED  BY Zenon, <3>1, <3>4, <4>1, <4>2
    <3>. QED  BY Zenon, <3>5, <3>6, <3>7, <3>8
  <2>. QED  BY Zenon, <2>1, <2>2, <2>3
<1>. QED  BY Zenon, <1>2, <1>3, <1>4, <1>5, InnerStep

-----------------------------------------------------------------------------
(* The theorems.                                                           *)

\* As long as the buffers have room for a segment besides what is not yet read and no
\* timer is early, StreamInv holds, however the network loses and reorders packets.
LEMMA StreamInvariant ==
  ASSUME Roomy
  PROVE  Spec => [](TypeOK /\ StreamInv)
<1>1. Init => StreamInv
  BY Zenon, StreamInit
<1>2. TypeOK /\ StreamInv /\ [Next]_vars => StreamInv'
  BY Zenon, StreamStep
<1>. QED  BY <1>1, <1>2, TypeCorrect, PTL DEF Spec

\* ReliableStream: the connection implements ByteStream in both directions.  VRead
\* returns the bytes given to VWrite at the other end, in order, each once, for all
\* buffer sizes, segment sizes, messages, losses and reorderings.
THEOREM StreamReliable ==
  ASSUME Roomy
  PROVE  Spec => ReliableStream
<1>1. Init => Stream!Init
  BY Zenon DEF Init, Stream!Init
<1>2. TypeOK /\ StreamInv /\ [Next]_vars => [Stream!Next]_<<written, got>>
  BY Zenon, StreamRefined
<1>. QED  BY <1>1, <1>2, StreamInvariant, PTL DEF Spec, ReliableStream, Stream!Spec

\* ReadNXTForward: a duplicate of a segment that was delivered never moves cumReadNXT
\* back, although ReceiverThread computes it from the sequence number of the packet.
THEOREM StreamForward ==
  ASSUME Roomy
  PROVE  Spec => ReadNXTForward
<1>1. /\ TypeOK /\ StreamInv /\ [Next]_vars
      => [\A p \in Peers : sock'[p].cumReadNXT >= sock[p].cumReadNXT]_vars
  BY Zenon, ReadNXTStep
<1>. QED  BY <1>1, StreamInvariant, PTL DEF Spec, ReadNXTForward

\* UnreadKept: no segment that arrives overwrites bytes VRead has not returned, or
\* makes them look read.
THEOREM StreamUnread ==
  ASSUME Roomy
  PROVE  Spec => UnreadKept
<1>1. /\ TypeOK /\ StreamInv /\ [Next]_vars
      => [\A p \in Peers : rb'[p].LBR = rb[p].LBR =>
            /\ Unread(p)' >= Unread(p)
            /\ \A k \in 1 .. Unread(p) :
                 LET c == (rb[p].LBR + k) % W IN rb'[p].buf[c] = rb[p].buf[c]]_vars
  BY Zenon, UnreadStep
<1>. QED  BY <1>1, StreamInvariant, PTL DEF Spec, UnreadKept

\* WindowHasTail: when slidingWindow sends, its window has a head.
THEOREM StreamWindow ==
  ASSUME Roomy
  PROVE  Spec => []WindowHasTail
<1>1. ASSUME TypeOK, StreamInv PROVE WindowHasTail
  <2>1. ASSUME NEW p \in Peers
        PROVE  /\ sw[p].pc = "sent" \/ (sw[p].pc \in {"loop", "normal"} /\ MaySend(p))
                    => sw[p].nodes # <<>>
               /\ sw[p].nodes # <<>> => Last(sw[p].nodes).idx - sw[p].nodes[1].idx < W
    <3>1. Phase(p)
      BY Zenon, <1>1 DEF StreamInv, Stream1
    <3>2. CASE Closed(sw[p])
      BY Zenon, <3>2 DEF Closed
    <3>3. ASSUME Whole(sw[p], Una(p))
          PROVE  sw[p].nodes # <<>> /\ Last(sw[p].nodes).idx - sw[p].nodes[1].idx < W
      <4>1. Len(sw[p].nodes) = 1 /\ sw[p].nodes[1].idx = 0
        BY Zenon, <3>3 DEF Whole, Carries
      <4>2. Last(sw[p].nodes) = sw[p].nodes[1] /\ sw[p].nodes # <<>>
        BY <4>1 DEF Last
      <4>. QED  BY SMTT(20), <4>1, <4>2, SizeAssumption
    <3>. QED  BY Zenon, <3>1, <3>2, <3>3 DEF Phase, Ready, Out
  <2>. QED  BY Zenon, <2>1 DEF WindowHasTail
<1>. QED  BY <1>1, StreamInvariant, PTL
=============================================================================
