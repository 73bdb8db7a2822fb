---------------------------- MODULE TCPTransfer ----------------------------
(***************************************************************************)
(* Data transfer over one ESTABLISHED connection: VWrite, SenderThread,    *)
(* slidingWindow (with zero-window probing), retransThread, ReceiverThread *)
(* and VRead of src/pkg/tcpstack/tcpstack.go, on both ends.                *)
(*                                                                         *)
(* A byte of a peer's stream is represented by its position in the stream, *)
(* so every buffer cell tells which byte it holds.  Sequence numbers are   *)
(* taken relative to baseSeq (5000 and 6000 in the code), so the first     *)
(* byte of each stream has number 1; streams are shorter than 2^32 bytes.  *)
(* No VClose is called here, so no segment carries FIN and unackedFINs is  *)
(* empty.                                                                  *)
(***************************************************************************)
EXTENDS Integers, Sequences, SeqOps

CONSTANTS
  Peers,       \* the two ends of the connection
  W,           \* WINDOW_SIZE: cells of a buffer, and the modulus of uint16
  MSS,         \* bytes per segment, and per chunk that VWrite hands over
  AckCap,      \* capacity of ackChan
  MaxBytes,    \* bound: bytes that the application of each peer writes
  MaxMsg,      \* bound: bytes per VWrite call
  Wants,       \* numbers of bytes that each application asks VRead for
  Polls,       \* peers whose application calls VRead only if there is data
  Outstanding, \* workload: bytes written and not yet read by the other side
  MaxLoss,     \* bound: packets that the network loses
  MaxTicks,    \* bound: expiries of the ticker, and of a probe's timer while
               \* its answer is under way
  Spurious,    \* may a timer expire while the answer is still under way?
  Reach        \* a packet can overtake Reach - 1 earlier ones

ASSUME PeersAssumption == \E x, y \in Peers : x # y /\ Peers = {x, y}
ASSUME SizeAssumption == W \in Nat /\ MSS \in Nat /\ 0 < MSS /\ MSS < W
ASSUME BoundAssumption ==
  /\ AckCap \in Nat \ {0}
  /\ MaxBytes \in [Peers -> Nat] /\ Wants \in [Peers -> SUBSET (1 .. W - 1)]
  /\ MaxMsg \in Nat /\ Outstanding \in Nat
  /\ MaxLoss \in Nat /\ MaxTicks \in Nat /\ Reach \in Nat
\* retransThread gives up at the tenth expiry for one segment; that path, which
\* calls VClose, is left out by staying below it.
ASSUME TicksAssumption == MaxTicks < 10
ASSUME ChoiceAssumption == Spurious \in BOOLEAN /\ Polls \subseteq Peers

VARIABLES
  net,      \* net[p]: packets on the way to p (IP, TCPChan and normalChan)
  wb, rb,   \* the WriteBuffer and ReadBuffer of each socket
  sock,     \* the other fields of NormalSocket that the threads share
  vw,       \* the VWrite call in progress
  sw,       \* the slidingWindow call in progress, and its window
  thr,      \* retransThread of the present window ("cur") and of an earlier one
  rcv,      \* where ReceiverThread is
  vr,       \* the VRead call in progress
  written,  \* number of bytes VWrite has copied so far
  got,      \* bytes VRead has returned so far
  arrived,  \* history: sequence numbers ever stored in the read buffer
  lost, ticks

vars == <<net, wb, rb, sock, vw, sw, thr, rcv, vr, written, got, arrived, lost, ticks>>

Other(p) == CHOOSE q \in Peers : q # p
Least(a, b) == IF a <= b THEN a ELSE b

-----------------------------------------------------------------------------
(* The circular buffers.                                                   *)

Cells == 0 .. W - 1

\* Mutation: the copy starts one cell early.
PutEarly(buf, pos, s) ==
  [c \in Cells |-> LET k == (c - pos + 1) % W
                   IN  IF k < Len(s) THEN s[k + 1] ELSE buf[c]]

\* buf with the bytes s copied in from cell pos on, wrapping around.
Put(buf, pos, s) ==
  [c \in Cells |-> LET k == (c - pos) % W
                   IN  IF k < Len(s) THEN s[k + 1] ELSE buf[c]]

\* The n bytes of buf from cell pos on, wrapping around.
Slice(buf, pos, n) == [k \in 1 .. n |-> buf[(pos + k - 1) % W]]

\* Free cells of p's read buffer, the window it advertises.
FreeSpace(p) == (rb[p].LBR - rb[p].NXT) % W

\* Mutation: off by one.
UnreadPlusOne(p) == (rb[p].NXT - rb[p].LBR) % W

\* num_buf: bytes of p's read buffer that VRead has not returned.
Unread(p) == (rb[p].NXT - 1 - rb[p].LBR) % W

\* Mutation: ackNum is one too high.
SegmentAhead(p, seq, data) ==
  [seq |-> seq, ack |-> sock[p].cumReadNXT + 1, win |-> FreeSpace(p), data |-> data]

\* A packet of p with p's current ackNum and window; all carry the ACK flag.
Segment(p, seq, data) ==
  [seq |-> seq, ack |-> sock[p].cumReadNXT, win |-> FreeSpace(p), data |-> data]

Send(p, m) == net' = [net EXCEPT ![Other(p)] = Append(@, m)]

-----------------------------------------------------------------------------
(* Initial state: what VConnect and VAccept leave behind.                  *)

Threads == {"cur", "old"}

NoPacket == [seq |-> 0, ack |-> 0, win |-> 0, data |-> <<>>]

NoAck == [ack |-> 0, win |-> 0]

NoWindow ==
  [pc |-> "idle", size |-> 0, sent |-> 0, toSend |-> 0, rest |-> <<>>,
   nodes |-> <<>>, tailLen |-> 0, skip |-> TRUE, first |-> TRUE, exp |-> 0,
   probe |-> NoPacket, taken |-> NoAck]

Init ==
  /\ net = [p \in Peers |-> <<>>]
  /\ wb = [p \in Peers |-> [buf |-> [c \in Cells |-> 0], UNA |-> 1, NXT |-> 1, LBW |-> 0]]
  /\ rb = [p \in Peers |-> [buf |-> [c \in Cells |-> 0], LBR |-> 0, NXT |-> 1]]
  /\ sock = [p \in Peers |->
               [cumWriteUNA |-> 1, cumReadNXT |-> 1, ClientWindowSize |-> W - 1,
                unackedNums |-> {}, seenAcks |-> {}, ackChan |-> <<>>,
                unackedMtx |-> "free", earlyPQ |-> {}, ticker |-> FALSE,
                packetDone |-> FALSE]]
  /\ vw = [p \in Peers |-> [pc |-> "idle", left |-> 0, new |-> TRUE]]
  /\ sw = [p \in Peers |-> NoWindow]
  /\ thr = [p \in Peers |-> [t \in Threads |-> "none"]]
  /\ rcv = [p \in Peers |-> [pc |-> "recv", pkt |-> NoPacket]]
  /\ vr = [p \in Peers |-> [pc |-> "idle", want |-> 0, num |-> 0]]
  /\ written = [p \in Peers |-> 0]
  /\ got = [p \in Peers |-> <<>>]
  /\ arrived = [p \in Peers |-> {}]
  /\ lost = 0
  /\ ticks = 0

-----------------------------------------------------------------------------
(* VWrite.                                                                 *)

\* The application calls VWrite with a message of n bytes.
VWriteCall(p, n) ==
  /\ vw[p].pc = "idle"
  /\ written[p] + n <= MaxBytes[p]
  /\ written[p] + n - Len(got[Other(p)]) <= Outstanding
  /\ vw' = [vw EXCEPT ![p] = [pc |-> "loop", left |-> n, new |-> TRUE]]
  /\ UNCHANGED <<net, wb, rb, sock, sw, rcv, vr, written, got, arrived, lost, ticks, thr>>

\* The room VWrite assumes: up to the end of the buffer for the first chunk of
\* a message, up to UNA for the others.
Space(p) == IF vw[p].new THEN W - 1 - wb[p].LBW ELSE (wb[p].UNA - 1 - wb[p].LBW) % W

\* Where the next chunk starts.
FirstCell(p) == wb[p].LBW + 1

\* One round of the loop up to the send on writeChan: compute the space left
\* and copy one chunk after LBW.
VWriteCopy(p) ==
  LET n == Least(Least(vw[p].left, Space(p)), MSS)
      chunk == [k \in 1 .. n |-> written[p] + k]
  IN  /\ vw[p].pc = "loop"
      /\ wb' = [wb EXCEPT ![p].buf = Put(@, FirstCell(p), chunk),
                          ![p].LBW = (@ + n) % W]
      /\ written' = [written EXCEPT ![p] = @ + n]
      /\ vw' = [vw EXCEPT ![p] = [pc |-> "chan", left |-> @.left - n, new |-> FALSE]]
      /\ UNCHANGED <<net, rb, sock, sw, rcv, vr, got, arrived, lost, ticks, thr>>

-----------------------------------------------------------------------------
(* SenderThread and slidingWindow.                                         *)

\* The locals of slidingWindow(payload) at the top of its loop, the first
\* segment starting at seq.  una and cws are cumWriteUNA and ClientWindowSize
\* on entry, dist is NXT - UNA.
WindowAt(p, seq, payload, una, cws, dist) ==
  LET n == Least(Least(MSS, Len(payload)), cws)
      node == [pkt |-> Segment(p, seq, SubSeq(payload, 1, n)),
               exp |-> dist + una + n, idx |-> 0, sent |-> FALSE]
  IN  IF payload = <<>>
      THEN [NoWindow EXCEPT !.pc = "end"]
      ELSE [NoWindow EXCEPT !.pc = "loop", !.size = Len(payload), !.toSend = n, !.tailLen = n,
                            !.rest = SubSeq(payload, n + 1, Len(payload)),
                            !.nodes = <<node>>]

\* Mutation: the sequence number is computed from UNA, which wraps around.
OpenWindowAtUNA(p, payload, una, cws, dist) == WindowAt(p, wb[p].UNA, payload, una, cws, dist)

OpenWindow(p, payload, una, cws, dist) == WindowAt(p, una, payload, una, cws, dist)

\* Mutation: the byte at LBW is left behind.
ToCollectShort(p) == (wb[p].LBW - wb[p].NXT) % W

\* amount_to_send
ToCollect(p) == (wb[p].LBW - wb[p].NXT + 1) % W

\* VWrite and SenderThread meet on writeChan; SenderThread collects what is
\* between NXT and LBW and calls slidingWindow, VWrite goes on or returns.
Handoff(p) ==
  LET b == wb[p]
      dist == (b.NXT - b.UNA) % W
  IN  /\ vw[p].pc = "chan" /\ sw[p].pc = "idle"
      /\ vw' = [vw EXCEPT ![p].pc = IF vw[p].left > 0 THEN "loop" ELSE "idle"]
      /\ IF (b.LBW - b.UNA) % W >= dist
         THEN /\ sw' = [sw EXCEPT ![p] = OpenWindow(p, Slice(b.buf, b.NXT, ToCollect(p)),
                                            sock[p].cumWriteUNA, sock[p].ClientWindowSize, dist)]
              /\ sock' = [sock EXCEPT ![p].ticker = FALSE]
              /\ thr' = [thr EXCEPT ![p]["cur"] = "select"]
         ELSE UNCHANGED <<sw, sock, thr>>
      /\ UNCHANGED <<net, wb, rb, rcv, vr, written, got, arrived, lost, ticks>>

\* Zero-window probing is due: nothing unacknowledged and no window.
ProbeDue(p) ==
  /\ sw[p].pc = "loop" /\ ~sw[p].skip
  /\ wb[p].NXT = wb[p].UNA /\ sock[p].ClientWindowSize = 0

\* unackedNums[n] = 0
Expect(s, n) == [s EXCEPT !.unackedNums = @ \cup {n}, !.seenAcks = @ \ {n}]

\* Send the first unacknowledged byte and wait for its acknowledgment.
SendProbe(p) ==
  LET b == wb[p]
      exp == ((b.NXT + 1 - b.UNA) % W) + sock[p].cumWriteUNA
      m == Segment(p, exp - 1, <<b.buf[b.UNA]>>)
  IN  /\ ProbeDue(p) /\ sock[p].unackedMtx = "free"
      /\ wb' = [wb EXCEPT ![p].NXT = (@ + 1) % W]
      /\ sock' = [sock EXCEPT ![p] = Expect(@, exp)]
      /\ sw' = [sw EXCEPT ![p].pc = "probe", ![p].exp = exp, ![p].probe = m]
      /\ Send(p, m)
      /\ UNCHANGED <<rb, rcv, vr, vw, written, got, arrived, lost, ticks, thr>>

\* packetDoneChan <- true: a retransThread waiting in its select takes the token
\* and returns, otherwise it is buffered and the thread outlives its window.
\* One thread is alive when this is called.
Busy(p) == thr[p]["cur"] = "reset" \/ thr[p]["old"] = "reset"
Outliving(p) == [t \in Threads |-> IF t = "old" /\ Busy(p) THEN "reset" ELSE "none"]

\* The nodes of the window once the probed byte is cut from the first segment of
\* the call.
WithoutProbed(nodes) ==
  [i \in DOMAIN nodes |-> IF nodes[i].idx = 0 THEN [nodes[i] EXCEPT !.pkt.data = Tail(@)]
                                              ELSE nodes[i]]

\* While probing, an acknowledgment of the probe that opens the window ends
\* the probing; every other one is dropped.  The probed byte is cut from the
\* first segment of this call (the variable tail, not window.tail), or the call
\* starts over if that segment is empty (a panic if no byte is left to cut).
ProbeAck(p) ==
  LET m == Head(sock[p].ackChan)
      s == sw[p]
      nxt == [sock[p] EXCEPT !.ackChan = Tail(@)]
      opened == [nxt EXCEPT !.ClientWindowSize = m.win, !.cumWriteUNA = m.ack]
  IN  /\ s.pc = "probe" /\ sock[p].ackChan # <<>>
      /\ \/ /\ m.ack = s.exp /\ m.win > 0 /\ s.tailLen = 0
            /\ s.rest # <<>> /\ ~sock[p].packetDone
            /\ wb' = [wb EXCEPT ![p].UNA = m.ack % W]
            /\ sw' = [sw EXCEPT ![p] = OpenWindow(p, Tail(s.rest), m.ack, m.win,
                                                  (wb[p].NXT - m.ack) % W)]
            /\ sock' = [sock EXCEPT ![p] = [opened EXCEPT !.ticker = FALSE,
                                                          !.packetDone = Busy(p)]]
            /\ thr' = [thr EXCEPT ![p] = [Outliving(p) EXCEPT !["cur"] = "select"]]
         \/ /\ m.ack = s.exp /\ m.win > 0 /\ s.tailLen > 0
            /\ wb' = [wb EXCEPT ![p].UNA = m.ack % W]
            /\ sw' = [sw EXCEPT ![p] =
                        [s EXCEPT !.pc = "normal", !.skip = TRUE, !.sent = s.sent + 1,
                                  !.tailLen = s.tailLen - 1, !.nodes = WithoutProbed(s.nodes)]]
            /\ sock' = [sock EXCEPT ![p] = opened]
            /\ UNCHANGED thr
         \/ /\ m.ack # s.exp \/ m.win = 0
            /\ sock' = [sock EXCEPT ![p] = nxt]
            /\ UNCHANGED <<wb, sw, thr>>
      /\ UNCHANGED <<net, rb, rcv, vr, vw, written, got, arrived, lost, ticks>>

\* The condition under which the tail is sent.  Its third conjunct, on the
\* distance between head and tail, always holds if there is a head: see
\* WindowHasTail.
MaySend(p) == sock[p].ClientWindowSize > 0 /\ sw[p].toSend > 0

\* Send the segment at the tail of the window (a panic if the head is nil).
SendTail(p) ==
  LET b == wb[p]
      s == sw[p]
      nxt == (b.NXT + s.toSend) % W
      exp == ((nxt - b.UNA) % W) + sock[p].cumWriteUNA
  IN  /\ s.pc \in {"loop", "normal"} /\ ~ProbeDue(p)
      /\ MaySend(p) /\ s.nodes # <<>>
      /\ sock[p].unackedMtx = "free"
      /\ wb' = [wb EXCEPT ![p].NXT = nxt]
      /\ sock' = [sock EXCEPT ![p] = Expect(@, exp)]
      /\ sw' = [sw EXCEPT ![p].pc = "sent", ![p].exp = exp, ![p].nodes[Len(s.nodes)].sent = TRUE]
      /\ Send(p, Last(s.nodes).pkt)
      /\ UNCHANGED <<rb, rcv, vr, vw, written, got, arrived, lost, ticks, thr>>

\* Mutation: the prediction is not a uint16.
PredictedSigned(p, n) == sock[p].ClientWindowSize - n

\* The peer's window after n more bytes, as a uint16.
Predicted(p, n) == (sock[p].ClientWindowSize - n) % W

\* After the send: predict the peer's window, start the ticker on the
\* first send, allocate the next segment.
AfterSend(p) ==
  LET s == sw[p]
      tail == Last(s.nodes)
      cws == Predicted(p, Len(tail.pkt.data))
      n == Least(Least(MSS, s.size - MSS * tail.idx), Len(s.rest))
      node == [pkt |-> Segment(p, s.exp, SubSeq(s.rest, 1, n)),
               exp |-> s.exp + n, idx |-> tail.idx + 1, sent |-> FALSE]
  IN  /\ s.pc = "sent"
      /\ sock' = [sock EXCEPT ![p].ClientWindowSize = cws, ![p].ticker = @ \/ s.first]
      /\ sw' = [sw EXCEPT ![p] =
                  [s EXCEPT !.pc = "acks", !.first = FALSE, !.toSend = n,
                            !.skip = @ /\ cws # 0,
                            !.nodes = IF n > 0 THEN Append(@, node) ELSE @,
                            !.rest = IF n > 0 THEN SubSeq(@, n + 1, Len(@)) ELSE @]]
      /\ UNCHANGED <<net, wb, rb, rcv, vr, vw, written, got, arrived, lost, ticks, thr>>

\* Nothing to send in this round of the loop.
SkipSend(p) ==
  /\ sw[p].pc \in {"loop", "normal"} /\ ~ProbeDue(p)
  /\ ~MaySend(p)
  /\ sw' = [sw EXCEPT ![p].pc = "acks", ![p].skip = @ /\ sock[p].ClientWindowSize # 0]
  /\ UNCHANGED <<net, wb, rb, sock, rcv, vr, vw, written, got, arrived, lost, ticks, thr>>

\* Mutation: any acknowledgment empties the window.
UnackedNone(nodes, n) == <<>>

\* i is the first node of the window that n does not acknowledge.
IsFirstLeft(nodes, n, i) ==
  nodes[i].exp > n /\ \A j \in 1 .. i - 1 : nodes[j].exp <= n

\* The nodes left once the head of the window is dropped as long as it is
\* acknowledged by n.
Unacked(nodes, n) ==
  IF \E i \in DOMAIN nodes : IsFirstLeft(nodes, n, i)
  THEN SubSeq(nodes, CHOOSE i \in DOMAIN nodes : IsFirstLeft(nodes, n, i), Len(nodes))
  ELSE <<>>

\* Take one acknowledgment from ackChan.
PopAck(p) ==
  /\ sw[p].pc = "acks" /\ sock[p].ackChan # <<>>
  /\ sw' = [sw EXCEPT ![p].pc = "ack", ![p].taken = Head(sock[p].ackChan)]
  /\ sock' = [sock EXCEPT ![p].ackChan = Tail(@)]
  /\ UNCHANGED <<net, wb, rb, rcv, vr, vw, written, got, arrived, lost, ticks, thr>>

\* Handle it.  One seen before is skipped with "continue", which leaves
\* unackedMtx locked.
TakeAck(p) ==
  LET m == sw[p].taken
      back == [sw[p] EXCEPT !.pc = "acks", !.taken = NoAck]
      counted == [sock[p] EXCEPT !.seenAcks = @ \cup {m.ack}, !.ClientWindowSize = m.win]
      una == sock[p].cumWriteUNA
  IN  /\ sw[p].pc = "ack" /\ sock[p].unackedMtx = "free"
      /\ \/ /\ m.ack \in sock[p].seenAcks
            /\ sock' = [sock EXCEPT ![p].unackedMtx = "sender"]
            /\ sw' = [sw EXCEPT ![p] = back]
            /\ UNCHANGED wb
         \/ /\ m.ack \notin sock[p].seenAcks /\ m.ack > una
            /\ sock' = [sock EXCEPT ![p] = [counted EXCEPT !.cumWriteUNA = m.ack]]
            /\ wb' = [wb EXCEPT ![p].UNA = m.ack % W]
            /\ sw' = [sw EXCEPT ![p] = [back EXCEPT !.sent = @ + (m.ack - una),
                                                    !.nodes = Unacked(@, m.ack)]]
         \/ /\ m.ack \notin sock[p].seenAcks /\ m.ack <= una
            /\ sock' = [sock EXCEPT ![p] = counted]
            /\ sw' = [sw EXCEPT ![p] = back]
            /\ UNCHANGED wb
      /\ UNCHANGED <<net, rb, rcv, vr, vw, written, got, arrived, lost, ticks, thr>>

\* Mutation: the loop goes on until more than the payload is acknowledged.
EndRoundLate(p) ==
  /\ sw[p].pc = "acks" /\ sock[p].ackChan = <<>>
  /\ sw' = [sw EXCEPT ![p].pc = IF sw[p].sent <= sw[p].size THEN "loop" ELSE "end"]
  /\ UNCHANGED <<net, wb, rb, sock, rcv, vr, vw, written, got, arrived, lost, ticks, thr>>

\* ackChan is empty: start the next round, or leave the loop once all is
\* acknowledged.
EndRound(p) ==
  /\ sw[p].pc = "acks" /\ sock[p].ackChan = <<>>
  /\ sw' = [sw EXCEPT ![p].pc = IF sw[p].sent < sw[p].size THEN "loop" ELSE "end"]
  /\ UNCHANGED <<net, wb, rb, sock, rcv, vr, vw, written, got, arrived, lost, ticks, thr>>

\* Mutation: slidingWindow returns without signalling packetDoneChan.
ReturnSilently(p) ==
  /\ sw[p].pc = "end"
  /\ sw' = [sw EXCEPT ![p] = NoWindow]
  /\ UNCHANGED <<net, wb, rb, sock, rcv, vr, vw, written, got, arrived, lost, ticks, thr>>

\* slidingWindow signals packetDoneChan and returns.
Return(p) ==
  /\ sw[p].pc = "end" /\ ~sock[p].packetDone
  /\ sw' = [sw EXCEPT ![p] = NoWindow]
  /\ sock' = [sock EXCEPT ![p].packetDone = Busy(p)]
  /\ thr' = [thr EXCEPT ![p] = Outliving(p)]
  /\ UNCHANGED <<net, wb, rb, rcv, vr, vw, written, got, arrived, lost, ticks>>

-----------------------------------------------------------------------------
(* retransThread.  A new thread reaches its select before its window is    *)
(* done.  Restarting a running ticker only moves its next expiry, so the   *)
(* restarts on acknowledgments are left out.                               *)

\* No packet, acknowledgment or receive step is under way on either side.
Quiet == \A q \in Peers : net[q] = <<>> /\ sock[q].ackChan = <<>> /\ rcv[q].pc = "recv"

\* When may a timer expire?  With Spurious FALSE only after the answer to what
\* was sent can no longer come.
TimeUp == Spurious \/ Quiet

\* The ticker expires: the head of the window is sent again with the current
\* ackNum and window, if it was sent before and the peer has room.  This needs
\* winLock, so slidingWindow is between two rounds.
Retransmit(p) ==
  LET s == sw[p]
      m == Segment(p, s.nodes[1].pkt.seq, s.nodes[1].pkt.data)
  IN  /\ thr[p]["cur"] = "select" /\ sock[p].ticker
      /\ TimeUp /\ ticks < MaxTicks
      /\ s.pc = "loop" \/ (s.pc = "end" /\ Spurious)
      /\ IF sock[p].ClientWindowSize > 0 /\ s.nodes # <<>> /\ s.nodes[1].sent
         THEN /\ sw' = [sw EXCEPT ![p].nodes[1].pkt = m]
              /\ Send(p, m)
         ELSE UNCHANGED <<sw, net>>
      /\ ticks' = ticks + 1
      /\ sock' = [sock EXCEPT ![p].ticker = FALSE]
      /\ thr' = [thr EXCEPT ![p]["cur"] = "reset"]
      /\ UNCHANGED <<wb, rb, rcv, vr, vw, written, got, arrived, lost>>

\* The ticker is started again and the thread goes back to its select.
ResetTicker(p, t) ==
  /\ thr[p][t] = "reset"
  /\ thr' = [thr EXCEPT ![p][t] = "select"]
  /\ sock' = [sock EXCEPT ![p].ticker = TRUE]
  /\ UNCHANGED <<net, wb, rb, sw, rcv, vr, vw, written, got, arrived, lost, ticks>>

\* A thread takes the token from packetDoneChan and returns, whichever window
\* the token was meant for.
TakeDone(p, t) ==
  /\ thr[p][t] = "select" /\ sock[p].packetDone
  /\ thr' = [thr EXCEPT ![p][t] = "none"]
  /\ sock' = [sock EXCEPT ![p].packetDone = FALSE]
  /\ UNCHANGED <<net, wb, rb, sw, rcv, vr, vw, written, got, arrived, lost, ticks>>

\* A second without an answer to the probe: send it again.
ProbeAgain(p) ==
  /\ sw[p].pc = "probe" /\ TimeUp
  /\ Send(p, sw[p].probe)
  /\ IF Quiet THEN UNCHANGED ticks ELSE ticks < MaxTicks /\ ticks' = ticks + 1
  /\ UNCHANGED <<wb, rb, sock, sw, rcv, vr, vw, written, got, arrived, lost, thr>>

-----------------------------------------------------------------------------
(* ReceiverThread.                                                         *)

\* The i-th packet on the way to p is received: taken from the network, its
\* window noted, unackedMtx locked.
Receive(p, i) ==
  /\ rcv[p].pc = "recv" /\ i <= Len(net[p])
  /\ sock[p].unackedMtx = "free"
  /\ net' = [net EXCEPT ![p] = RemoveAt(@, i)]

\* m acknowledges something p has sent and carries no data.
IsAnswer(p, m) == m.ack \in sock[p].unackedNums /\ m.data = <<>>

\* An acknowledgment of something p sent goes to slidingWindow.
ReceiveAck(p, i) ==
  LET m == net[p][i]
  IN  /\ Receive(p, i)
      /\ IsAnswer(p, m)
      /\ IF Len(sock[p].ackChan) < AckCap
         THEN /\ sock' = [sock EXCEPT ![p].ClientWindowSize = m.win,
                                      ![p].ackChan = Append(@, [ack |-> m.ack, win |-> m.win])]
              /\ UNCHANGED rcv
         ELSE /\ sock' = [sock EXCEPT ![p].ClientWindowSize = m.win,
                                      ![p].unackedMtx = "receiver"]
              /\ rcv' = [rcv EXCEPT ![p] = [pc |-> "full", pkt |-> m]]
      /\ UNCHANGED <<wb, rb, sw, vr, vw, written, got, arrived, lost, ticks, thr>>

\* ReceiverThread was blocked on a full ackChan, holding unackedMtx.
AckChanRoom(p) ==
  LET m == rcv[p].pkt
  IN  /\ rcv[p].pc = "full" /\ Len(sock[p].ackChan) < AckCap
      /\ sock' = [sock EXCEPT ![p].unackedMtx = "free",
                              ![p].ackChan = Append(@, [ack |-> m.ack, win |-> m.win])]
      /\ rcv' = [rcv EXCEPT ![p] = [pc |-> "recv", pkt |-> NoPacket]]
      /\ UNCHANGED <<net, wb, rb, sw, vr, vw, written, got, arrived, lost, ticks, thr>>

\* m is ahead of what p expects next.
IsEarly(p, m) == m.seq > sock[p].cumReadNXT

\* A segment ahead of cumReadNXT is kept in earlyPQ, without an answer.
ReceiveEarly(p, i) ==
  LET m == net[p][i]
  IN  /\ Receive(p, i)
      /\ ~IsAnswer(p, m) /\ IsEarly(p, m)
      /\ sock' = [sock EXCEPT ![p].ClientWindowSize = m.win,
                              ![p].earlyPQ = @ \cup {[seq |-> m.seq, data |-> m.data]}]
      /\ UNCHANGED <<wb, rb, sw, rcv, vr, vw, written, got, arrived, lost, ticks, thr>>

\* Copy data behind NXT; NXT and cumReadNXT then follow from seq.  s is the
\* socket to update.
Store(p, s, seq, data) ==
  /\ rb' = [rb EXCEPT ![p].buf = Put(@, rb[p].NXT, data),
                      ![p].NXT = (seq + Len(data)) % W]
  /\ sock' = [sock EXCEPT ![p] = [s EXCEPT !.cumReadNXT = seq + Len(data)]]
  /\ arrived' = [arrived EXCEPT ![p] = @ \cup (seq .. seq + Len(data) - 1)]

\* Any other segment goes to the read buffer if that is not full; readMtx
\* stays locked until Unlock.
ReceiveData(p, i) ==
  LET m == net[p][i]
  IN  /\ Receive(p, i)
      /\ ~IsAnswer(p, m) /\ ~IsEarly(p, m) /\ FreeSpace(p) # 0
      /\ Store(p, [sock[p] EXCEPT !.ClientWindowSize = m.win], m.seq, m.data)
      /\ rcv' = [rcv EXCEPT ![p] = [pc |-> "early", pkt |-> m]]
      /\ UNCHANGED <<wb, sw, vr, vw, written, got, lost, ticks, thr>>

\* readCond.Broadcast()
Broadcast(p) == vr' = [vr EXCEPT ![p].pc = IF @ = "wait" THEN "woken" ELSE @]

\* The read buffer is full: the segment is dropped without an answer.
ReceiveFull(p, i) ==
  LET m == net[p][i]
  IN  /\ Receive(p, i)
      /\ ~IsAnswer(p, m) /\ ~IsEarly(p, m) /\ FreeSpace(p) = 0
      /\ sock' = [sock EXCEPT ![p].ClientWindowSize = m.win]
      /\ Broadcast(p)
      /\ UNCHANGED <<wb, rb, sw, rcv, vw, written, got, arrived, lost, ticks, thr>>

\* The packets at the top of the heap: those with the least sequence number.
Earliest(pq) == {e \in pq : \A f \in pq : e.seq <= f.seq}

\* After data was stored, early packets are popped while they are not ahead of
\* cumReadNXT: one that continues the stream is stored, one behind dropped.
PopEarly(p) ==
  /\ rcv[p].pc = "early"
  /\ \E e \in Earliest(sock[p].earlyPQ) :
       LET s == [sock[p] EXCEPT !.earlyPQ = @ \ {e}]
       IN  \/ /\ e.seq < sock[p].cumReadNXT
              /\ sock' = [sock EXCEPT ![p] = s]
              /\ UNCHANGED <<rb, arrived>>
           \/ /\ e.seq = sock[p].cumReadNXT
              /\ Store(p, s, e.seq, e.data)
  /\ UNCHANGED <<net, wb, sw, rcv, vr, vw, written, got, lost, ticks, thr>>

\* No early packet is due: wake VRead and unlock readMtx.
Unlock(p) ==
  /\ rcv[p].pc = "early"
  /\ \A e \in sock[p].earlyPQ : IsEarly(p, e)
  /\ Broadcast(p)
  /\ rcv' = [rcv EXCEPT ![p].pc = "answer"]
  /\ UNCHANGED <<net, wb, rb, sock, sw, vw, written, got, arrived, lost, ticks, thr>>

\* Acknowledge.
Answer(p) ==
  /\ rcv[p].pc = "answer"
  /\ Send(p, Segment(p, rcv[p].pkt.ack, <<>>))
  /\ rcv' = [rcv EXCEPT ![p] = [pc |-> "recv", pkt |-> NoPacket]]
  /\ UNCHANGED <<wb, rb, sock, sw, vr, vw, written, got, arrived, lost, ticks, thr>>

-----------------------------------------------------------------------------
(* VRead.                                                                  *)

\* VRead(want) looks at the amount of buffered data before it takes readMtx.
\* The loop of ReceiveFile calls it only when there is some, the REPL at any
\* time.
VReadCall(p, want) ==
  /\ vr[p].pc = "idle"
  /\ p \in Polls => Unread(p) > 0
  /\ vr' = [vr EXCEPT ![p] = [pc |-> "lock", want |-> want, num |-> Unread(p)]]
  /\ UNCHANGED <<net, wb, rb, sock, sw, rcv, vw, written, got, arrived, lost, ticks, thr>>

\* Return num bytes, or those wanted, and move LBR.
ReadOut(p, num) ==
  LET n == Least(num, vr[p].want)
  IN  /\ got' = [got EXCEPT ![p] = @ \o Slice(rb[p].buf, rb[p].LBR + 1, n)]
      /\ rb' = [rb EXCEPT ![p].LBR = (@ + n) % W]
      /\ vr' = [vr EXCEPT ![p] = [pc |-> "idle", want |-> 0, num |-> 0]]

\* With readMtx: wait on readCond if there was nothing to read, else return.
VReadLocked(p) ==
  LET num == IF vr[p].pc = "woken" THEN Unread(p) ELSE vr[p].num
  IN  /\ vr[p].pc \in {"lock", "woken"}
      /\ rcv[p].pc # "early"
      /\ IF num = 0
         THEN /\ vr' = [vr EXCEPT ![p].pc = "wait"]
              /\ UNCHANGED <<rb, got>>
         ELSE ReadOut(p, num)
      /\ UNCHANGED <<net, wb, sock, sw, rcv, vw, written, arrived, lost, ticks, thr>>

-----------------------------------------------------------------------------
\* UDP loses a packet.
Lose(p, i) ==
  /\ lost < MaxLoss /\ i <= Len(net[p])
  /\ net' = [net EXCEPT ![p] = RemoveAt(@, i)]
  /\ lost' = lost + 1
  /\ UNCHANGED <<wb, rb, sock, sw, rcv, vr, vw, written, got, arrived, ticks, thr>>

SenderStep(p) ==
  \/ Handoff(p) \/ SendProbe(p) \/ ProbeAck(p) \/ SendTail(p) \/ AfterSend(p)
  \/ SkipSend(p) \/ PopAck(p) \/ TakeAck(p) \/ EndRound(p) \/ Return(p)

ReceiverStep(p) ==
  \/ \E i \in 1 .. Reach : \/ ReceiveAck(p, i) \/ ReceiveEarly(p, i)
                           \/ ReceiveData(p, i) \/ ReceiveFull(p, i)
  \/ AckChanRoom(p) \/ PopEarly(p) \/ Unlock(p) \/ Answer(p)

TimerStep(p) == Retransmit(p) \/ ProbeAgain(p)

ThreadStep(p, t) == ResetTicker(p, t) \/ TakeDone(p, t)

Next ==
  \E p \in Peers :
    \/ \E n \in 1 .. MaxMsg : VWriteCall(p, n)
    \/ VWriteCopy(p)
    \/ SenderStep(p) \/ ReceiverStep(p) \/ TimerStep(p)
    \/ \E t \in Threads : ThreadStep(p, t)
    \/ \E n \in Wants[p] : VReadCall(p, n)
    \/ VReadLocked(p)
    \/ \E i \in 1 .. Len(net[p]) : Lose(p, i)

Spec == Init /\ [][Next]_vars

-----------------------------------------------------------------------------
(* Fairness: every goroutine that can take a step eventually does.  The    *)
(* timer needs winLock, which the sending loop releases once per round;    *)
(* Go's mutexes hand over to a waiting goroutine, hence strong fairness.   *)
(* The reading application keeps calling VRead; nothing makes the writing  *)
(* one call VWrite, nor the network lose packets.                          *)
Fairness ==
  \A p \in Peers :
    /\ WF_vars(VWriteCopy(p)) /\ WF_vars(SenderStep(p)) /\ WF_vars(ReceiverStep(p))
    /\ SF_vars(TimerStep(p)) /\ \A t \in Threads : WF_vars(ThreadStep(p, t))
    /\ WF_vars(\E n \in Wants[p] : VReadCall(p, n)) /\ WF_vars(VReadLocked(p))

FairSpec == Spec /\ Fairness

-----------------------------------------------------------------------------
(* Properties.                                                             *)

Packet == [seq : Nat, ack : Nat, win : Cells, data : Seq(Nat)]
Ack == [ack : Nat, win : Cells]
Early == [seq : Nat, data : Seq(Nat)]
WindowNode == [pkt : Packet, exp : Nat, idx : Nat, sent : BOOLEAN]

WriteBuffer == [buf : [Cells -> Nat], UNA : Cells, NXT : Cells, LBW : Cells]
ReadBuffer == [buf : [Cells -> Nat], LBR : Cells, NXT : Cells]

NormalSocket ==
  [cumWriteUNA : Nat, cumReadNXT : Nat, ClientWindowSize : Cells,
   unackedNums : SUBSET Nat, seenAcks : SUBSET Nat, ackChan : Seq(Ack),
   unackedMtx : {"free", "sender", "receiver"}, earlyPQ : SUBSET Early,
   ticker : BOOLEAN, packetDone : BOOLEAN]

Window ==
  [pc : {"idle", "loop", "normal", "sent", "acks", "ack", "probe", "end"},
   size : Nat, sent : Nat, toSend : Int, rest : Seq(Nat), nodes : Seq(WindowNode),
   tailLen : Nat, skip : BOOLEAN, first : BOOLEAN, exp : Nat,
   probe : Packet, taken : Ack]

WriteCall == [pc : {"idle", "loop", "chan"}, left : Nat, new : BOOLEAN]
ReadCall == [pc : {"idle", "lock", "wait", "woken"}, want : Nat, num : Cells]
Receiver == [pc : {"recv", "full", "early", "answer"}, pkt : Packet]

\* Type invariant: pointers are cells of the buffers, sequence numbers are
\* naturals, every goroutine is at one of its program points.
TypeOK ==
  /\ net \in [Peers -> Seq(Packet)]
  /\ wb \in [Peers -> WriteBuffer] /\ rb \in [Peers -> ReadBuffer]
  /\ sock \in [Peers -> NormalSocket]
  /\ vw \in [Peers -> WriteCall] /\ vr \in [Peers -> ReadCall]
  /\ sw \in [Peers -> Window]
  /\ thr \in [Peers -> [Threads -> {"none", "select", "reset"}]]
  /\ rcv \in [Peers -> Receiver]
  /\ written \in [Peers -> Nat]
  /\ got \in [Peers -> Seq(Nat)]
  /\ arrived \in [Peers -> SUBSET Nat]
  /\ lost \in Nat /\ ticks \in Nat

\* The connection implements a reliable byte stream in each direction: VRead
\* returns the bytes given to VWrite at the other end, in order, each once.
Stream == INSTANCE ByteStream WITH in <- written, out <- got
ReliableStream == Stream!Spec

\* An acknowledgment is never ahead of the data: every byte that a packet on
\* the way acknowledges, or that a sender counts as acknowledged, was stored in
\* the read buffer of the side that acknowledges it.
AckedArrived ==
  \A p \in Peers :
    /\ 1 .. sock[p].cumWriteUNA - 1 \subseteq arrived[Other(p)]
    /\ \A i \in DOMAIN net[p] : 1 .. net[p][i].ack - 1 \subseteq arrived[Other(p)]

\* slidingWindow finds its window as it expects it: while it has a segment to
\* send there is a head, also after acknowledgments have dropped nodes, and head
\* and tail are less than WINDOW_SIZE segments apart.
WindowHasTail ==
  \A p \in Peers :
    LET s == sw[p]
    IN  /\ s.pc = "sent" \/ (s.pc \in {"loop", "normal"} /\ MaySend(p)) => s.nodes # <<>>
        /\ s.nodes # <<>> => Last(s.nodes).idx - s.nodes[1].idx < W

\* packetDoneChan keeps account of the retransThreads: there is one for the
\* window in progress and one for a token that is still to be taken.
ThreadPerToken ==
  \A p \in Peers :
    LET Count(b) == IF b THEN 1 ELSE 0
    IN  Count(thr[p]["cur"] # "none") + Count(thr[p]["old"] # "none")
          = Count(sw[p].pc # "idle") + Count(sock[p].packetDone)

\* The next byte expected never moves back.
ReadNXTForward ==
  [][\A p \in Peers : sock'[p].cumReadNXT >= sock[p].cumReadNXT]_vars

\* Bytes that wait in the read buffer for VRead stay there until it takes them:
\* no arriving segment overwrites them or makes the buffer look emptier.
UnreadKept ==
  [][\A p \in Peers : rb'[p].LBR = rb[p].LBR =>
       /\ Unread(p)' >= Unread(p)
       /\ \A k \in 1 .. Unread(p) :
            LET c == (rb[p].LBR + k) % W IN rb'[p].buf[c] = rb[p].buf[c]]_vars

\* VRead waits only while there is nothing to read.
WaitsOnlyForData ==
  \A p \in Peers : vr[p].pc = "wait" /\ rcv[p].pc # "early" => Unread(p) = 0

\* Every byte VWrite has accepted is eventually returned by VRead.
Delivered ==
  \A p \in Peers : \A k \in 1 .. MaxBytes[p] :
    written[p] >= k ~> Len(got[Other(p)]) >= k

\* All that a VWrite call handed over was acknowledged before it looked for room for
\* the rest: it takes the empty buffer for a full one and hands over empty chunks.
Starved(p) ==
  vw[p].pc = "loop" /\ ~vw[p].new /\ wb[p].UNA = wb[p].NXT /\ Space(p) = 0

\* Every VWrite call returns, however many chunks it hands over, unless its loop is
\* starved of room: no lock, channel or thread of the socket keeps it for ever.
WriteReturns ==
  \A p \in Peers : vw[p].pc # "idle" ~> (vw[p].pc = "idle" \/ Starved(p))
=============================================================================
