------------------------------ MODULE TCPClose ------------------------------
(***************************************************************************)
(* The end of a connection: VClose, the FIN branches of ReceiverThread,    *)
(* the goroutine that waits on finChan, TIME_WAIT and deleteTCB, and the   *)
(* applications that lead there: SendFile, ReceiveFile and the commands s  *)
(* and cl of the REPL (src/pkg/tcpstack/tcpstack.go).                      *)
(*                                                                         *)
(* Data transfer is module TCPTransfer's subject.  Here a chunk that       *)
(* VWrite hands to SenderThread (at most 1360 bytes, the MSS) is one       *)
(* segment and counts one sequence number; the windows are wide open.      *)
(* Such a window has one segment, and as long as that is unacknowledged    *)
(* retransThread finds the dummy head before it: it does not count the     *)
(* expiries and never gives up.  Sequence numbers are relative to baseSeq. *)
(***************************************************************************)
EXTENDS Integers, Sequences, SeqOps

CONSTANTS
  Peers,    \* the two ends of the connection
  App,      \* the application at each end: "sendfile", "recvfile" or "repl"
  Chunks,   \* number of chunks that the application at each end writes
  Closers,  \* ends where cl is typed at some time, whatever the application does
  WINDOW_SIZE,
  Reach,    \* a packet can overtake Reach - 1 earlier ones
  MaxStuck, \* bound: packets that wait for a ReceiverThread that is stuck
  MaxLoss   \* bound: packets that the network loses

ASSUME PeersAssumption == \E x, y \in Peers : x # y /\ Peers = {x, y}
ASSUME AppAssumption ==
  /\ App \in [Peers -> {"sendfile", "recvfile", "repl"}] /\ Chunks \in [Peers -> Nat]
  /\ \A p \in Peers : App[p] = "sendfile" => Chunks[p] > 0
  /\ Closers \subseteq Peers
  /\ WINDOW_SIZE \in Nat /\ \A p \in Peers : Chunks[p] + 2 < WINDOW_SIZE
ASSUME BoundAssumption == Reach \in Nat /\ MaxLoss \in Nat /\ MaxStuck \in Nat

VARIABLES
  net,      \* net[p]: packets on the way to p (IP, TCPChan and normalChan)
  sk,       \* the NormalSocket of each end, and whether it is in SocketTable
  snd,      \* SenderThread with slidingWindow
  rcv,      \* ReceiverThread
  app,      \* the application
  cls,      \* cls[p][c]: the VClose call of caller c
  fin,      \* the goroutine that VClose leaves behind, waiting on finChan
  fins,     \* history: FINs sent by each end
  finTaken, \* history: has this end taken the other's FIN?
  lost

vars == <<net, sk, snd, rcv, app, cls, fin, fins, finTaken, lost>>

Other(p) == CHOOSE q \in Peers : q # p

\* Who calls VClose: the application itself, or the user with cl meanwhile.
Callers == {"app", "user"}

-----------------------------------------------------------------------------
(* Initial state: an established connection, nothing written yet.          *)

NoPacket == [seq |-> 0, ack |-> 0, data |-> FALSE, fin |-> FALSE]
NoCall == [pc |-> "idle", seq |-> 0, ack |-> 0]

Init ==
  /\ net = [p \in Peers |-> <<>>]
  /\ sk = [p \in Peers |->
             [state |-> "ESTABLISHED", inTable |-> TRUE, stateMtx |-> FALSE, unackedMtx |-> FALSE,
              NXT |-> 1, cumWriteUNA |-> 1, cumReadNXT |-> 1, readNXT |-> 1, LBR |-> 0,
              unackedNums |-> {}, seenAcks |-> {}, unackedFINs |-> {}, ackChan |-> <<>>,
              earlyPQ |-> {}]]
  /\ snd = [p \in Peers |-> "idle"]
  /\ rcv = [p \in Peers |-> [pc |-> "recv", pkt |-> NoPacket]]
  /\ app = [p \in Peers |-> [pc |-> IF App[p] = "recvfile" THEN "loop" ELSE "call",
                             left |-> Chunks[p], num |-> 0]]
  /\ cls = [p \in Peers |-> [c \in Callers |-> NoCall]]
  /\ fin = [p \in Peers |-> "none"]
  /\ fins = [p \in Peers |-> 0]
  /\ finTaken = [p \in Peers |-> FALSE]
  /\ lost = 0

\* A packet of p with p's current ackNum; all carry the ACK flag.
Segment(p, seq, data) == [seq |-> seq, ack |-> sk[p].cumReadNXT, data |-> data, fin |-> FALSE]

Send(p, m) == net' = [net EXCEPT ![Other(p)] = Append(@, m)]

-----------------------------------------------------------------------------
(* SenderThread and slidingWindow, for a window of one segment.            *)

\* LBW: chunks that VWrite has copied to the write buffer.
LBW(p) == Chunks[p] - app[p].left

\* The room that VWrite computes: the buffer, for the first chunk, and later what it
\* takes to be free between LBW and UNA, which is none once all is acknowledged.
Room(p) ==
  IF LBW(p) = 0 THEN WINDOW_SIZE - 1 ELSE (sk[p].cumWriteUNA - 1 - LBW(p)) % WINDOW_SIZE

\* The loop of VWrite copies the next chunk, as far as there is room.
VWriteCopy(p) ==
  /\ app[p].pc = "write" /\ app[p].left > 0
  /\ app' = [app EXCEPT ![p].left = IF Room(p) > 0 THEN @ - 1 ELSE @, ![p].pc = "chan"]
  /\ UNCHANGED <<net, sk, snd, rcv, cls, fin, fins, finTaken, lost>>

\* VWrite and SenderThread meet on writeChan; VWrite goes on or returns.  A window
\* of nothing is over at once.
Handoff(p) ==
  LET amount == (LBW(p) - sk[p].NXT + 1) % WINDOW_SIZE
  IN  /\ app[p].pc = "chan" /\ snd[p] = "idle"
      /\ snd' = [snd EXCEPT ![p] = IF amount > 0 THEN "send" ELSE "idle"]
      /\ app' = [app EXCEPT ![p].pc = CASE app[p].left > 0 -> "write"
                                        [] App[p] = "sendfile" -> "sleep"
                                        [] OTHER -> "call"]
      /\ UNCHANGED <<net, sk, rcv, cls, fin, fins, finTaken, lost>>

\* All that VWrite handed over was acknowledged before it looked for room: it finds
\* none, then and ever after, and hands over empty chunks.
Starved(p) ==
  /\ app[p].pc \in {"write", "chan"} /\ app[p].left > 0 /\ LBW(p) > 0
  /\ sk[p].cumWriteUNA = LBW(p) + 1

\* NXT moves, without a lock.
MoveNXT(p) ==
  /\ snd[p] = "send"
  /\ sk' = [sk EXCEPT ![p].NXT = @ + 1]
  /\ snd' = [snd EXCEPT ![p] = "mtx"]
  /\ UNCHANGED <<net, rcv, app, cls, fin, fins, finTaken, lost>>

\* With unackedMtx the expected number is noted, and the segment is sent.
SendChunk(p) ==
  /\ snd[p] = "mtx" /\ ~sk[p].unackedMtx
  /\ sk' = [sk EXCEPT ![p].unackedNums = @ \cup {sk[p].NXT}, ![p].seenAcks = @ \ {sk[p].NXT}]
  /\ Send(p, Segment(p, sk[p].cumWriteUNA, TRUE))
  /\ snd' = [snd EXCEPT ![p] = "wait"]
  /\ UNCHANGED <<rcv, app, cls, fin, fins, finTaken, lost>>

\* An acknowledgment is taken from ackChan.  One seen before is skipped with
\* "continue", which leaves unackedMtx locked.
PopAck(p) ==
  LET a == Head(sk[p].ackChan)
      s == [sk[p] EXCEPT !.ackChan = Tail(@)]
  IN  /\ snd[p] \in {"wait", "acked"} /\ sk[p].ackChan # <<>> /\ ~sk[p].unackedMtx
      /\ \/ /\ a \in s.seenAcks
            /\ sk' = [sk EXCEPT ![p] = [s EXCEPT !.unackedMtx = TRUE]]
            /\ UNCHANGED snd
         \/ /\ a \notin s.seenAcks /\ a > s.cumWriteUNA
            /\ sk' = [sk EXCEPT ![p] = [s EXCEPT !.seenAcks = @ \cup {a}, !.cumWriteUNA = a]]
            /\ snd' = [snd EXCEPT ![p] = "acked"]
         \/ /\ a \notin s.seenAcks /\ a <= s.cumWriteUNA
            /\ sk' = [sk EXCEPT ![p] = [s EXCEPT !.seenAcks = @ \cup {a}]]
            /\ UNCHANGED snd
      /\ UNCHANGED <<net, rcv, app, cls, fin, fins, finTaken, lost>>

\* ackChan is empty and all is acknowledged: slidingWindow returns.
WindowDone(p) ==
  /\ snd[p] = "acked" /\ sk[p].ackChan = <<>>
  /\ snd' = [snd EXCEPT ![p] = "idle"]
  /\ UNCHANGED <<net, sk, rcv, app, cls, fin, fins, finTaken, lost>>

-----------------------------------------------------------------------------
(* ReceiverThread.                                                         *)

\* The i-th packet on the way to p is received and unackedMtx locked.  A socket
\* that was deleted may still have packets in normalChan.
Receive(p, i) ==
  /\ rcv[p].pc = "recv" /\ i <= Len(net[p]) /\ ~sk[p].unackedMtx
  /\ net' = [net EXCEPT ![p] = RemoveAt(@, i)]

\* m carries the number that acknowledges p's FIN.
AcksFin(p, m) == m.ack \in sk[p].unackedFINs

\* m is taken for an answer to something p sent: its number was expected once
\* and it carries no data.  It may carry a FIN.
IsAnswer(p, m) == m.ack \in sk[p].unackedNums /\ ~m.data

\* ReceiverThread goes to finChan, holding unackedMtx.
ReceiveFinAck(p, i) ==
  /\ Receive(p, i) /\ AcksFin(p, net[p][i])
  /\ sk' = [sk EXCEPT ![p].unackedMtx = TRUE]
  /\ rcv' = [rcv EXCEPT ![p] = [pc |-> "finChan", pkt |-> net[p][i]]]
  /\ UNCHANGED <<snd, app, cls, fin, fins, finTaken, lost>>

\* An answer goes to slidingWindow, an early packet to earlyPQ, neither is
\* acknowledged.
ReceiveAside(p, i) ==
  LET m == net[p][i]
      early == [seq |-> m.seq, data |-> m.data, fin |-> m.fin]
  IN  /\ Receive(p, i) /\ ~AcksFin(p, m)
      /\ \/ /\ IsAnswer(p, m)
            /\ sk' = [sk EXCEPT ![p].ackChan = Append(@, m.ack)]
         \/ /\ ~IsAnswer(p, m) /\ m.seq > sk[p].cumReadNXT
            /\ sk' = [sk EXCEPT ![p].earlyPQ = @ \cup {early}]
      /\ UNCHANGED <<snd, rcv, app, cls, fin, fins, finTaken, lost>>

\* What is stored up to number n: NXT and cumReadNXT follow from it.
Stored(s, n) == [s EXCEPT !.cumReadNXT = n, !.readNXT = n]

\* Any other packet is for the read buffer, also one without data; readMtx stays
\* locked until it is acknowledged.  A FIN counts one number and goes on to
\* stateMtx.
ReceiveNext(p, i) ==
  LET m == net[p][i]
  IN  /\ Receive(p, i) /\ ~AcksFin(p, m) /\ ~IsAnswer(p, m) /\ m.seq <= sk[p].cumReadNXT
      /\ \/ /\ m.fin
            /\ sk' = [sk EXCEPT ![p].cumReadNXT = @ + 1]
            /\ rcv' = [rcv EXCEPT ![p] = [pc |-> "fin", pkt |-> m]]
            /\ finTaken' = [finTaken EXCEPT ![p] = TRUE]
         \/ /\ ~m.fin
            /\ sk' = [sk EXCEPT ![p] = Stored(@, m.seq + (IF m.data THEN 1 ELSE 0))]
            /\ rcv' = [rcv EXCEPT ![p] = [pc |-> "early", pkt |-> m]]
            /\ UNCHANGED finTaken
      /\ UNCHANGED <<snd, app, cls, fin, fins, lost>>

\* Mutation: a FIN in FIN_WAIT_1 ends the connection at once.
TakeFinAnyway(s) ==
  CASE s.state = "ESTABLISHED" -> [s EXCEPT !.state = "CLOSE_WAIT"]
    [] s.state \in {"FIN_WAIT_1", "FIN_WAIT_2"} -> [s EXCEPT !.state = "TIME_WAIT"]
    [] OTHER -> [s EXCEPT !.stateMtx = TRUE]

\* The state after a FIN.  stateMtx is unlocked in two states only.
TakeFin(s) ==
  CASE s.state = "ESTABLISHED" -> [s EXCEPT !.state = "CLOSE_WAIT"]
    [] s.state = "FIN_WAIT_2" -> [s EXCEPT !.state = "TIME_WAIT"]
    [] OTHER -> [s EXCEPT !.stateMtx = TRUE]

\* ReceiverThread takes stateMtx and handles the FIN.
FinState(p) ==
  /\ rcv[p].pc = "fin" /\ ~sk[p].stateMtx
  /\ sk' = [sk EXCEPT ![p] = TakeFin(@)]
  /\ rcv' = [rcv EXCEPT ![p].pc = "early"]
  /\ UNCHANGED <<net, snd, app, cls, fin, fins, finTaken, lost>>

\* Early packets that are not ahead any more: one behind is dropped, one that
\* continues the stream is stored, a FIN changes the state and is not counted.
PopEarly(p) ==
  /\ rcv[p].pc = "early"
  /\ \E e \in sk[p].earlyPQ :
       LET s == [sk[p] EXCEPT !.earlyPQ = @ \ {e}]
       IN  /\ \A f \in sk[p].earlyPQ : e.seq <= f.seq
           /\ \/ /\ e.seq < s.cumReadNXT
                 /\ sk' = [sk EXCEPT ![p] = s]
                 /\ UNCHANGED finTaken
              \/ /\ e.seq = s.cumReadNXT /\ ~e.fin
                 /\ sk' = [sk EXCEPT ![p] = Stored(s, e.seq + (IF e.data THEN 1 ELSE 0))]
                 /\ UNCHANGED finTaken
              \/ /\ e.seq = s.cumReadNXT /\ e.fin /\ ~s.stateMtx
                 /\ sk' = [sk EXCEPT ![p] = TakeFin(s)]
                 /\ finTaken' = [finTaken EXCEPT ![p] = TRUE]
  /\ UNCHANGED <<net, snd, rcv, app, cls, fin, fins, lost>>

\* Wake up a VRead that waits for data, unlock readMtx and acknowledge.
Answer(p) ==
  /\ rcv[p].pc = "early" /\ \A e \in sk[p].earlyPQ : e.seq > sk[p].cumReadNXT
  /\ Send(p, Segment(p, rcv[p].pkt.ack, FALSE))
  /\ rcv' = [rcv EXCEPT ![p] = [pc |-> "recv", pkt |-> NoPacket]]
  /\ app' = [app EXCEPT ![p].pc = IF @ = "wait" THEN "woken" ELSE @]
  /\ UNCHANGED <<sk, snd, cls, fin, fins, finTaken, lost>>

-----------------------------------------------------------------------------
(* VClose.                                                                 *)

\* The number and acknowledgment of the FIN are read without a lock.
VCloseCall(p, c) ==
  cls' = [cls EXCEPT ![p][c] = [pc |-> "lock", seq |-> sk[p].NXT, ack |-> sk[p].cumReadNXT]]

\* Mutation: any state may be closed.
AfterCloseAny(state) == IF state = "CLOSE_WAIT" THEN "LAST_ACK" ELSE "FIN_WAIT_1"

\* The state after VClose, or "invalid".
AfterClose(state) ==
  CASE state = "ESTABLISHED" -> "FIN_WAIT_1"
    [] state = "CLOSE_WAIT" -> "LAST_ACK"
    [] OTHER -> "invalid"

\* With stateMtx: change the state, or return an error.
VCloseState(p, c) ==
  LET next == AfterClose(sk[p].state)
  IN  /\ cls[p][c].pc = "lock" /\ ~sk[p].stateMtx
      /\ IF next = "invalid"
         THEN /\ cls' = [cls EXCEPT ![p][c] = [NoCall EXCEPT !.pc = "done"]]
              /\ UNCHANGED sk
         ELSE /\ cls' = [cls EXCEPT ![p][c].pc = "send"]
              /\ sk' = [sk EXCEPT ![p].state = next, ![p].stateMtx = TRUE]
      /\ UNCHANGED <<net, snd, rcv, app, fin, fins, finTaken, lost>>

\* Note the number that will acknowledge the FIN, send it once, and start the
\* goroutine that waits for the acknowledgment.
VCloseSend(p, c) ==
  LET v == cls[p][c]
  IN  /\ v.pc = "send" /\ ~sk[p].unackedMtx
      /\ sk' = [sk EXCEPT ![p].unackedFINs = @ \cup {v.seq + 1}, ![p].stateMtx = FALSE]
      /\ Send(p, [seq |-> v.seq, ack |-> v.ack, data |-> FALSE, fin |-> TRUE])
      /\ fin' = [fin EXCEPT ![p] = "finChan"]
      /\ fins' = [fins EXCEPT ![p] = @ + 1]
      /\ cls' = [cls EXCEPT ![p][c] = [NoCall EXCEPT !.pc = "done"]]
      /\ UNCHANGED <<snd, rcv, app, finTaken, lost>>

\* ReceiverThread and the goroutine meet on finChan.
FinChan(p) ==
  /\ rcv[p].pc = "finChan" /\ fin[p] = "finChan"
  /\ sk' = [sk EXCEPT ![p].unackedMtx = FALSE]
  /\ rcv' = [rcv EXCEPT ![p] = [pc |-> "recv", pkt |-> NoPacket]]
  /\ fin' = [fin EXCEPT ![p] = "delete"]
  /\ UNCHANGED <<net, snd, app, cls, fins, finTaken, lost>>

\* The goroutine removes the number from unackedFINs.
FinDelete(p) ==
  /\ fin[p] = "delete" /\ ~sk[p].unackedMtx
  /\ sk' = [sk EXCEPT ![p].unackedFINs = {}]
  /\ fin' = [fin EXCEPT ![p] = "state"]
  /\ UNCHANGED <<net, snd, rcv, app, cls, fins, finTaken, lost>>

\* Mutation: the socket stays in the table.
FinAckedKeep(p) ==
  /\ fin[p] = "state" /\ ~sk[p].stateMtx
  /\ sk' = [sk EXCEPT ![p].state = IF @ = "FIN_WAIT_1" THEN "FIN_WAIT_2" ELSE @]
  /\ fin' = [fin EXCEPT ![p] = "none"]
  /\ UNCHANGED <<net, snd, rcv, app, cls, fins, finTaken, lost>>

\* It changes the state, or deletes the socket (deleteTCB), and ends.
FinAcked(p) ==
  /\ fin[p] = "state" /\ ~sk[p].stateMtx
  /\ sk' = [sk EXCEPT ![p].state = IF @ = "FIN_WAIT_1" THEN "FIN_WAIT_2" ELSE @,
                      ![p].inTable = @ /\ sk[p].state # "LAST_ACK"]
  /\ fin' = [fin EXCEPT ![p] = "none"]
  /\ UNCHANGED <<net, snd, rcv, app, cls, fins, finTaken, lost>>

-----------------------------------------------------------------------------
(* The applications.                                                       *)

\* VWrite begins: an error in the states of an active close.  SendFile returns
\* on an error.
VWrite(p) ==
  /\ App[p] # "recvfile" /\ app[p].pc = "call" /\ ~sk[p].stateMtx
  /\ app[p].left > 0 /\ sk[p].inTable
  /\ IF sk[p].state \in {"FIN_WAIT_1", "FIN_WAIT_2", "TIME_WAIT"}
     THEN app' = [app EXCEPT ![p].left = 0]
     ELSE app' = [app EXCEPT ![p].pc = "write"]
  /\ UNCHANGED <<net, sk, snd, rcv, cls, fin, fins, finTaken, lost>>

\* num_buf: what VRead has not returned yet.
Unread(p) == (sk[p].readNXT - 1 - sk[p].LBR) % WINDOW_SIZE

\* One round of the loop of ReceiveFile: leave it in CLOSE_WAIT, read if there
\* is something.
ReceiveLoop(p) ==
  /\ app[p].pc = "loop" /\ ~sk[p].stateMtx
  /\ \/ /\ sk[p].state = "CLOSE_WAIT"
        /\ app' = [app EXCEPT ![p].pc = "sleep"]
     \/ /\ sk[p].state # "CLOSE_WAIT" /\ Unread(p) > 0
        /\ app' = [app EXCEPT ![p].pc = "vread"]
  /\ UNCHANGED <<net, sk, snd, rcv, cls, fin, fins, finTaken, lost>>

\* VRead begins: an error in the states of a passive close, else the amount of
\* data is read before readMtx is taken.
VRead(p) ==
  /\ app[p].pc = "vread" /\ ~sk[p].stateMtx
  /\ IF sk[p].state \in {"CLOSE_WAIT", "LAST_ACK"}
     THEN app' = [app EXCEPT ![p].pc = "loop"]
     ELSE app' = [app EXCEPT ![p].pc = "read", ![p].num = Unread(p)]
  /\ UNCHANGED <<net, sk, snd, rcv, cls, fin, fins, finTaken, lost>>

\* Mutation: LBR does not wrap around.
ReadOutPlain(s, num) == [s EXCEPT !.LBR = @ + num]

ReadOut(s, num) == [s EXCEPT !.LBR = (@ + num) % WINDOW_SIZE]

\* With readMtx: the data go to the file and LBR moves.  With nothing to read it
\* waits on readCond, and computes the amount again when it is woken up.
VReadLocked(p) ==
  LET num == IF app[p].pc = "read" THEN app[p].num ELSE Unread(p)
  IN  /\ app[p].pc \in {"read", "woken"} /\ rcv[p].pc \notin {"fin", "early"}
      /\ \/ /\ num > 0
            /\ sk' = [sk EXCEPT ![p] = ReadOut(@, num)]
            /\ app' = [app EXCEPT ![p].pc = "loop"]
         \/ /\ num = 0
            /\ app' = [app EXCEPT ![p].pc = "wait"]
            /\ UNCHANGED sk
      /\ UNCHANGED <<net, snd, rcv, cls, fin, fins, finTaken, lost>>

-----------------------------------------------------------------------------
(* Timers, the network, and the specification.                             *)

WriterStep(p) == VWriteCopy(p) \/ Handoff(p)

SenderStep(p) == MoveNXT(p) \/ SendChunk(p) \/ PopAck(p) \/ WindowDone(p)

ReceiverStep(p) ==
  \/ \E i \in 1 .. Reach : ReceiveFinAck(p, i) \/ ReceiveAside(p, i) \/ ReceiveNext(p, i)
  \/ FinState(p) \/ PopEarly(p) \/ Answer(p)

CloseStep(p, c) == VCloseState(p, c) \/ VCloseSend(p, c)

FinStep(p) == FinChan(p) \/ FinDelete(p) \/ FinAcked(p)

FileStep(p) == ReceiveLoop(p) \/ VRead(p) \/ VReadLocked(p)

\* What happens without a timer and without a user.  Sleeps and timers are taken to
\* last longer than what is under way: they end when all is Quiet, but for a VWrite
\* that goes round for ever.
Soon(p) ==
  \/ ~Starved(p) /\ WriterStep(p)
  \/ SenderStep(p) \/ ReceiverStep(p) \/ FinStep(p) \/ FileStep(p)
  \/ \E c \in Callers : CloseStep(p, c)

Quiet == \A p \in Peers : ~ENABLED Soon(p)

\* Mutation: VClose is called without the sleep.
WakeUpAtOnce(p) ==
  /\ app[p].pc = "sleep"
  /\ VCloseCall(p, "app")
  /\ app' = [app EXCEPT ![p].pc = "done"]
  /\ UNCHANGED <<net, sk, snd, rcv, fin, fins, finTaken, lost>>

\* The sleep of 50 ms is over: SendFile and ReceiveFile call VClose.  Quiet implies
\* that SenderThread has moved NXT; proofs cannot take that out of ENABLED.
WakeUp(p) ==
  /\ app[p].pc = "sleep" /\ Quiet /\ snd[p] # "send"
  /\ VCloseCall(p, "app")
  /\ app' = [app EXCEPT ![p].pc = "done"]
  /\ UNCHANGED <<net, sk, snd, rcv, fin, fins, finTaken, lost>>

\* cl: the user closes a socket that is in the table.
UserClose(p) ==
  /\ p \in Closers /\ cls[p]["user"].pc = "idle" /\ sk[p].inTable
  /\ App[p] # "recvfile" => app[p].pc \in {"call", "done"}
  /\ VCloseCall(p, "user")
  /\ UNCHANGED <<net, sk, snd, rcv, app, fin, fins, finTaken, lost>>

\* The ticker expires: the unacknowledged segment is sent again.
Retransmit(p) ==
  /\ snd[p] = "wait" /\ Quiet /\ \A q \in Peers : Len(net[q]) <= MaxStuck
  /\ Send(p, Segment(p, sk[p].cumWriteUNA, TRUE))
  /\ UNCHANGED <<sk, snd, rcv, app, cls, fin, fins, finTaken, lost>>

\* The 120 s of TIME_WAIT are over.
TimeWaitOver(p) ==
  /\ sk[p].state = "TIME_WAIT" /\ sk[p].inTable /\ Quiet
  /\ sk' = [sk EXCEPT ![p].inTable = FALSE]
  /\ UNCHANGED <<net, snd, rcv, app, cls, fin, fins, finTaken, lost>>

\* A packet is lost by UDP.
Lose(p) ==
  /\ lost < MaxLoss /\ lost' = lost + 1
  /\ \E i \in 1 .. Len(net[p]) : net' = [net EXCEPT ![p] = RemoveAt(@, i)]
  /\ UNCHANGED <<sk, snd, rcv, app, cls, fin, fins, finTaken>>

\* A packet for a socket that is no longer in the table is dropped.
Unknown(p) ==
  /\ ~sk[p].inTable /\ net[p] # <<>>
  /\ net' = [net EXCEPT ![p] = Tail(@)]
  /\ UNCHANGED <<sk, snd, rcv, app, cls, fin, fins, finTaken, lost>>

Next ==
  \E p \in Peers :
    \/ Soon(p) \/ (Starved(p) /\ WriterStep(p)) \/ VWrite(p) \/ WakeUp(p) \/ UserClose(p) \/ Retransmit(p)
    \/ TimeWaitOver(p) \/ Lose(p) \/ Unknown(p)

Spec == Init /\ [][Next]_vars

(* Fairness: every goroutine that can take a step eventually does, sleeps   *)
(* and timers end, SendFile calls VWrite.                                   *)
Fairness ==
  \A p \in Peers :
    /\ WF_vars(WriterStep(p)) /\ WF_vars(SenderStep(p)) /\ WF_vars(ReceiverStep(p)) /\ WF_vars(FinStep(p))
    /\ WF_vars(FileStep(p)) /\ \A c \in Callers : WF_vars(CloseStep(p, c))
    /\ WF_vars(WakeUp(p)) /\ WF_vars(Retransmit(p)) /\ WF_vars(TimeWaitOver(p))
    /\ App[p] = "sendfile" => WF_vars(VWrite(p))

FairSpec == Spec /\ Fairness

-----------------------------------------------------------------------------
(* Properties.                                                             *)

States == {"ESTABLISHED", "FIN_WAIT_1", "FIN_WAIT_2", "CLOSE_WAIT", "LAST_ACK", "TIME_WAIT"}
Packet == [seq : Nat, ack : Nat, data : BOOLEAN, fin : BOOLEAN]
Early == [seq : Nat, data : BOOLEAN, fin : BOOLEAN]

NormalSocket ==
  [state : States, inTable : BOOLEAN, stateMtx : BOOLEAN, unackedMtx : BOOLEAN,
   NXT : Nat, cumWriteUNA : Nat, cumReadNXT : Nat, readNXT : Nat, LBR : 0 .. WINDOW_SIZE - 1,
   unackedNums : SUBSET Nat, seenAcks : SUBSET Nat, unackedFINs : SUBSET Nat,
   ackChan : Seq(Nat), earlyPQ : SUBSET Early]

\* Type invariant.
TypeOK ==
  /\ net \in [Peers -> Seq(Packet)]
  /\ sk \in [Peers -> NormalSocket]
  /\ snd \in [Peers -> {"idle", "send", "mtx", "wait", "acked"}]
  /\ rcv \in [Peers -> [pc : {"recv", "finChan", "fin", "early"}, pkt : Packet]]
  /\ app \in [Peers -> [pc : {"call", "write", "chan", "loop", "vread", "read", "wait", "woken",
                              "sleep", "done"},
                        left : Nat, num : Nat]]
  /\ cls \in [Peers -> [Callers -> [pc : {"idle", "lock", "send", "done"}, seq : Nat, ack : Nat]]]
  /\ fin \in [Peers -> {"none", "finChan", "delete", "state"}]
  /\ fins \in [Peers -> Nat] /\ finTaken \in [Peers -> BOOLEAN]
  /\ lost \in Nat

\* An end sends one FIN at most, also if the user closes the socket while
\* ReceiveFile does: the state is checked and changed under stateMtx.
OneFin == \A p \in Peers : fins[p] <= 1

\* An end believes its FIN to be acknowledged only if the other end has taken
\* it, and is removed from the table only if, in addition, it has taken the
\* other end's FIN.
FinsExchanged ==
  \A p \in Peers :
    /\ sk[p].state \in {"FIN_WAIT_2", "TIME_WAIT"} => finTaken[Other(p)]
    /\ ~sk[p].inTable => finTaken[p] /\ finTaken[Other(p)]

\* An end that has taken the other's FIN has stored all that was written there
\* before the FIN: a FIN never overtakes data.
FinAfterData ==
  \A p \in Peers : finTaken[Other(p)] => sk[Other(p)].readNXT >= sk[p].NXT

\* As long as no packet is lost, ReceiveFile closes the connection only when the
\* whole file is written.
FileComplete ==
  \A p \in Peers :
    lost = 0 /\ App[p] = "recvfile" /\ app[p].pc \in {"sleep", "done"}
      => sk[p].LBR = Chunks[Other(p)]

\* RFC 793: an end in FIN_WAIT_1 that has taken the other end's FIN goes on to
\* CLOSING, or to TIME_WAIT.  In the code it stays and keeps stateMtx locked.
LeavesFinWait1 ==
  \A p \in Peers : finTaken[p] /\ rcv[p].pc = "recv" => sk[p].state # "FIN_WAIT_1"

\* If no packet is lost, no VWrite is starved of room and the applications alone
\* close, SendFile with VClose and ReceiveFile after it, both sockets are removed from
\* their tables in the end.
OrderlyClose ==
  [](lost = 0 /\ \A p \in Peers : ~Starved(p) /\ cls[p]["user"].pc = "idle")
    => <>(\A p \in Peers : ~sk[p].inTable)
=============================================================================
