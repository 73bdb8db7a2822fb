-------------------------- MODULE TCPTransferTypes --------------------------
(***************************************************************************)
(* Lemmas for proofs about TCPTransfer, on its operators and on the types  *)
(* of its variables and their fields.                                      *)
(***************************************************************************)
EXTENDS TCPTransfer, SequenceTheorems, TLAPS

-----------------------------------------------------------------------------
(* Lemmas on the operators of the model.                                   *)

\* The two ends of the connection are each other's Other.
LEMMA OtherPeer ==
  ASSUME NEW p \in Peers
  PROVE  Other(p) \in Peers /\ Other(p) # p /\ Other(Other(p)) = p
BY PeersAssumption DEF Other

\* Pointer arithmetic stays within the buffer.
LEMMA ModCell ==
  ASSUME NEW n \in Int
  PROVE  n % W \in Cells
BY SizeAssumption DEF Cells

\* A cell is a natural number.
LEMMA CellNat == Cells \subseteq Nat
BY SizeAssumption DEF Cells

\* A function on 1 .. n is a sequence.
LEMMA FunctionIsSeq ==
  ASSUME NEW S, NEW n \in Nat, NEW f \in [1 .. n -> S]
  PROVE  f \in Seq(S) /\ Len(f) = n
<1>1. f \in Seq(S)
  BY SeqDef
<1> QED
  BY <1>1, LenProperties

-----------------------------------------------------------------------------
(* Types.                                                                  *)

\* The type of each part of p's state.
LEMMA PeerTypes ==
  ASSUME TypeOK, NEW p \in Peers
  PROVE  /\ net[p] \in Seq(Packet) /\ wb[p] \in WriteBuffer /\ rb[p] \in ReadBuffer
         /\ sock[p] \in NormalSocket /\ sw[p] \in Window /\ rcv[p] \in Receiver
         /\ vw[p] \in WriteCall /\ vr[p] \in ReadCall
         /\ thr[p] \in [Threads -> {"none", "select", "reset"}]
         /\ written[p] \in Nat /\ got[p] \in Seq(Nat) /\ arrived[p] \subseteq Nat
BY DEF TypeOK

\* The fields of p's buffers.
LEMMA BufferFields ==
  ASSUME TypeOK, NEW p \in Peers
  PROVE  /\ wb[p].buf \in [Cells -> Nat] /\ rb[p].buf \in [Cells -> Nat]
         /\ wb[p].UNA \in Cells /\ wb[p].NXT \in Cells /\ wb[p].LBW \in Cells
         /\ rb[p].LBR \in Cells /\ rb[p].NXT \in Cells
         /\ wb[p].UNA \in Int /\ wb[p].NXT \in Int /\ wb[p].LBW \in Int
         /\ rb[p].LBR \in Int /\ rb[p].NXT \in Int
<1>1. /\ wb[p].buf \in [Cells -> Nat] /\ rb[p].buf \in [Cells -> Nat]
  BY Zenon, PeerTypes DEF WriteBuffer, ReadBuffer
<1>2. /\ wb[p].UNA \in Cells /\ wb[p].NXT \in Cells /\ wb[p].LBW \in Cells
      /\ rb[p].LBR \in Cells /\ rb[p].NXT \in Cells
  BY PeerTypes DEF WriteBuffer, ReadBuffer
<1>3. /\ wb[p].UNA \in Int /\ wb[p].NXT \in Int /\ wb[p].LBW \in Int
      /\ rb[p].LBR \in Int /\ rb[p].NXT \in Int
  BY <1>2, SizeAssumption DEF Cells
<1> QED
  BY <1>1, <1>2, <1>3

\* The fields of p's socket.
LEMMA SocketFields ==
  ASSUME TypeOK, NEW p \in Peers
  PROVE  /\ sock[p].cumWriteUNA \in Nat /\ sock[p].cumReadNXT \in Nat
         /\ sock[p].ClientWindowSize \in Cells /\ sock[p].ClientWindowSize \in Int
         /\ sock[p].unackedNums \subseteq Nat /\ sock[p].seenAcks \subseteq Nat
         /\ sock[p].ackChan \in Seq(Ack) /\ sock[p].earlyPQ \subseteq Early
         /\ sock[p].ticker \in BOOLEAN /\ sock[p].packetDone \in BOOLEAN
<1>1. /\ sock[p].cumWriteUNA \in Nat /\ sock[p].cumReadNXT \in Nat
      /\ sock[p].ClientWindowSize \in Cells
      /\ sock[p].unackedNums \subseteq Nat /\ sock[p].seenAcks \subseteq Nat
      /\ sock[p].ackChan \in Seq(Ack) /\ sock[p].earlyPQ \subseteq Early
      /\ sock[p].ticker \in BOOLEAN /\ sock[p].packetDone \in BOOLEAN
  BY PeerTypes DEF NormalSocket
<1> QED
  BY <1>1, SizeAssumption DEF Cells

\* The fields of p's call of slidingWindow.
LEMMA WindowFields ==
  ASSUME TypeOK, NEW p \in Peers
  PROVE  /\ sw[p].size \in Nat /\ sw[p].sent \in Nat /\ sw[p].toSend \in Int
         /\ sw[p].rest \in Seq(Nat) /\ sw[p].nodes \in Seq(WindowNode)
         /\ sw[p].tailLen \in Nat /\ sw[p].skip \in BOOLEAN /\ sw[p].first \in BOOLEAN
         /\ sw[p].exp \in Nat /\ sw[p].probe \in Packet /\ sw[p].taken \in Ack
BY PeerTypes DEF Window

\* A segment built from p's state is a packet and carries p's cumReadNXT.
LEMMA SegmentType ==
  ASSUME TypeOK, NEW p \in Peers, NEW seq \in Nat, NEW data \in Seq(Nat)
  PROVE  /\ Segment(p, seq, data) \in Packet
         /\ Segment(p, seq, data).ack = sock[p].cumReadNXT
         /\ Segment(p, seq, data).data = data
<1>1. FreeSpace(p) \in Cells
  <2>1. rb[p].LBR - rb[p].NXT \in Int
    BY CellNat, PeerTypes DEF ReadBuffer
  <2> QED
    BY <2>1, ModCell DEF FreeSpace
<1> QED
  BY <1>1, PeerTypes DEF Segment, Packet, NormalSocket

-----------------------------------------------------------------------------
(* The types of single variables, and of common updates.                   *)

\* The type of single variables.
LEMMA SockType == TypeOK => sock \in [Peers -> NormalSocket]
BY DEF TypeOK

\* The window's part.
LEMMA SwType == TypeOK => sw \in [Peers -> Window]
BY DEF TypeOK

\* ReceiverThread's part.
LEMMA RcvType == TypeOK => rcv \in [Peers -> Receiver]
BY DEF TypeOK

\* The buffers' part.
LEMMA BufferTypes == TypeOK => wb \in [Peers -> WriteBuffer] /\ rb \in [Peers -> ReadBuffer]
BY DEF TypeOK

\* The part of the calls in progress.
LEMMA CallTypes == TypeOK => vw \in [Peers -> WriteCall] /\ vr \in [Peers -> ReadCall]
BY DEF TypeOK

\* The tail of a window that has one.
LEMMA TailType ==
  ASSUME NEW nodes \in Seq(WindowNode), nodes # <<>>
  PROVE  /\ Len(nodes) \in DOMAIN nodes /\ Last(nodes) = nodes[Len(nodes)]
         /\ Last(nodes) \in WindowNode
<1>1. Len(nodes) \in Nat /\ Len(nodes) # 0 /\ DOMAIN nodes = 1 .. Len(nodes)
  BY LenProperties, EmptySeq
<1>2. Len(nodes) \in 1 .. Len(nodes)
  BY <1>1
<1>3. nodes[Len(nodes)] \in WindowNode
  BY <1>2, ElementOfSeq
<1> QED
  BY <1>1, <1>2, <1>3 DEF Last

\* One node of a window is replaced.
LEMMA ReplaceNode ==
  ASSUME NEW nodes \in Seq(WindowNode), NEW i \in DOMAIN nodes, NEW n \in WindowNode
  PROVE  /\ [nodes EXCEPT ![i] = n] \in Seq(WindowNode)
         /\ DOMAIN [nodes EXCEPT ![i] = n] = DOMAIN nodes
<1>1. DOMAIN nodes = 1 .. Len(nodes) /\ Len(nodes) \in Nat
  BY LenProperties
<1>2. \A j \in 1 .. Len(nodes) : nodes[j] \in WindowNode
  BY ElementOfSeq
<1>3. [nodes EXCEPT ![i] = n] \in [1 .. Len(nodes) -> WindowNode]
  BY <1>1, <1>2
<1> QED
  BY <1>1, <1>3, FunctionIsSeq

\* The elements of a sequence after an append.
LEMMA AppendElements ==
  ASSUME NEW S, NEW s \in Seq(S), NEW e
  PROVE  \A i \in DOMAIN Append(s, e) :
           Append(s, e)[i] = e \/ \E j \in DOMAIN s : Append(s, e)[i] = s[j]
<1> DEFINE T == S \cup {e}
           a == Append(s, e)
<1>1. e \in T /\ s \in Seq(T)
  BY SeqDef
<1> HIDE DEF T
<1>2. /\ a \in Seq(T) /\ Len(a) = Len(s) + 1 /\ a[Len(s) + 1] = e
      /\ \A i \in 1 .. Len(s) : a[i] = s[i]
  BY <1>1, AppendProperties
<1>3. DOMAIN s = 1 .. Len(s) /\ Len(s) \in Nat
  BY LenProperties
<1> HIDE DEF a
<1>4. DOMAIN a = 1 .. Len(s) + 1
  BY <1>2, LenProperties
<1>5. \A i \in 1 .. Len(s) + 1 : i \in 1 .. Len(s) \/ i = Len(s) + 1
  BY <1>3
<1> QED
  BY <1>2, <1>3, <1>4, <1>5 DEF a
=============================================================================
