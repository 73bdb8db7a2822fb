------------------------- MODULE TCPTransferStream --------------------------
(***************************************************************************)
(* The inductive invariant that the refinement of ByteStream rests on, and *)
(* the steps that keep it: as long as the applications leave room for a    *)
(* segment in the buffers and no timer expires while an answer is under    *)
(* way, TCPTransfer is stop-and-wait in each direction, whatever the       *)
(* network loses or reorders.                                              *)
(***************************************************************************)
EXTENDS TCPTransferTypes

-----------------------------------------------------------------------------
(* The inductive invariant.  p is the sender of a stream and q its         *)
(* receiver.                                                               *)

\* The buffers have room for a segment besides what is not yet read, and the
\* timers are not early.
Roomy == ~Spurious /\ Outstanding + MSS < W

\* The k bytes of a stream from number a on.
Bytes(a, k) == [i \in 1 .. k |-> a + i - 1]

\* The first byte that p does not know to have arrived, the number of bytes of
\* the window that slidingWindow works on, and of those that were sent.
Una(p) == sock[p].cumWriteUNA
Open(p) == IF sw[p].nodes = <<>> THEN 0 ELSE sw[p].size
Flight(p) == IF sw[p].nodes = <<>> THEN 0 ELSE IF sw[p].nodes[1].sent THEN sw[p].size ELSE 0

\* nd carries the k bytes from number u on.
Carries(nd, u, k) ==
  /\ nd.idx = 0 /\ nd.exp = u + k
  /\ nd.pkt.seq = u /\ nd.pkt.data = Bytes(u, k) /\ nd.pkt.win >= MSS

\* slidingWindow has nothing to send, has one segment to send, or has sent it.
Closed(s) ==
  /\ s.nodes = <<>>
  /\ s.pc \in {"idle", "end"} \/ (s.pc = "acks" /\ s.sent >= s.size)
Whole(s, u) ==
  /\ Len(s.nodes) = 1 /\ s.rest = <<>> /\ s.sent = 0 /\ s.size \in 1 .. MSS
  /\ Carries(s.nodes[1], u, s.size)
Ready(s, u) == Whole(s, u) /\ ~s.nodes[1].sent /\ s.pc = "loop" /\ s.toSend = s.size
Out(s, u, nums) ==
  /\ Whole(s, u) /\ s.nodes[1].sent /\ u + s.size \in nums
  /\ s.pc \in {"loop", "sent", "acks", "ack"} /\ (s.pc = "sent" \/ s.toSend = 0)

Phase(p) ==
  Closed(sw[p]) \/ Ready(sw[p], Una(p)) \/ Out(sw[p], Una(p), sock[p].unackedNums)

\* The write buffer holds what is written and not yet acknowledged: the window,
\* and a chunk more while VWrite waits to hand it over.
Sends(p) ==
  /\ Una(p) >= 1 /\ wb[p].UNA = Una(p) % W
  /\ wb[p].NXT = (Una(p) + Flight(p)) % W /\ wb[p].LBW = written[p] % W
  /\ Una(p) + Open(p) <= written[p] + 1
  /\ written[p] + 1 <= Una(p) + Open(p) + MSS
  /\ vw[p].pc # "chan" => written[p] + 1 = Una(p) + Open(p)
  /\ \A x \in Una(p) .. written[p] : wb[p].buf[x % W] = x
  /\ Flight(p) = 0 => sock[p].ClientWindowSize >= MSS

\* The read buffer holds what arrived and was not yet read; what arrived is what p
\* knows to have arrived, or the segment sent as well.
Reads(p, q) ==
  LET g == Len(got[q])
      r == sock[q].cumReadNXT
  IN  /\ rb[q].LBR = g % W /\ rb[q].NXT = r % W
      /\ g < r /\ (r = Una(p) \/ r = Una(p) + Flight(p))
      /\ written[p] + vw[p].left <= g + Outstanding
      /\ got[q] = Bytes(1, g)
      /\ \A x \in g + 1 .. r - 1 : rb[q].buf[x % W] = x
      /\ vr[q].pc = "lock" => g + vr[q].num < r
      /\ sock[q].earlyPQ = {}

\* Data segments and pure acknowledgments.
Kind(m) == IF m.data = <<>> THEN "ack" ELSE "data"
None(s, k) == \A i \in DOMAIN s : Kind(s[i]) # k
One(s, k) == \A i, j \in DOMAIN s : Kind(s[i]) = k /\ Kind(s[j]) = k => i = j

\* A packet from p to q carries the segment sent, or acknowledges q's.
Fits(m, p, q) ==
  /\ m.win >= MSS
  /\ Kind(m) = "data" => m.seq = Una(p) /\ m.data = Bytes(Una(p), Flight(p))
  /\ Kind(m) = "ack" => m.ack = Una(q) + Flight(q)
Packets(p, q) == \A i \in DOMAIN net[q] : Fits(net[q][i], p, q)

\* An acknowledgment that reached p is that of the segment sent.
Acks(p) ==
  /\ \A i \in DOMAIN sock[p].ackChan :
       sock[p].ackChan[i].ack = Una(p) + Flight(p) /\ sock[p].ackChan[i].win >= MSS
  /\ sw[p].pc = "ack" => sw[p].taken.ack = Una(p) + Flight(p) /\ sw[p].taken.win >= MSS

\* The segment sent or its acknowledgment is in one place at most: on the way to q,
\* with q's ReceiverThread, on the way back, in ackChan, or taken from there.
Bit(b) == IF b THEN 1 ELSE 0
Answered(p, q) ==
  Bit(rcv[q].pc # "recv") + Bit(~None(net[p], "ack")) + Len(sock[p].ackChan) + Bit(sw[p].pc = "ack")
Places(p, q) == Bit(~None(net[q], "data")) + Answered(p, q)
Token(p, q) ==
  /\ One(net[q], "data") /\ One(net[p], "ack") /\ rcv[q].pc # "full"
  /\ Places(p, q) <= 1
  /\ Places(p, q) > 0 => Flight(p) > 0
  /\ Answered(p, q) > 0 => sock[q].cumReadNXT = Una(p) + Flight(p)

Stream1(p, q) ==
  Phase(p) /\ Sends(p) /\ Reads(p, q) /\ Packets(p, q) /\ Acks(p) /\ Token(p, q)
StreamInv == \A p \in Peers : Stream1(p, Other(p))

-----------------------------------------------------------------------------
(* Arithmetic on pointers.                                                 *)

\* Division with a remainder.
LEMMA Quotient ==
  ASSUME NEW n \in Int
  PROVE  n % W \in 0 .. W - 1 /\ \E k \in Int : n = W * k + (n % W)
<1>1. n % W \in 0 .. W - 1 /\ n \div W \in Int /\ n = W * (n \div W) + (n % W)
  BY SizeAssumption
<1>. QED  BY Zenon, <1>1

\* The remainder is unique.
LEMMA Remainder ==
  ASSUME NEW k \in Int, NEW r \in Int, 0 <= r, r < W
  PROVE  (W * k + r) % W = r
BY SizeAssumption

\* A number below W is its own remainder.
LEMMA ModSmall ==
  ASSUME NEW n \in Int, 0 <= n, n < W
  PROVE  n % W = n
BY SizeAssumption

\* Taking a remainder can wait.
LEMMA ModPlus ==
  ASSUME NEW a \in Int, NEW b \in Int
  PROVE  ((a % W) + b) % W = (a + b) % W
<1> DEFINE x == (a % W) + b
<1>1. x \in Int
  BY Quotient
<1>2. PICK k \in Int : a = W * k + (a % W)
  BY Zenon, Quotient
<1>3. PICK j \in Int : x = W * j + (x % W)
  BY Zenon, <1>1, Quotient
<1>4. x % W \in Int /\ 0 <= x % W /\ x % W < W
  BY <1>1, Quotient, SizeAssumption
<1>5. a + b = W * (k + j) + (x % W)
  <2> DEFINE m == a % W
             y == x % W
  <2>1. m \in Int /\ y \in Int /\ W \in Int /\ a = W * k + m /\ m + b = W * j + y
    BY <1>2, <1>3, <1>4, Quotient, SizeAssumption
  <2> HIDE DEF m, y
  <2>2. a + b = W * (k + j) + y
    BY <2>1
  <2>. QED  BY Zenon, <2>2 DEF y
<1> HIDE DEF x
<1>6. (W * (k + j) + (x % W)) % W = x % W
  BY <1>4, Remainder, k + j \in Int
<1>. QED  BY Zenon, <1>5, <1>6 DEF x

\* Neither does it matter on the right of a difference.
LEMMA ModMinus ==
  ASSUME NEW a \in Int, NEW b \in Int
  PROVE  (b - (a % W)) % W = (b - a) % W
<1> DEFINE x == b - a
<1>1. PICK k \in Int : a = W * k + (a % W)
  BY Zenon, Quotient
<1>2. PICK j \in Int : x = W * j + (x % W)
  BY Quotient
<1>3. x % W \in Int /\ 0 <= x % W /\ x % W < W /\ a % W \in Int
  BY Quotient, SizeAssumption
<1>4. b - (a % W) = W * (k + j) + (x % W)
  <2> DEFINE m == a % W
             y == x % W
  <2>1. m \in Int /\ y \in Int /\ W \in Int /\ a = W * k + m /\ b - a = W * j + y
    BY <1>1, <1>2, <1>3, SizeAssumption
  <2> HIDE DEF m, y
  <2>2. b - m = W * (k + j) + y
    BY <2>1
  <2>. QED  BY Zenon, <2>2 DEF y, m
<1> HIDE DEF x
<1>5. (W * (k + j) + (x % W)) % W = x % W
  BY <1>3, Remainder, k + j \in Int
<1>. QED  BY Zenon, <1>4, <1>5 DEF x

\* The distance of two pointers is that of the numbers they stand for, as long as
\* that is below W.
LEMMA ModDistance ==
  ASSUME NEW a \in Int, NEW b \in Int, NEW c \in Int, 0 <= a + c - b, a + c - b < W
  PROVE  ((a % W) + c - (b % W)) % W = a + c - b
<1> DEFINE m == a % W
           n == b % W
<1>1. m \in Int /\ n \in Int
  BY Quotient
<1>2. (m + c - n) % W = (m + c - b) % W
  BY <1>1, ModMinus, m + c \in Int
<1>3. (m + (c - b)) % W = (a + (c - b)) % W
  BY ModPlus, c - b \in Int
<1>4. (a + (c - b)) % W = a + (c - b)
  BY ModSmall, a + (c - b) \in Int
<1> HIDE DEF m, n
<1>5. m + c - b = m + (c - b) /\ a + (c - b) = a + c - b
  BY Zenon, <1>1
<1>. QED  BY Zenon, <1>2, <1>3, <1>4, <1>5 DEF m, n

\* Adding W changes no pointer.
LEMMA ModAround ==
  ASSUME NEW a \in Int
  PROVE  (a + W) % W = a % W
<1>1. PICK k \in Int : a = W * k + (a % W)
  BY Zenon, Quotient
<1>2. a % W \in Int /\ 0 <= a % W /\ a % W < W
  BY Quotient, SizeAssumption
<1>3. a + W = W * (k + 1) + (a % W)
  <2> DEFINE m == a % W
  <2>1. m \in Int /\ W \in Int /\ a = W * k + m
    BY <1>1, <1>2, SizeAssumption
  <2> HIDE DEF m
  <2>2. a + W = W * (k + 1) + m
    BY <2>1
  <2>. QED  BY Zenon, <2>2 DEF m
<1>. QED  BY <1>2, <1>3, Remainder, k + 1 \in Int

\* Copying s to the cells of the numbers from y on: what they hold then, and what
\* the cells of the numbers before keep.
LEMMA PutAt ==
  ASSUME NEW buf \in [Cells -> Nat], NEW pos \in Int, NEW y \in Int, NEW s \in Seq(Nat),
         pos % W = y % W, NEW x \in Int
  PROVE  /\ y <= x /\ x < y + Len(s) /\ x < y + W => Put(buf, pos, s)[x % W] = s[x - y + 1]
         /\ y + Len(s) - W <= x /\ x < y => Put(buf, pos, s)[x % W] = buf[x % W]
<1> DEFINE k == ((x % W) - pos) % W
<1>0. x % W \in Cells
  BY Zenon, ModCell
<1>1. x % W \in Cells /\ x % W \in Int
  BY <1>0, CellNat
<1>2. Put(buf, pos, s)[x % W] = IF k < Len(s) THEN s[k + 1] ELSE buf[x % W]
  BY Zenon, <1>1 DEF Put
<1>3. k = (x - y) % W
  <2> DEFINE c == x % W
  <2>1. (c - pos) % W = (c - (pos % W)) % W
    BY Zenon, <1>1, ModMinus
  <2>2. (c - (y % W)) % W = (c - y) % W
    BY Zenon, <1>1, ModMinus
  <2>3. (c + (-y)) % W = (x + (-y)) % W
    BY ModPlus, -y \in Int
  <2> HIDE DEF c
  <2>4. c - y = c + (-y) /\ x - y = x + (-y)
    BY Zenon, <1>1 DEF c
  <2>. QED  BY Zenon, <2>1, <2>2, <2>3, <2>4 DEF c
<1> HIDE DEF k
<1>4. Len(s) \in Nat
  BY Zenon, LenProperties
<1>5. CASE y <= x /\ x < y + W
  <2>1. x - y \in Int /\ 0 <= x - y /\ x - y < W
    BY <1>5, SizeAssumption
  <2>2. k = x - y
    BY Zenon, <1>3, <2>1, ModSmall
  <2>. QED  BY <1>2, <1>4, <1>5, <2>2
<1>6. CASE y + Len(s) - W <= x /\ x < y
  <2>1. (x - y + W) % W = (x - y) % W
    BY ModAround, x - y \in Int
  <2>2. x - y + W \in Int /\ 0 <= x - y + W /\ x - y + W < W
    BY <1>4, <1>6, SizeAssumption
  <2>3. k = x - y + W
    BY Zenon, <1>3, <2>1, <2>2, ModSmall
  <2>. QED  BY <1>2, <1>4, <1>6, <2>3, SizeAssumption
<1>. QED  BY Zenon, <1>4, <1>5, <1>6, SizeAssumption

\* The two parts of PutAt.
LEMMA PutNew ==
  ASSUME NEW buf \in [Cells -> Nat], NEW pos \in Int, NEW y \in Int, NEW s \in Seq(Nat),
         pos % W = y % W, NEW x \in Int, y <= x, x < y + Len(s), x < y + W
  PROVE  Put(buf, pos, s)[x % W] = s[x - y + 1]
BY ZenonT(30), PutAt

\* Cells that hold older bytes keep them.
LEMMA PutOld ==
  ASSUME NEW buf \in [Cells -> Nat], NEW pos \in Int, NEW y \in Int, NEW s \in Seq(Nat),
         pos % W = y % W, NEW x \in Int, y + Len(s) - W <= x, x < y
  PROVE  Put(buf, pos, s)[x % W] = buf[x % W]
BY ZenonT(30), PutAt

\* Reading the cells of the numbers from y on.
LEMMA SliceAt ==
  ASSUME NEW buf \in [Cells -> Nat], NEW pos \in Int, NEW y \in Int, NEW n \in Nat,
         pos % W = y % W, \A x \in y .. y + n - 1 : buf[x % W] = x
  PROVE  Slice(buf, pos, n) = Bytes(y, n)
<1>1. ASSUME NEW k \in 1 .. n
      PROVE  buf[(pos + k - 1) % W] = y + k - 1
  <2>1. ((pos % W) + (k - 1)) % W = (pos + (k - 1)) % W
    BY ModPlus, k - 1 \in Int
  <2>2. ((y % W) + (k - 1)) % W = (y + (k - 1)) % W
    BY ModPlus, k - 1 \in Int
  <2>3. pos + k - 1 = pos + (k - 1) /\ y + k - 1 = y + (k - 1) /\ y + k - 1 \in y .. y + n - 1
    OBVIOUS
  <2>. QED  BY Zenon, <2>1, <2>2, <2>3
<1>. QED  BY Zenon, <1>1 DEF Slice, Bytes

\* A run of bytes is a sequence, equal to another if it starts the same and is as long.
LEMMA BytesSeq ==
  ASSUME NEW a \in Nat, NEW k \in Nat
  PROVE  /\ Bytes(a, k) \in Seq(Nat) /\ Len(Bytes(a, k)) = k
         /\ \A i \in 1 .. k : Bytes(a, k)[i] = a + i - 1
         /\ (Bytes(a, k) = <<>>) <=> (k = 0)
<1>1. Bytes(a, k) \in [1 .. k -> Nat]
  BY DEF Bytes
<1>2. Bytes(a, k) \in Seq(Nat) /\ Len(Bytes(a, k)) = k
  BY Zenon, <1>1, FunctionIsSeq
<1>3. \A i \in 1 .. k : Bytes(a, k)[i] = a + i - 1
  BY DEF Bytes
<1>. QED  BY Zenon, <1>2, <1>3, EmptySeq

\* Runs of bytes that follow each other make one.
LEMMA BytesConcat ==
  ASSUME NEW a \in Nat, NEW k \in Nat, NEW n \in Nat
  PROVE  Bytes(a, k) \o Bytes(a + k, n) = Bytes(a, k + n)
<1> DEFINE l == Bytes(a, k)
           r == Bytes(a + k, n)
           c == Bytes(a, k + n)
<1>1. /\ l \in Seq(Nat) /\ Len(l) = k /\ r \in Seq(Nat) /\ Len(r) = n
      /\ c \in Seq(Nat) /\ Len(c) = k + n
      /\ \A i \in 1 .. k : l[i] = a + i - 1
      /\ \A i \in 1 .. n : r[i] = a + k + i - 1
      /\ \A i \in 1 .. k + n : c[i] = a + i - 1
  BY SMTT(20), BytesSeq, a + k \in Nat, k + n \in Nat
<1> HIDE DEF l, r, c
<1>2. /\ l \o r \in Seq(Nat) /\ Len(l \o r) = k + n
      /\ \A i \in 1 .. k + n : (l \o r)[i] = IF i <= k THEN l[i] ELSE r[i - k]
  BY ZenonT(30), <1>1, ConcatProperties
<1>3. ASSUME NEW i \in 1 .. k + n
      PROVE  (l \o r)[i] = c[i]
  <2>1. (l \o r)[i] = IF i <= k THEN l[i] ELSE r[i - k]
    BY Zenon, <1>2
  <2>2. c[i] = a + i - 1
    BY Zenon, <1>1
  <2>3. CASE i <= k
    <3>1. i \in 1 .. k
      BY <2>3
    <3>. QED  BY Zenon, <1>1, <2>1, <2>2, <2>3, <3>1
  <2>4. CASE ~(i <= k)
    <3>1. i - k \in 1 .. n /\ a + k + (i - k) - 1 = a + i - 1
      BY <2>4
    <3>2. r[i - k] = a + k + (i - k) - 1
      BY Zenon, <1>1, <3>1
    <3>. QED  BY Zenon, <2>1, <2>2, <2>4, <3>1, <3>2
  <2>. QED  BY Zenon, <2>3, <2>4
<1>4. l \o r = c
  BY Zenon, <1>1, <1>2, <1>3, SeqEqual
<1>. QED  BY Zenon, <1>4 DEF l, r, c

-----------------------------------------------------------------------------
(* Packets on the network.                                                 *)

\* Where the elements that remain come from when one is removed.
LEMMA RemoveAtIndex ==
  ASSUME NEW S, NEW s \in Seq(S), NEW i \in 1 .. Len(s)
  PROVE  /\ DOMAIN RemoveAt(s, i) = 1 .. Len(s) - 1
         /\ \A j \in 1 .. Len(s) - 1 : RemoveAt(s, i)[j] = s[IF j < i THEN j ELSE j + 1]
<1> DEFINE l == SubSeq(s, 1, i - 1)
           r == SubSeq(s, i + 1, Len(s))
<1>1. /\ l \in Seq(S) /\ Len(l) = i - 1
      /\ \A j \in 1 .. i - 1 : l[j] = s[j]
  BY SubSeqProperties, ElementOfSeq, LenProperties
<1>2. /\ r \in Seq(S) /\ Len(r) = Len(s) - i
      /\ \A j \in 1 .. Len(s) - i : r[j] = s[i + j]
  BY SubSeqProperties, ElementOfSeq, LenProperties
<1>3. Len(s) \in Nat
  BY Zenon, LenProperties
<1>4. RemoveAt(s, i) = l \o r
  BY DEF RemoveAt
<1> HIDE DEF l, r
<1>5. /\ l \o r \in Seq(S) /\ Len(l \o r) = Len(l) + Len(r)
      /\ \A j \in 1 .. Len(l) + Len(r) : (l \o r)[j] = IF j <= Len(l) THEN l[j] ELSE r[j - Len(l)]
  BY <1>1, <1>2, ConcatProperties, ZenonT(60)
<1>6. ASSUME NEW j \in 1 .. Len(s) - 1
      PROVE  (l \o r)[j] = s[IF j < i THEN j ELSE j + 1]
  <2>1. (l \o r)[j] = IF j <= i - 1 THEN l[j] ELSE r[j - (i - 1)]
    BY SMTT(20), <1>1, <1>2, <1>3, <1>5
  <2>2. CASE j < i
    BY <1>1, <1>3, <2>1, <2>2
  <2>3. CASE j >= i
    <3>1. j - (i - 1) \in 1 .. Len(s) - i /\ i + (j - (i - 1)) = j + 1
      BY <1>3, <2>3
    <3>2. r[j - (i - 1)] = s[j + 1]
      BY Zenon, <1>2, <3>1
    <3>3. ~(j < i) /\ ~(j <= i - 1)
      BY <2>3, <1>3
    <3>. QED  BY Zenon, <2>1, <3>2, <3>3
  <2>4. j < i \/ j >= i
    BY <1>3
  <2>. QED  BY Zenon, <2>2, <2>3, <2>4
<1>7. DOMAIN (l \o r) = 1 .. Len(s) - 1
  BY <1>1, <1>2, <1>3, <1>5, LenProperties
<1>. QED  BY Zenon, <1>4, <1>6, <1>7

\* The packets of a kind once one is removed.
LEMMA RemoveKind ==
  ASSUME NEW s \in Seq(Packet), NEW i \in 1 .. Len(s), NEW k, One(s, k)
  PROVE  /\ One(RemoveAt(s, i), k)
         /\ None(s, k) => None(RemoveAt(s, i), k)
         /\ Kind(s[i]) # k => (None(RemoveAt(s, i), k) <=> None(s, k))
         /\ Kind(s[i]) = k => None(RemoveAt(s, i), k) /\ ~None(s, k)
<1> DEFINE r == RemoveAt(s, i)
<1>1. /\ DOMAIN r = 1 .. Len(s) - 1
      /\ \A j \in 1 .. Len(s) - 1 : r[j] = s[IF j < i THEN j ELSE j + 1]
  BY Zenon, RemoveAtIndex
<1>2. Len(s) \in Nat /\ DOMAIN s = 1 .. Len(s)
  BY Zenon, LenProperties
<1> HIDE DEF r
<1>3. ASSUME NEW j \in DOMAIN r
      PROVE  /\ (IF j < i THEN j ELSE j + 1) \in DOMAIN s \ {i}
             /\ r[j] = s[IF j < i THEN j ELSE j + 1]
  BY <1>1, <1>2
<1>4. One(r, k)
  <2> SUFFICES ASSUME NEW a \in DOMAIN r, NEW b \in DOMAIN r, Kind(r[a]) = k, Kind(r[b]) = k
               PROVE  a = b
    BY DEF One
  <2>1. (IF a < i THEN a ELSE a + 1) = (IF b < i THEN b ELSE b + 1)
    BY Zenon, <1>3 DEF One
  <2>. QED  BY <1>1, <1>2, <2>1
<1>5. None(s, k) => None(r, k)
  BY Zenon, <1>3 DEF None
<1>6. ASSUME Kind(s[i]) # k, ~None(s, k)
      PROVE  ~None(r, k)
  <2>1. PICK j \in DOMAIN s : Kind(s[j]) = k
    BY Zenon, <1>6 DEF None
  <2>2. j # i
    BY Zenon, <1>6, <2>1
  <2>3. CASE j < i
    BY <1>1, <1>2, <2>1, <2>3 DEF None
  <2>4. CASE j > i
    <3>1. j - 1 \in DOMAIN r /\ r[j - 1] = s[j]
      BY <1>1, <1>2, <2>4
    <3>. QED  BY Zenon, <2>1, <3>1 DEF None
  <2>. QED  BY <1>2, <2>2, <2>3, <2>4
<1>7. ASSUME Kind(s[i]) = k
      PROVE  None(r, k) /\ ~None(s, k)
  BY Zenon, <1>2, <1>3, <1>7 DEF One, None
<1>. QED  BY Zenon, <1>4, <1>5, <1>6, <1>7 DEF r

\* The packets of a kind once one is appended.
LEMMA AppendKind ==
  ASSUME NEW s \in Seq(Packet), NEW m \in Packet, NEW k, One(s, k)
  PROVE  /\ Kind(m) # k => (None(Append(s, m), k) <=> None(s, k)) /\ One(Append(s, m), k)
         /\ Kind(m) = k /\ None(s, k) => ~None(Append(s, m), k) /\ One(Append(s, m), k)
<1> DEFINE a == Append(s, m)
<1>1. Len(s) \in Nat /\ DOMAIN s = 1 .. Len(s)
  BY Zenon, LenProperties
<1>2. /\ DOMAIN a = 1 .. Len(s) + 1 /\ a[Len(s) + 1] = m
      /\ \A j \in 1 .. Len(s) : a[j] = s[j]
  <2>1. /\ a \in Seq(Packet) /\ Len(a) = Len(s) + 1 /\ a[Len(s) + 1] = m
        /\ \A j \in 1 .. Len(s) : a[j] = s[j]
    BY AppendProperties
  <2>. QED  BY Zenon, <2>1, LenProperties
<1> HIDE DEF a
<1>3. ASSUME Kind(m) # k
      PROVE  (None(a, k) <=> None(s, k)) /\ One(a, k)
  <2>1. None(a, k) <=> None(s, k)
    BY <1>1, <1>2, <1>3 DEF None
  <2>2. One(a, k)
    BY <1>1, <1>2, <1>3 DEF One
  <2>. QED  BY Zenon, <2>1, <2>2
<1>4. ASSUME Kind(m) = k, None(s, k)
      PROVE  ~None(a, k) /\ One(a, k)
  <2>1. ~None(a, k)
    BY <1>1, <1>2, <1>4 DEF None
  <2>2. One(a, k)
    BY <1>1, <1>2, <1>4 DEF One, None
  <2>. QED  BY Zenon, <2>1, <2>2
<1>. QED  BY Zenon, <1>3, <1>4 DEF a

-----------------------------------------------------------------------------
(* What the invariant says, and what a step leaves alone.                  *)

\* The three phases.
LEMMA Phases ==
  ASSUME TypeOK, NEW p \in Peers, Phase(p)
  PROVE  /\ Una(p) \in Nat /\ Open(p) \in 0 .. MSS /\ Flight(p) \in 0 .. MSS
         /\ Flight(p) = 0 \/ Flight(p) = Open(p)
         /\ Closed(sw[p]) => Open(p) = 0
         /\ Ready(sw[p], Una(p)) => Open(p) = sw[p].size /\ Flight(p) = 0 /\ Open(p) > 0
         /\ Out(sw[p], Una(p), sock[p].unackedNums) =>
              Open(p) = sw[p].size /\ Flight(p) = sw[p].size /\ Open(p) > 0
<1>1. Una(p) \in Nat /\ MSS \in Nat
  BY Zenon, SocketFields, SizeAssumption DEF Una
<1>2. CASE Closed(sw[p])
  BY <1>1, <1>2 DEF Closed, Ready, Out, Whole, Open, Flight
<1>3. ASSUME Whole(sw[p], Una(p))
      PROVE  sw[p].nodes # <<>> /\ sw[p].size \in 1 .. MSS
  BY <1>3 DEF Whole
<1>4. CASE Ready(sw[p], Una(p))
  BY <1>1, <1>3, <1>4 DEF Ready, Out, Closed, Open, Flight
<1>5. CASE Out(sw[p], Una(p), sock[p].unackedNums)
  BY <1>1, <1>3, <1>5 DEF Ready, Out, Closed, Open, Flight
<1>. QED  BY Zenon, <1>2, <1>4, <1>5 DEF Phase

\* The numbers of a stream in order.
LEMMA Numbers ==
  ASSUME Roomy, TypeOK, StreamInv, NEW p \in Peers, NEW q, q = Other(p)
  PROVE  /\ q \in Peers /\ q # p /\ p = Other(q) /\ Stream1(p, q) /\ Stream1(q, p)
         /\ W \in Nat /\ MSS \in Nat /\ 0 < MSS /\ Outstanding \in Nat /\ Outstanding + MSS < W
         /\ written[p] \in Nat /\ vw[p].left \in Nat /\ Len(got[q]) \in Nat
         /\ sock[q].cumReadNXT \in Nat /\ Len(got[q]) < sock[q].cumReadNXT
         /\ sock[q].cumReadNXT <= written[p] + 1
         /\ written[p] + vw[p].left <= Len(got[q]) + Outstanding
         /\ written[p] + vw[p].left + 1 < Una(p) + W
<1>1. q \in Peers /\ q # p /\ p = Other(q)
  BY Zenon, OtherPeer
<1>2. Stream1(p, q) /\ Stream1(q, p)
  BY Zenon, <1>1 DEF StreamInv
<1>3. W \in Nat /\ MSS \in Nat /\ 0 < MSS /\ Outstanding \in Nat /\ Outstanding + MSS < W
  BY Zenon, SizeAssumption, BoundAssumption DEF Roomy
<1>4. written[p] \in Nat /\ vw[p].left \in Nat /\ Len(got[q]) \in Nat /\ sock[q].cumReadNXT \in Nat
  BY Zenon, <1>1, PeerTypes, SocketFields, LenProperties DEF WriteCall
<1>5. /\ Len(got[q]) < sock[q].cumReadNXT
      /\ sock[q].cumReadNXT = Una(p) \/ sock[q].cumReadNXT = Una(p) + Flight(p)
      /\ written[p] + vw[p].left <= Len(got[q]) + Outstanding
      /\ Una(p) + Open(p) <= written[p] + 1
  BY Zenon, <1>2 DEF Stream1, Reads, Sends
<1>6. Una(p) \in Nat /\ Open(p) \in 0 .. MSS /\ (Flight(p) = 0 \/ Flight(p) = Open(p))
  BY Zenon, <1>2, Phases DEF Stream1
<1>7. sock[q].cumReadNXT <= written[p] + 1
  BY <1>3, <1>4, <1>5, <1>6
<1>8. written[p] + vw[p].left + 1 < Una(p) + W
  <2> DEFINE w == written[p]
             l == vw[p].left
             g == Len(got[q])
             r == sock[q].cumReadNXT
             u == Una(p)
             o == Open(p)
             f == Flight(p)
  <2>1. /\ w \in Nat /\ l \in Nat /\ g \in Nat /\ r \in Nat /\ u \in Nat /\ o \in 0 .. MSS
        /\ g < r /\ (r = u \/ r = u + f) /\ w + l <= g + Outstanding /\ (f = 0 \/ f = o)
    BY Zenon, <1>4, <1>5, <1>6
  <2> HIDE DEF w, l, g, r, u, o, f
  <2>2. w + l + 1 < u + W
    BY <1>3, <2>1
  <2>. QED  BY Zenon, <2>2 DEF w, l, u
<1>. QED  BY Zenon, <1>1, <1>2, <1>3, <1>4, <1>5, <1>7, <1>8

\* The room and the unread bytes of a buffer from the numbers of its pointers.
LEMMA Room ==
  ASSUME NEW g \in Nat, NEW r \in Nat, g < r, r <= g + W
  PROVE  /\ ((g % W) - (r % W)) % W = g + W - r
         /\ ((r % W) - 1 - (g % W)) % W = r - 1 - g
<1> DEFINE a == g % W
           b == r % W
<1>1. a \in Int /\ b \in Int /\ W \in Int
  BY Quotient, SizeAssumption
<1>2. (a + W - b) % W = g + W - r
  BY <1>1, ModDistance
<1>6. a - b \in Int
  BY <1>1
<1>3. (a - b + W) % W = (a - b) % W
  BY Zenon, <1>6, ModAround
<1>4. (b + (-1) - a) % W = r + (-1) - g
  BY <1>1, ModDistance
<1> HIDE DEF a, b
<1>5. a - b + W = a + W - b /\ b + (-1) - a = b - 1 - a /\ r + (-1) - g = r - 1 - g
  BY <1>1
<1>. QED  BY Zenon, <1>2, <1>3, <1>4, <1>5 DEF a, b

\* A receiver always has room for a segment.
LEMMA ReceiverRoom ==
  ASSUME Roomy, TypeOK, StreamInv, NEW p \in Peers, NEW q, q = Other(p)
  PROVE  /\ FreeSpace(q) >= MSS /\ FreeSpace(q) # 0
         /\ Unread(q) = sock[q].cumReadNXT - 1 - Len(got[q])
<1> DEFINE g == Len(got[q])
           r == sock[q].cumReadNXT
<1>0. /\ g \in Nat /\ r \in Nat /\ g < r /\ r <= written[p] + 1
      /\ written[p] + vw[p].left <= g + Outstanding
      /\ written[p] \in Nat /\ vw[p].left \in Nat
  BY Zenon, Numbers
<1>2. W \in Nat /\ MSS \in Nat /\ 0 < MSS /\ Outstanding \in Nat /\ Outstanding + MSS < W
  BY Zenon, Numbers
<1>3. rb[q].LBR = g % W /\ rb[q].NXT = r % W
  BY Zenon, Numbers DEF Stream1, Reads
<1> HIDE DEF g, r
<1>1. r <= g + Outstanding + 1 /\ r <= g + W
  BY <1>0, <1>2
<1>4. FreeSpace(q) = g + W - r /\ Unread(q) = r - 1 - g
  BY ZenonT(30), <1>0, <1>1, <1>3, Room DEF FreeSpace, Unread
<1>. QED  BY SMTT(20), <1>0, <1>1, <1>2, <1>4 DEF g, r

\* A step that leaves p's sending alone but for ClientWindowSize, which stays or is
\* large enough.
LEMMA SendsKept ==
  ASSUME NEW p \in Peers, Phase(p), Sends(p),
         wb'[p] = wb[p], sw'[p] = sw[p], vw'[p] = vw[p], written'[p] = written[p],
         sock'[p].cumWriteUNA = sock[p].cumWriteUNA, sock'[p].unackedNums = sock[p].unackedNums,
         \/ sock'[p].ClientWindowSize = sock[p].ClientWindowSize
         \/ sock'[p].ClientWindowSize >= MSS
  PROVE  /\ Phase(p)' /\ Sends(p)'
         /\ Una(p)' = Una(p) /\ Flight(p)' = Flight(p) /\ Open(p)' = Open(p)
<1>1. Una(p)' = Una(p) /\ Flight(p)' = Flight(p) /\ Open(p)' = Open(p)
  BY DEF Una, Flight, Open
<1>2. Phase(p)'
  BY Zenon, <1>1 DEF Phase
<1>3. Sends(p)'
  BY Zenon, <1>1 DEF Sends
<1>. QED  BY Zenon, <1>1, <1>2, <1>3

\* A step that leaves q's read buffer and VRead alone.
LEMMA ReadsKept ==
  ASSUME NEW p \in Peers, NEW q \in Peers, Reads(p, q),
         rb'[q] = rb[q], got'[q] = got[q], vr'[q] = vr[q] \/ vr'[q].pc # "lock",
         sock'[q].cumReadNXT = sock[q].cumReadNXT, sock'[q].earlyPQ = sock[q].earlyPQ,
         written'[p] + vw'[p].left <= Len(got[q]) + Outstanding,
         \/ sock[q].cumReadNXT = Una(p)'
         \/ sock[q].cumReadNXT = Una(p)' + Flight(p)'
  PROVE  Reads(p, q)'
BY DEF Reads

\* A step after which every packet to q is one of before, or fits.
LEMMA PacketsKept ==
  ASSUME NEW p \in Peers, NEW q \in Peers, Packets(p, q),
         \A i \in DOMAIN net'[q] : \/ \E j \in DOMAIN net[q] : net'[q][i] = net[q][j]
                                   \/ Fits(net[q][i], p, q)',
         None(net[q], "data") \/ (Una(p)' = Una(p) /\ Flight(p)' = Flight(p)),
         None(net[q], "ack") \/ (Una(q)' = Una(q) /\ Flight(q)' = Flight(q))
  PROVE  Packets(p, q)'
<1> SUFFICES ASSUME NEW i \in DOMAIN net'[q], NEW j \in DOMAIN net[q], net'[q][i] = net[q][j]
             PROVE  Fits(net[q][i], p, q)'
  BY Zenon DEF Packets
<1> DEFINE m == net[q][j]
<1>1. Fits(m, p, q)
  BY Zenon DEF Packets
<1>2. (None(net[q], "data") => Kind(m) # "data") /\ (None(net[q], "ack") => Kind(m) # "ack")
  BY Zenon DEF None
<1> HIDE DEF m
<1>3. /\ m.win >= MSS
      /\ Kind(m) = "data" => m.seq = Una(p)' /\ m.data = Bytes(Una(p), Flight(p))'
      /\ Kind(m) = "ack" => m.ack = Una(q)' + Flight(q)'
  BY Zenon, <1>1, <1>2 DEF Fits
<1>4. net'[q][i] = m
  BY DEF m
<1>. QED  BY Zenon, <1>3, <1>4 DEF Fits

\* A step that leaves the acknowledgments that reached p alone.
LEMMA AckChanKept ==
  ASSUME NEW p \in Peers, Acks(p), sock'[p].ackChan = sock[p].ackChan,
         sw'[p].pc = "ack" => sw[p].pc = "ack" /\ sw'[p].taken = sw[p].taken,
         Una(p)' = Una(p), Flight(p)' = Flight(p)
  PROVE  Acks(p)'
<1> DEFINE n == Una(p) + Flight(p)
<1>1. n' = n
  OBVIOUS
<1> HIDE DEF n
<1>2. /\ \A i \in DOMAIN sock[p].ackChan : sock[p].ackChan[i].ack = n /\ sock[p].ackChan[i].win >= MSS
      /\ sw[p].pc = "ack" => sw[p].taken.ack = n /\ sw[p].taken.win >= MSS
  BY DEF Acks, n
<1>3. /\ \A i \in DOMAIN sock'[p].ackChan :
           sock'[p].ackChan[i].ack = n' /\ sock'[p].ackChan[i].win >= MSS
      /\ sw'[p].pc = "ack" => sw'[p].taken.ack = n' /\ sw'[p].taken.win >= MSS
  BY Zenon, <1>1, <1>2
<1>. QED  BY Zenon, <1>3 DEF Acks, n

\* A step that moves neither the segment sent nor its acknowledgment.
LEMMA TokenKept ==
  ASSUME NEW p \in Peers, NEW q \in Peers, Token(p, q),
         One(net'[q], "data"), None(net'[q], "data") <=> None(net[q], "data"),
         One(net'[p], "ack"), None(net'[p], "ack") <=> None(net[p], "ack"),
         rcv'[q].pc # "full", rcv'[q].pc = "recv" <=> rcv[q].pc = "recv",
         sock'[p].ackChan = sock[p].ackChan, sw'[p].pc = "ack" <=> sw[p].pc = "ack",
         sock'[q].cumReadNXT = sock[q].cumReadNXT,
         Una(p)' = Una(p), Flight(p)' = Flight(p)
  PROVE  Token(p, q)'
<1>1. Answered(p, q)' = Answered(p, q) /\ Places(p, q)' = Places(p, q)
  BY Zenon DEF Answered, Places, Bit, None, Kind
<1>. QED  BY Zenon, <1>1 DEF Token, One, Kind

\* The whole invariant, for the two streams of a connection.
LEMMA BothStreams ==
  ASSUME NEW p \in Peers, NEW q, q = Other(p), Stream1(p, q)', Stream1(q, p)'
  PROVE  StreamInv'
<1>1. q \in Peers /\ p = Other(q)
  BY Zenon, OtherPeer
<1>2. \A x \in Peers : x = p \/ x = q
  BY Zenon, <1>1, PeersAssumption DEF Other
<1>3. ASSUME NEW x \in Peers PROVE Stream1(x, Other(x))'
  BY Zenon, <1>1, <1>2
<1>. QED  BY Zenon, <1>3 DEF StreamInv

\* A step of p's writing side, seen from the stream that p reads.
LEMMA SenderFrame ==
  ASSUME Roomy, TypeOK, StreamInv, NEW p \in Peers, NEW q, q = Other(p),
         UNCHANGED <<rb, rcv, vr, got>>,
         wb'[q] = wb[q], sw'[q] = sw[q], vw'[q] = vw[q], written'[q] = written[q],
         sock'[q] = sock[q], sock'[p].cumReadNXT = sock[p].cumReadNXT,
         sock'[p].earlyPQ = sock[p].earlyPQ,
         net'[p] = net[p], One(net'[q], "ack"), None(net'[q], "ack") <=> None(net[q], "ack"),
         Phase(p)', Sends(p)', Packets(p, q)', Acks(p)', Token(p, q)',
         written'[p] + vw'[p].left <= Len(got[q]) + Outstanding,
         \/ sock[q].cumReadNXT = Una(p)'
         \/ sock[q].cumReadNXT = Una(p)' + Flight(p)',
         None(net[p], "ack") \/ (Una(p)' = Una(p) /\ Flight(p)' = Flight(p))
  PROVE  StreamInv'
<1>1. q \in Peers /\ p = Other(q) /\ Stream1(p, q) /\ Stream1(q, p)
  BY Zenon, Numbers
<1>2. Stream1(p, q)'
  <2>1. Reads(p, q)'
    BY Zenon, <1>1, ReadsKept DEF Stream1
  <2>. QED  BY Zenon, <2>1 DEF Stream1
<1>3. Stream1(q, p)'
  <2>1. Phase(q)' /\ Sends(q)' /\ Una(q)' = Una(q) /\ Flight(q)' = Flight(q)
    BY Zenon, <1>1, SendsKept DEF Stream1
  <2>2. Reads(q, p)'
    <3>1. /\ sock[p].cumReadNXT = Una(q)' \/ sock[p].cumReadNXT = Una(q)' + Flight(q)'
          /\ written'[q] + vw'[q].left <= Len(got[p]) + Outstanding
      BY Zenon, <1>1, <2>1 DEF Stream1, Reads
    <3>. QED  BY Zenon, <1>1, <3>1, ReadsKept DEF Stream1
  <2>3. Packets(q, p)'
    BY Zenon, <1>1, <2>1, PacketsKept DEF Stream1
  <2>4. Acks(q)'
    BY Zenon, <1>1, <2>1, AckChanKept DEF Stream1
  <2>5. Token(q, p)'
    <3>1. Token(q, p) /\ One(net'[p], "data") /\ rcv'[p].pc # "full"
      BY Zenon, <1>1 DEF Stream1, Token
    <3>. QED  BY Zenon, <1>1, <2>1, <3>1, TokenKept
  <2>. QED  BY Zenon, <2>1, <2>2, <2>3, <2>4, <2>5 DEF Stream1
<1>. QED  BY Zenon, <1>1, <1>2, <1>3, BothStreams

\* A step of p's writing side that sends nothing and moves no acknowledgment.
LEMMA LocalFrame ==
  ASSUME Roomy, TypeOK, StreamInv, NEW p \in Peers, NEW q, q = Other(p),
         UNCHANGED <<net, rb, rcv, vr, got>>,
         wb'[q] = wb[q], sw'[q] = sw[q], vw'[q] = vw[q], written'[q] = written[q],
         sock'[q] = sock[q], sock'[p].cumReadNXT = sock[p].cumReadNXT,
         sock'[p].earlyPQ = sock[p].earlyPQ, sock'[p].ackChan = sock[p].ackChan,
         sw'[p].pc = "ack" <=> sw[p].pc = "ack",
         sw'[p].pc = "ack" => sw'[p].taken = sw[p].taken,
         Phase(p)', Sends(p)', Una(p)' = Una(p), Flight(p)' = Flight(p),
         written'[p] + vw'[p].left <= Len(got[q]) + Outstanding
  PROVE  StreamInv'
<1>1. q \in Peers /\ p = Other(q) /\ Stream1(p, q) /\ Stream1(q, p)
  BY Zenon, Numbers
<1>2. Una(q)' = Una(q) /\ Flight(q)' = Flight(q)
  BY DEF Una, Flight
<1>3. Packets(p, q)'
  BY Zenon, <1>1, <1>2, PacketsKept DEF Stream1
<1>4. Acks(p)'
  BY Zenon, <1>1, AckChanKept DEF Stream1
<1>5. Token(p, q)'
  <2>1. Token(p, q) /\ One(net'[q], "data") /\ One(net'[p], "ack") /\ rcv'[q].pc # "full"
    BY Zenon, <1>1 DEF Stream1, Token
  <2>. QED  BY Zenon, <1>1, <2>1, TokenKept
<1>6. /\ sock[q].cumReadNXT = Una(p)' \/ sock[q].cumReadNXT = Una(p)' + Flight(p)'
      /\ One(net'[q], "ack")
  BY Zenon, <1>1 DEF Stream1, Reads, Token
<1>. QED  BY Zenon, <1>1, <1>3, <1>4, <1>5, <1>6, SenderFrame

-----------------------------------------------------------------------------
(* The writing side.                                                       *)

\* VWrite is called: Outstanding bounds what it may be given.
LEMMA VWriteCallStream ==
  ASSUME Roomy, TypeOK, StreamInv, NEW p \in Peers, NEW n \in Nat, VWriteCall(p, n)
  PROVE  StreamInv'
<1> DEFINE q == Other(p)
<1>1. q \in Peers /\ q # p /\ Stream1(p, q)
  BY Zenon, Numbers
<1>2. /\ vw'[p].pc = "loop" /\ vw'[p].left = n /\ vw'[q] = vw[q] /\ vw[p].pc = "idle"
      /\ UNCHANGED <<net, wb, rb, sock, sw, rcv, vr, written, got>>
  BY Zenon, <1>1, CallTypes DEF VWriteCall
<1>3. written'[p] + vw'[p].left <= Len(got[q]) + Outstanding
  <2>1. written[p] + n - Len(got[q]) <= Outstanding
    BY DEF VWriteCall
  <2>2. written[p] \in Nat /\ Len(got[q]) \in Nat /\ Outstanding \in Nat
    BY Zenon, Numbers
  <2>. QED  BY <1>2, <2>1, <2>2
<1>4. Una(p)' = Una(p) /\ Flight(p)' = Flight(p) /\ Open(p)' = Open(p)
  BY Zenon, <1>2 DEF Una, Flight, Open
<1>5. Phase(p)' /\ Sends(p)'
  <2>1. Phase(p)'
    BY Zenon, <1>1, <1>2, <1>4 DEF Stream1, Phase
  <2>2. Sends(p)'
    BY Zenon, <1>1, <1>2, <1>4 DEF Stream1, Sends
  <2>. QED  BY Zenon, <2>1, <2>2
<1> HIDE DEF q
<1>. QED  BY Zenon, <1>1, <1>2, <1>3, <1>4, <1>5, LocalFrame DEF q

\* VWrite copies a chunk behind what is written, into cells that hold nothing that
\* is still to be acknowledged.
LEMMA VWriteCopyStream ==
  ASSUME Roomy, TypeOK, StreamInv, NEW p \in Peers, VWriteCopy(p)
  PROVE  /\ StreamInv'
         /\ \E n \in Nat : written' = [written EXCEPT ![p] = written[p] + n]
         /\ UNCHANGED <<rb, sock, got>>
<1> DEFINE q == Other(p)
           n == Least(Least(vw[p].left, Space(p)), MSS)
           chunk == [k \in 1 .. n |-> written[p] + k]
           buf == Put(wb[p].buf, FirstCell(p), chunk)
<1>1. q \in Peers /\ q # p /\ Stream1(p, q)
  BY Zenon, Numbers
<1>2. /\ W \in Nat /\ MSS \in Nat /\ 0 < MSS /\ Outstanding \in Nat /\ Outstanding + MSS < W
      /\ written[p] \in Nat /\ vw[p].left \in Nat /\ Len(got[q]) \in Nat
      /\ sock[q].cumReadNXT \in Nat /\ Len(got[q]) < sock[q].cumReadNXT
      /\ written[p] + vw[p].left <= Len(got[q]) + Outstanding
      /\ written[p] + vw[p].left + 1 < Una(p) + W
  BY Zenon, Numbers
<1>3. /\ vw[p].pc = "loop"
      /\ wb' = [wb EXCEPT ![p].buf = buf, ![p].LBW = (wb[p].LBW + n) % W]
      /\ written' = [written EXCEPT ![p] = written[p] + n]
      /\ vw' = [vw EXCEPT ![p] = [pc |-> "chan", left |-> vw[p].left - n, new |-> FALSE]]
      /\ UNCHANGED <<net, rb, sock, sw, rcv, vr, got>>
  BY Zenon DEF VWriteCopy
<1>4. n \in Nat /\ n <= vw[p].left /\ n <= MSS
  <2>1. wb[p].UNA - 1 - wb[p].LBW \in Int /\ W - 1 - wb[p].LBW \in Nat
    BY BufferFields, SizeAssumption DEF Cells
  <2>2. (wb[p].UNA - 1 - wb[p].LBW) % W \in Nat
    BY Zenon, <2>1, ModCell, CellNat
  <2>3. Space(p) \in Nat
    BY Zenon, <2>1, <2>2 DEF Space
  <2>. QED  BY <1>2, <2>3 DEF Least
<1> HIDE DEF n
<1>5. /\ wb'[p].buf = buf /\ wb'[p].LBW = (wb[p].LBW + n) % W
      /\ wb'[p].UNA = wb[p].UNA /\ wb'[p].NXT = wb[p].NXT /\ wb'[q] = wb[q]
  BY Zenon, <1>1, <1>3, BufferTypes DEF WriteBuffer
<1>6. /\ written'[p] = written[p] + n /\ written'[q] = written[q]
      /\ vw'[p].pc = "chan" /\ vw'[p].left = vw[p].left - n /\ vw'[q] = vw[q]
  BY Zenon, <1>1, <1>3 DEF TypeOK
<1>7. written'[p] + vw'[p].left <= Len(got[q]) + Outstanding
  BY <1>2, <1>4, <1>6
<1>8. Una(p)' = Una(p) /\ Flight(p)' = Flight(p) /\ Open(p)' = Open(p)
  BY Zenon, <1>3 DEF Una, Flight, Open
<1>9. Phase(p)'
  BY Zenon, <1>1, <1>3, <1>8 DEF Stream1, Phase
<1>10. Phase(p) /\ Sends(p)
  BY Zenon, <1>1 DEF Stream1
<1>11. /\ Una(p) \in Nat /\ Open(p) \in 0 .. MSS /\ Flight(p) \in 0 .. MSS
       /\ Flight(p) = 0 \/ Flight(p) = Open(p)
       /\ sock[q].cumReadNXT = Una(p) \/ sock[q].cumReadNXT = Una(p) + Flight(p)
  BY Zenon, <1>1, <1>10, Phases DEF Stream1, Reads
<1>12. written[p] + 1 = Una(p) + Open(p)
  BY Zenon, <1>3, <1>10 DEF Sends
<1>16. wb[p].LBW = written[p] % W
  BY Zenon, <1>10 DEF Sends
<1>13. wb'[p].LBW = written'[p] % W
  <2>1. written[p] \in Int /\ n \in Int
    BY <1>2, <1>4
  <2>. QED  BY Zenon, <1>5, <1>6, <1>16, <2>1, ModPlus
<1>14. ASSUME NEW x \in Int, Una(p) <= x, x <= written[p] + n
       PROVE  buf[x % W] = x
  <2> DEFINE w == written[p]
             u == Una(p)
             l == vw[p].left
             pos == FirstCell(p)
             old == wb[p].buf
  <2>1. chunk \in [1 .. n -> Nat] /\ \A k \in 1 .. n : chunk[k] = w + k
    BY <1>2, <1>4
  <2>2. chunk \in Seq(Nat) /\ Len(chunk) = n
    BY Zenon, <1>4, <2>1, FunctionIsSeq
  <2>3. w \in Nat /\ u \in Nat /\ l \in Nat /\ u <= x /\ x <= w + n
    BY Zenon, <1>2, <1>11, <1>14
  <2>4. w + l + 1 < u + W /\ n \in Nat /\ n <= l /\ W \in Nat /\ n < W
    BY <1>2, <1>4
  <2>5. pos \in Int
    BY BufferFields DEF FirstCell
  <2>13. pos = (w % W) + 1
    BY Zenon, <1>16 DEF FirstCell
  <2>6. old \in [Cells -> Nat] /\ Put(old, pos, chunk) = buf
    BY Zenon, BufferFields
  <2>7. \A z \in u .. w : old[z % W] = z
    BY Zenon, <1>10 DEF Sends
  <2> HIDE DEF chunk, w, u, l, pos, old, buf
  <2>8. w + 1 \in Int
    BY <2>3
  <2>9. pos % W = (w + 1) % W
    BY <2>3, <2>13, ModPlus
  <2>10. CASE x > w
    <3>1. /\ w + 1 <= x /\ x < w + 1 + n /\ x < w + 1 + W
          /\ x - (w + 1) + 1 \in 1 .. n /\ w + (x - (w + 1) + 1) = x
      BY <2>3, <2>4, <2>10
    <3>2. buf[x % W] = chunk[x - (w + 1) + 1]
      <4>1. w + 1 <= x /\ x < w + 1 + Len(chunk) /\ x < w + 1 + W
        BY Zenon, <2>2, <3>1
      <4>. QED  BY Zenon, <2>2, <2>5, <2>6, <2>8, <2>9, <4>1, PutNew
    <3>. QED  BY Zenon, <2>1, <3>1, <3>2
  <2>11. CASE x <= w
    <3>1. w + 1 + n - W <= x /\ x < w + 1 /\ x \in u .. w
      BY <2>3, <2>4, <2>11
    <3>2. buf[x % W] = old[x % W]
      <4>1. w + 1 + Len(chunk) - W <= x /\ x < w + 1
        BY Zenon, <2>2, <3>1
      <4>. QED  BY Zenon, <2>2, <2>5, <2>6, <2>8, <2>9, <4>1, PutOld
    <3>. QED  BY Zenon, <2>7, <3>1, <3>2
  <2>12. x > w \/ x <= w
    BY <2>3
  <2>. QED  BY Zenon, <2>10, <2>11, <2>12
<1>15. Sends(p)'
  <2>1. ASSUME NEW x \in Una(p) .. written'[p]
        PROVE  wb'[p].buf[x % W] = x
    <3>1. x \in Int /\ Una(p) <= x /\ x <= written[p] + n
      BY <1>2, <1>4, <1>6, <1>11
    <3>. QED  BY Zenon, <1>5, <1>14, <3>1
  <2>2. /\ Una(p)' + Open(p)' <= written'[p] + 1
        /\ written'[p] + 1 <= Una(p)' + Open(p)' + MSS
    <3>1. written'[p] = written[p] + n
      BY Zenon, <1>6
    <3>. QED  BY SMTT(20), <1>2, <1>4, <1>8, <1>11, <1>12, <3>1
  <2>. QED  BY Zenon, <1>3, <1>5, <1>6, <1>8, <1>10, <1>13, <2>1, <2>2 DEF Sends
<1> HIDE DEF q, chunk, buf
<1>17. StreamInv'
  BY Zenon, <1>1, <1>3, <1>5, <1>6, <1>7, <1>8, <1>9, <1>15, LocalFrame DEF q
<1>. QED  BY Zenon, <1>3, <1>4, <1>17

\* The window that slidingWindow opens on at most a segment's worth of bytes.
LEMMA OpenWhole ==
  ASSUME TypeOK, NEW p \in Peers, NEW u \in Nat, NEW c \in 1 .. MSS, NEW cws \in Nat, cws >= MSS,
         FreeSpace(p) >= MSS
  PROVE  LET s == WindowAt(p, u, Bytes(u, c), u, cws, 0)
         IN  Ready(s, u) /\ s.size = c /\ s.nodes # <<>> /\ ~s.nodes[1].sent /\ s.pc = "loop"
<1> DEFINE payload == Bytes(u, c)
           n == Least(Least(MSS, Len(payload)), cws)
           node == [pkt |-> Segment(p, u, SubSeq(payload, 1, n)),
                    exp |-> 0 + u + n, idx |-> 0, sent |-> FALSE]
           s == [NoWindow EXCEPT !.pc = "loop", !.size = Len(payload), !.toSend = n, !.tailLen = n,
                                 !.rest = SubSeq(payload, n + 1, Len(payload)), !.nodes = <<node>>]
<1>1. c \in Nat /\ MSS \in Nat /\ c <= MSS /\ 0 < c
  BY SizeAssumption
<1>a. c # 0
  BY <1>1
<1>2. payload \in Seq(Nat) /\ Len(payload) = c /\ payload # <<>>
  BY Zenon, <1>1, <1>a, BytesSeq
<1>3. WindowAt(p, u, payload, u, cws, 0) = s
  BY Zenon, <1>2 DEF WindowAt
<1>4. n = c
  BY <1>1, <1>2 DEF Least
<1> HIDE DEF n
<1>5. SubSeq(payload, 1, n) = payload
  <2>1. payload = [i \in 1 .. c |-> payload[i]]
    BY <1>2
  <2>. QED  BY <1>1, <1>2, <1>4, <2>1
<1>6. SubSeq(payload, n + 1, Len(payload)) = <<>>
  BY <1>1, <1>2, <1>4
<1>7. /\ s.pc = "loop" /\ s.size = c /\ s.toSend = c /\ s.rest = <<>> /\ s.sent = 0
      /\ s.nodes = <<node>>
  BY Zenon, <1>2, <1>4, <1>6 DEF NoWindow
<1>8. Carries(node, u, c) /\ ~node.sent
  <2>1. node.pkt.seq = u /\ node.pkt.data = payload /\ node.pkt.win = FreeSpace(p)
    BY Zenon, <1>5 DEF Segment
  <2>2. node.exp = u + c
    BY <1>1, <1>4
  <2>. QED  BY Zenon, <2>1, <2>2 DEF Carries
<1> HIDE DEF s, node, payload
<1>9. Len(<<node>>) = 1 /\ <<node>>[1] = node /\ <<node>> # <<>>
  OBVIOUS
<1>10. Ready(s, u) /\ s.size = c /\ s.nodes # <<>> /\ ~s.nodes[1].sent /\ s.pc = "loop"
  BY Zenon, <1>7, <1>8, <1>9 DEF Ready, Whole
<1>. QED  BY Zenon, <1>3, <1>10 DEF payload

\* SenderThread collects exactly what VWrite has copied since the last window.
LEMMA HandoffStream ==
  ASSUME Roomy, TypeOK, StreamInv, NEW p \in Peers, Handoff(p)
  PROVE  StreamInv'
<1> DEFINE q == Other(p)
           b == wb[p]
           u == Una(p)
           w == written[p]
           c == w + 1 - u
           dist == (b.NXT - b.UNA) % W
           cws == sock[p].ClientWindowSize
           payload == Slice(b.buf, b.NXT, ToCollect(p))
<1>1. q \in Peers /\ q # p /\ Stream1(p, q)
  BY Zenon, Numbers
<1>2. /\ W \in Nat /\ MSS \in Nat /\ 0 < MSS /\ MSS < W /\ w \in Nat
      /\ w + vw[p].left <= Len(got[q]) + Outstanding
  BY Zenon, Numbers, SizeAssumption
<1>3. Closed(sw[p]) /\ Open(p) = 0 /\ Flight(p) = 0 /\ vw[p].pc = "chan" /\ u \in Nat
  <2>1. sw[p].pc = "idle" /\ vw[p].pc = "chan"
    BY DEF Handoff
  <2>2. Closed(sw[p])
    BY Zenon, <1>1, <2>1 DEF Stream1, Phase, Ready, Out
  <2>. QED  BY Zenon, <1>1, <2>1, <2>2, Phases DEF Stream1
<1>4. /\ b.UNA = u % W /\ b.NXT = (u + 0) % W /\ b.LBW = w % W
      /\ u + 0 <= w + 1 /\ w + 1 <= u + 0 + MSS /\ cws >= MSS /\ u >= 1
      /\ \A x \in u .. w : b.buf[x % W] = x
  BY Zenon, <1>1, <1>3 DEF Stream1, Sends
<1>5. cws \in Nat /\ b.UNA \in Int /\ b.NXT \in Int /\ b.LBW \in Int /\ b.buf \in [Cells -> Nat]
  BY Zenon, SocketFields, BufferFields, CellNat
<1>6. b.NXT = u % W
  <2>1. u + 0 = u
    BY <1>3
  <2>. QED  BY Zenon, <1>4, <2>1
<1>7. c \in Nat /\ c <= MSS /\ u + c = w + 1 /\ c < W
  <2>1. u <= w + 1 /\ w + 1 <= u + MSS /\ u \in Nat
    <3>1. u + 0 <= w + 1 /\ w + 1 <= u + 0 + MSS
      BY Zenon, <1>4
    <3>. QED  BY <1>2, <1>3, <3>1
  <2>. QED  BY <1>2, <2>1
<1> HIDE DEF c
<1>8. dist = 0
  <2>1. b.NXT - b.UNA = 0
    <3>1. b.NXT = b.UNA
      BY Zenon, <1>4, <1>6
    <3>. QED  BY <1>5, <3>1
  <2>2. 0 % W = 0
    BY <1>2, ModSmall
  <2>. QED  BY Zenon, <2>1, <2>2
<1>9. ToCollect(p) = c
  <2>3. w \in Int /\ 1 \in Int /\ u \in Int /\ 0 <= w + 1 - u /\ w + 1 - u < W
    BY <1>2, <1>3, <1>7 DEF c
  <2>1. ((w % W) + 1 - (u % W)) % W = w + 1 - u
    BY Zenon, <2>3, ModDistance
  <2>2. b.LBW - b.NXT + 1 = b.LBW + 1 - b.NXT
    BY <1>5
  <2>. QED  BY Zenon, <1>4, <1>6, <2>1, <2>2 DEF ToCollect, c
<1>10. payload = Bytes(u, c)
  <2>1. b.NXT % W = u % W
    <3>1. u % W \in Int /\ 0 <= u % W /\ u % W < W
      BY <1>2, <1>3, Quotient
    <3>. QED  BY Zenon, <1>6, <3>1, ModSmall
  <2>2. \A x \in u .. u + c - 1 : b.buf[x % W] = x
    <3>1. u + c - 1 = w
      BY <1>2, <1>3, <1>7
    <3>. QED  BY Zenon, <1>4, <3>1
  <2>3. u \in Int
    BY <1>3
  <2> HIDE DEF b, u
  <2>4. Slice(b.buf, b.NXT, c) = Bytes(u, c)
    BY ZenonT(30), <1>5, <1>7, <2>1, <2>2, <2>3, SliceAt
  <2>. QED  BY Zenon, <1>9, <2>4
<1>11. /\ vw' = [vw EXCEPT ![p].pc = IF vw[p].left > 0 THEN "loop" ELSE "idle"]
       /\ sw' = [sw EXCEPT ![p] = WindowAt(p, u, Bytes(u, c), u, cws, 0)]
       /\ sock' = [sock EXCEPT ![p].ticker = FALSE]
       /\ UNCHANGED <<net, wb, rb, rcv, vr, written, got>>
  <2>1. (b.LBW - b.UNA) % W >= dist
    <3>1. b.LBW - b.UNA \in Int
      BY <1>5
    <3>2. (b.LBW - b.UNA) % W \in Nat
      BY Zenon, <3>1, ModCell, CellNat
    <3>. QED  BY <1>8, <3>2
  <2>. QED  BY Zenon, <1>8, <1>10, <2>1 DEF Handoff, OpenWindow, Una
<1> DEFINE s == WindowAt(p, u, Bytes(u, c), u, cws, 0)
<1>12. /\ vw'[p].pc # "chan" /\ vw'[p].left = vw[p].left /\ vw'[q] = vw[q]
       /\ sw'[p] = s /\ sw'[q] = sw[q]
  BY Zenon, <1>1, <1>11, CallTypes, SwType DEF WriteCall
<1>13. /\ sock'[q] = sock[q] /\ sock'[p].cumReadNXT = sock[p].cumReadNXT
       /\ sock'[p].earlyPQ = sock[p].earlyPQ /\ sock'[p].ackChan = sock[p].ackChan
       /\ sock'[p].cumWriteUNA = sock[p].cumWriteUNA
       /\ sock'[p].unackedNums = sock[p].unackedNums
       /\ sock'[p].ClientWindowSize = sock[p].ClientWindowSize
  BY Zenon, <1>1, <1>11, SockType DEF NormalSocket
<1>14. Una(p)' = u
  BY Zenon, <1>13 DEF Una
<1>15. Phase(p)' /\ Flight(p)' = 0 /\ Open(p)' = c /\ sw'[p].pc # "ack"
  <2>1. CASE c = 0
    <3>1. Bytes(u, c) = <<>>
      BY Zenon, <1>3, <2>1, BytesSeq
    <3>2. s = [NoWindow EXCEPT !.pc = "end"]
      BY Zenon, <3>1 DEF WindowAt
    <3>3. s.nodes = <<>> /\ s.pc = "end"
      BY Zenon, <3>2 DEF NoWindow
    <3>. QED  BY Zenon, <1>12, <2>1, <3>3 DEF Phase, Closed, Flight, Open
  <2>2. CASE c > 0
    <3>1. FreeSpace(p) >= MSS
      BY Zenon, <1>1, ReceiverRoom, OtherPeer
    <3>2. c \in 1 .. MSS
      BY <1>2, <1>7, <2>2
    <3>3. Ready(s, u) /\ s.size = c /\ s.nodes # <<>> /\ ~s.nodes[1].sent /\ s.pc = "loop"
      <4>1. cws >= MSS /\ cws \in Nat /\ u \in Nat
        BY Zenon, <1>3, <1>4, <1>5
      <4> HIDE DEF cws, u
      <4>. QED  BY <3>1, <3>2, <4>1, OpenWhole
    <3> HIDE DEF s
    <3>. QED  BY Zenon, <1>12, <1>14, <3>3 DEF Phase, Flight, Open
  <2>. QED  BY <1>7, <2>1, <2>2
<1> HIDE DEF s
<1>16. Sends(p)'
  <2>1. /\ Una(p)' + Open(p)' <= written'[p] + 1 /\ written'[p] + 1 <= Una(p)' + Open(p)' + MSS
        /\ written'[p] + 1 = Una(p)' + Open(p)'
    <3>1. u + c <= w + 1 /\ w + 1 <= u + c + MSS /\ w + 1 = u + c
      BY <1>2, <1>3, <1>7
    <3>2. written'[p] = w
      BY Zenon, <1>11
    <3>. QED  BY Zenon, <1>14, <1>15, <3>1, <3>2
  <2>2. /\ Una(p)' >= 1 /\ wb'[p].UNA = Una(p)' % W /\ wb'[p].LBW = written'[p] % W
        /\ wb'[p].NXT = (Una(p)' + Flight(p)') % W
        /\ \A x \in Una(p)' .. written'[p] : wb'[p].buf[x % W] = x
        /\ sock'[p].ClientWindowSize >= MSS
    BY Zenon, <1>4, <1>11, <1>13, <1>14, <1>15
  <2>. QED  BY Zenon, <1>12, <2>1, <2>2 DEF Sends
<1>17. written'[p] + vw'[p].left <= Len(got[q]) + Outstanding
  BY Zenon, <1>2, <1>11, <1>12
<1>18. sw[p].pc # "ack" /\ Flight(p)' = Flight(p) /\ Una(p)' = Una(p)
  BY Zenon, <1>3, <1>14, <1>15 DEF Closed
<1>. QED
  <2> HIDE DEF q, b, u, w, cws, payload, dist
  <2>1. written'[q] = written[q] /\ wb'[q] = wb[q] /\ UNCHANGED <<net, rb, rcv, vr, got>>
    BY Zenon, <1>11
  <2>. QED  BY Zenon, <1>1, <1>12, <1>13, <1>15, <1>16, <1>17, <1>18, <2>1, LocalFrame DEF q

\* The place of the segment sent, or of its acknowledgment, excludes the others.
LEMMA OnePlace ==
  ASSUME TypeOK, NEW p \in Peers, NEW q \in Peers, Token(p, q), Flight(p) \in Nat
  PROVE  LET D == ~None(net[q], "data")
             R == rcv[q].pc # "recv"
             N == ~None(net[p], "ack")
             C == sock[p].ackChan # <<>>
             T == sw[p].pc = "ack"
         IN  /\ D => ~R /\ ~N /\ ~C /\ ~T
             /\ R => ~D /\ ~N /\ ~C /\ ~T
             /\ N => ~D /\ ~R /\ ~C /\ ~T
             /\ C => ~D /\ ~R /\ ~N /\ ~T /\ Len(sock[p].ackChan) = 1
             /\ T => ~D /\ ~R /\ ~N /\ ~C
             /\ D \/ R \/ N \/ C \/ T => Flight(p) > 0
             /\ R \/ N \/ C \/ T => sock[q].cumReadNXT = Una(p) + Flight(p)
<1> DEFINE D == ~None(net[q], "data")
           R == rcv[q].pc # "recv"
           N == ~None(net[p], "ack")
           C == sock[p].ackChan # <<>>
           T == sw[p].pc = "ack"
           k == Len(sock[p].ackChan)
           f == Flight(p)
           r == sock[q].cumReadNXT = Una(p) + Flight(p)
<1>1. k \in Nat /\ (C => k > 0)
  BY SocketFields, LenProperties, EmptySeq
<1>2. /\ Bit(D) + (Bit(R) + Bit(N) + k + Bit(T)) <= 1
      /\ Bit(D) + (Bit(R) + Bit(N) + k + Bit(T)) > 0 => f > 0
      /\ Bit(R) + Bit(N) + k + Bit(T) > 0 => r
  BY Zenon DEF Token, Places, Answered
<1>3. f \in Nat
  OBVIOUS
<1>4. \A b : (b => Bit(b) = 1) /\ (~b => Bit(b) = 0)
  BY DEF Bit
<1>5. /\ (D => Bit(D) = 1) /\ (~D => Bit(D) = 0) /\ (R => Bit(R) = 1) /\ (~R => Bit(R) = 0)
      /\ (N => Bit(N) = 1) /\ (~N => Bit(N) = 0) /\ (T => Bit(T) = 1) /\ (~T => Bit(T) = 0)
  BY Zenon, <1>4
<1> DEFINE d == Bit(D)
           a == Bit(R)
           n == Bit(N)
           t == Bit(T)
<1>6. /\ (D => d = 1) /\ (~D => d = 0) /\ (R => a = 1) /\ (~R => a = 0)
      /\ (N => n = 1) /\ (~N => n = 0) /\ (T => t = 1) /\ (~T => t = 0)
      /\ d + (a + n + k + t) <= 1 /\ (d + (a + n + k + t) > 0 => f > 0) /\ (a + n + k + t > 0 => r)
  BY Zenon, <1>2, <1>5
<1> HIDE DEF D, R, N, C, T, k, f, r, d, a, n, t
<1>7. d \in {0, 1} /\ a \in {0, 1} /\ n \in {0, 1} /\ t \in {0, 1}
  BY Zenon, <1>6
<1>8. /\ D => ~R /\ ~N /\ ~C /\ ~T
      /\ R => ~D /\ ~N /\ ~C /\ ~T
      /\ N => ~D /\ ~R /\ ~C /\ ~T
      /\ C => ~D /\ ~R /\ ~N /\ ~T /\ k = 1
      /\ T => ~D /\ ~R /\ ~N /\ ~C
  BY <1>1, <1>6, <1>7
<1>9. /\ D \/ R \/ N \/ C \/ T => f > 0
      /\ R \/ N \/ C \/ T => r
  BY <1>1, <1>3, <1>6, <1>7
<1>. QED  BY Zenon, <1>8, <1>9 DEF D, R, N, C, T, k, f, r

\* The places after a step, from what each holds.
LEMMA PlacesNow ==
  ASSUME NEW p \in Peers, NEW q \in Peers
  PROVE  LET D == ~None(net'[q], "data")
             R == rcv'[q].pc # "recv"
             N == ~None(net'[p], "ack")
             C == Len(sock'[p].ackChan)
             T == sw'[p].pc = "ack"
         IN  /\ ~R /\ ~N /\ C = 0 /\ ~T => Answered(p, q)' = 0 /\ Places(p, q)' \in {0, 1}
             /\ ~D /\ ~R /\ ~N /\ C = 0 /\ ~T => Places(p, q)' = 0
             /\ ~D /\ R /\ ~N /\ C = 0 /\ ~T => Places(p, q)' = 1
             /\ ~D /\ ~R /\ N /\ C = 0 /\ ~T => Places(p, q)' = 1
             /\ ~D /\ ~R /\ ~N /\ C = 1 /\ ~T => Places(p, q)' = 1
             /\ ~D /\ ~R /\ ~N /\ C = 0 /\ T => Places(p, q)' = 1
<1> DEFINE D == ~None(net'[q], "data")
           R == rcv'[q].pc # "recv"
           N == ~None(net'[p], "ack")
           C == Len(sock'[p].ackChan)
           T == sw'[p].pc = "ack"
           d == Bit(D)
           a == Bit(R)
           n == Bit(N)
           t == Bit(T)
<1>1. Answered(p, q)' = a + n + C + t /\ Places(p, q)' = d + Answered(p, q)'
  BY Zenon DEF Answered, Places, Bit, None, Kind
<1>2. \A b : (b => Bit(b) = 1) /\ (~b => Bit(b) = 0)
  BY DEF Bit
<1>3. /\ (D => d = 1) /\ (~D => d = 0) /\ (R => a = 1) /\ (~R => a = 0)
      /\ (N => n = 1) /\ (~N => n = 0) /\ (T => t = 1) /\ (~T => t = 0)
  BY Zenon, <1>2
<1> HIDE DEF D, R, N, C, T, d, a, n, t
<1>4. /\ ~R /\ ~N /\ C = 0 /\ ~T => Answered(p, q)' = 0 /\ Places(p, q)' \in {0, 1}
      /\ ~D /\ ~R /\ ~N /\ C = 0 /\ ~T => Places(p, q)' = 0
      /\ ~D /\ R /\ ~N /\ C = 0 /\ ~T => Places(p, q)' = 1
      /\ ~D /\ ~R /\ N /\ C = 0 /\ ~T => Places(p, q)' = 1
      /\ ~D /\ ~R /\ ~N /\ C = 1 /\ ~T => Places(p, q)' = 1
      /\ ~D /\ ~R /\ ~N /\ C = 0 /\ T => Places(p, q)' = 1
  BY <1>1, <1>3
<1>. QED  BY Zenon, <1>4 DEF D, R, N, C, T

\* p sends the only packet of its kind.
LEMMA SendOne ==
  ASSUME TypeOK, NEW p \in Peers, NEW q, q = Other(p), NEW m \in Packet, Send(p, m),
         NEW j, None(net[q], Kind(m)), One(net[q], j), j # Kind(m)
  PROVE  /\ net'[p] = net[p]
         /\ One(net'[q], Kind(m)) /\ ~None(net'[q], Kind(m))
         /\ One(net'[q], j) /\ (None(net'[q], j) <=> None(net[q], j))
         /\ \A i \in DOMAIN net'[q] :
              net'[q][i] = m \/ \E l \in DOMAIN net[q] : net'[q][i] = net[q][l]
<1>1. q \in Peers /\ q # p
  BY Zenon, OtherPeer
<1>2. net[q] \in Seq(Packet)
  BY Zenon, <1>1, PeerTypes
<1>3. net'[q] = Append(net[q], m) /\ net'[p] = net[p]
  BY Zenon, <1>1 DEF Send, TypeOK
<1>4. One(net[q], Kind(m))
  BY Zenon DEF One, None
<1> DEFINE a == Append(net[q], m)
<1>5. One(a, Kind(m)) /\ ~None(a, Kind(m))
  BY Zenon, <1>2, <1>4, AppendKind
<1>6. One(a, j) /\ (None(a, j) <=> None(net[q], j))
  BY Zenon, <1>2, AppendKind
<1>7. \A i \in DOMAIN a : a[i] = m \/ \E l \in DOMAIN net[q] : a[i] = net[q][l]
  BY <1>2, AppendElements
<1> HIDE DEF a
<1>8. net'[q] = a
  BY Zenon, <1>3 DEF a
<1>. QED  BY Zenon, <1>3, <1>5, <1>6, <1>7, <1>8

\* p sends the segment of its window while neither it nor its acknowledgment is
\* anywhere.
LEMMA DataSent ==
  ASSUME Roomy, TypeOK, StreamInv, NEW p \in Peers, NEW q, q = Other(p),
         NEW m \in Packet, Send(p, m), Kind(m) = "data", m.win >= MSS,
         m.seq = Una(p)', m.data = Bytes(Una(p), Flight(p))',
         None(net[q], "data"), rcv[q].pc = "recv", None(net[p], "ack"), sock[p].ackChan = <<>>,
         UNCHANGED <<rb, rcv, vr, vw, written, got>>, wb'[q] = wb[q], sw'[q] = sw[q],
         sock'[q] = sock[q], sock'[p].cumReadNXT = sock[p].cumReadNXT,
         sock'[p].earlyPQ = sock[p].earlyPQ, sock'[p].ackChan = sock[p].ackChan,
         sw'[p].pc # "ack", Phase(p)', Sends(p)', Flight(p)' > 0,
         \/ sock[q].cumReadNXT = Una(p)'
         \/ sock[q].cumReadNXT = Una(p)' + Flight(p)'
  PROVE  StreamInv'
<1>1. q \in Peers /\ q # p /\ Stream1(p, q) /\ Stream1(q, p)
  BY Zenon, Numbers
<1>2. /\ net'[p] = net[p] /\ One(net'[q], "data") /\ ~None(net'[q], "data")
      /\ One(net'[q], "ack") /\ (None(net'[q], "ack") <=> None(net[q], "ack"))
      /\ \A i \in DOMAIN net'[q] :
           net'[q][i] = m \/ \E l \in DOMAIN net[q] : net'[q][i] = net[q][l]
  <2>1. One(net[q], "ack") /\ "ack" # Kind(m) /\ None(net[q], Kind(m))
    BY Zenon, <1>1 DEF Stream1, Token
  <2>2. /\ net'[p] = net[p] /\ One(net'[q], Kind(m)) /\ ~None(net'[q], Kind(m))
        /\ One(net'[q], "ack") /\ (None(net'[q], "ack") <=> None(net[q], "ack"))
        /\ \A i \in DOMAIN net'[q] :
             net'[q][i] = m \/ \E l \in DOMAIN net[q] : net'[q][i] = net[q][l]
    BY <2>1, SendOne
  <2>. QED  BY Zenon, <2>2
<1>3. Packets(p, q)'
  <2>1. ASSUME NEW i \in DOMAIN net'[q]
        PROVE  Fits(net[q][i], p, q)' \/ \E l \in DOMAIN net[q] : net'[q][i] = net[q][l]
    <3>1. CASE net'[q][i] = m
      BY ZenonT(30), <3>1 DEF Fits, Kind
    <3>. QED  BY Zenon, <1>2, <3>1
  <2>2. Una(q)' = Una(q) /\ Flight(q)' = Flight(q)
    BY DEF Una, Flight
  <2>3. Packets(p, q)
    BY Zenon, <1>1 DEF Stream1
  <2>. QED  BY Zenon, <1>1, <2>1, <2>2, <2>3, PacketsKept
<1>4. Acks(p)'
  <2>1. DOMAIN sock'[p].ackChan = {}
    OBVIOUS
  <2>. QED  BY Zenon, <2>1 DEF Acks
<1>5. Token(p, q)'
  <2>1. Len(sock'[p].ackChan) = 0 /\ rcv'[q].pc = "recv" /\ None(net'[p], "ack")
    <3>1. Len(sock'[p].ackChan) = 0
      OBVIOUS
    <3>. QED  BY Zenon, <1>2, <3>1
  <2>2. Answered(p, q)' = 0 /\ Places(p, q)' \in {0, 1}
    BY Zenon, <1>1, <2>1, PlacesNow
  <2>3. One(net'[p], "ack")
    BY Zenon, <2>1 DEF One, None
  <2>4. Places(p, q)' <= 1 /\ ~(Answered(p, q)' > 0)
    BY <2>2
  <2>. QED  BY Zenon, <1>2, <2>1, <2>3, <2>4 DEF Token, One, Kind
<1>6. /\ written'[p] + vw'[p].left <= Len(got[q]) + Outstanding
      /\ vw'[q] = vw[q] /\ written'[q] = written[q] /\ UNCHANGED <<rb, rcv, vr, got>>
  BY Zenon, <1>1 DEF Stream1, Reads
<1>. QED  BY Zenon, <1>1, <1>2, <1>3, <1>4, <1>5, <1>6, SenderFrame

\* The segment of the window is sent for the first time.
LEMMA SendTailStream ==
  ASSUME Roomy, TypeOK, StreamInv, NEW p \in Peers, SendTail(p)
  PROVE  StreamInv'
<1> DEFINE q == Other(p)
           b == wb[p]
           s == sw[p]
           u == Una(p)
           c == s.size
           nxt == (b.NXT + s.toSend) % W
           exp == ((nxt - b.UNA) % W) + u
           m == s.nodes[1].pkt
<1>1. q \in Peers /\ q # p /\ Stream1(p, q) /\ Stream1(q, p)
  BY Zenon, Numbers
<1>2. /\ W \in Nat /\ MSS \in Nat /\ 0 < MSS /\ MSS < W /\ written[p] \in Nat
      /\ written[p] + vw[p].left <= Len(got[q]) + Outstanding
  BY Zenon, Numbers, SizeAssumption
<1>3. Ready(s, u) /\ s.nodes # <<>>
  <2>1. s.pc # "sent" /\ s.toSend > 0 /\ s.nodes # <<>>
    BY DEF SendTail, MaySend
  <2>2. ~(s.toSend = 0)
    BY <2>1
  <2>. QED  BY Zenon, <1>1, <2>1, <2>2 DEF Stream1, Phase, Closed, Out
<1>4. Flight(p) = 0 /\ Open(p) = c /\ c \in 1 .. MSS /\ u \in Nat /\ s.toSend = c
  BY Zenon, <1>1, <1>3, Phases DEF Stream1, Ready, Whole
<1>5. b.UNA = u % W /\ b.NXT = (u + 0) % W
  BY Zenon, <1>1, <1>4 DEF Stream1, Sends
<1>6. nxt = (u + c) % W
  <2>1. u + 0 = u /\ u \in Int /\ c \in Int
    BY <1>2, <1>4
  <2>2. b.NXT = u % W
    BY Zenon, <1>5, <2>1
  <2>3. ((u % W) + c) % W = (u + c) % W
    BY Zenon, <2>1, ModPlus
  <2>. QED  BY Zenon, <1>4, <2>2, <2>3
<1>7. exp = u + c
  <2>1. u + c \in Int /\ 0 \in Int /\ u \in Int /\ 0 <= u + c + 0 - u /\ u + c + 0 - u < W
    BY <1>2, <1>4
  <2>2. (((u + c) % W) + 0 - (u % W)) % W = u + c + 0 - u
    BY Zenon, <2>1, ModDistance
  <2>3. nxt \in Int
    BY <1>6, <2>1, Quotient
  <2> HIDE DEF nxt, u, c
  <2>4. nxt + 0 - b.UNA = nxt - b.UNA
    BY <2>3, BufferFields
  <2>5. (nxt - b.UNA) % W = u + c + 0 - u
    BY Zenon, <1>5, <1>6, <2>2, <2>4
  <2>6. u + c + 0 - u = c /\ u + c = c + u
    BY <1>2, <1>4
  <2>. QED  BY Zenon, <2>5, <2>6
<1>8. Len(s.nodes) = 1 /\ Last(s.nodes) = s.nodes[1] /\ 1 \in DOMAIN s.nodes /\ s.nodes[1] \in WindowNode
  <2>1. s.nodes \in Seq(WindowNode) /\ Len(s.nodes) = 1
    BY Zenon, <1>3, WindowFields DEF Ready, Whole
  <2>. QED  BY Zenon, <1>3, <2>1, TailType
<1>9. /\ wb' = [wb EXCEPT ![p].NXT = nxt]
      /\ sock' = [sock EXCEPT ![p] = Expect(sock[p], exp)]
      /\ sw' = [sw EXCEPT ![p].pc = "sent", ![p].exp = exp, ![p].nodes[1].sent = TRUE]
      /\ Send(p, m)
      /\ UNCHANGED <<rb, rcv, vr, vw, written, got>>
  BY Zenon, <1>8 DEF SendTail, Una
<1>10. /\ m \in Packet /\ m.seq = u /\ m.data = Bytes(u, c) /\ m.win >= MSS /\ Kind(m) = "data"
  <2>1. Carries(s.nodes[1], u, c)
    BY Zenon, <1>3 DEF Ready, Whole
  <2>2. m.seq = u /\ m.data = Bytes(u, c) /\ m.win >= MSS
    BY Zenon, <2>1 DEF Carries
  <2>3. Bytes(u, c) # <<>>
    <3>1. c \in Nat /\ c # 0
      BY <1>2, <1>4
    <3>. QED  BY Zenon, <1>4, <3>1, BytesSeq
  <2>4. m \in Packet
    BY Zenon, <1>8 DEF WindowNode
  <2>. QED  BY Zenon, <2>2, <2>3, <2>4 DEF Kind
<1>11. /\ wb'[p].NXT = (u + c) % W /\ wb'[p].UNA = b.UNA /\ wb'[p].LBW = b.LBW
       /\ wb'[p].buf = b.buf /\ wb'[q] = wb[q]
  BY Zenon, <1>1, <1>6, <1>9, BufferTypes DEF WriteBuffer
<1>12. /\ sock'[q] = sock[q] /\ sock'[p].cumReadNXT = sock[p].cumReadNXT
       /\ sock'[p].earlyPQ = sock[p].earlyPQ /\ sock'[p].ackChan = sock[p].ackChan
       /\ sock'[p].cumWriteUNA = sock[p].cumWriteUNA
       /\ u + c \in sock'[p].unackedNums
  BY Zenon, <1>1, <1>7, <1>9, SockType DEF NormalSocket, Expect
<1>13. /\ sw'[q] = sw[q] /\ sw'[p].pc = "sent" /\ sw'[p].size = c /\ sw'[p].sent = s.sent
       /\ sw'[p].rest = s.rest /\ sw'[p].nodes = [s.nodes EXCEPT ![1].sent = TRUE]
  BY ZenonT(30), <1>1, <1>9, SwType DEF Window
<1>14. /\ Len(sw'[p].nodes) = 1 /\ sw'[p].nodes[1] = [s.nodes[1] EXCEPT !.sent = TRUE]
  <2> DEFINE nd == [s.nodes[1] EXCEPT !.sent = TRUE]
             nodes == [s.nodes EXCEPT ![1] = nd]
  <2>1. sw'[p].nodes = nodes
    BY Zenon, <1>13
  <2>2. s.nodes \in Seq(WindowNode) /\ nd \in WindowNode
    BY Zenon, <1>8, WindowFields DEF WindowNode
  <2> HIDE DEF nd
  <2>3. nodes \in Seq(WindowNode) /\ DOMAIN nodes = DOMAIN s.nodes
    BY Zenon, <1>8, <2>2, ReplaceNode
  <2>5. nodes[1] = nd
    BY Zenon, <1>8
  <2> HIDE DEF nodes
  <2>4. Len(nodes) = 1
    BY <1>8, <2>2, <2>3, LenProperties
  <2>. QED  BY Zenon, <2>1, <2>4, <2>5 DEF nd
<1>15. Una(p)' = u
  BY Zenon, <1>12 DEF Una
<1>16. Carries(sw'[p].nodes[1], u, c) /\ sw'[p].nodes[1].sent /\ sw'[p].nodes # <<>>
  BY <1>3, <1>8, <1>14 DEF Ready, Whole, Carries, WindowNode
<1>17. Out(sw'[p], u, sock'[p].unackedNums)
  BY Zenon, <1>3, <1>12, <1>13, <1>14, <1>16 DEF Out, Ready, Whole
<1>18. Phase(p)' /\ Flight(p)' = c /\ Open(p)' = c
  BY Zenon, <1>13, <1>15, <1>16, <1>17 DEF Phase, Flight, Open
<1>19. c \in Nat /\ c > 0 /\ ~(c = 0)
  BY <1>2, <1>4
<1>20. Sends(p)'
  BY Zenon, <1>1, <1>4, <1>9, <1>11, <1>15, <1>18, <1>19 DEF Stream1, Sends
<1>21. Token(p, q) /\ Token(q, p) /\ sock[q].cumReadNXT = u
  <2>1. sock[q].cumReadNXT = u \/ sock[q].cumReadNXT = u + Flight(p)
    BY Zenon, <1>1 DEF Stream1, Reads
  <2>. QED  BY <1>1, <1>4, <2>1 DEF Stream1
<1>22. /\ None(net[q], "data") /\ rcv[q].pc = "recv" /\ None(net[p], "ack")
       /\ sock[p].ackChan = <<>>
  <2>1. ~(Flight(p) > 0) /\ Flight(p) \in Nat
    BY <1>4
  <2>. QED  BY Zenon, <1>1, <1>21, <2>1, OnePlace
<1>23. sw'[p].pc # "ack" /\ Flight(p)' > 0 /\ sock[q].cumReadNXT = Una(p)'
  BY Zenon, <1>13, <1>15, <1>18, <1>19, <1>21
<1>24. m.seq = Una(p)' /\ m.data = Bytes(Una(p), Flight(p))'
  BY Zenon, <1>10, <1>15, <1>18
<1>. QED
  <2> HIDE DEF q, b, u, s, c, nxt, exp, m
  <2>. QED  BY Zenon, <1>1, <1>9, <1>10, <1>11, <1>12, <1>13, <1>18, <1>20, <1>22, <1>23,
                  <1>24, DataSent DEF q

\* A step of slidingWindow or a timer that sends and acknowledges nothing.
LEMMA WindowFrame ==
  ASSUME Roomy, TypeOK, StreamInv, NEW p \in Peers, NEW q, q = Other(p),
         UNCHANGED <<net, wb, rb, rcv, vr, vw, written, got>>,
         sw'[q] = sw[q], sock'[q] = sock[q], sock'[p].cumReadNXT = sock[p].cumReadNXT,
         sock'[p].earlyPQ = sock[p].earlyPQ, sock'[p].ackChan = sock[p].ackChan,
         sock'[p].cumWriteUNA = sock[p].cumWriteUNA,
         sock'[p].ClientWindowSize = sock[p].ClientWindowSize \/ Flight(p) # 0,
         sw'[p].pc = "ack" <=> sw[p].pc = "ack",
         sw'[p].pc = "ack" => sw'[p].taken = sw[p].taken,
         Phase(p)', Flight(p)' = Flight(p), Open(p)' = Open(p)
  PROVE  StreamInv'
<1>1. q \in Peers /\ q # p /\ Stream1(p, q)
  BY Zenon, Numbers
<1>2. Una(p)' = Una(p)
  BY DEF Una
<1>3. Sends(p)'
  BY Zenon, <1>1, <1>2 DEF Stream1, Sends
<1>4. /\ written'[p] + vw'[p].left <= Len(got[q]) + Outstanding
      /\ wb'[q] = wb[q] /\ vw'[q] = vw[q] /\ written'[q] = written[q]
  BY Zenon, <1>1 DEF Stream1, Reads
<1>. QED  BY Zenon, <1>1, <1>2, <1>3, <1>4, LocalFrame

\* The window fits in one segment, so there is no next one to allocate.
LEMMA AfterSendStream ==
  ASSUME Roomy, TypeOK, StreamInv, NEW p \in Peers, AfterSend(p)
  PROVE  StreamInv'
<1> DEFINE q == Other(p)
           s == sw[p]
           tail == Last(s.nodes)
           cws == Predicted(p, Len(tail.pkt.data))
           n == Least(Least(MSS, s.size - MSS * tail.idx), Len(s.rest))
           node == [pkt |-> Segment(p, s.exp, SubSeq(s.rest, 1, n)),
                    exp |-> s.exp + n, idx |-> tail.idx + 1, sent |-> FALSE]
<1>1. q \in Peers /\ q # p /\ Stream1(p, q)
  BY Zenon, Numbers
<1>2. Out(s, Una(p), sock[p].unackedNums) /\ s.pc = "sent"
  BY Zenon, <1>1 DEF Stream1, Phase, Closed, Ready, AfterSend
<1>3. Flight(p) # 0
  BY <1>1, <1>2, Phases DEF Stream1
<1>4. n = 0
  <2>1. s.nodes \in Seq(WindowNode) /\ Len(s.nodes) = 1
    BY Zenon, <1>2, WindowFields DEF Out, Whole
  <2>2. Last(s.nodes) = s.nodes[1]
    BY Zenon, <2>1 DEF Last
  <2>3. tail.idx = 0 /\ s.size \in 1 .. MSS /\ Len(s.rest) = 0
    BY Zenon, <1>2, <2>2 DEF Out, Whole, Carries
  <2> HIDE DEF tail
  <2>. QED  BY <2>3, SizeAssumption DEF Least
<1>5. /\ sock' = [sock EXCEPT ![p].ClientWindowSize = cws, ![p].ticker = sock[p].ticker \/ s.first]
      /\ sw' = [sw EXCEPT ![p] =
                  [s EXCEPT !.pc = "acks", !.first = FALSE, !.toSend = n,
                            !.skip = s.skip /\ cws # 0,
                            !.nodes = IF n > 0 THEN Append(s.nodes, node) ELSE s.nodes,
                            !.rest = IF n > 0 THEN SubSeq(s.rest, n + 1, Len(s.rest)) ELSE s.rest]]
      /\ UNCHANGED <<net, wb, rb, rcv, vr, vw, written, got>>
  BY Zenon DEF AfterSend
<1>6. ~(n > 0)
  BY <1>4
<1> HIDE DEF n, node, cws
<1>7. /\ sw'[q] = sw[q] /\ sw'[p].pc = "acks" /\ sw'[p].size = s.size /\ sw'[p].sent = s.sent
      /\ sw'[p].rest = s.rest /\ sw'[p].nodes = s.nodes /\ sw'[p].toSend = 0
  BY ZenonT(30), <1>1, <1>4, <1>5, <1>6, SwType DEF Window
<1>8. /\ sock'[q] = sock[q] /\ sock'[p].cumReadNXT = sock[p].cumReadNXT
      /\ sock'[p].earlyPQ = sock[p].earlyPQ /\ sock'[p].ackChan = sock[p].ackChan
      /\ sock'[p].cumWriteUNA = sock[p].cumWriteUNA
      /\ sock'[p].unackedNums = sock[p].unackedNums
  BY Zenon, <1>1, <1>5, SockType DEF NormalSocket
<1>9. Flight(p)' = Flight(p) /\ Open(p)' = Open(p) /\ Una(p)' = Una(p)
  BY Zenon, <1>7, <1>8 DEF Flight, Open, Una
<1>10. Phase(p)'
  BY Zenon, <1>2, <1>7, <1>8, <1>9 DEF Phase, Out, Whole
<1> HIDE DEF q
<1>. QED  BY Zenon, <1>1, <1>2, <1>3, <1>5, <1>7, <1>8, <1>9, <1>10, WindowFrame DEF q

\* slidingWindow sends nothing only while it waits for an acknowledgment.
LEMMA SkipSendStream ==
  ASSUME Roomy, TypeOK, StreamInv, NEW p \in Peers, SkipSend(p)
  PROVE  StreamInv'
<1> DEFINE q == Other(p)
           s == sw[p]
<1>1. q \in Peers /\ q # p /\ Stream1(p, q)
  BY Zenon, Numbers
<1>2. Out(s, Una(p), sock[p].unackedNums) /\ s.pc \in {"loop", "normal"}
  <2>1. s.pc \in {"loop", "normal"} /\ ~(sock[p].ClientWindowSize > 0 /\ s.toSend > 0)
    BY DEF SkipSend, MaySend
  <2>2. ASSUME Ready(s, Una(p)) PROVE FALSE
    <3>1. sock[p].ClientWindowSize >= MSS /\ s.toSend = s.size /\ s.size \in 1 .. MSS
      BY Zenon, <1>1, <2>2, Phases DEF Stream1, Sends, Ready, Whole
    <3>2. sock[p].ClientWindowSize \in Nat
      BY Zenon, SocketFields, CellNat
    <3>. QED  BY <2>1, <3>1, <3>2, SizeAssumption
  <2>. QED  BY Zenon, <1>1, <2>1, <2>2 DEF Stream1, Phase, Closed
<1>3. Flight(p) # 0
  BY <1>1, <1>2, Phases DEF Stream1
<1>4. /\ sw' = [sw EXCEPT ![p].pc = "acks", ![p].skip = s.skip /\ sock[p].ClientWindowSize # 0]
      /\ UNCHANGED <<net, wb, rb, rcv, vr, vw, written, got, sock>>
  BY Zenon DEF SkipSend
<1>5. /\ sw'[q] = sw[q] /\ sw'[p].pc = "acks" /\ sw'[p].size = s.size /\ sw'[p].sent = s.sent
      /\ sw'[p].rest = s.rest /\ sw'[p].nodes = s.nodes /\ sw'[p].toSend = s.toSend
  BY ZenonT(30), <1>1, <1>4, SwType DEF Window
<1>6. Flight(p)' = Flight(p) /\ Open(p)' = Open(p) /\ Una(p)' = Una(p)
  BY Zenon, <1>4, <1>5 DEF Flight, Open, Una
<1>7. s.pc # "sent" /\ s.pc # "ack"
  BY Zenon, <1>2
<1>8. Phase(p)'
  BY Zenon, <1>2, <1>4, <1>5, <1>6, <1>7 DEF Phase, Out, Whole
<1> HIDE DEF q
<1>. QED  BY Zenon, <1>1, <1>3, <1>4, <1>5, <1>6, <1>7, <1>8, WindowFrame DEF q

\* The loop goes on as long as the segment is not acknowledged.
LEMMA EndRoundStream ==
  ASSUME Roomy, TypeOK, StreamInv, NEW p \in Peers, EndRound(p)
  PROVE  StreamInv'
<1> DEFINE q == Other(p)
           s == sw[p]
           pc == IF s.sent < s.size THEN "loop" ELSE "end"
<1>1. q \in Peers /\ q # p /\ Stream1(p, q)
  BY Zenon, Numbers
<1>2. /\ s.pc = "acks" /\ sw' = [sw EXCEPT ![p].pc = pc]
      /\ UNCHANGED <<net, wb, rb, rcv, vr, vw, written, got, sock>>
  BY Zenon DEF EndRound
<1>3. \/ Closed(s) /\ pc = "end"
      \/ Out(s, Una(p), sock[p].unackedNums) /\ pc = "loop"
  <2>1. CASE Closed(s)
    BY <1>2, <2>1, WindowFields DEF Closed
  <2>2. CASE Out(s, Una(p), sock[p].unackedNums)
    BY <2>2 DEF Out, Whole
  <2>. QED  BY Zenon, <1>1, <1>2, <2>1, <2>2 DEF Stream1, Phase, Ready
<1>4. pc # "ack" /\ pc \in {"loop", "end"}
  OBVIOUS
<1> HIDE DEF pc
<1>5. /\ sw'[q] = sw[q] /\ sw'[p].pc = pc /\ sw'[p].size = s.size /\ sw'[p].sent = s.sent
      /\ sw'[p].rest = s.rest /\ sw'[p].nodes = s.nodes /\ sw'[p].toSend = s.toSend
  BY Zenon, <1>1, <1>2, SwType DEF Window
<1>6. Flight(p)' = Flight(p) /\ Open(p)' = Open(p) /\ Una(p)' = Una(p)
  BY Zenon, <1>2, <1>5 DEF Flight, Open, Una
<1>7. s.pc # "sent" /\ s.pc # "ack"
  BY Zenon, <1>2
<1>8. Phase(p)'
  BY Zenon, <1>2, <1>3, <1>5, <1>6, <1>7 DEF Phase, Out, Whole, Closed
<1> HIDE DEF q
<1>. QED  BY Zenon, <1>1, <1>2, <1>4, <1>5, <1>6, <1>7, <1>8, WindowFrame DEF q

\* slidingWindow returns with nothing left to acknowledge.
LEMMA ReturnStream ==
  ASSUME Roomy, TypeOK, StreamInv, NEW p \in Peers, Return(p)
  PROVE  StreamInv'
<1> DEFINE q == Other(p)
           s == sw[p]
<1>1. q \in Peers /\ q # p /\ Stream1(p, q)
  BY Zenon, Numbers
<1>2. /\ s.pc = "end" /\ sw' = [sw EXCEPT ![p] = NoWindow]
      /\ sock' = [sock EXCEPT ![p].packetDone = Busy(p)]
      /\ UNCHANGED <<net, wb, rb, rcv, vr, vw, written, got>>
  BY Zenon DEF Return
<1>3. Closed(s)
  BY Zenon, <1>1, <1>2 DEF Stream1, Phase, Ready, Out
<1>4. sw'[q] = sw[q] /\ sw'[p].pc = "idle" /\ sw'[p].nodes = <<>> /\ s.nodes = <<>>
  BY Zenon, <1>1, <1>2, <1>3, SwType DEF NoWindow, Closed
<1>5. /\ sock'[q] = sock[q] /\ sock'[p].cumReadNXT = sock[p].cumReadNXT
      /\ sock'[p].earlyPQ = sock[p].earlyPQ /\ sock'[p].ackChan = sock[p].ackChan
      /\ sock'[p].cumWriteUNA = sock[p].cumWriteUNA
      /\ sock'[p].ClientWindowSize = sock[p].ClientWindowSize
  BY Zenon, <1>1, <1>2, SockType DEF NormalSocket
<1>6. Flight(p)' = Flight(p) /\ Open(p)' = Open(p)
  BY Zenon, <1>4 DEF Flight, Open
<1>7. s.pc # "ack" /\ sw'[p].pc # "ack"
  BY Zenon, <1>2, <1>4
<1>8. Phase(p)'
  BY Zenon, <1>4 DEF Phase, Closed
<1> HIDE DEF q
<1>. QED  BY Zenon, <1>1, <1>2, <1>4, <1>5, <1>6, <1>7, <1>8, WindowFrame DEF q

\* The bookkeeping of a retransThread.
LEMMA ThreadStream ==
  ASSUME Roomy, TypeOK, StreamInv, NEW p \in Peers, NEW t, ResetTicker(p, t) \/ TakeDone(p, t)
  PROVE  StreamInv'
<1> DEFINE q == Other(p)
<1>1. q \in Peers /\ q # p /\ Stream1(p, q)
  BY Zenon, Numbers
<1>2. /\ \/ sock' = [sock EXCEPT ![p].ticker = TRUE]
         \/ sock' = [sock EXCEPT ![p].packetDone = FALSE]
      /\ UNCHANGED <<net, wb, rb, rcv, vr, vw, sw, written, got>>
  BY Zenon DEF ResetTicker, TakeDone
<1>3. /\ sock'[q] = sock[q] /\ sock'[p].cumReadNXT = sock[p].cumReadNXT
      /\ sock'[p].earlyPQ = sock[p].earlyPQ /\ sock'[p].ackChan = sock[p].ackChan
      /\ sock'[p].cumWriteUNA = sock[p].cumWriteUNA
      /\ sock'[p].unackedNums = sock[p].unackedNums
      /\ sock'[p].ClientWindowSize = sock[p].ClientWindowSize
  BY Zenon, <1>1, <1>2, SockType DEF NormalSocket
<1>4. Flight(p)' = Flight(p) /\ Open(p)' = Open(p) /\ Phase(p)' /\ sw'[q] = sw[q]
  BY Zenon, <1>1, <1>2, <1>3 DEF Flight, Open, Phase, Stream1, Una
<1> HIDE DEF q
<1>. QED  BY Zenon, <1>1, <1>2, <1>3, <1>4, WindowFrame DEF q

\* slidingWindow takes the acknowledgment of the segment sent.
LEMMA PopAckStream ==
  ASSUME Roomy, TypeOK, StreamInv, NEW p \in Peers, PopAck(p)
  PROVE  StreamInv'
<1> DEFINE q == Other(p)
           s == sw[p]
           ch == sock[p].ackChan
<1>1. q \in Peers /\ q # p /\ Stream1(p, q)
  BY Zenon, Numbers
<1>2. /\ s.pc = "acks" /\ ch # <<>>
      /\ sw' = [sw EXCEPT ![p].pc = "ack", ![p].taken = Head(ch)]
      /\ sock' = [sock EXCEPT ![p].ackChan = Tail(ch)]
      /\ UNCHANGED <<net, wb, rb, rcv, vr, vw, written, got>>
  BY Zenon DEF PopAck
<1>3. Phase(p) /\ Token(p, q) /\ Acks(p) /\ Flight(p) \in 0 .. MSS /\ MSS \in Nat
  BY Zenon, <1>1, Phases, SizeAssumption DEF Stream1
<1>4. /\ None(net[q], "data") /\ rcv[q].pc = "recv" /\ None(net[p], "ack") /\ Len(ch) = 1
      /\ Flight(p) > 0 /\ sock[q].cumReadNXT = Una(p) + Flight(p)
  <2>1. Flight(p) \in Nat
    BY <1>3
  <2>. QED  BY Zenon, <1>1, <1>2, <1>3, <2>1, OnePlace
<1>5. Tail(ch) = <<>> /\ Len(Tail(ch)) = 0 /\ DOMAIN Tail(ch) = {} /\ Head(ch) = ch[1] /\ 1 \in DOMAIN ch
  <2>1. ch \in Seq(Ack) /\ Len(ch) = 1
    BY Zenon, <1>4, SocketFields
  <2> HIDE DEF ch
  <2>2. DOMAIN ch = 1 .. 1 /\ Head(ch) = ch[1]
    BY <2>1
  <2>3. Tail(ch) \in Seq(Ack) /\ Len(Tail(ch)) = Len(ch) - 1
    BY Zenon, <1>2, <2>1, HeadTailProperties DEF ch
  <2>5. Len(Tail(ch)) = 0
    BY <2>1, <2>3
  <2>4. Tail(ch) = <<>>
    BY Zenon, <2>3, <2>5, EmptySeq
  <2>. QED  BY <2>2, <2>4, <2>5
<1>6. Head(ch).ack = Una(p) + Flight(p) /\ Head(ch).win >= MSS
  BY Zenon, <1>3, <1>5 DEF Acks
<1>7. Out(s, Una(p), sock[p].unackedNums)
  <2>1. s.nodes # <<>>
    BY <1>4 DEF Flight
  <2>2. s.pc # "loop"
    BY Zenon, <1>2
  <2>. QED  BY Zenon, <1>3, <2>1, <2>2 DEF Phase, Closed, Ready
<1> HIDE DEF ch
<1>8. /\ sw'[q] = sw[q] /\ sw'[p].pc = "ack" /\ sw'[p].size = s.size /\ sw'[p].sent = s.sent
      /\ sw'[p].rest = s.rest /\ sw'[p].nodes = s.nodes /\ sw'[p].toSend = s.toSend
      /\ sw'[p].taken = Head(ch)
  BY Zenon, <1>1, <1>2, SwType DEF Window
<1>9. /\ sock'[q] = sock[q] /\ sock'[p].cumReadNXT = sock[p].cumReadNXT
      /\ sock'[p].earlyPQ = sock[p].earlyPQ /\ sock'[p].ackChan = Tail(ch)
      /\ sock'[p].cumWriteUNA = sock[p].cumWriteUNA
      /\ sock'[p].unackedNums = sock[p].unackedNums
      /\ sock'[p].ClientWindowSize = sock[p].ClientWindowSize
  BY Zenon, <1>1, <1>2, SockType DEF NormalSocket
<1>10. Flight(p)' = Flight(p) /\ Open(p)' = Open(p) /\ Una(p)' = Una(p)
  BY Zenon, <1>8, <1>9 DEF Flight, Open, Una
<1>11. s.pc # "sent"
  BY Zenon, <1>2
<1>12. Phase(p)'
  BY Zenon, <1>7, <1>8, <1>9, <1>10, <1>11 DEF Phase, Out, Whole
<1>13. Sends(p)'
  BY Zenon, <1>1, <1>2, <1>9, <1>10 DEF Stream1, Sends
<1>14. Acks(p)'
  BY Zenon, <1>5, <1>6, <1>8, <1>9, <1>10 DEF Acks
<1>15. Packets(p, q)' /\ One(net'[q], "ack")
  <2>1. Una(q)' = Una(q) /\ Flight(q)' = Flight(q) /\ Packets(p, q)
    BY Zenon, <1>1, <1>8, <1>9 DEF Una, Flight, Stream1
  <2>2. Stream1(q, p)
    BY Zenon, Numbers
  <2> HIDE DEF q
  <2>3. Packets(p, q)'
    BY Zenon, <1>1, <1>2, <1>10, <2>1, PacketsKept
  <2>. QED  BY Zenon, <1>2, <2>2, <2>3 DEF Stream1, Token
<1>16. Token(p, q)'
  <2>1. /\ None(net'[q], "data") /\ rcv'[q].pc = "recv" /\ None(net'[p], "ack")
        /\ Len(sock'[p].ackChan) = 0
    BY Zenon, <1>2, <1>4, <1>5, <1>9
  <2>2. Places(p, q)' = 1
    BY Zenon, <1>1, <1>8, <2>1, PlacesNow
  <2>3. Places(p, q)' <= 1 /\ One(net'[q], "data") /\ One(net'[p], "ack")
    BY <2>1, <2>2 DEF One, None
  <2>. QED  BY Zenon, <1>2, <1>4, <1>9, <1>10, <2>1, <2>3 DEF Token, One, Kind
<1>17. /\ written'[p] + vw'[p].left <= Len(got[q]) + Outstanding
       /\ sock[q].cumReadNXT = Una(p)' + Flight(p)'
       /\ vw'[q] = vw[q] /\ written'[q] = written[q] /\ wb'[q] = wb[q]
  BY Zenon, <1>1, <1>2, <1>4, <1>10 DEF Stream1, Reads
<1> HIDE DEF q, s
<1>. QED  BY Zenon, <1>1, <1>2, <1>8, <1>9, <1>10, <1>12, <1>13, <1>14, <1>15, <1>16, <1>17,
                SenderFrame DEF q

\* A step of p's writing side after which neither its segment nor an acknowledgment
\* of it is anywhere.
LEMMA NowhereFrame ==
  ASSUME Roomy, TypeOK, StreamInv, NEW p \in Peers, NEW q, q = Other(p),
         UNCHANGED <<net, rb, rcv, vr, vw, written, got>>, wb'[q] = wb[q], sw'[q] = sw[q],
         sock'[q] = sock[q], sock'[p].cumReadNXT = sock[p].cumReadNXT,
         sock'[p].earlyPQ = sock[p].earlyPQ, sock'[p].ackChan = sock[p].ackChan,
         None(net[q], "data"), rcv[q].pc = "recv", None(net[p], "ack"), sock[p].ackChan = <<>>,
         sw'[p].pc # "ack", Phase(p)', Sends(p)',
         \/ sock[q].cumReadNXT = Una(p)'
         \/ sock[q].cumReadNXT = Una(p)' + Flight(p)'
  PROVE  StreamInv'
<1>1. q \in Peers /\ q # p /\ Stream1(p, q) /\ Stream1(q, p)
  BY Zenon, Numbers
<1>2. Packets(p, q)' /\ One(net'[q], "ack")
  <2>1. Una(q)' = Una(q) /\ Flight(q)' = Flight(q) /\ Packets(p, q)
    BY Zenon, <1>1 DEF Una, Flight, Stream1
  <2>2. Packets(p, q)'
    BY Zenon, <1>1, <2>1, PacketsKept
  <2>. QED  BY Zenon, <1>1, <2>2 DEF Stream1, Token
<1>3. Acks(p)'
  <2>1. DOMAIN sock'[p].ackChan = {}
    OBVIOUS
  <2>. QED  BY Zenon, <2>1 DEF Acks
<1>4. Token(p, q)'
  <2>1. Len(sock'[p].ackChan) = 0
    OBVIOUS
  <2>2. Answered(p, q)' = 0 /\ Places(p, q)' = 0
    BY Zenon, <1>1, <2>1, PlacesNow
  <2>3. One(net'[p], "ack") /\ One(net'[q], "data")
    BY Zenon DEF One, None
  <2>4. Places(p, q)' <= 1 /\ ~(Answered(p, q)' > 0) /\ ~(Places(p, q)' > 0)
    BY <2>2
  <2>. QED  BY Zenon, <2>3, <2>4 DEF Token, One, Kind
<1>5. /\ written'[p] + vw'[p].left <= Len(got[q]) + Outstanding
      /\ vw'[q] = vw[q] /\ written'[q] = written[q] /\ UNCHANGED <<rb, rcv, vr, got>>
      /\ net'[p] = net[p] /\ (None(net'[q], "ack") <=> None(net[q], "ack"))
  BY Zenon, <1>1 DEF Stream1, Reads
<1>. QED  BY Zenon, <1>1, <1>2, <1>3, <1>4, <1>5, SenderFrame

\* The acknowledgment taken is that of the whole window: it closes it.  (Had it been
\* seen before, it would change nothing here.)
LEMMA TakeAckStream ==
  ASSUME Roomy, TypeOK, StreamInv, NEW p \in Peers, TakeAck(p)
  PROVE  StreamInv'
<1> DEFINE q == Other(p)
           s == sw[p]
           u == Una(p)
           c == s.size
           m == s.taken
           back == [s EXCEPT !.pc = "acks", !.taken = NoAck]
           counted == [sock[p] EXCEPT !.seenAcks = @ \cup {m.ack}, !.ClientWindowSize = m.win]
<1>1. q \in Peers /\ q # p /\ Stream1(p, q) /\ Stream1(q, p)
  BY Zenon, Numbers
<1>2. s.pc = "ack" /\ UNCHANGED <<net, rb, rcv, vr, vw, written, got>>
  BY Zenon DEF TakeAck
<1>3. Out(s, u, sock[p].unackedNums)
  BY Zenon, <1>1, <1>2 DEF Stream1, Phase, Closed, Ready
<1>4. /\ Token(p, q) /\ Flight(p) = c /\ Open(p) = c /\ c \in 1 .. MSS /\ MSS \in Nat /\ u \in Nat
      /\ m.ack = u + c /\ m.win >= MSS /\ Len(s.nodes) = 1 /\ s.nodes[1].exp = u + c /\ s.sent = 0
  <2>1. Flight(p) = c /\ Open(p) = c /\ u \in Nat
    BY Zenon, <1>1, <1>3, Phases DEF Stream1
  <2>2. c \in 1 .. MSS /\ Len(s.nodes) = 1 /\ s.nodes[1].exp = u + c /\ s.sent = 0
    BY Zenon, <1>3 DEF Out, Whole, Carries
  <2>3. m.ack = u + Flight(p) /\ m.win >= MSS /\ Token(p, q)
    BY Zenon, <1>1, <1>2 DEF Stream1, Acks
  <2>. QED  BY Zenon, <2>1, <2>2, <2>3, SizeAssumption
<1>5. /\ None(net[q], "data") /\ rcv[q].pc = "recv" /\ None(net[p], "ack")
      /\ sock[p].ackChan = <<>> /\ sock[q].cumReadNXT = u + Flight(p)
  <2>1. Flight(p) \in Nat
    BY <1>4
  <2> HIDE DEF q, u, c
  <2>. QED  BY Zenon, <1>1, <1>2, <1>4, <2>1, OnePlace DEF u
<1>6. CASE m.ack \in sock[p].seenAcks
  <2>1. /\ sock' = [sock EXCEPT ![p].unackedMtx = "sender"]
        /\ sw' = [sw EXCEPT ![p] = back] /\ UNCHANGED wb
    BY Zenon, <1>6 DEF TakeAck
  <2>2. /\ sw'[q] = sw[q] /\ sw'[p].pc = "acks" /\ sw'[p].size = s.size /\ sw'[p].sent = s.sent
        /\ sw'[p].rest = s.rest /\ sw'[p].nodes = s.nodes /\ sw'[p].toSend = s.toSend
    BY Zenon, <1>1, <2>1, SwType DEF Window
  <2>3. /\ sock'[q] = sock[q] /\ sock'[p].cumReadNXT = sock[p].cumReadNXT
        /\ sock'[p].earlyPQ = sock[p].earlyPQ /\ sock'[p].ackChan = sock[p].ackChan
        /\ sock'[p].cumWriteUNA = sock[p].cumWriteUNA
        /\ sock'[p].unackedNums = sock[p].unackedNums
        /\ sock'[p].ClientWindowSize = sock[p].ClientWindowSize
    BY Zenon, <1>1, <2>1, SockType DEF NormalSocket
  <2>4. Flight(p)' = Flight(p) /\ Open(p)' = Open(p) /\ Una(p)' = Una(p)
    BY Zenon, <2>2, <2>3 DEF Flight, Open, Una
  <2>5. Phase(p)'
    BY Zenon, <1>2, <1>3, <2>2, <2>3, <2>4 DEF Phase, Out, Whole
  <2>6. Sends(p)'
    BY Zenon, <1>1, <1>2, <2>1, <2>3, <2>4 DEF Stream1, Sends
  <2>7. sw'[p].pc # "ack" /\ sock[q].cumReadNXT = Una(p)' + Flight(p)' /\ wb'[q] = wb[q]
    BY Zenon, <1>5, <2>1, <2>2, <2>4
  <2> HIDE DEF q
  <2>. QED  BY Zenon, <1>1, <1>2, <1>5, <2>2, <2>3, <2>5, <2>6, <2>7, NowhereFrame DEF q
<1>7. CASE m.ack \notin sock[p].seenAcks
  <2>1. m.ack > u /\ ~(m.ack <= u)
    BY <1>4
  <2>2. /\ sock' = [sock EXCEPT ![p] = [counted EXCEPT !.cumWriteUNA = m.ack]]
        /\ wb' = [wb EXCEPT ![p].UNA = m.ack % W]
        /\ sw' = [sw EXCEPT ![p] = [back EXCEPT !.sent = s.sent + (m.ack - u),
                                                !.nodes = Unacked(s.nodes, m.ack)]]
    BY ZenonT(30), <1>7, <2>1 DEF TakeAck, Una
  <2>3. Unacked(s.nodes, m.ack) = <<>> /\ s.sent + (m.ack - u) = c
    <3>1. DOMAIN s.nodes = 1 .. 1
      BY <1>4, WindowFields
    <3>2. \A i \in DOMAIN s.nodes : ~(s.nodes[i].exp > m.ack)
      BY <1>4, <3>1
    <3>3. ~ \E i \in DOMAIN s.nodes : IsFirstLeft(s.nodes, m.ack, i)
      BY Zenon, <3>2 DEF IsFirstLeft
    <3>4. Unacked(s.nodes, m.ack) = <<>>
      BY Zenon, <3>3 DEF Unacked
    <3>5. s.sent + (m.ack - u) = c
      BY <1>4
    <3>. QED  BY Zenon, <3>4, <3>5
  <2>4. /\ sw'[q] = sw[q] /\ sw'[p].pc = "acks" /\ sw'[p].size = c /\ sw'[p].sent = c
        /\ sw'[p].nodes = <<>>
    BY Zenon, <1>1, <2>2, <2>3, SwType DEF Window
  <2>5. /\ sock'[q] = sock[q] /\ sock'[p].cumReadNXT = sock[p].cumReadNXT
        /\ sock'[p].earlyPQ = sock[p].earlyPQ /\ sock'[p].ackChan = sock[p].ackChan
        /\ sock'[p].cumWriteUNA = m.ack /\ sock'[p].ClientWindowSize = m.win
    BY Zenon, <1>1, <2>2, SockType DEF NormalSocket
  <2>6. /\ wb'[q] = wb[q] /\ wb'[p].UNA = m.ack % W /\ wb'[p].NXT = wb[p].NXT
        /\ wb'[p].LBW = wb[p].LBW /\ wb'[p].buf = wb[p].buf
    BY Zenon, <1>1, <2>2, BufferTypes DEF WriteBuffer
  <2>7. Flight(p)' = 0 /\ Open(p)' = 0 /\ Una(p)' = u + c
    BY Zenon, <1>4, <2>4, <2>5 DEF Flight, Open, Una
  <2>8. c >= c
    BY <1>4
  <2>9. Phase(p)'
    BY Zenon, <2>4, <2>8 DEF Phase, Closed
  <2>10. Sends(p)'
    <3>1. /\ u >= 1 /\ wb[p].NXT = (u + c) % W /\ wb[p].LBW = written[p] % W
          /\ u + c <= written[p] + 1 /\ written[p] + 1 <= u + c + MSS
          /\ vw[p].pc # "chan" => written[p] + 1 = u + c
          /\ \A x \in u .. written[p] : wb[p].buf[x % W] = x
      BY Zenon, <1>1, <1>4 DEF Stream1, Sends
    <3>2. u + c >= 1 /\ u + c + 0 = u + c /\ \A x \in u + c .. written[p] : x \in u .. written[p]
      BY <1>4, PeerTypes
    <3>3. /\ Una(p)' >= 1 /\ wb'[p].UNA = Una(p)' % W
          /\ wb'[p].NXT = (Una(p)' + Flight(p)') % W /\ wb'[p].LBW = written'[p] % W
          /\ Una(p)' + Open(p)' <= written'[p] + 1
          /\ written'[p] + 1 <= Una(p)' + Open(p)' + MSS
      BY Zenon, <1>2, <1>4, <2>6, <2>7, <3>1, <3>2
    <3>4. /\ vw'[p].pc # "chan" => written'[p] + 1 = Una(p)' + Open(p)'
          /\ \A x \in Una(p)' .. written'[p] : wb'[p].buf[x % W] = x
          /\ sock'[p].ClientWindowSize >= MSS
      BY Zenon, <1>2, <1>4, <2>5, <2>6, <2>7, <3>1, <3>2
    <3>. QED  BY Zenon, <3>3, <3>4 DEF Sends
  <2>11. sw'[p].pc # "ack" /\ sock[q].cumReadNXT = Una(p)'
    BY Zenon, <1>4, <1>5, <2>4, <2>7
  <2> HIDE DEF q
  <2>. QED  BY Zenon, <1>1, <1>2, <1>5, <2>4, <2>5, <2>6, <2>9, <2>10, <2>11, NowhereFrame DEF q
<1>. QED  BY Zenon, <1>6, <1>7

\* The ticker expires: if the window is still open, its segment is sent again, and
\* nothing of it was on the way.
LEMMA RetransmitStream ==
  ASSUME Roomy, TypeOK, StreamInv, NEW p \in Peers, Retransmit(p)
  PROVE  StreamInv'
<1> DEFINE q == Other(p)
           s == sw[p]
           nd == s.nodes[1]
           m == Segment(p, nd.pkt.seq, nd.pkt.data)
<1>1. q \in Peers /\ q # p /\ Stream1(p, q) /\ Stream1(q, p)
  BY Zenon, Numbers
<1>2. /\ sock' = [sock EXCEPT ![p].ticker = FALSE]
      /\ UNCHANGED <<wb, rb, rcv, vr, vw, written, got>>
      /\ s.pc = "loop" \/ (s.pc = "end" /\ Spurious)
      /\ TimeUp
  BY Zenon DEF Retransmit
<1>3. s.pc = "loop" /\ Quiet
  BY Zenon, <1>2 DEF Roomy, TimeUp
<1>4. /\ sock'[q] = sock[q] /\ sock'[p].cumReadNXT = sock[p].cumReadNXT
      /\ sock'[p].earlyPQ = sock[p].earlyPQ /\ sock'[p].ackChan = sock[p].ackChan
      /\ sock'[p].cumWriteUNA = sock[p].cumWriteUNA
      /\ sock'[p].unackedNums = sock[p].unackedNums
      /\ sock'[p].ClientWindowSize = sock[p].ClientWindowSize
  BY Zenon, <1>1, <1>2, SockType DEF NormalSocket
<1>5. Una(p)' = Una(p)
  BY Zenon, <1>4 DEF Una
<1>6. CASE sock[p].ClientWindowSize > 0 /\ s.nodes # <<>> /\ nd.sent
  <2>1. sw' = [sw EXCEPT ![p].nodes[1].pkt = m] /\ Send(p, m)
    BY Zenon, <1>6 DEF Retransmit
  <2>2. Out(s, Una(p), sock[p].unackedNums)
    BY Zenon, <1>1, <1>3, <1>6 DEF Stream1, Phase, Closed, Ready
  <2>3. Flight(p) = s.size /\ Open(p) = s.size /\ s.size \in 1 .. MSS /\ Una(p) \in Nat
    BY Zenon, <1>1, <2>2, Phases DEF Stream1, Out, Whole
  <2>4. s.nodes \in Seq(WindowNode) /\ Len(s.nodes) = 1 /\ 1 \in DOMAIN s.nodes /\ nd \in WindowNode
    BY <2>2, WindowFields DEF Out, Whole
  <2>5. Carries(nd, Una(p), s.size)
    BY Zenon, <2>2 DEF Out, Whole
  <2>6. /\ m \in Packet /\ m.seq = Una(p) /\ m.data = Bytes(Una(p), s.size) /\ m.win >= MSS
    <3>1. nd.pkt.seq \in Nat /\ nd.pkt.data \in Seq(Nat)
      BY Zenon, <2>4 DEF WindowNode, Packet
    <3>2. m \in Packet /\ m.seq = nd.pkt.seq /\ m.data = nd.pkt.data /\ m.win = FreeSpace(p)
      BY Zenon, <3>1, SegmentType DEF Segment
    <3>3. FreeSpace(p) >= MSS
      BY Zenon, <1>1, ReceiverRoom, OtherPeer
    <3>. QED  BY Zenon, <2>5, <3>2, <3>3 DEF Carries
  <2>7. Kind(m) = "data"
    <3>1. s.size \in Nat /\ s.size # 0
      BY <2>3, SizeAssumption
    <3>2. Bytes(Una(p), s.size) # <<>>
      BY Zenon, <2>3, <3>1, BytesSeq
    <3>. QED  BY Zenon, <2>6, <3>2 DEF Kind
  <2> HIDE DEF m
  <2>8. /\ sw'[q] = sw[q] /\ sw'[p].pc = s.pc /\ sw'[p].size = s.size /\ sw'[p].sent = s.sent
        /\ sw'[p].rest = s.rest /\ sw'[p].toSend = s.toSend
        /\ sw'[p].nodes = [s.nodes EXCEPT ![1] = [nd EXCEPT !.pkt = m]]
    BY Zenon, <1>1, <2>1, SwType DEF Window
  <2>9. Len(sw'[p].nodes) = 1 /\ sw'[p].nodes[1] = [nd EXCEPT !.pkt = m]
    <3> DEFINE nw == [nd EXCEPT !.pkt = m]
               nodes == [s.nodes EXCEPT ![1] = nw]
    <3>1. nw \in WindowNode
      BY Zenon, <2>4, <2>6 DEF WindowNode
    <3> HIDE DEF nw
    <3>2. nodes \in Seq(WindowNode) /\ DOMAIN nodes = DOMAIN s.nodes
      BY Zenon, <2>4, <3>1, ReplaceNode
    <3>3. nodes[1] = nw
      BY Zenon, <2>4
    <3> HIDE DEF nodes
    <3>4. Len(nodes) = 1
      BY <2>4, <3>2, LenProperties
    <3>. QED  BY Zenon, <2>8, <3>3, <3>4 DEF nw, nodes
  <2>10. /\ Carries(sw'[p].nodes[1], Una(p), s.size) /\ sw'[p].nodes[1].sent
         /\ sw'[p].nodes # <<>>
    BY <1>6, <2>4, <2>5, <2>6, <2>9 DEF Carries, WindowNode
  <2>11. Out(sw'[p], Una(p), sock'[p].unackedNums)
    BY Zenon, <1>4, <2>2, <2>8, <2>9, <2>10 DEF Out, Whole
  <2>12. Phase(p)' /\ Flight(p)' = s.size /\ Open(p)' = s.size
    BY Zenon, <1>5, <2>8, <2>10, <2>11 DEF Phase, Flight, Open
  <2>13. Sends(p)'
    BY Zenon, <1>1, <1>2, <1>4, <1>5, <2>3, <2>12 DEF Stream1, Sends
  <2>14. /\ None(net[q], "data") /\ rcv[q].pc = "recv" /\ None(net[p], "ack")
         /\ sock[p].ackChan = <<>>
    BY <1>1, <1>3 DEF Quiet, None
  <2>15. s.pc # "ack" /\ Flight(p)' > 0
    BY <1>3, <2>3, <2>12, SizeAssumption
  <2>16. sock[q].cumReadNXT = Una(p)' \/ sock[q].cumReadNXT = Una(p)' + Flight(p)'
    BY Zenon, <1>1, <1>5, <2>3, <2>12 DEF Stream1, Reads
  <2>17. m.seq = Una(p)' /\ m.data = Bytes(Una(p), Flight(p))' /\ sw'[p].pc # "ack" /\ wb'[q] = wb[q]
    BY Zenon, <1>2, <1>5, <2>6, <2>8, <2>12, <2>15
  <2> HIDE DEF q, s
  <2>. QED  BY Zenon, <1>1, <1>2, <1>4, <2>1, <2>6, <2>7, <2>8, <2>12, <2>13, <2>14, <2>15, <2>16,
                  <2>17, DataSent DEF q
<1>7. CASE ~(sock[p].ClientWindowSize > 0 /\ s.nodes # <<>> /\ nd.sent)
  <2>1. UNCHANGED <<sw, net>>
    BY Zenon, <1>7 DEF Retransmit
  <2>2. Flight(p)' = Flight(p) /\ Open(p)' = Open(p) /\ Phase(p)' /\ sw'[q] = sw[q]
    BY Zenon, <1>1, <1>4, <2>1 DEF Flight, Open, Phase, Stream1, Una
  <2> HIDE DEF q
  <2>. QED  BY Zenon, <1>1, <1>2, <1>4, <2>1, <2>2, WindowFrame DEF q
<1>. QED  BY Zenon, <1>6, <1>7

-----------------------------------------------------------------------------
(* The reading side.  Here p is the receiver, and q the sender of what it   *)
(* reads.                                                                  *)

\* A packet is taken off the network.
LEMMA TakeOne ==
  ASSUME Roomy, TypeOK, StreamInv, NEW p \in Peers, NEW q, q = Other(p),
         NEW i \in Nat \ {0}, i <= Len(net[p]), net' = [net EXCEPT ![p] = RemoveAt(@, i)],
         NEW m, m = net[p][i]
  PROVE  /\ net'[q] = net[q] /\ m \in Packet /\ Fits(m, q, p)
         /\ One(net'[p], "ack") /\ One(net'[p], "data")
         /\ Kind(m) = "ack" => /\ None(net'[p], "ack") /\ ~None(net[p], "ack")
                               /\ None(net'[p], "data") <=> None(net[p], "data")
         /\ Kind(m) = "data" => /\ None(net'[p], "data") /\ ~None(net[p], "data")
                                /\ None(net'[p], "ack") <=> None(net[p], "ack")
         /\ \A j \in DOMAIN net'[p] : \E l \in DOMAIN net[p] : net'[p][j] = net[p][l]
<1>1. q \in Peers /\ q # p /\ Stream1(p, q) /\ Stream1(q, p)
  BY Zenon, Numbers
<1>2. net[p] \in Seq(Packet) /\ i \in 1 .. Len(net[p]) /\ DOMAIN net[p] = 1 .. Len(net[p])
      /\ Len(net[p]) \in Nat
  BY PeerTypes, LenProperties
<1>3. net'[p] = RemoveAt(net[p], i) /\ net'[q] = net[q]
  BY Zenon, <1>1 DEF TypeOK
<1>4. m \in Packet /\ Fits(m, q, p)
  BY Zenon, <1>1, <1>2, ElementOfSeq DEF Stream1, Packets
<1>5. One(net[p], "ack") /\ One(net[p], "data")
  BY Zenon, <1>1 DEF Stream1, Token
<1> DEFINE r == RemoveAt(net[p], i)
<1>6. /\ One(r, "ack") /\ (Kind(m) # "ack" => (None(r, "ack") <=> None(net[p], "ack")))
      /\ Kind(m) = "ack" => None(r, "ack") /\ ~None(net[p], "ack")
  BY Zenon, <1>2, <1>5, RemoveKind
<1>7. /\ One(r, "data") /\ (Kind(m) # "data" => (None(r, "data") <=> None(net[p], "data")))
      /\ Kind(m) = "data" => None(r, "data") /\ ~None(net[p], "data")
  BY Zenon, <1>2, <1>5, RemoveKind
<1>8. \A j \in DOMAIN r : \E l \in DOMAIN net[p] : r[j] = net[p][l]
  <2>1. /\ DOMAIN r = 1 .. Len(net[p]) - 1
        /\ \A j \in 1 .. Len(net[p]) - 1 : r[j] = net[p][IF j < i THEN j ELSE j + 1]
    BY Zenon, <1>2, RemoveAtIndex
  <2> HIDE DEF r
  <2>2. ASSUME NEW j \in DOMAIN r
        PROVE  \E l \in DOMAIN net[p] : r[j] = net[p][l]
    <3>1. (IF j < i THEN j ELSE j + 1) \in DOMAIN net[p]
      BY <1>2, <2>1
    <3>. QED  BY Zenon, <2>1, <3>1
  <2>. QED  BY Zenon, <2>2
<1>9. net'[p] = r
  BY Zenon, <1>3
<1> HIDE DEF r
<1>10. Kind(m) = "ack" => Kind(m) # "data"
  BY DEF Kind
<1>. QED  BY Zenon, <1>3, <1>4, <1>6, <1>7, <1>8, <1>9, <1>10

\* A step of p's reading side leaves both writing sides alone.
LEMMA ReaderSame ==
  ASSUME Roomy, TypeOK, StreamInv, NEW p \in Peers, NEW q, q = Other(p),
         UNCHANGED <<wb, sw, vw, written>>, sock'[q] = sock[q],
         sock'[p].cumWriteUNA = sock[p].cumWriteUNA, sock'[p].unackedNums = sock[p].unackedNums,
         \/ sock'[p].ClientWindowSize = sock[p].ClientWindowSize
         \/ sock'[p].ClientWindowSize >= MSS
  PROVE  /\ Phase(p)' /\ Sends(p)' /\ Una(p)' = Una(p) /\ Flight(p)' = Flight(p)
         /\ Phase(q)' /\ Sends(q)' /\ Una(q)' = Una(q) /\ Flight(q)' = Flight(q) /\ Acks(q)'
<1>1. q \in Peers /\ q # p /\ Stream1(p, q) /\ Stream1(q, p)
  BY Zenon, Numbers
<1>2. Phase(p)' /\ Sends(p)' /\ Una(p)' = Una(p) /\ Flight(p)' = Flight(p)
  <2>1. /\ wb'[p] = wb[p] /\ sw'[p] = sw[p] /\ vw'[p] = vw[p] /\ written'[p] = written[p]
        /\ Phase(p) /\ Sends(p)
    BY Zenon, <1>1 DEF Stream1
  <2>. QED  BY Zenon, <2>1, SendsKept
<1>3. Phase(q)' /\ Sends(q)' /\ Una(q)' = Una(q) /\ Flight(q)' = Flight(q)
  <2>1. /\ wb'[q] = wb[q] /\ sw'[q] = sw[q] /\ vw'[q] = vw[q] /\ written'[q] = written[q]
        /\ Phase(q) /\ Sends(q) /\ sock'[q].cumWriteUNA = sock[q].cumWriteUNA
        /\ sock'[q].unackedNums = sock[q].unackedNums
        /\ sock'[q].ClientWindowSize = sock[q].ClientWindowSize
    BY Zenon, <1>1 DEF Stream1
  <2>. QED  BY Zenon, <1>1, <2>1, SendsKept
<1>4. Acks(q)'
  <2>1. Acks(q) /\ sock'[q].ackChan = sock[q].ackChan /\ sw'[q] = sw[q]
    BY Zenon, <1>1 DEF Stream1
  <2>. QED  BY Zenon, <1>1, <1>3, <2>1, AckChanKept
<1>. QED  BY Zenon, <1>2, <1>3, <1>4

\* A step of p's reading side, seen from the stream that p writes.
LEMMA ReaderFrame ==
  ASSUME Roomy, TypeOK, StreamInv, NEW p \in Peers, NEW q, q = Other(p),
         UNCHANGED <<wb, sw, vw, written>>, sock'[q] = sock[q],
         sock'[p].cumWriteUNA = sock[p].cumWriteUNA, sock'[p].unackedNums = sock[p].unackedNums,
         \/ sock'[p].ClientWindowSize = sock[p].ClientWindowSize
         \/ sock'[p].ClientWindowSize >= MSS,
         rb'[q] = rb[q], vr'[q] = vr[q], got'[q] = got[q],
         Acks(p)' \/ sock'[p].ackChan = sock[p].ackChan,
         Reads(q, p)', Packets(q, p)', Packets(p, q)', Token(q, p)', Token(p, q)'
  PROVE  StreamInv'
<1>1. q \in Peers /\ q # p /\ Stream1(p, q)
  BY Zenon, Numbers
<1>2. /\ Phase(p)' /\ Sends(p)' /\ Una(p)' = Una(p) /\ Flight(p)' = Flight(p)
      /\ Phase(q)' /\ Sends(q)' /\ Una(q)' = Una(q) /\ Flight(q)' = Flight(q) /\ Acks(q)'
  BY Zenon, ReaderSame
<1>3. Reads(p, q)'
  <2>1. /\ Reads(p, q) /\ sock'[q].cumReadNXT = sock[q].cumReadNXT
        /\ sock'[q].earlyPQ = sock[q].earlyPQ
        /\ written'[p] + vw'[p].left <= Len(got[q]) + Outstanding
        /\ sock[q].cumReadNXT = Una(p)' \/ sock[q].cumReadNXT = Una(p)' + Flight(p)'
    BY Zenon, <1>1, <1>2 DEF Stream1, Reads
  <2>. QED  BY Zenon, <1>1, <2>1, ReadsKept
<1>4. Acks(p)'
  <2>1. CASE sock'[p].ackChan = sock[p].ackChan
    <3>1. Acks(p) /\ sw'[p] = sw[p]
      BY Zenon, <1>1 DEF Stream1
    <3>. QED  BY Zenon, <1>2, <2>1, <3>1, AckChanKept
  <2>. QED  BY Zenon, <2>1
<1>5. Stream1(p, q)' /\ Stream1(q, p)'
  BY Zenon, <1>2, <1>3, <1>4 DEF Stream1
<1>. QED  BY Zenon, <1>5, BothStreams

\* A step of p's reading side that neither receives nor sends.
LEMMA ReaderLocal ==
  ASSUME Roomy, TypeOK, StreamInv, NEW p \in Peers, NEW q, q = Other(p),
         UNCHANGED <<net, wb, sw, vw, written, sock>>,
         rb'[q] = rb[q], vr'[q] = vr[q], got'[q] = got[q], rcv'[q] = rcv[q],
         rcv'[p].pc # "full", rcv'[p].pc = "recv" <=> rcv[p].pc = "recv",
         Reads(q, p)'
  PROVE  StreamInv'
<1>1. q \in Peers /\ q # p /\ Stream1(p, q) /\ Stream1(q, p) /\ sock'[q] = sock[q]
  BY Zenon, Numbers
<1>2. Una(p)' = Una(p) /\ Flight(p)' = Flight(p) /\ Una(q)' = Una(q) /\ Flight(q)' = Flight(q)
  BY Zenon DEF Una, Flight
<1>3. Packets(q, p)' /\ Packets(p, q)'
  <2>1. Packets(q, p) /\ Packets(p, q)
    BY Zenon, <1>1 DEF Stream1
  <2>. QED  BY Zenon, <1>1, <1>2, <2>1, PacketsKept
<1>4. Token(q, p) /\ Token(p, q)
  BY Zenon, <1>1 DEF Stream1
<1>5. Token(q, p)'
  <2>1. One(net'[p], "data") /\ One(net'[q], "ack")
    BY Zenon, <1>4 DEF Token
  <2>. QED  BY Zenon, <1>1, <1>2, <1>4, <2>1, TokenKept
<1>6. Token(p, q)'
  <2>1. One(net'[q], "data") /\ One(net'[p], "ack") /\ rcv'[q].pc # "full"
    BY Zenon, <1>4 DEF Token
  <2>. QED  BY Zenon, <1>1, <1>2, <1>4, <2>1, TokenKept
<1>. QED  BY Zenon, <1>1, <1>3, <1>5, <1>6, ReaderFrame

\* ReceiverThread wakes VRead.
LEMMA UnlockStream ==
  ASSUME Roomy, TypeOK, StreamInv, NEW p \in Peers, Unlock(p)
  PROVE  StreamInv'
<1> DEFINE q == Other(p)
<1>1. q \in Peers /\ q # p /\ Stream1(q, p) /\ p = Other(q)
  BY Zenon, Numbers
<1>2. /\ rcv[p].pc = "early" /\ rcv' = [rcv EXCEPT ![p].pc = "answer"]
      /\ vr' = [vr EXCEPT ![p].pc = IF vr[p].pc = "wait" THEN "woken" ELSE vr[p].pc]
      /\ UNCHANGED <<net, wb, rb, sock, sw, vw, written, got>>
  BY Zenon DEF Unlock, Broadcast
<1>3. rcv'[p].pc = "answer" /\ rcv'[q] = rcv[q] /\ vr'[q] = vr[q]
  BY Zenon, <1>1, <1>2, RcvType, CallTypes DEF Receiver
<1>4. vr'[p] = vr[p] \/ vr'[p].pc # "lock"
  BY Zenon, <1>2, CallTypes DEF ReadCall
<1>5. Una(q)' = Una(q) /\ Flight(q)' = Flight(q)
  BY Zenon, <1>2 DEF Una, Flight
<1>6. Reads(q, p)'
  <2>1. /\ Reads(q, p) /\ written'[q] + vw'[q].left <= Len(got[p]) + Outstanding
        /\ sock[p].cumReadNXT = Una(q)' \/ sock[p].cumReadNXT = Una(q)' + Flight(q)'
        /\ rb'[p] = rb[p] /\ got'[p] = got[p]
        /\ sock'[p].cumReadNXT = sock[p].cumReadNXT /\ sock'[p].earlyPQ = sock[p].earlyPQ
    BY Zenon, <1>1, <1>2, <1>5 DEF Stream1, Reads
  <2>. QED  BY Zenon, <1>1, <1>4, <2>1, ReadsKept
<1>7. rcv'[p].pc # "full" /\ (rcv'[p].pc = "recv" <=> rcv[p].pc = "recv")
  BY Zenon, <1>2, <1>3
<1> HIDE DEF q
<1>. QED  BY Zenon, <1>1, <1>2, <1>3, <1>6, <1>7, ReaderLocal DEF q

\* VRead is called: what it counts is there.
LEMMA VReadCallStream ==
  ASSUME Roomy, TypeOK, StreamInv, NEW p \in Peers, NEW want, VReadCall(p, want)
  PROVE  StreamInv'
<1> DEFINE q == Other(p)
<1>1. q \in Peers /\ q # p /\ Stream1(q, p) /\ p = Other(q)
  BY Zenon, Numbers
<1>2. /\ vr' = [vr EXCEPT ![p] = [pc |-> "lock", want |-> want, num |-> Unread(p)]]
      /\ UNCHANGED <<net, wb, rb, sock, sw, rcv, vw, written, got>>
  BY Zenon DEF VReadCall
<1>3. vr'[p].num = Unread(p) /\ vr'[q] = vr[q]
  BY Zenon, <1>1, <1>2, CallTypes
<1>4. Una(q)' = Una(q) /\ Flight(q)' = Flight(q)
  BY Zenon, <1>2 DEF Una, Flight
<1>5. Len(got[p]) + Unread(p) < sock[p].cumReadNXT
  <2>1. Unread(p) = sock[p].cumReadNXT - 1 - Len(got[p])
    BY Zenon, <1>1, ReceiverRoom
  <2>2. sock[p].cumReadNXT \in Nat /\ Len(got[p]) \in Nat
    BY Zenon, <1>1, Numbers
  <2>. QED  BY <2>1, <2>2
<1>6. Reads(q, p)'
  BY Zenon, <1>1, <1>2, <1>3, <1>4, <1>5 DEF Stream1, Reads
<1>7. rcv'[q] = rcv[q] /\ rcv'[p].pc # "full" /\ rcv'[p] = rcv[p] /\ rb'[q] = rb[q] /\ got'[q] = got[q]
  BY Zenon, <1>1, <1>2 DEF Stream1, Token
<1> HIDE DEF q
<1>. QED  BY Zenon, <1>1, <1>2, <1>3, <1>6, <1>7, ReaderLocal DEF q

\* VRead returns the next bytes of the stream, all of which have arrived.
LEMMA ReadOutStream ==
  ASSUME Roomy, TypeOK, StreamInv, NEW p \in Peers, NEW q, q = Other(p),
         NEW num \in Nat, num # 0, Len(got[p]) + num < sock[p].cumReadNXT, ReadOut(p, num),
         UNCHANGED <<net, wb, sock, sw, rcv, vw, written>>
  PROVE  /\ StreamInv'
         /\ \E n \in Nat : /\ got' = [got EXCEPT ![p] = @ \o Bytes(Len(got[p]) + 1, n)]
                           /\ Len(got'[p]) = Len(got[p]) + n /\ Len(got[p]) + n <= written[q]
<1> DEFINE n == Least(num, vr[p].want)
           g == Len(got[p])
           r == sock[p].cumReadNXT
           b == rb[p]
<1>1. q \in Peers /\ q # p /\ Stream1(q, p) /\ p = Other(q)
  BY Zenon, Numbers
<1>2. /\ got' = [got EXCEPT ![p] = got[p] \o Slice(b.buf, b.LBR + 1, n)]
      /\ rb' = [rb EXCEPT ![p].LBR = (b.LBR + n) % W]
      /\ vr' = [vr EXCEPT ![p] = [pc |-> "idle", want |-> 0, num |-> 0]]
  BY Zenon DEF ReadOut
<1>3. n \in Nat /\ n <= num
  BY PeerTypes DEF ReadCall, Least
<1> HIDE DEF n
<1>4. g \in Nat /\ r \in Nat /\ g < r /\ r <= written[q] + 1 /\ written[q] \in Nat /\ W \in Nat
  BY Zenon, <1>1, Numbers
<1>5. g + num < r
  OBVIOUS
<1>6. /\ b.LBR = g % W /\ b.NXT = r % W /\ got[p] = Bytes(1, g)
      /\ \A x \in g + 1 .. r - 1 : b.buf[x % W] = x
  BY Zenon, <1>1 DEF Stream1, Reads
<1>7. b.buf \in [Cells -> Nat] /\ b.LBR + 1 \in Int
  BY BufferFields
<1>8. Slice(b.buf, b.LBR + 1, n) = Bytes(g + 1, n)
  <2>1. g \in Int /\ 1 \in Int /\ g + 1 \in Int
    BY <1>4
  <2>2. ((g % W) + 1) % W = (g + 1) % W
    BY Zenon, <2>1, ModPlus
  <2>3. (b.LBR + 1) % W = (g + 1) % W
    BY Zenon, <1>6, <2>2
  <2>4. \A x \in g + 1 .. g + 1 + n - 1 : x \in g + 1 .. r - 1
    BY SMTT(20), <1>3, <1>4, <1>5
  <2>5. \A x \in g + 1 .. g + 1 + n - 1 : b.buf[x % W] = x
    BY Zenon, <1>6, <2>4
  <2> HIDE DEF b, g
  <2>. QED  BY ZenonT(30), <1>3, <1>7, <2>1, <2>3, <2>5, SliceAt
<1>9. got' = [got EXCEPT ![p] = got[p] \o Bytes(g + 1, n)]
  BY Zenon, <1>2, <1>8
<1>10. got'[p] = Bytes(1, g + n) /\ got'[q] = got[q] /\ Len(got'[p]) = g + n
  <2>1. got'[p] = got[p] \o Bytes(g + 1, n) /\ got'[q] = got[q]
    BY Zenon, <1>1, <1>9 DEF TypeOK
  <2>2. g + 1 = 1 + g /\ g + n \in Nat /\ 1 \in Nat /\ g \in Nat /\ n \in Nat
    BY <1>3, <1>4
  <2> HIDE DEF g
  <2>3. Bytes(1, g) \o Bytes(1 + g, n) = Bytes(1, g + n)
    BY Zenon, <2>2, BytesConcat
  <2>4. Len(Bytes(1, g + n)) = g + n
    BY Zenon, <2>2, BytesSeq
  <2>. QED  BY Zenon, <1>6, <2>1, <2>2, <2>3, <2>4
<1>11. /\ rb'[p].LBR = (g + n) % W /\ rb'[p].NXT = r % W /\ rb'[p].buf = b.buf /\ rb'[q] = rb[q]
  <2>1. /\ rb'[p].LBR = (b.LBR + n) % W /\ rb'[p].NXT = b.NXT /\ rb'[p].buf = b.buf
        /\ rb'[q] = rb[q]
    BY Zenon, <1>1, <1>2, BufferTypes DEF ReadBuffer
  <2>2. g \in Int /\ n \in Int
    BY <1>3, <1>4
  <2>3. ((g % W) + n) % W = (g + n) % W
    BY Zenon, <2>2, ModPlus
  <2>. QED  BY Zenon, <1>6, <2>1, <2>3
<1>12. vr'[p].pc = "idle" /\ vr'[q] = vr[q]
  BY Zenon, <1>1, <1>2, CallTypes
<1>13. Una(q)' = Una(q) /\ Flight(q)' = Flight(q)
  BY Zenon DEF Una, Flight
<1>14. Reads(q, p)'
  <2>1. /\ r = Una(q)' \/ r = Una(q)' + Flight(q)'
        /\ written[q] + vw[q].left <= g + Outstanding /\ sock[p].earlyPQ = {}
    BY Zenon, <1>1, <1>13 DEF Stream1, Reads
  <2>2. g + n < r /\ \A x \in g + n + 1 .. r - 1 : x \in g + 1 .. r - 1
    BY SMTT(20), <1>3, <1>4, <1>5
  <2>3. written[q] + vw[q].left <= g + n + Outstanding
    <3>1. vw[q].left \in Nat /\ Outstanding \in Nat
      BY Zenon, <1>1, Numbers
    <3> HIDE DEF g
    <3>. QED  BY <1>3, <1>4, <2>1, <3>1
  <2>4. \A x \in g + n + 1 .. r - 1 : b.buf[x % W] = x
    BY Zenon, <1>6, <2>2
  <2>. QED  BY Zenon, <1>10, <1>11, <1>12, <2>1, <2>2, <2>3, <2>4 DEF Reads
<1>15. rcv'[q] = rcv[q] /\ rcv'[p].pc # "full" /\ rcv'[p] = rcv[p]
  BY Zenon, <1>1 DEF Stream1, Token
<1>16. StreamInv'
  BY Zenon, <1>1, <1>10, <1>11, <1>12, <1>14, <1>15, ReaderLocal
<1>17. g + n <= written[q]
  BY <1>3, <1>4, <1>5
<1>. QED  BY Zenon, <1>3, <1>9, <1>10, <1>16, <1>17

\* VRead with readMtx: it returns bytes or waits.
LEMMA VReadLockedStream ==
  ASSUME Roomy, TypeOK, StreamInv, NEW p \in Peers, VReadLocked(p)
  PROVE  /\ StreamInv'
         /\ \/ UNCHANGED got
            \/ \E n \in Nat : /\ got' = [got EXCEPT ![p] = @ \o Bytes(Len(got[p]) + 1, n)]
                              /\ Len(got'[p]) = Len(got[p]) + n
                              /\ Len(got[p]) + n <= written[Other(p)]
<1> DEFINE q == Other(p)
           num == IF vr[p].pc = "woken" THEN Unread(p) ELSE vr[p].num
<1>1. q \in Peers /\ q # p /\ Stream1(q, p) /\ p = Other(q)
  BY Zenon, Numbers
<1>2. /\ vr[p].pc \in {"lock", "woken"}
      /\ IF num = 0 THEN vr' = [vr EXCEPT ![p].pc = "wait"] /\ UNCHANGED <<rb, got>>
                    ELSE ReadOut(p, num)
      /\ UNCHANGED <<net, wb, sock, sw, rcv, vw, written>>
  BY Zenon DEF VReadLocked
<1>3. num \in Nat /\ Len(got[p]) + num < sock[p].cumReadNXT
  <2>1. Unread(p) = sock[p].cumReadNXT - 1 - Len(got[p])
    BY Zenon, <1>1, ReceiverRoom
  <2>2. sock[p].cumReadNXT \in Nat /\ Len(got[p]) \in Nat /\ Len(got[p]) < sock[p].cumReadNXT
    BY Zenon, <1>1, Numbers
  <2>3. vr[p].num \in Nat /\ (vr[p].pc = "lock" => Len(got[p]) + vr[p].num < sock[p].cumReadNXT)
    BY Zenon, <1>1, PeerTypes, CellNat DEF ReadCall, Stream1, Reads
  <2>. QED  BY <1>2, <2>1, <2>2, <2>3
<1> HIDE DEF num
<1>4. CASE num = 0
  <2>1. vr' = [vr EXCEPT ![p].pc = "wait"] /\ UNCHANGED <<rb, got>>
    BY Zenon, <1>2, <1>4
  <2>2. vr'[p].pc # "lock" /\ vr'[q] = vr[q]
    BY Zenon, <1>1, <2>1, CallTypes DEF ReadCall
  <2>3. Una(q)' = Una(q) /\ Flight(q)' = Flight(q)
    BY Zenon, <1>2 DEF Una, Flight
  <2>4. Reads(q, p)'
    <3>1. /\ Reads(q, p) /\ written'[q] + vw'[q].left <= Len(got[p]) + Outstanding
          /\ sock[p].cumReadNXT = Una(q)' \/ sock[p].cumReadNXT = Una(q)' + Flight(q)'
          /\ rb'[p] = rb[p] /\ got'[p] = got[p]
          /\ sock'[p].cumReadNXT = sock[p].cumReadNXT /\ sock'[p].earlyPQ = sock[p].earlyPQ
      BY Zenon, <1>1, <1>2, <2>1, <2>3 DEF Stream1, Reads
    <3>. QED  BY Zenon, <1>1, <2>2, <3>1, ReadsKept
  <2>5. /\ rcv'[q] = rcv[q] /\ rcv'[p].pc # "full" /\ rcv'[p] = rcv[p]
        /\ rb'[q] = rb[q] /\ got'[q] = got[q]
    BY Zenon, <1>1, <1>2, <2>1 DEF Stream1, Token
  <2> HIDE DEF q
  <2>. QED  BY Zenon, <1>1, <1>2, <2>1, <2>2, <2>4, <2>5, ReaderLocal DEF q
<1>5. CASE num # 0
  <2>1. ReadOut(p, num)
    BY Zenon, <1>2, <1>5
  <2> HIDE DEF q
  <2>. QED  BY Zenon, <1>1, <1>2, <1>3, <1>5, <2>1, ReadOutStream DEF q
<1>. QED  BY Zenon, <1>4, <1>5

\* A stream whose segment, and the acknowledgment of it, are nowhere.
LEMMA TokenGone ==
  ASSUME NEW p \in Peers, NEW q \in Peers,
         None(net'[q], "data"), rcv'[q].pc = "recv", None(net'[p], "ack"),
         sock'[p].ackChan = <<>>, sw'[p].pc # "ack"
  PROVE  Token(p, q)'
<1>1. Len(sock'[p].ackChan) = 0
  OBVIOUS
<1>2. Answered(p, q)' = 0 /\ Places(p, q)' = 0
  BY Zenon, <1>1, PlacesNow
<1>3. One(net'[p], "ack") /\ One(net'[q], "data")
  BY Zenon DEF One, None
<1>4. Places(p, q)' <= 1 /\ ~(Answered(p, q)' > 0) /\ ~(Places(p, q)' > 0)
  BY <1>2
<1>. QED  BY Zenon, <1>3, <1>4 DEF Token, One, Kind

\* The network loses a segment or an acknowledgment.
LEMMA LoseStream ==
  ASSUME Roomy, TypeOK, StreamInv, NEW p \in Peers, NEW i \in 1 .. Len(net[p]), Lose(p, i)
  PROVE  StreamInv'
<1> DEFINE q == Other(p)
           m == net[p][i]
<1>1. q \in Peers /\ q # p /\ Stream1(p, q) /\ Stream1(q, p) /\ p = Other(q)
  BY Zenon, Numbers
<1>2. /\ net' = [net EXCEPT ![p] = RemoveAt(@, i)]
      /\ UNCHANGED <<wb, rb, sock, sw, rcv, vr, vw, written, got>>
  BY Zenon DEF Lose
<1>3. i \in Nat \ {0} /\ i <= Len(net[p])
  BY PeerTypes, LenProperties
<1>4. /\ net'[q] = net[q] /\ m \in Packet /\ Fits(m, q, p)
      /\ One(net'[p], "ack") /\ One(net'[p], "data")
      /\ Kind(m) = "ack" => /\ None(net'[p], "ack") /\ ~None(net[p], "ack")
                            /\ None(net'[p], "data") <=> None(net[p], "data")
      /\ Kind(m) = "data" => /\ None(net'[p], "data") /\ ~None(net[p], "data")
                             /\ None(net'[p], "ack") <=> None(net[p], "ack")
      /\ \A j \in DOMAIN net'[p] : \E l \in DOMAIN net[p] : net'[p][j] = net[p][l]
  <2> HIDE DEF q, m
  <2>. QED  BY Zenon, <1>2, <1>3, TakeOne DEF q, m
<1>5. /\ Una(p)' = Una(p) /\ Flight(p)' = Flight(p) /\ Una(q)' = Una(q) /\ Flight(q)' = Flight(q)
      /\ Flight(p) \in Nat /\ Flight(q) \in Nat
  <2>1. Flight(p) \in 0 .. MSS /\ Flight(q) \in 0 .. MSS /\ MSS \in Nat
    BY Zenon, <1>1, Phases, SizeAssumption DEF Stream1
  <2>2. Flight(p) \in Nat /\ Flight(q) \in Nat
    BY <2>1
  <2>. QED  BY Zenon, <1>2, <2>2 DEF Una, Flight
<1>6. Packets(q, p)' /\ Packets(p, q)'
  <2>1. Packets(q, p) /\ Packets(p, q)
    BY Zenon, <1>1 DEF Stream1
  <2> HIDE DEF q
  <2>2. Packets(q, p)'
    BY Zenon, <1>1, <1>4, <1>5, <2>1, PacketsKept
  <2>3. Packets(p, q)'
    BY Zenon, <1>1, <1>4, <1>5, <2>1, PacketsKept
  <2>. QED  BY Zenon, <2>2, <2>3
<1>7. Token(p, q) /\ Token(q, p)
  BY Zenon, <1>1 DEF Stream1
<1>8. Token(q, p)' /\ Token(p, q)'
  <2>1. /\ One(net[q], "ack") /\ One(net[q], "data") /\ rcv[p].pc # "full" /\ rcv[q].pc # "full"
    BY Zenon, <1>7 DEF Token
  <2>2. CASE Kind(m) = "data"
    <3>1. Token(q, p)'
      <4>1. rcv[p].pc = "recv" /\ None(net[q], "ack") /\ sock[q].ackChan = <<>> /\ sw[q].pc # "ack"
        BY Zenon, <1>1, <1>4, <1>5, <1>7, <2>2, OnePlace
      <4> HIDE DEF q
      <4>. QED  BY Zenon, <1>1, <1>2, <1>4, <2>2, <4>1, TokenGone
    <3>2. Token(p, q)'
      BY Zenon, <1>1, <1>2, <1>4, <1>5, <1>7, <2>1, <2>2, TokenKept
    <3>. QED  BY Zenon, <3>1, <3>2
  <2>3. CASE Kind(m) = "ack"
    <3>1. Token(p, q)'
      <4>1. rcv[q].pc = "recv" /\ None(net[q], "data") /\ sock[p].ackChan = <<>> /\ sw[p].pc # "ack"
        BY Zenon, <1>1, <1>4, <1>5, <1>7, <2>3, OnePlace
      <4> HIDE DEF q
      <4>. QED  BY Zenon, <1>1, <1>2, <1>4, <2>3, <4>1, TokenGone
    <3>2. Token(q, p)'
      BY Zenon, <1>1, <1>2, <1>4, <1>5, <1>7, <2>1, <2>3, TokenKept
    <3>. QED  BY Zenon, <3>1, <3>2
  <2>. QED  BY Zenon, <2>2, <2>3 DEF Kind
<1>9. Reads(q, p)'
  BY Zenon, <1>1, <1>2, <1>5 DEF Stream1, Reads
<1> HIDE DEF q
<1>. QED  BY Zenon, <1>1, <1>2, <1>6, <1>8, <1>9, ReaderFrame DEF q

\* An acknowledgment reaches slidingWindow through an empty ackChan.
LEMMA ReceiveAckStream ==
  ASSUME Roomy, TypeOK, StreamInv, NEW p \in Peers, NEW i \in Nat \ {0}, ReceiveAck(p, i)
  PROVE  StreamInv'
<1> DEFINE q == Other(p)
           m == net[p][i]
           a == [ack |-> m.ack, win |-> m.win]
<1>1. q \in Peers /\ q # p /\ Stream1(p, q) /\ Stream1(q, p) /\ p = Other(q)
  BY Zenon, Numbers
<1>2. /\ net' = [net EXCEPT ![p] = RemoveAt(@, i)] /\ i <= Len(net[p]) /\ m.data = <<>>
      /\ UNCHANGED <<wb, rb, sw, vr, vw, written, got>>
      /\ Len(sock[p].ackChan) < AckCap =>
           /\ sock' = [sock EXCEPT ![p].ClientWindowSize = m.win,
                                   ![p].ackChan = Append(sock[p].ackChan, a)]
           /\ UNCHANGED rcv
  BY Zenon DEF ReceiveAck, Receive, IsAnswer
<1>3. /\ net'[q] = net[q] /\ m \in Packet /\ Fits(m, q, p)
      /\ One(net'[p], "ack") /\ One(net'[p], "data")
      /\ Kind(m) = "ack" => /\ None(net'[p], "ack") /\ ~None(net[p], "ack")
                            /\ None(net'[p], "data") <=> None(net[p], "data")
      /\ Kind(m) = "data" => /\ None(net'[p], "data") /\ ~None(net[p], "data")
                             /\ None(net'[p], "ack") <=> None(net[p], "ack")
      /\ \A j \in DOMAIN net'[p] : \E l \in DOMAIN net[p] : net'[p][j] = net[p][l]
  <2>1. net' = [net EXCEPT ![p] = RemoveAt(@, i)] /\ i <= Len(net[p])
    BY Zenon, <1>2
  <2> HIDE DEF q, m
  <2>. QED  BY Zenon, <2>1, TakeOne DEF q, m
<1>4. Kind(m) = "ack"
  BY Zenon, <1>2 DEF Kind
<1>5. m.win >= MSS /\ m.ack = Una(p) + Flight(p)
  BY Zenon, <1>3, <1>4 DEF Fits
<1>6. Flight(p) \in Nat /\ Flight(q) \in Nat /\ Token(p, q) /\ Token(q, p) /\ Acks(p)
  <2>1. Flight(p) \in 0 .. MSS /\ Flight(q) \in 0 .. MSS /\ MSS \in Nat
    BY Zenon, <1>1, Phases, SizeAssumption DEF Stream1
  <2>2. Flight(p) \in Nat /\ Flight(q) \in Nat
    BY <2>1
  <2>. QED  BY Zenon, <1>1, <2>2 DEF Stream1
<1>7. /\ rcv[q].pc = "recv" /\ None(net[q], "data") /\ sock[p].ackChan = <<>> /\ sw[p].pc # "ack"
      /\ Flight(p) > 0 /\ sock[q].cumReadNXT = Una(p) + Flight(p)
  BY Zenon, <1>1, <1>3, <1>4, <1>6, OnePlace
<1>8. Append(sock[p].ackChan, a) = <<a>> /\ Len(sock[p].ackChan) < AckCap /\ Len(<<a>>) = 1
  BY <1>7, BoundAssumption
<1> HIDE DEF m, a
<1>9. /\ sock' = [sock EXCEPT ![p].ClientWindowSize = m.win, ![p].ackChan = <<a>>]
      /\ UNCHANGED rcv
  BY Zenon, <1>2, <1>8
<1>10. /\ sock'[q] = sock[q] /\ sock'[p].cumReadNXT = sock[p].cumReadNXT
       /\ sock'[p].earlyPQ = sock[p].earlyPQ /\ sock'[p].ackChan = <<a>>
       /\ sock'[p].cumWriteUNA = sock[p].cumWriteUNA
       /\ sock'[p].unackedNums = sock[p].unackedNums
       /\ sock'[p].ClientWindowSize = m.win
  BY Zenon, <1>1, <1>9, SockType DEF NormalSocket
<1>11. /\ Una(p)' = Una(p) /\ Flight(p)' = Flight(p) /\ Una(q)' = Una(q) /\ Flight(q)' = Flight(q)
  BY Zenon, <1>2, <1>10 DEF Una, Flight
<1>12. Acks(p)'
  <2>1. \A j \in DOMAIN <<a>> : <<a>>[j] = a
    OBVIOUS
  <2>2. a.ack = Una(p) + Flight(p) /\ a.win >= MSS
    BY Zenon, <1>5 DEF a
  <2>. QED  BY Zenon, <1>2, <1>7, <1>10, <1>11, <2>1, <2>2 DEF Acks
<1>13. Packets(q, p)' /\ Packets(p, q)'
  <2>1. Packets(q, p) /\ Packets(p, q)
    BY Zenon, <1>1 DEF Stream1
  <2> HIDE DEF q
  <2>2. Packets(q, p)'
    BY Zenon, <1>1, <1>3, <1>11, <2>1, PacketsKept
  <2>3. Packets(p, q)'
    BY Zenon, <1>1, <1>3, <1>11, <2>1, PacketsKept
  <2>. QED  BY Zenon, <2>2, <2>3
<1>14. Token(q, p)'
  <2>1. One(net[q], "ack") /\ rcv[p].pc # "full"
    BY Zenon, <1>6 DEF Token
  <2>. QED  BY Zenon, <1>1, <1>2, <1>3, <1>4, <1>6, <1>9, <1>10, <1>11, <2>1, TokenKept
<1>15. Token(p, q)'
  <2>1. /\ None(net'[q], "data") /\ rcv'[q].pc = "recv" /\ None(net'[p], "ack")
        /\ Len(sock'[p].ackChan) = 1 /\ sw'[p].pc # "ack"
    BY Zenon, <1>2, <1>3, <1>4, <1>7, <1>8, <1>9, <1>10
  <2>2. Places(p, q)' = 1
    BY Zenon, <1>1, <2>1, PlacesNow
  <2>3. Places(p, q)' <= 1 /\ One(net'[q], "data")
    BY <2>1, <2>2 DEF One, None
  <2>. QED  BY Zenon, <1>3, <1>7, <1>10, <1>11, <2>1, <2>3 DEF Token, One, Kind
<1>16. Reads(q, p)'
  BY Zenon, <1>1, <1>2, <1>10, <1>11 DEF Stream1, Reads
<1>17. sock'[p].ClientWindowSize >= MSS /\ rb'[q] = rb[q] /\ vr'[q] = vr[q] /\ got'[q] = got[q]
  BY Zenon, <1>2, <1>5, <1>10
<1> HIDE DEF q
<1>. QED  BY Zenon, <1>1, <1>2, <1>10, <1>12, <1>13, <1>14, <1>15, <1>16, <1>17, ReaderFrame DEF q

\* p acknowledges the segment it has stored.
LEMMA AnswerStream ==
  ASSUME Roomy, TypeOK, StreamInv, NEW p \in Peers, Answer(p)
  PROVE  StreamInv'
<1> DEFINE q == Other(p)
           m == Segment(p, rcv[p].pkt.ack, <<>>)
<1>1. q \in Peers /\ q # p /\ Stream1(p, q) /\ Stream1(q, p) /\ p = Other(q)
  BY Zenon, Numbers
<1>2. /\ rcv[p].pc = "answer" /\ Send(p, m)
      /\ rcv' = [rcv EXCEPT ![p] = [pc |-> "recv", pkt |-> NoPacket]]
      /\ UNCHANGED <<wb, rb, sock, sw, vr, vw, written, got>>
  BY Zenon DEF Answer
<1>3. rcv'[p].pc = "recv" /\ rcv'[q] = rcv[q]
  BY Zenon, <1>1, <1>2, RcvType
<1>4. Flight(q) \in Nat /\ Token(p, q) /\ Token(q, p) /\ rcv[p].pc # "recv"
  <2>1. Flight(q) \in 0 .. MSS /\ MSS \in Nat
    BY Zenon, <1>1, Phases, SizeAssumption DEF Stream1
  <2>2. Flight(q) \in Nat /\ rcv[p].pc # "recv"
    BY <1>2, <2>1
  <2>. QED  BY Zenon, <1>1, <2>2 DEF Stream1
<1>5. /\ None(net[p], "data") /\ None(net[q], "ack") /\ sock[q].ackChan = <<>> /\ sw[q].pc # "ack"
      /\ Flight(q) > 0 /\ sock[p].cumReadNXT = Una(q) + Flight(q)
  BY Zenon, <1>1, <1>4, OnePlace
<1>6. m \in Packet /\ m.ack = sock[p].cumReadNXT /\ m.data = <<>> /\ m.win >= MSS
  <2>1. rcv[p].pkt.ack \in Nat /\ <<>> \in Seq(Nat)
    BY PeerTypes DEF Receiver, Packet
  <2>2. m.win = FreeSpace(p) /\ FreeSpace(p) >= MSS
    BY Zenon, <1>1, ReceiverRoom DEF Segment
  <2>. QED  BY Zenon, <2>1, <2>2, SegmentType
<1> HIDE DEF m
<1>7. Kind(m) = "ack" /\ "data" # Kind(m) /\ None(net[q], Kind(m)) /\ One(net[q], "data")
  <2>1. Kind(m) = "ack" /\ One(net[q], "data")
    BY Zenon, <1>4, <1>6 DEF Kind, Token
  <2>. QED  BY Zenon, <1>5, <2>1
<1>8. /\ net'[p] = net[p] /\ One(net'[q], Kind(m)) /\ ~None(net'[q], Kind(m))
      /\ One(net'[q], "data") /\ (None(net'[q], "data") <=> None(net[q], "data"))
      /\ \A i \in DOMAIN net'[q] :
           net'[q][i] = m \/ \E l \in DOMAIN net[q] : net'[q][i] = net[q][l]
  <2> HIDE DEF q
  <2>. QED  BY <1>2, <1>6, <1>7, SendOne DEF q
<1>9. One(net'[q], "ack") /\ ~None(net'[q], "ack")
  BY Zenon, <1>7, <1>8
<1>10. /\ Una(p)' = Una(p) /\ Flight(p)' = Flight(p) /\ Una(q)' = Una(q) /\ Flight(q)' = Flight(q)
  BY Zenon, <1>2 DEF Una, Flight
<1>11. Packets(p, q)' /\ Packets(q, p)'
  <2>1. Packets(q, p) /\ Packets(p, q)
    BY Zenon, <1>1 DEF Stream1
  <2>2. ASSUME NEW i \in DOMAIN net'[q]
        PROVE  Fits(net[q][i], p, q)' \/ \E l \in DOMAIN net[q] : net'[q][i] = net[q][l]
    <3>1. CASE net'[q][i] = m
      <4>1. Kind(m) # "data" /\ m.ack = Una(q)' + Flight(q)'
        BY Zenon, <1>5, <1>6, <1>7, <1>10
      <4>. QED  BY Zenon, <1>6, <3>1, <4>1 DEF Fits, Kind
    <3>. QED  BY Zenon, <1>8, <3>1
  <2> HIDE DEF q
  <2>3. Packets(p, q)'
    BY Zenon, <1>1, <1>10, <2>1, <2>2, PacketsKept
  <2>4. Packets(q, p)'
    BY Zenon, <1>1, <1>8, <1>10, <2>1, PacketsKept
  <2>. QED  BY Zenon, <2>3, <2>4
<1>12. Token(q, p)'
  <2>1. Len(sock'[q].ackChan) = 0
    BY Zenon, <1>2, <1>5
  <2>4. None(net'[p], "data") /\ sw'[q].pc # "ack"
    BY Zenon, <1>2, <1>5, <1>8
  <2>2. Places(q, p)' = 1
    BY Zenon, <1>1, <1>3, <1>9, <2>1, <2>4, PlacesNow
  <2>3. Places(q, p)' <= 1 /\ One(net'[p], "data") /\ rcv'[p].pc # "full"
    BY <1>3, <2>2, <2>4 DEF One, None
  <2>. QED  BY Zenon, <1>2, <1>5, <1>9, <1>10, <2>3 DEF Token, One, Kind
<1>13. Token(p, q)'
  <2>1. One(net[p], "ack") /\ rcv[q].pc # "full"
    BY Zenon, <1>4 DEF Token
  <2>. QED  BY Zenon, <1>1, <1>2, <1>3, <1>4, <1>8, <1>10, <2>1, TokenKept
<1>14. Reads(q, p)'
  BY Zenon, <1>1, <1>2, <1>10 DEF Stream1, Reads
<1> HIDE DEF q
<1>. QED  BY Zenon, <1>1, <1>2, <1>11, <1>12, <1>13, <1>14, ReaderFrame DEF q
=============================================================================
