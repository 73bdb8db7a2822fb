# A TLA+ model of ip-tcp

This directory holds a formal model of the IP and TCP stack in `src/`: TLA+
modules, TLC configurations that check them on small instances, and TLAPS
proofs of some of the properties for all instances. Paths of sources below are
relative to `src/pkg/`; `tcpstack.go` is `tcpstack/tcpstack.go` and `node.go` is
`node/node.go`. `PROJECT.json` maps every definition to the lines it models.

## 1. The system

A process (`cmd/vhost`, `cmd/vrouter`) is a node of a virtual network. Its links
are UDP sockets.

| Component | Code | State | Operations | Modelled in |
|---|---|---|---|---|
| TCP data transfer | `tcpstack.go` 434-1017 | write and read buffer, window list, `ackChan`, `unackedNums`, `earlyPQ`, ticker, `packetDoneChan` | `VWrite`, `SenderThread`, `slidingWindow`, `retransThread`, `ReceiverThread`, `VRead` | `TCPTransfer` |
| What a connection promises | the same calls | bytes written, bytes read | write, read | `ByteStream` |
| Early-arrival queue | `pq/pq.go`, `tcpstack.go` | heap | push, pop | `TCPTransfer` (`earlyPQ`) |
| RIP | `node.go`, `rip/rip.go` | `forwardingTable`, `nodeLock`, two timers | `Initialize`, `sendRIP`, `protocol200`, `periodicUpdates`, `garbageCollector` | `RIP` |
| TCP handshake | `tcpstack.go` 211-432 | listener and normal sockets | `VConnect`, `VListen`, `VAccept` | `TCPHandshake` |
| TCP teardown | `tcpstack.go` 1019-1094, FIN branches of `ReceiverThread` | state, `finChan`, `unackedFINs` | `VClose`, `deleteTCB` | `TCPClose` |
| Socket table, dispatcher | `tcpstack.go` 166-209 | `SocketTable` | `Initialize` | `TCPHandshake`, `TCPClose` |
| File transfer | `tcpstack.go` 1096-1171 | none of its own | `SendFile`, `ReceiveFile` | `TCPClose` |
| IP forwarding | `node.go` 355-393, 437-596 | `forwardingTable` (read) | `handlePackets`, `FindNext`, `checkDest`, `forwardPacket`, `HandleSend` | `IPForward` |
| Interfaces | `node.go` | `enabled`, UDP sockets | `interfaceRoutine`, `ToggleInterface` | by outcome, in `RIP` |
| RTO estimation | `tcpstack.go`, `recomputeRTO` | SRTT, RTO | one float formula | no: the timers of `TCPTransfer` expire at any time |
| Headers, checksum | `iptcp-headers`, `iptcp_utils` | none | marshalling | no |
| REPL | `repl.go` | none | calls the above | `listenAndAccept`, `s` and `cl` in `TCPHandshake` and `TCPClose` |
| Configuration, commands | `lnxconfig`, `cmd` | none shared | read once; call the above | no |

How they interact. An interface goroutine receives a packet and starts one
goroutine per packet, `handlePackets`. A packet of protocol 200 goes to
`protocol200`, which updates the table under `nodeLock` and sends triggered
updates. One of protocol 6 goes over `TCPChan` to the dispatcher, which passes it
to the socket's `normalChan`. Each connection has a `ReceiverThread`, a
`SenderThread`, a `retransThread` per call of `slidingWindow`, and the goroutines
that call `VWrite` and `VRead`. They share the fields of `NormalSocket`, most of
them without a lock: `unackedMtx` guards only `unackedNums`, `winLock` the window
list, `readMtx` the read buffer on the side of `ReceiverThread`.

What is hard about it, and hardly reached by a test: fields read before a lock is
taken (`VRead`), a lock held across a blocking send (`ackChan`) or leaked by
`continue`, a token that does not say which window it is for
(`packetDoneChan`), `uint16` prediction of a window that another thread
overwrites, segments that overtake, retransmissions that meet their
acknowledgments, probes; and in RIP the order of updates handled by concurrent
goroutines, an entry read half-written or after it was deleted, nodes that
disappear silently, timers against lost updates; in the handshake the one port that
several clients share and the one dispatcher that serves all sockets; at the end
of a connection FINs that meet, overtake data or are lost, and locks that are
held on the way. `PROJECT.json` lists these
hazards line by line with the properties that watch them.

## 2. Modules

    ByteStream              what VWrite and VRead promise
    SeqOps                  three operators on sequences
    TCPTransfer             both ends of an established connection
      MCTCPTransfer         instances for TLC
      TCPTransferTypes      lemmas about operators and types
        TCPTransferProofs     types, acknowledgments, threads; theorems for all workloads
        TCPTransferStream     the invariant of a transfer with room, and steps that keep it
          TCPTransferRefinement   the other steps, the refinement of ByteStream; theorems
                                  with room (extends TCPTransferProofs too)
    TCPHandshake            clients, the dispatcher and a listening port
      MCTCPHandshake        instance for TLC
      TCPHandshakeProofs    invariant, lemmas and theorems
    TCPClose                the end of a connection, sf, rf and cl
      MCTCPClose            instances for TLC
      TCPCloseProofs        invariants, lemmas and theorems
    RIP                     routers and their tables, for one prefix
      MCRIP                 instances for TLC
      RIPProofs             invariant, lemmas and theorems
    IPForward               packets that find their way by the tables
      MCIPForward           instance for TLC
      IPForwardProofs       the loop of FindNext, invariant and theorems

`SeqOps` repeats `ToSet`, `Last` and `RemoveAt` of the community module `SequencesExt`,
because with all of that module in scope every proof step takes several times as long.

The modules meet where the code does. `TCPHandshake` ends where `TCPTransfer`
begins: `Synchronized` says that both ends agree on the numbers that `Init` of
`TCPTransfer` starts from. `TCPClose` takes from `TCPTransfer` the steps of a window
with one segment. `IPForward` lets the learned routes change in any way, which
includes what `RIP` does; its `Arrives` speaks of the tables that `RIP`'s `Settles`
says are reached.

### TCPTransfer

Every variable is a function on the two `Peers`. `wb` and `rb` are the circular
buffers with the code's pointers (`UNA`, `NXT`, `LBW`; `LBR`, `NXT`), `sock` the
other shared fields of `NormalSocket`; `vw`, `sw`, `thr`, `rcv` and `vr` hold where
each goroutine is, with its locals. `net[p]` is everything on the way to `p`: UDP,
`TCPChan` and `normalChan` together. `written`, `got` and `arrived` are history.

| Goroutine | Actions |
|---|---|
| `VWrite` | `VWriteCall`, `VWriteCopy`, `Handoff` (the send on `writeChan`) |
| `SenderThread` | `Handoff` |
| `slidingWindow` | `SendProbe`, `ProbeAck`, `ProbeAgain`, `SendTail`, `AfterSend`, `SkipSend`, `PopAck`, `TakeAck`, `EndRound`, `Return` |
| `retransThread` | `Retransmit`, `ResetTicker`, `TakeDone` |
| `ReceiverThread` | `ReceiveAck`, `AckChanRoom`, `ReceiveEarly`, `ReceiveData`, `ReceiveFull`, `PopEarly`, `Unlock`, `Answer` |
| `VRead` | `VReadCall`, `VReadLocked` |
| network | `Lose`; overtaking by `Receive(p, i)` with `i` up to `Reach` |

Abstractions, and why they keep the behaviour:

* An action is a stretch of code between two points where another goroutine's step
  makes a difference: a lock, a channel, a read or write of a shared field.
* A byte is its position in the stream and a sequence number is taken relative to
  `baseSeq`, so a cell shows which byte it holds. Streams are shorter than 2^32.
* `WINDOW_SIZE` is the constant `W`; it is the modulus of the buffers and of
  `uint16`, as in the code, where both are 2^16, a divisor of 2^32.
* Restarts of a running ticker on acknowledgments only move its next expiry, and
  an expiry may come at any time, so they are left out. An expiry taken by a
  thread that outlives its window finds an empty or unsent window and only
  restarts the ticker; it is left out too.
* A new `retransThread` reaches its `select` before its window is done, and the token
  of an empty window is sent together with the call: nothing else in `slidingWindow` is
  visible in between.
* An expiry is one step with the lock of `winLock` that follows it, and the receipt of a
  packet, with the write of `ClientWindowSize`, one with the lock of `unackedMtx`. While
  they wait for the lock these goroutines have changed nothing but that field.
* When a probe of an empty first segment is acknowledged, `slidingWindow` restarts with
  `winLock` held (`tcpstack.go` 681-684). A `retransThread` that waits for that lock at
  this moment never gets it, and its window is not retransmitted; `ProbeAck` leaves
  this out.
* `Spurious = FALSE` lets a timer expire only when no answer can come any more,
  that is, an RTO longer than the round trip; `TRUE` lets it expire always.
* Each socket has one `VWrite` and one `VRead` at a time. There is no FIN, and
  fewer than ten expiries, so `retransThread` does not give up
  (`TicksAssumption`). FINs are the subject of `TCPClose`.
* The third conjunct of the condition to send, on the distance between head and
  tail of the window, is always true while there is a head. The invariant
  `WindowHasTail` checks this, and that there is a head.

### RIP

Entries for different prefixes do not influence each other, so the model follows
one: `route[n]` is `n`'s entry. `up` tells whether `n`'s process runs, and whether
`handlerTable` is filled yet; `job` holds the goroutines that are in `protocol200`
or in the middle of sending; `lock` is `nodeLock` where it is held across two
steps; `req` and `upd` count packets on the way, which are delivered in any order.

| Code | Actions |
|---|---|
| `Initialize` | `Start`, `Ready`; `Panic` if a packet finds `handlerTable` empty |
| end of the process, `ToggleInterface` | `Stop` |
| `protocol200` | `Request`, `Learn`, `Better` then `SetNext`, `Worse`, `Refresh`, `Ignore` |
| `sendRIP` | `SendRIP`, once per neighbor |
| `periodicUpdates`, `garbageCollector` | `PeriodicUpdates`, `GarbageCollector` |
| time, UDP | `Tick`, `Lose` |

`sendRIP` reads the cost and then the next hop of an entry without `nodeLock`: the
set `seen` of a job has every cost it may have read, and `info` keeps an entry that
was deleted while it is being sent. Time has a grid of 2.5 s, which 5 s, 7.5 s and
12 s fall on or between (`Period`, `Sweep`, `Lifetime`). Time passes when all that is
due is done: packets and handlers are faster than the grid, and a route is at
least 12 s old exactly if five units have passed. A neighbor's address stands for
the neighbor, static routes are left out, and the encoding of `rip.go` only
matters by what it carries.

### TCPHandshake

`cl[c]` is `VConnect` of client `c` with its socket, `srv[c]` the server's socket for
`c` in `SocketTable`, `acc` where `VAccept` is, `disp` the packet that the dispatcher is
trying to send on `listenChan`. A client's addresses and ports are the client.

| Code | Actions |
|---|---|
| `VConnect` | `VConnect`, `ClientReceive`, `Timeout`, `TimeoutEarly` (both count an attempt: `Again`) |
| dispatcher of `Initialize` | `ToSocket`, `ToListener`; `ClientDrop` at a client that gave up |
| `ReceiverThread` | `ClientAnswer` at a client that is connected; at the server in `ToSocket` |
| `VListen`, `listenAndAccept`, `cl` | `VListen`, `VCloseListener` |
| `VAccept` | `AcceptSyn`, `SendSynAck`, `AcceptAck`, `Established` |
| after the handshake | `Data`: a client's first segment, sent until it is received |

The packets on the way are bags, so they arrive in any order. The 3 s of `VConnect` end
when nothing else can happen, and `MaxEarly` times before that. The sequence
numbers are those of the code, 5000 and 6000.

A packet of the handshake that comes late is an ordinary packet to `ReceiverThread`: it
takes a second `SYNACK`, or an empty `ACK`, for a segment without data, goes to its number
(`TakesNumber`) and answers. The answer is an empty `ACK` too, so two established ends may
answer each other for ever (`Chatter`); timers and fairness do not wait for that.

### TCPClose

`sk` is the socket of each end, with its two mutexes; `snd`, `rcv`, `app`, `cls` and `fin`
are the goroutines: `SenderThread`, `ReceiverThread`, the application, the calls of
`VClose` (the application's own and the user's), and the goroutine that `VClose` leaves
behind. A chunk of the file is one segment and one sequence number, so a window has
one segment and `retransThread` never counts up to its give-up.

| Code | Actions |
|---|---|
| `SenderThread`, `slidingWindow` | `Handoff`, `MoveNXT`, `SendChunk`, `PopAck`, `WindowDone`, `Retransmit` |
| `ReceiverThread` | `ReceiveFinAck`, `ReceiveAside`, `ReceiveNext`, `FinState`, `PopEarly`, `Answer` |
| `VClose` | `VCloseCall` (within `WakeUp` and `UserClose`), `VCloseState`, `VCloseSend` |
| its goroutine | `FinChan`, `FinDelete`, `FinAcked` |
| `SendFile`, `ReceiveFile`, `VWrite`, `VRead` | `VWrite`, `VWriteCopy`, `WakeUp`, `ReceiveLoop`, `VRead`, `VReadLocked` |
| TIME_WAIT, dispatcher, UDP | `TimeWaitOver`, `Unknown`, `Lose` |

The loop of `VWrite` computes its room as the code does (`Room`), with the result that it may
find none and go on with empty chunks (`Starved`, section 5). Sleeps and timers end when
nothing else can happen (`Quiet`, which such a loop does not count against): 50 ms outlast what is
under way. The mutant `WakeUpAtOnce` shows what depends on that. `WakeUp` repeats one
consequence of `Quiet` in its guard, that `SenderThread` has nothing it could send,
because a proof cannot take it out of `ENABLED`.

### IPForward

`learned[n]` has the next hop of each learned route of `n`, `net` the packets on the way,
`fate` what became of each packet. `HandleSend` and `HandlePackets` are the code's
functions, `RouteChanges` is whatever RIP does to a table. An address is a number and a
prefix a range of them; `FindNext` folds over the entries in every order, because a Go
map may be traversed in any. Each packet is handled by its own goroutine, and one
handling is one action: it reads each table once, at one moment, although the loop of
`FindNext` holds no lock. A static route with the prefix of an interface is replaced by
the interface's entry (`StaticRoutes`); RIP is taken to tell a node nothing about the
prefixes of its interfaces and static routes. Checksums are taken to be right.

## 3. Runs

| Run | Properties | States | Shows |
|---|---|---|---|
| `transfer_roomy` | `ReliableStream`, `ReadNXTForward`, `UnreadKept` | 733k | With room in the buffers, a loss and two expiries: `VRead` returns what `VWrite` got, in order, once; `cumReadNXT` never moves back; unread bytes stay. |
| `transfer_early` | `TypeOK`, `AckedArrived`, `ThreadPerToken`, `WindowHasTail` | 697k | Overtaking, a premature expiry, `ackChan` full, three cells that the writer fills, probes: no acknowledgment is ahead of the data; threads and tokens balance; `slidingWindow` never uses an empty list. |
| `transfer_live` | `Delivered`, `WriteReturns` | 66k | Under fairness with one loss and messages of up to two chunks: all bytes arrive while the window stays open, and `VWrite` returns unless it is starved (section 5). |
| `handshake` | `TypeOK`, `Synchronized`, `ClientFirst`, `ConnectReturns`, `DispatcherServes`, `AllConnect` | 321k | Two clients at one port, a loss, an early timeout, a listener that may be closed: the server expects what the client sends next, and the client what the server sends next if no timer was early, an `ACK` of one client never ends the handshake of another, `VConnect` returns, the dispatcher goes on, and all connect if no `SYNACK` is lost and no timer is early. |
| `close_file` | `TypeOK`, `OneFin`, `FinsExchanged`, `FinAfterData`, `FileComplete`, `OrderlyClose` | 24k | `sf` with three chunks and `rf`, with a loss, overtaking, and a user who closes the receiver: one FIN per end, none before the data, no deletion before both FINs were taken; without loss the file is complete, and if the user does not interfere and `VWrite` is not starved both sockets are deleted. |
| `rip_triangle` | `CostSound` | 76k | Two handlers per node, two faults (stop or loss): no table and no packet claims a route shorter than there is. |
| `rip_line` | `TypeOK`, `NoneExpires`, `Settles` | 260k | A node may stop or panic, or a packet be lost: the rest settle on the shortest routes, or on none; while all stay on no route expires. |
| `forward` | `TypeOK`, `LongestMatch`, `PacketsEnd`, `Arrives` | 14k | Nested prefixes, changing routes, a loss: the longest prefix wins in every order, every packet ends, and it arrives while the routes are right. |
| `zero_window` | `Delivered` | violation | see section 5 |
| `dup_ack` | `Delivered` | violation | see section 5 |
| `vread_wakeup` | `WaitsOnlyForData` | violation | see section 5 |
| `close_simultaneous` | `LeavesFinWait1` | violation | see section 5 |

`ReliableStream` is refinement: `TCPTransfer` implements `ByteStream`, `written`
standing for `in` and `got` for `out`.

Bounds. `W` is 3 to 8 and `MSS` 2, so that every pointer wraps around, a message is
cut into several segments and a segment into two pieces by the end of the
buffer. A window has one node, two after a segment that was cut to the predicted
window, and three at most in anything TLC was given (section 5). `AckCap` 1 or 2 makes `ackChan` fill up; `Reach` 2 lets neighbors on
the wire swap. `Outstanding` bounds what is written and not yet read: 2 of 5
cells or 4 of 8 keep the window open, 6 of 3 or 4 close it. One loss and one or two expiries cover a lost segment,
a lost acknowledgment and a retransmission that is answered twice; more are not
explored and section 5 says what is known there. `CHECK_DEADLOCK FALSE` in the
transfer runs: the bounded writer comes to an end. For RIP, three nodes in a
line are the smallest network with a route learned from a learned route, the
triangle the smallest with a choice; `INFTY` 4 exceeds every distance; three starts
let every node run, or one that stopped start again; `MaxFaults` counts stops and
losses together. `FirstUnits` ends the triangle after the first unit of time; the
sweeps and periodic updates after it are in the line. Two clients are enough for one
handshake to meet another's packets; three without faults pass as well.
In a file of three chunks `VWrite` looks for room twice, before or after the acknowledgment
of what it has handed over. In
`forward` a TTL of 4 is larger than the longest way (three handlings) and smaller
than a few rounds of a loop, and one prefix lies inside another. `CHECK_DEADLOCK
FALSE` in these three runs: connections, files and packets come to an end.

Fairness. In `FairSpec` of `TCPTransfer` each goroutine that can take a step does so
(weak fairness: Go's scheduler is preemptive). `TimerStep` needs `winLock`, which
`slidingWindow` takes and releases in every round; Go's mutexes hand over to a
goroutine that has waited a millisecond, so it is strongly fair. The reader keeps
calling `VRead`; nothing is assumed of the writer or of losses. In `RIP` one weak
fairness condition says that nodes go on while they can and that time passes then.
Nothing is assumed about starts, stops and losses. In `TCPHandshake` and `TCPClose`
each goroutine that can take a step does so, and sleeps and timeouts end; no user has
to listen, connect or close. In `IPForward` some packet is handled while there are
any: each has a goroutine of its own, and none waits for another.

## 4. Proofs

TLAPS checks the following for all values of the constants that the assumptions in the
modules allow. Each invariant was checked by TLC before it was proved. No proof uses a
bound on losses, overtaking or the length of a stream.

### TCPTransfer, every workload and timer

For every `W`, `MSS`, `AckCap`, workload, loss and reordering (two peers,
`0 < MSS < W`, naturals, fewer than ten expiries):

* `TypeCorrect`: `Spec => []TypeOK`. Pointers stay in the buffers, `uint16` values in
  range.
* `AcksArrived`: `Spec => []AckedArrived`. What is acknowledged, or counted as
  acknowledged, has been stored at the other end.
* `ThreadsAccounted`: `Spec => []ThreadPerToken`. One `retransThread` for the window in
  progress and one for a token still in `packetDoneChan`.

`TypeOK` alone is not inductive: `AfterSend` uses the last node of the window, and
`ProbeAck` cuts a byte from the first segment of the call when `tailLen` says that it
has one. So the invariant is `IInv == TypeOK /\ WindowShape /\ AcksTrue`.
`WindowShape` says that a window has a node right after a send, and that the first
segment of the call has the length `tailLen`.
`AcksTrue` strengthens `AckedArrived` to every place where an acknowledgment number
waits: `cumReadNXT`, `cumWriteUNA`, `ackChan`, the acknowledgment just taken, the packets
of the window list and of the probe, those on the way, and the one
`ReceiverThread` holds. `Got(A, n)` says that `A` has all numbers below `n`; it is kept
because a segment is only stored if it does not start beyond `cumReadNXT`, and
`arrived` only grows. `ThreadPerToken` rests on `AllAccounted`, which adds that the thread of the
present window (`cur`) exists only while `slidingWindow` runs: without it a new window
could start its thread over a living one and the count would be lost.

### TCPTransfer, with room in the buffers

The properties of the byte stream are not true of every workload (section 5): a segment
can overwrite unread bytes when as many bytes are outstanding as there are cells, and an
old duplicate, which only an early timer makes, can move `cumReadNXT` back. The theorems
of `TCPTransferRefinement` therefore have the hypothesis
`Roomy == ~Spurious /\ Outstanding + MSS < W`: the writer leaves room for one segment, and
timers expire only when no answer can come any more. The run `transfer_roomy` is one
such instance. Under it, for every `W`, `MSS`, `AckCap`, number of losses, overtaking and sizes of
writes and reads:

* `StreamReliable`: `Spec => ReliableStream`, the refinement of `ByteStream` in both
  directions.
* `StreamForward`: `Spec => ReadNXTForward`, an action property.
* `StreamUnread`: `Spec => UnreadKept`, an action property.
* `StreamWindow`: `Spec => []WindowHasTail`.

The argument is that the protocol is then stop-and-wait. The invariant `StreamInv` (module
`TCPTransferStream`) says of
each direction: `slidingWindow` has nothing, one segment to send, or one segment out
(`Phase`); the write buffer holds what is not yet acknowledged, and the pointers are
the numbers of the stream modulo `W` (`Sends`); the read buffer holds what arrived and
was not read, and `got` is a prefix of the stream (`Reads`); packets on the way carry the
segment that is out or acknowledge it (`Packets`, `Acks`); and of that segment and its
acknowledgment there is one copy at most, counted over the network,
`ReceiverThread`, `ackChan` and `slidingWindow` (`Token`). `Token` is what makes the
rest work: a timer expires only when the count is zero, so a retransmission never
meets its earlier copy, and a segment never arrives early. That no probe is ever
sent follows from the room. The arithmetic on pointers is kept in lemmas of its own
(`ModPlus` and those after it), since a step that has both `%` and the buffers in it is too
much for the SMT solver. Each action has a lemma that it keeps `StreamInv`; `InnerStep` says
which actions leave `written` and `got` alone, and the others are `Write` (`VWriteCopy`) and
`Read` (`VReadCall`, `VReadLocked`) of `ByteStream`. TLC checked `StreamInv` on all 16,185,055 states
of an instance with `W = 4`, and on 17 million states of one with `W = 5` and data both ways.

### TCPHandshake

For every set of clients and every bound on losses and early timeouts:

* `HandshakeTypeCorrect`: `Spec => []TypeOK`.
* `HandshakeSynchronizes`: `Spec => []Synchronized`. From the client to the server the
  numbers agree always, from the server to the client while no timer was early.
* `HandshakeClientFirst`: `Spec => []ClientFirst`.

`ClientFirst` is not inductive, because `VAccept` takes an `ACK` from anyone. The invariant
says why it is the right one: an `ACK` comes from a client that is done (`ToServer`); that
client has a socket at the server (`ClientInv`); the dispatcher passes the `ACK` to
`VAccept` only while that socket is in SYN_RECEIVED, and the only such socket is the one
`VAccept` works on (`ServerInv`, `AcceptInv`, `DispatchInv`).

`Synchronized` needs more since `ReceiverThread` takes late packets of the handshake for
segments. What a client acknowledges of the server's numbers is 6000 or 6001, and 6001 if no timer
was early (`Acked`, in `ToServer`, `ToClient` and `ClientEnd`). What could still set a client's number back is a second
`SYNACK`. `WishInv` counts what can become one: SYNs on the way or with the dispatcher, the
`SYNACK` that `VAccept` is about to send, and those on the way. While no timer is early there
is one at most for each client, and none once it is connected, because a SYN is sent
again only when nothing of the last one is left.

### TCPClose

For every file, every number of losses and any overtaking:

* `CloseTypeCorrect`: `Spec => []TypeOK`.
* `CloseOneFin`: `Spec => []OneFin`, whoever calls `VClose`.
* `CloseFinsExchanged`: `Spec => []FinsExchanged`, if `Careful` holds: no user closes a socket
  that an application writes to. Without that it is false (section 5). The run
  `close_file`, with a user who closes the receiver, satisfies it.

`IInv` adds to the types that an open socket has sent no FIN, and that one `VClose` at most
is between leaving the open states and sending (`Once`). `JInv` is about numbers: the
FIN's number is `NXT`, because nothing is sent after `VClose` is called (`Calls`, `Silent`); as
long as an end has not taken the FIN, no acknowledgment it sends, and none on the
way, exceeds the sender's `NXT` (`Nums`), while the FIN waits for `NXT + 1`; so a state that
says the FIN was acknowledged implies that it was taken (`Fins`). An end without a
file never is in the loop of `VWrite` (`Writing`), so nothing is handed over there.

### RIP

For every network, infinity and number of handlers that the
assumptions of `RIP` allow; of `Dist` the proof uses that it is 0 at the origins and differs by
at most one between neighbors.

* `RIPTypeCorrect`: `Spec => []TypeOK`.
* `RIPCostSound`: `Spec => []CostSound`. No table and no packet claims fewer hops than
  there are.

`CostSound` is not inductive: a packet is made from what a goroutine read of an entry,
perhaps while it was written, or of an entry deleted since. The invariant follows
a cost from the table (`RouteInv`) into the goroutines that send it (`JobInv`: every cost in
`seen`, and the deleted entry in `info`, is sound), into packets between neighbors (`ReqInv`,
`UpdInv`) and, one hop added, back into a table. `WriteInv` says that a handler between
its two writes holds `nodeLock` and that the entry is still there.

* `RIPNoneExpires`: `Spec => []NoneExpires`, if `Tree` holds: neighbors name each other and
  are not equally far from the prefix, and a node has one neighbor at most that is nearer.
  The run `rip_line` is such a network. Nodes may start late, and panic while they start.

`NoneExpires` says nothing about how a route is kept young, so `TreeInv`, which holds while
no node was stopped and one packet at most was lost (`Calm`), describes the whole traffic: every
route is the shortest one and leads to a neighbor that is on and has a route (`TreeRoute`),
goroutines send what the table says (`TreeJob`), and so do packets (`TreeUpd`). It follows that
a response either comes from the nearer neighbor and confirms the route, or says infinity
(`Heard`, `HeardCost`), so that `protocol200` neither replaces nor deletes a route
(`NoChange`). `Fresh` then measures time: the age of a route and the time to the next periodic
update of its next hop are together at most one period, and one more if a packet was lost,
unless a response is sent or on the way. Two periods are 10 s, and
`garbageCollector` deletes after 12 s. The argument is about trees because elsewhere a node
may have its route from either of two neighbors, or get a longer one first. TLC finds
`NoneExpires` true on a triangle too (no loss, one handler).

### IPForward

For every network of finite tables, every traffic and every change of learned routes:

* `ForwardTypeCorrect`: `Spec => []TypeOK`.
* `ForwardLongestMatch`: `Spec => []LongestMatch`.

The loop of `FindNext` is a fold, and `LoopFindsLongest` says what it returns for
every order of the entries. The library's induction theorem cannot be used here, so
`InductionOnNat` is proved for sets of numbers from the least counterexample, and the fold
from the function that defines it. `TableType` says that a table is a finite set of
entries, so that there is an order at all. The invariant adds that
a packet under way has exactly one copy (`NetInv`).

### Only model-checked

* All liveness properties: `Delivered`, `WriteReturns`, `ConnectReturns`,
  `DispatcherServes`, `AllConnect`, `OrderlyClose`, `Settles`, `PacketsEnd`, `Arrives`.
* `FinAfterData` and `FileComplete`: they hold because sleeps outlast what is under way, and
  that is said with `ENABLED`, which the prover cannot unfold.
* `NoneExpires` on networks with cycles: routes are replaced there while they are being
  told, and `TreeInv` does not hold.
* `WindowHasTail` outside `Roomy`, in `transfer_early`.

## 5. Where the code and its documents disagree

* `zero_window`. After a probe, `slidingWindow` cuts the probed byte from `tail`, the
  first segment of the call, and not from `window.tail`, which is sent next
  (`tcpstack.go` 686). That segment has the probe's own number (728), so the byte goes out
  again under the same number and the receiver stays in step. The sender does not:
  the probe has moved `NXT` by one, the segment moves it by its whole length (700), and `NXT`
  is one ahead of `UNA` when all is acknowledged. `SenderThread` takes the next chunk from
  `NXT` on (474-485), and the byte before it is never sent. `src/README.md` says
  that the known issue with probing "does not seem to affect other functionality".
* `dup_ack`. An acknowledgment seen before is skipped by `continue` with
  `unackedMtx` locked (`tcpstack.go` 758); both threads of the socket then block.
  The comment at 766 says "can ignore ACKs before UNA".
* `vread_wakeup`. `VRead` computes `num_buf` before it locks `readMtx` (984); a segment
  stored in between leaves it waiting with data in the buffer, against the
  comment "block if nothing to read".

* `close_simultaneous`. If both ends close at once, each gets the other's FIN in
  FIN_WAIT_1. `ReceiverThread` then changes no state and leaves `stateMtx` locked
  (`tcpstack.go` 844). `src/README.md` calls `VClose` "a straight implementation of the
  RFC", which enters CLOSING or TIME-WAIT here.

There are things that no document rules out. `VWrite` may not return: for every chunk of a
message but the first it takes the room to be what lies between `LBW` and `UNA - 1`
(`tcpstack.go` 948), which is nothing, and not the whole buffer, when all that was
handed over is acknowledged. It then hands over empty chunks, for which `UNA` never moves, for
ever. This takes a message of more than one chunk whose first chunks are acknowledged
before the loop comes round. `Starved` names this state in both modules; `WriteReturns`
and `OrderlyClose` exclude it, and say that nothing else keeps `VWrite` from returning, or
the sockets from being deleted. A client whose timer was early can be sent a second
`SYNACK` after it is connected; its `ReceiverThread` then goes back to number 6000, one
before the server's first byte. Empty acknowledgments are answered like segments, so two
ends may exchange them without end.

Beyond the bounds of the passing runs: with two losses the thread of the next window can take an earlier
thread's token, and that window is not retransmitted; with as many bytes outstanding
as cells a segment can overwrite unread bytes; an old duplicate that overtakes can
move `cumReadNXT` back; with `W = 5` a loss while the predicted window is zero is neither
retransmitted nor probed. Probes have two more effects. With `W = 5` a probe while
the window has a second segment makes `NXT` run ahead, and the empty chunk that is
collected then is a third node with bytes that were never written. With `W = 4`,
`MSS = 3`, early timers and overtaking, the answer to a repeated probe that finds room
can overtake the first answer, which finds none; `slidingWindow` then probes with an
empty segment, and `packet.payload[1:]` (`tcpstack.go` 680) panics. This takes some ten
million states, too many for a run. The hazards in `PROJECT.json` say where each of
these bites.

The same holds of connections that begin or end badly. FINs and SYN+ACKs are sent once, so a
lost one leaves its end waiting; after a loss `ReceiveFile` may leave its loop before it
has read the rest; a second acknowledgment of a FIN blocks `ReceiverThread` on
`finChan`; `ReceiveFile` accepts once and keeps the port, so another SYN blocks the
dispatcher; a client whose timer is early can be given a second socket. A user who
closes a socket that an application writes to can have `VClose` read the FIN's number
before a chunk is sent and send the FIN after it: the two have the same number, and
the acknowledgment of the chunk is taken for that of the FIN. The properties state their conditions (`lost = 0`, `early = 0`) for these reasons.

## 6. Not modelled

* `retransThread` giving up after ten expiries, with the `VClose` it calls. It needs a
  chunk that a small window has cut in two, and ten expiries in a row: the product of
  `TCPTransfer` and `TCPClose`, out of TLC's reach.
* `recomputeRTO`: floating-point arithmetic that only decides when a timer expires; in
  the models it expires at any time.
* Byte layouts of the IPv4, TCP and RIP headers and their checksums, and the
  configuration parser: no state, no concurrency. A RIP packet cut off by
  the receive buffer of 1400 bytes is not modelled for this reason.
* `SID_to_sk`, the random port, and `ls`, `li`, `ln` and `lr`, which print.
* Disabled interfaces: `ToggleInterface` locks a nil mutex, so the commands `up` and
  `down` end the process, which is `Stop` of `RIP`.
* Concurrent map access in `FindNext`, which the Go runtime may turn into a crash.
* In the runs, a user who closes the sending end in the middle of a transfer (the
  module has it; see section 4); in the modules, several `VWrite` and
  `VRead` calls at one socket at a time.
