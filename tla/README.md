# A TLA+ development for muQuinet

muQuinet is a user-space TCP/IP stack on a Linux TUN device.  An application is
started with `LD_PRELOAD=muquinet-posix.so`; its socket calls are turned into
Requests on a UNIX `SOCK_SEQPACKET` channel, one channel per socket, to the
daemon `muQuinetd`, which owns the protocol stack.  This directory holds models
of that program, the TLC configurations that check them, and TLAPS proofs.  Paths
below are relative to `src/muquinetd/` (`interceptor/` and `rpc/` to `src/`, `tests/` and
`CMakeLists.txt` to the root of the repository).

## 1. The system

Threads.  The daemon has three that do work: the *event loop* thread
(`mux/Mux.cpp:114`), the *IP* thread (`ip/Ip.cpp:72`) and the *TUN* thread
(`interface/Interface.cpp:64`).  An application has whatever threads it likes; its
calls block in `channel_recv`.

| component | state | operations | partners |
|---|---|---|---|
| Interceptor (`interceptor/`) | table fd -> channel, last fd assigned | socket, connect, close, sendto, recvfrom, getpeername, getsockname | one request channel per socket |
| Request channel (`mux/req-resp-channel/ReqRespChannel.cpp`) | fd, Socket, callbacks | read+handle+write, write, EOF, HUP | Mux list of channels, event loop, RequestHandler |
| Event loop (`mux/eventloop/`) | list of channels, epoll set, batch of active channels | add/remove/update channel, loop, stop | every SelectableChannel, by raw pointer |
| Mux, MasterListener (`mux/Mux.cpp`, `mux/req-resp-channel/MasterListener.cpp`) | list of request channels | accept, add, remove | event loop |
| Request protocol (`rpc/`) | none | encoding and decoding, generated twice: C++ for the daemon, C for the interceptor | both ends of a request channel |
| RequestHandler (`mux/RequestHandler.cpp`) | none | one handler per call, two asynchronous callbacks | Socket, Pcb, channel |
| Socket (`mux/Socket.cpp`) | recvQ, notification pipe, `waiting`, callback | put, take, try_take, notify, sChannelReadCb | IP thread puts, event loop takes |
| Pcb layer (`Pcb.cpp`, `udp/`, `tcp/`) | addresses, ports, list of pcbs, connection state | bind, connect, disconnect, send, recv, find | event loop sends, IP thread receives |
| TcpPcb (`tcp/TcpPcb.cpp`) | state, send and receive sequence variables | connect, send, recv, ack | peer, Socket, Ip |
| IP (`ip/Ip.cpp`, `ip/IpHeader.cpp`) | rxQ, id generator | enRxQue, rx_loop, tx | TUN thread, Pcb layer |
| Defrager (`ip/frag/Defrager.cpp`) | contexts with fragment chains, timers | defrag, timeout | IP thread |
| Interface, TunDevice (`interface/`) | TUN fd | rx_loop, tx | IP |
| Lifecycle (`muQuinetd.cpp`) | running flag | init, run, stop, exit | everything |

What is hard here: a flag and a queue shared between two threads with a pipe as
the only wakeup; raw pointers in an epoll batch; lifetimes split between the
event loop and the IP thread; a blocking dequeue inside the event loop; a TCP
without retransmission; reassembly with hand-written bounds; 16-bit counters
that wrap; lists and fields of Pcbs read by one thread while the other writes
them; responses that overtake one another; a protocol whose two ends are generated
by different compilers and whose answers are read through one another's pointers.

## 2. Modules

| module | models | composed with |
|---|---|---|
| `RecvService` | the promise of a receiving socket: a bounded FIFO, one answer per call | implemented by `SocketRecv` |
| `SocketRecv` | the path of a packet from the IP thread over `recvQ`, the notification pipe and the event loop to an application's `recvfrom` | uses `RecvService` (INSTANCE) |
| `ByteStream` | the promise of one direction of a stream | implemented twice by `TcpClient` |
| `TcpClient` | `TcpPcb` with both threads of the daemon, a peer and a network | uses `ByteStream` (INSTANCE, once for each direction) |
| `Defrag` | the IP thread's receive loop and `Defrager::defrag` | - |
| `ChannelLifetime` | who holds request channels, Sockets and Pcbs, the event loop's raw pointers, and when what is destroyed | - |
| `NetPath` | Pcbs, their lists, ports and addresses, `find`, and the identifications of what is sent, with both threads interleaved at each access to a field | - |
| `Protobuf` | what the generated C++ methods and the protobuf-c runtime do with a message, given the tables of its class | used by the next four |
| `RequestSchema`, `ResponseSchema` | the tables of the generated classes of both languages | extend `Protobuf` |
| `Messages` | any message from one language to the other | extends the schemas |
| `RpcCalls` | an application's calls through the interceptor, the protocol and the handlers | extends the schemas |
| `MCSocketRecv`, `MCDefrag`, `MCNetPath`, `MCMessages`, `MCRpcCalls` | values for TLC | extend the module they are named after |
| `SocketRecvProofs`, `ChannelLifetimeProofs`, `NetPathProofs`, `TcpClientProofs`, `DefragProofs` | theorems and proofs | extend the module they are named after |
| `ProtobufProofs` | lemmas about `Protobuf` for the tables of every message: what a wire holds, what a reader gets, where a pointer into another struct leads | extends the schemas |
| `MessagesProofs`, `RpcCallsProofs` | theorems and proofs | extend `Messages` and `RpcCalls`, and `ProtobufProofs` |

`SocketRecv`, `ChannelLifetime` and `RpcCalls` are three views of the same calls.  The
first keeps every packet and wakeup and lets sockets live for ever; the second keeps
counts and flags and lets everything be closed and destroyed; the third keeps what the
messages say, and handles a Request in one step.  `NetPath` decides which Pcb gets a
packet.  `TcpClient` is one Pcb from there on and stops where a payload enters `recvQ`,
which is where `SocketRecv` begins; `Defrag` stops where a datagram is handed to `Udp::rx`
or `Tcp::rx`, which is where `NetPath` begins.

### SocketRecv

| variables | in the code |
|---|---|
| `recvQ`, `waiting`, `cbAddr` | `Socket::Impl` (`mux/Socket.cpp:47-68`); `cbAddr` is what `recvfromCall` binds into the callback |
| `pipe` | bytes in `new_packet_notify_pipe` |
| `req`, `resp` | the two directions of the request channel |
| `actives`, `taking` | the batch `EventLoop::loop` works through, and the socket in whose `wait_dequeue` it is |
| `ipPc`, `ipSock`, `arrived` | the IP thread inside `Socket::putToRecvQ` |
| `cstate` | what each application thread is inside |
| `answered`, `got` | histories: packets the event loop took, packets `recvfrom` returned |

One action per step that another thread can see.  The IP thread tests the size
(`IpArrive`), enqueues (`IpEnqueue`) and writes the pipe (`IpNotify`).  The event
loop polls, reads and answers a Request (`onReadReady`, with `recvfromCall` or
`sendtoCall` inside), drains a pipe (`sChannelReadCb`) and takes the packet
(`onAsyncNewPacket`, which is blocked as `wait_dequeue` is).  A client calls, skips
WAIT_NEXT and returns or, where the interceptor's assertion fails, aborts.
`recvfromCall` is one action because the flag is the event loop's own: the IP
thread's steps commute with the setting of it.

### TcpClient

`conn_state` to `fport` are the members of `TcpPcb` and `Pcb`.  The event loop
thread (`evPc`, `evOut`) and the IP thread (`ipPc`, `ipOut`, `ipCallback`) each build
a segment in steps, because `send` stores `send_next` and then reads `recv_next`
while `recv` and `ack2peer` store `recv_next` and then read `send_next`, without a
lock.  `StoreDelay` lets the read of `send` pass its store, which the hardware may
do.  Definitions that begin with `Peer` or `Net` are not part of the program: the
peer follows RFC 793 and keeps `Window` bytes in flight, the network loses,
duplicates and reorders within budgets.  A byte of payload is its position in the
stream, so that a loss, a repetition or an exchange is visible.

### Defrag

`ctx` maps a header (id, protocol, addresses) to the chain of fragments of its
`DefragContext`, `delivered` is what goes to the transport layer.  `ours_off` does
what `Defrager.cpp:137` does on a little-endian machine: it masks the field before
its bytes are exchanged.  `NullPrev` is the branch in which `prev` is null.  `Packet`
has where the transport header and the payload of the later buffers are looked for
(`begins`), and `UserBytes` is what `recvfrom` then copies of it.  The
datagrams are fragmented as RFC 791 says (`FragmentsAssumption`): without gaps or
overlaps, all but the last in units of eight bytes; the code does not look for anything
else either.

### ChannelLifetime

A `shared_ptr` is a predicate: `RrLives`, `SocketLives` and `PcbLives` say who holds
the object - Mux's list, the ReqRespChannel, the Socket, or a local variable of
the event loop (`loop` at "take" or "reply") or of the IP thread (`ip` at one of its
places).  `weak_ptr`s hold nothing; `CallbackHoldsRr` is the place where a callback
bound to a `shared_ptr` would.  `Destruct` is the part of an action in which the
destructors of what no longer lives take their channels out of the event loop.
The batch holds raw pointers, so a pointer to a dead channel stays in it; `fault`
records such an access, or a change of the event loop's vector by the IP thread
while the event loop is in it.  What follows undefined behaviour is open: the
daemon goes on or crashes (`up`).  A null pointer always crashes.

Two facts of Linux are used.  A `SOCK_SEQPACKET` UNIX socket whose peer closes with
unread data gives ECONNRESET once; `onReadReady` then goes on with an empty Request
and answers it (`ReadReset`).  Writing to a closed one gives EPIPE without SIGPIPE
(`Write`).  The pipe `estab` of a TcpPcb is registered, and never written.

### NetPath

`pcb` has the fields of `Pcb.h` that the two threads share, `port` the static counters of
`nextAvailPort`, `last` is `IpIdGenerator::last`.  An operation of the event loop
(`connect`, `send`, `sendto`) is the sequence of its accesses, kept in `ev.todo`: each
write of `faddr` or `fport` (`EvSet`), the bind, the state test of `send`, the load and the
store of the id generator is an action.  The IP thread (`ip`) takes a packet with a copy
of the list (`Take`), reads local port, foreign port and foreign address of each Pcb
(`ReadLport`, `ReadFport`, `ReadFaddr`), hands the packet over (`Recv`) and acknowledges
(`IpLoad`, `IpStore`).  `IsOf` is the list: `Pcbs` are numbered as they were made, and
`removePcb` is empty in the code, so that a closed Pcb stays in it, expired.

The copy of the list is one step, and so are the two reads of `fport` that follow each
other.  `in_addr_match` returns 2 where the code returns -1.  `rxQ` does not appear, since
it has no bound (`qSizeLimit` is not used) and the IP thread takes from it in order.
History variables say which Pcbs an operation changed during the walk (`moved`), what
`connect` was given (`asked`), who established a TcpPcb (`opener`), how many ports were
given out and to whom (`allocated`, `ticket`), and the last `MaxId` identifications
(`ids`).

### Protobuf, the schemas, Messages

The generated code is ten thousand lines of twelve methods repeated for each message;
what differs is in tables, and these are what the schema modules transcribe: for each
C++ class the tags its parser knows (`_reads`), what its serializer writes (`_writes`), the
mask of `IsInitialized` and the has-bits; for each C message the field descriptors
and the members of its struct in order.  They are taken from the generated files and not
from the `.proto` files, separately for each language: that the two agree is what
`Messages` checks.  A wire is a sequence of tags and values; varints and lengths are left
out.  Writers go over the table and append what is set (`Written`); readers go over the
wire, and the last item with a tag stays (`Changed`).  `Aliases` computes offsets in the C structs, because the interceptor reads the
answers of sendto, getpeername and getsockname through another answer's pointer.

### RpcCalls

`table`, `startfd` and `count` are the interceptor's globals, `chan` a request channel with
what waits in it and the Socket behind it, `thread` what each thread of the application is
in.  A call looks the channel up when it sends and again when it receives (`Send`,
`Lookup`), because `fd2channel` appears twice in `interceptor.c`.  `Deliver` has the
assertions and the copies; `client` and `daemon` record how a program ended: by an
assertion ("assert", only in a Debug build), a null dereference, a read beyond the answer
("garbage"), a write beyond a buffer ("overrun"), the daemon's read beyond its own
("overread"), or `exit` where `new_channel` finds no daemon.  `next_avail_fd` is the same each time, as `last_fd_assigned` is never advanced
(`interceptor/fd-assigner.c:105`).  The handlers of poll, select, fcntl and the socket
options have no body and the interceptor sends none of these.

Sizes.  A message has room for `MaxData` bytes of data, which stands for
`RPC_MESSAGE_MAX_SIZE`.  `channel_send` and the daemon's `write` test for it with an assertion
only; a Release build packs the Request over the end of its static buffer, or sends
what lies behind `wrbuf`, after which the model does not follow that program.  `CopyOut`
copies as many bytes as the packet has and compares with the room the caller gave
(`interceptor/interceptor.c:391` does not).  A packet longer than a datagram may arrive,
because `Defrager` leaves 15 bytes of header ahead of the payload of each later fragment.
A write to a channel whose daemon has ended fails without SIGPIPE, as in `ChannelLifetime`,
and `channel_send` only asserts that it did not.

## 3. Runs

CHECK_DEADLOCK is off wherever the environment may stop: no client has to call, no
packet has to come, everything sent may have arrived, or a program may have ended.  That
the daemon itself does not stop is what the liveness properties say.

| run | instance | states | what it shows |
|---|---|---|---|
| `recv_safety` | 2 clients with a UDP socket each, one nonblocking, both asking for addresses; recvQlimit 1, pipe of 2 bytes, 4 packets | 419,869 | no packet, wakeup or answer is lost, repeated or misdirected; `SocketRecv` implements `RecvService` |
| `recv_live` | 1 client, 1 blocking socket, 6 packets | 5,890 | with one socket, each Request is read and each `recvfrom` over a packet returns |
| `recv_two_sockets` (violation) | 2 clients, 2 sockets, 2 packets | | a stale pipe byte makes the event loop block in one socket's `wait_dequeue` and the other client's Request is never read |
| `tcp_duplex` | no losses, both directions 3 bytes, segments of up to 2, window 2, 5 sequence numbers | 89,624 | the unlocked exchange of sequence numbers is harmless under sequential consistency; every byte arrives once and in order, `connect` is answered, streams complete, also across the wrap |
| `tcp_wild` | 1 loss each way, 1 duplicate, reordering, refusal, impatient retransmission, send before connect, delayed stores; 16 sequence numbers that wrap | 788,190 | what the peer gets is a prefix of what was written, sequence numbers agree, no acknowledgment is ahead of the peer, and only a refusal makes the assertion fail |
| `tcp_segment_lost` (violation) | 2 bytes down, 1 loss | | the segment behind the hole is acknowledged and the hole is never filled |
| `defrag_any` | 4 datagrams (two with one id from different hosts, one with fragments of 256 bytes), one of them may come twice | 29,655 | what is delivered is one whole datagram, no buffer is lost or used twice, fragments that arrive at the ends suffice |
| `defrag_payload` (violation) | the same | | a datagram that came in fragments is received with 15 bytes of IP header ahead of the payload of every fragment but the first |
| `lifetime_any` | a UDP and a TCP client, queue of 1 | 868,925 | faults need a closed client, UDP channels outlive batches, no stray answers, closed clients are forgotten |
| `net_path` | 2 Pcbs of either protocol, 5 operations, 2 of 9 packets, 2 peers, ports and identifications that wrap at 2 | 6,366,958 | the walk finds what matches, a connection is opened by its peer, local ports and identifications are distinct |
| `rpc_messages` | each of 13 Requests and 13 Responses, each member set or not, 2 values | 3,165 | what one language sends is what the other reads, and the reads through another answer's pointer hit what was meant |
| `rpc_calls` | 2 threads, 2 sockets of 4 types, 2 calls, 1 packet of 0, 2 or 3 bytes, buffers of 1 or 3, messages with room for 2, both builds | 743,794 | a descriptor denotes its socket, answers are true and come, and a program ends only by the causes that `StopsExplained` names |

The exceptions are part of the properties and say what the code does otherwise:

- `FdDenotesSocket`, `AnswersTruthful`, `AnswerOnItsWay`: unless two sockets of the process
  were open at once, for then they share a descriptor and the second takes the first's
  channel over.
- `StopsExplained` names the causes of a program's end.  Of either program: a connect on a
  UDP socket (its Response has no return code: the daemon's assertion, or null in the
  application).  Of the daemon: a packet too long for a Response.  Of the application: a
  `recvfrom` that asks for an address it cannot get (nonblocking, or TCP), a nonblocking TCP
  connect (its answer is a `recvfromcall`), a send too long for a Request, a `recvfrom` with
  less room than the packet needs, a daemon that has ended, and two sockets with one
  descriptor.  The claim is about `AF_INET` addresses with room for a `sockaddr_in` and an
  `addrlen` with each, socket buffers of the kernel that hold a message, and as long as both
  programs have the channel open; a daemon whose client is gone is in `ChannelLifetime`.
- `DataTruthful`: a nonblocking `recvfrom` returns EAGAIN as if it were a count.
  `AnswerOnItsWay`: a second connect of an established TCP socket is never answered.
- `DemuxCorrect`: Pcbs that an operation changes during the walk are excused (an unconnected
  `sendto` connects the Pcb for the time it takes).  Two Pcbs match only where ports were
  reused or the packet is for port 0; there the last match wins, not the best, because
  `Pcb.h:145` keeps the degree in an inner variable.
- `EstablishedByPeer`: not where the application sent before it connected, nor for port 0.  With two
  connects in progress, one after the other, the address may be one's and the port the
  other's.
- `IdsDistinct`, `PortsDistinct`: until both threads were in the generator at once; until as
  many ports were given out as there are.

Why the bounds are enough.  A race over the flag needs one packet and one call; the
reuse of a pipe byte needs a second packet and a second call; the limit is met with
recvQlimit + 1 = 2 packets and passed by a third.  Two sockets are enough for one to
hold up the other, since the code of two sockets only meets in the event loop.  In
TCP, two segments each way are enough for a hole, an exchange and a duplicate, and
5 (or 16, from 14 on) sequence numbers for the wrap to fall inside the stream.  For
reassembly, three fragments have every order relation the insertion distinguishes.
In `ChannelLifetime`, one UDP and one TCP client have all kinds of channels, and a
second client is needed for a handler to run while another's channel is in the
batch.  In `net_path`, two Pcbs are enough for a wrong one to be found before or after the
right one, and the instance reaches the lost update of the generator, the reuse of a port,
two Pcbs on one port, addresses torn between two connects and a packet for a closed Pcb;
its theorems hold for any number of everything.  In `rpc_calls`, two calls after `socket`
are connect and then any other, and a second socket is what shares a descriptor.  Of its
lengths, 2 is the longest packet or send that fits a message and 3 does not, a buffer of 1 is
too short for either packet and one of 3 for none; an empty packet is returned without
a copy.  The threads are symmetric and the run has invariants only.

The build.  The default build type is Release (`CMakeLists.txt:38-41`), in which
assertions are compiled out; `TcpClient` has `Asserts` and `RpcCalls` has `Builds` for both.
In the application a missing address is fatal in either: the assertion aborts, or the copy
that follows dereferences null.

Other disagreements that TLC finds when one constant of a passing run is changed:
with `LossesUp = 1`, or `SendFirst = TRUE`, in `tcp_duplex` a `connect` is never
answered; with `Patient = FALSE` (a retransmission although the acknowledgment is on
its way) or `StoreDelay = TRUE` the queue receives bytes twice; with `RecvQLimit = 1`
a payload is dropped and acknowledged; with `Asserts = TRUE` and `Refuses = TRUE` the
daemon aborts.  In `recv_live`, `ReceiverServed` fails for two clients on one socket
(`SockOf <- OneSocketShared`): there is one flag and one callback, and
of two `recvfrom` that wait only one is answered.  In `defrag_any`, `EndsSuffice` without `AtTheEnds` fails: first, last,
middle is never put together.  In `lifetime_any`, `Reclaimed` without its exception for
`failed` fails: a channel to which a write failed stays in Mux's list.

## 4. Fairness

Weak fairness of the event loop and of the IP thread stands for threads the
scheduler runs: each is always at one place, and either can go on or waits for
something (`epoll_wait`, `wait_dequeue`, a packet).  An application thread inside a
call reads Responses when there are some.  Nothing makes an application call, or
close, or a packet come.  In `TcpClient` the network delivers and the peer
retransmits and has something to send: without that no TCP completes.  `Reclaimed`
excludes, by its premise, a daemon that blocks in `wait_dequeue` for ever, which
`recv_two_sockets` is about; it also excepts a client to whom a write failed, whose
channel is forgotten, and a crashed daemon (`FaultNeedsClose` says what precedes a crash).

`NetPath`, `Messages`, `RpcCalls` and `Defrag` state safety only.  What stands for progress
in `RpcCalls` is `AnswerOnItsWay`, a safety property: a thread that waits has its Request
or an answer in the channel, or the daemon is set to write one.

## 5. Proofs

`tlapm` proves these for every value of the constants that satisfies the named
assumptions of the modules: any number of clients and sockets, any limit.

`SocketRecvProofs`

- `TypeCorrect`: `TypeOK`, one step per action.
- `QueueNeverOverfull`: `QueueBounded`.  It is not inductive, because the test and
  the enqueue are two steps; `BoundInv` adds that between them the queue can only
  have become shorter.
- `NoWakeupLost`: `NoLostWakeup`, inductive together with `TypeOK`.  The case that
  matters is the drain: it empties the pipe, and if the flag is up the same step
  enters `taking`.
- `EveryCallOneAnswer`: `OneAnswerPerCall`.  `CallInv` adds that the event loop only
  takes for a socket whose flag is up, and that nobody's sockets are quiet; without
  the first, the callback could answer a call that does not wait.
- `ReceivePathImplementsService`: `ServiceKept`, under `Owned` (no socket shared).
  Each step of `SocketRecv` is a step of `RecvService` or leaves its variables alone;
  `OneAnswerPerCall` bounds the calls pending by one.
- `NothingLostInHandover`: `HandoverInOrder`.  What left the queue is, socket by socket, what
  the application was given followed by what the answers in the channel carry: a step that
  takes a packet appends it to both sides.  `Payloads` is a selection from a sequence, which
  the library computes recursively; the lemmas `PayloadsRun` and `PayloadsAppend` are an
  induction over the places of the sequence.
- `AbortsOnlyForAddress`: `AbortsExplained`.  `AddrInv`: for a blocking UDP socket whose
  clients all ask for the address, each Request asks for it, the callback is bound to give
  it and each Response has it, so that the interceptor's assertion holds.

`ChannelLifetimeProofs`

- `TypeCorrect`: `TypeOK`, in five groups of variables.
- `Ownership`, the invariant everything else rests on.  `RefsKnown`: what the batch
  and the handler refer to was once made.  `RegisteredLive`: what is registered with
  the event loop lives.  `OpenListed`: Mux lists each client that has not closed.
  `IpOnSocket`: the IP thread holds a Pcb that belongs to a Socket, and answers only
  TCP clients.  None is inductive alone.  The step that needs them all is
  `IpRelease`: a registered channel stays alive because whoever drops the last
  pointer destroys it, and its owner is listed unless it closed.
- `FaultsNeedClose`: `FaultNeedsClose`.  A known channel that does not live belongs to
  an unlisted, hence closed, client; and when the IP thread lets go of a client
  that is open nothing dies, so it changes no vector.
- `UdpChannelsOutliveBatch`: `RequestChannelOutlivesBatch`, with `UdpInv`: a registered
  or batched UDP channel is listed, and the channel being handled has left the
  batch, so that the one handler that removes it does not leave a pointer behind.
- `OneAnswerEach`: `NoStrayAnswer`.  `DebtInv` says of a client that has not closed that it is
  in a call exactly when one thing is on its way that will end the call: its Request, a
  handler about to answer, a waiting `recvfrom`, a connection attempt, the callback of one,
  or the final Response; and never two.  Each step hands the debt on.  That only a closed
  client resets its channel is part of it, because the empty Request is answered too.

`NetPathProofs`

- `TypeCorrect`: `TypeOK` of that module, stated there because it is needed for the proofs
  only.
- `PortsStayDistinct`: `PortsDistinct`.  `PortInv` says that the n-th port given out is a
  function of n (`PortAt`), that each bound Pcb has a ticket n of its own, and that its port is
  the one of its ticket.  `PortAt` is injective up to `PortMod`; so two Pcbs share a port only
  once it was passed.
- `IdsStayDistinct`: `IdsDistinct`.  `IdInv` has the shape of the accesses that are to come (a
  store follows its load), the window (the i-th identification from the end is `last` gone
  back i steps) and, unless they raced, that whoever has loaded holds the successor of
  `last` and is alone.
- `WalkFindsMatch`: `DemuxCorrect`.  `DemuxInv` says that what was read of a Pcb that nobody
  moved still holds; that a bound port never changes, so that what is found has the port of
  the packet even if it moved; and that each Pcb that matches and was not moved is to
  come, is being read, was found, or is excused.  `OnePort`, from `PortInv`, makes the match
  unique.
- `PeerEstablishes`: `EstablishedByPeer`.  `ConnInv` is the conjunction of the possible
  remainders of a TcpPcb's operation (`TodoInv`), of where its addresses come from
  (`PeerInv`: a bound Pcb whose SYN went out has a peer, was early, or is about to get one) and
  of what the walk has read (`ClaimInv`: what was compared was given to `connect`).  The
  order in `Pcb::connect`, addresses first and the port last, is what `PeerInv` rests on.

`TcpClientProofs`

- `TypeCorrect`: `TypeOK`.  `Shape` adds that each thread of the daemon holds one segment
  while it builds it, and that the peer has no more in flight than it has sent.  It needs
  `WindowAssumption`, that a peer keeps less than a turn of the sequence numbers in flight.
- `ConnectMeansConnected`: `HandshakeAgrees`, where a refusal is noticed (`RefusalNoticed`:
  assertions are compiled in, or the peer does not refuse).  `HandInv` says that only an
  established client sends anything but a SYN, and that only to such a client does the
  peer send anything but its SYN,ACK or a RST; hence a repeated SYN finds the peer at the
  number after it, or the client established.
- `OnlyRefusalCrashes`: `CrashExplained`, with assertions from `HandInv`, and trivial
  without them.

The streams of bytes, where a refusal is noticed.  The lemmas about sums and
differences modulo SeqSpace are at the head of the module.

- `EndsCountAlike`: `SequenceAgrees`.  `UpInv` says that an established client will send
  next what follows the bytes written, that the peer expects next what follows the bytes it
  accepted, and that each segment on its way has the number of its first byte (`Numbered`).
  `SendPos` is what `send_next` becomes when a store that the processor delays is done.  What
  is sent before the connect goes to no address and is lost, and with it nothing is known
  of its number.
- `UploadImplementsStream`: `UploadKept`, the refinement of `ByteStream`, for streams shorter
  than a turn of the sequence numbers (`ShortUpload`).  A segment whose number is the one the
  peer expects is then the one that follows, and not one a turn earlier; this is the only
  use of the bound, and no use is made of the order of delivery.
- `NothingUnsentAcknowledged`: `AcksTruthful`, with `ShortDownload`.  `AckInv` says that
  `recv_next`, and each acknowledgment under way, is a number the peer has sent up to.
- `AcknowledgedIsQueued`: `AckMeansQueued`, and `DownloadImplementsStream`: `DownloadKept`, the
  refinement of `ByteStream` downwards.  Both hold on a perfect network only, and
  `Undisturbed` says which: nothing lost, repeated or reordered, a peer that does not
  retransmit what is being acknowledged (`Patient`), no delayed stores, room in the queue for
  each byte (`RoomForAll`), and segments shorter than half of the sequence numbers
  (`ShortSegments`).  `tcp_segment_lost` and the constants named in section 3 are what happens
  without them.  `DownInv` lays each direction out along its queue: segment i begins where
  segment i - 1 ends (`Placed`), from what was received to what was sent (`DownWay`, `UpWay`).
  Then the segment at the head is always the next one.  The hard part is that the peer
  never retransmits (`NothingToRetransmit`), which needs that whatever the client has received the
  peer knows or is about to hear (`Told`) - from the acknowledgment of the IP thread, or from
  a segment of `send` that carries the new `recv_next`, and that the peer does not take for
  old.  It is here that the order of the store of `send_next` and the load of `recv_next`
  matters.

`DefragProofs`

- `TypeCorrect`: `TypeOK`.  Each context's chain has fragments of its own header.  In a packet
  handed on, the transport header is looked for 20 to 60 bytes into the first buffer, but the
  payload of a later buffer 5 to 15 bytes into that one (`BeginsType`): inside its IP header.
- `DeliversDatagrams`: `DeliveredWhole`, where no two datagrams share a header
  (`HeadersDistinct`; RFC 791 asks it of the sender, and `defrag_any` has two with one id from
  different hosts).  A chain that `Complete` accepts is the datagram's fragments in order: take
  the least place at which it differs; the fragment there continues the one before it, and
  only one does.  That the lengths of the fragments add up to the datagram's is an assumption
  on the constants; TLC evaluates it.
- `NoBufferLost`: `BuffersConserved`.  Buffers are counted where they are: in a chain, delivered,
  or freed.  `CountPut` says what inserting a fragment into one chain does to the count over all
  chains, by induction over the set of headers.
- `EndsAreEnough`: `EndsSuffice`, with `HeadersDistinct`.  As long as the fragments come at the
  ends of what came before, `Gathered` holds: the chain has every fragment that came, in
  the order of their offsets, and is not ready.  A fragment at an end goes to the place
  `Insertion` gives; when the last is there the chain is complete, and `Ready` notices.

`ProtobufProofs` and `MessagesProofs`

The theorems hold for every set of integers and data, where the run has two of each.  The
lemmas of `ProtobufProofs` describe a wire by the set of the fields it has (`IsWire`): a writer
that goes over its table leaves the fields that are present, with their values (`Written`, by
induction over the table), and a reader that goes over such a wire leaves each member with
the value of its field, or as it was (`Changed`, by induction over the wire).  What remains is
to compare the tables of the two languages row by row, which the prover does from their
definitions.

- `Sent`: what is under way is what the composed object writes.  `TypeCorrect`: `TypeOK`.
- `AnswersArrive`: `AnswerArrives`.  Each member of the Response has the value the handler gave
  it, is absent where the handler left it, and a Response without the return code gives null.
- `RequestsArrive`: `RequestArrives`, the same for what the interceptor packs.
- `PointersAlias`: `AliasesHold`.  The members of a struct lie one behind the other (`LayoutRun`);
  at the offset of a member of the struct that is meant lies the member of the other.

`RpcCallsProofs`

For every number of threads, sockets and peers, buffers and packets of every length, both
builds, and the messages as the generated code writes and reads them.  `SafeInv` is what holds in any case: the shapes of the records, a
channel of the process that carries `atstart` and its answer only, Requests that an
application can have packed, Responses of a Debug build that can be unpacked, and each
program ended in the way of its build.  The rest is conditional on `~ overlap`.

- `DescriptorsDenote`: `FdDenotesSocket`.  As long as no two sockets were open at once, one
  thread has the only open channel and the table has it behind the only descriptor
  there is (`OwnInv`).
- `AnswersAreTrue`: `AnswersTruthful`, `AnswersOnTheirWay`: `AnswerOnItsWay`, and
  `StopsAreExplained`: `StopsExplained`, from one invariant.  `TalkInv` says that the thread
  with the socket and its channel are in one of five states: nothing is asked and the last result
  still holds (`Quiet`); a Request is under way (`Asked`); the last answer is, behind a
  WAIT_NEXT or not (`Answered`); the daemon waits for a packet or for the peer (`Awaited`); or
  one of the programs has ended (`Over`).  `Final` gives, call by call, the answers there can
  be and the Socket they leave; the proof follows an answer from the handler (`Serving`) through
  `Sent` and `Arrived` to what the interceptor's pointers find (`Met`).  The answer to a
  nonblocking connect is one of recvfrom and ends in an assertion, or in EINPROGRESS read
  through the other struct; both are in `Met`.  `Rest` ties getpeername to the last connect,
  and `Settled` says that a Socket is at rest: no connection is being made that could answer
  a later call.  Lengths are one more conjunct: `QueueInv` bounds every packet in a queue, and
  `Brief` every answer with data, by the longest packet that arrived, so that what does not
  fit a Response is a packet that does not (`BriefFits`), and an overrun means a buffer
  shorter than a packet.  `EndInv` keeps the cause of an end of the application true after
  the end: it was stranded by the end of the daemon (`Stranded`), or its thread's call and the
  Socket behind it show why (`Excuse`).

Only model-checked:

- liveness and everything under fairness, and ENABLED, which are out of reach of the prover.
  Every safety property of a passing run is a theorem.

Induction.  A theorem with an operator as a parameter cannot be used by the provers at
hand, so that there is no general principle of induction over data.  Where a definition goes
over a sequence or counts a set, the lemma about it is proved by naming the set of
numbers for which it holds and showing that it contains 0 and, with n, n + 1
(`SetInduction`).  What a RECURSIVE operator computes cannot be proved at all; no module
with a theorem has one.

## 6. Plan

Done: all modules of section 2.  What is left, in this order.

1. `Lifecycle`: init, run, stop and exit; flags that blocked threads do not look at.
2. The Internet checksum as an operator against its definition in RFC 1071.

## 7. Not modelled

- Fragmentation and ICMP: empty in the source.  FIN, TIME_WAIT and `disconnect` of
  TCP: TODOs in the source.
- Timers: they are started in libev loops that nothing runs, so they never fire.
- Checksums on receipt: the code checks none.  Layout and byte order of headers,
  except where `Defrag` depends on the latter.
- Varints, lengths (beyond whether a message fits its buffer, in `RpcCalls`) and unknown
  fields of the wire format, the accessors of generated
  members no program uses, descriptors and reflection.
- What `enRxQue` and the IP thread drop before the transport layer: other versions and
  protocols, short packets, incomplete fragments.  Protocol 255, which is one past the
  table in `IpHeader.cpp:44`.
- Failures of `pipe2`, `epoll_create`, `socket` and `bind`; running out of
  descriptors; more than 64 ready channels in one `epoll_wait`; signals, also one that
  interrupts `epoll_wait` (`mux/eventloop/Poller.cpp:132`).
- Stopping: `stopflag` is looked at only between packets (`ip/Ip.cpp:82`).
- Logging, configuration, `ifconfig`, the dynamic linker, fork.
- `moodycamel::BlockingConcurrentQueue`: used as a linearizable queue with a
  blocking dequeue.
- The calls whose handlers have no body (poll, select, fcntl, getsockopt, setsockopt),
  beyond their messages, which are in `Messages`.
