------------------------------- MODULE RpcCalls -------------------------------
(***************************************************************************)
(* The socket calls of one application, from the call to its return:       *)
(* interceptor.c packs a Request, looks the channel up in the table of     *)
(* descriptors (twice: to send and to receive), RequestHandler answers,    *)
(* and the interceptor reads the answer with its assertions and its        *)
(* pointers into the union.  Messages are encoded and decoded as the       *)
(* generated code does.                                                    *)
(*                                                                         *)
(* Threads of the application call at any time, each on the socket it      *)
(* opened itself.  SocketRecv has the wakeups inside the daemon, and       *)
(* ChannelLifetime what is destroyed when; here a Request is handled in    *)
(* one step, and so is a packet for a waiting socket.                      *)
(***************************************************************************)
EXTENDS RequestSchema, ResponseSchema, FiniteSets

CONSTANTS Threads,
          Builds,          \* subset of {"Debug", "Release"}: with and without assertions
          SocketTypes,     \* the `type' arguments applications use
          Peers,           \* addresses <<address, port>>
          MaxData,         \* bytes of data a message has room for
          BufferLengths,   \* of the buffers applications send from and receive into
          PacketLengths,   \* bytes of data in a packet that arrives
          MaxSockets,      \* sockets opened in a run
          MaxCalls,        \* other calls in a run
          MaxPackets       \* packets in a run

ASSUME SocketsAssumption == MaxSockets \in Nat \ {0}
ASSUME BuildsAssumption == Builds \subseteq {"Debug", "Release"}
\* No application connects to the address that stands for none.
ASSUME PeersAssumption == Peers \subseteq (Nat \X Nat) \ {<<0, 0>>}
\* A call with an empty buffer returns at once.  What Defrager makes of many
\* fragments is longer than a datagram, and need not fit a message.
ASSUME SizesAssumption == /\ MaxData \in Nat
                          /\ BufferLengths \subseteq Nat \ {0}
                          /\ PacketLengths \subseteq Nat

VARIABLES build,           \* how both programs were compiled
          client, daemon,  \* "up", or how the process ended
          startfd, count,  \* g_startfd, g_fd_count
          table,           \* g_fd2channelVector
          chan,            \* the channels: Requests, Responses, the Socket behind
          thread,          \* what each thread is in
          opened, calls, packets,   \* counters for the bounds
          overlap,         \* history: two sockets of the process were open at once
          longest          \* history: bytes in the longest packet that arrived

clientVars == <<client, startfd, count, table>>
bounds == <<opened, calls, packets>>
history == <<overlap, longest>>
vars == <<build, client, daemon, startfd, count, table, chan, thread, opened, calls,
          packets, overlap, longest>>

ProcChannel == 0
Channels == 1 .. MaxSockets
NoAddr == << >>
Unwritten == <<-1, -1>>                           \* what an uninitialized sockaddr_in holds
AF_INET == 2
SOCK_NONBLOCK == 2048
EAGAIN == 11
EINPROGRESS == 115

IsStream(type) == type % 2 = 1                    \* type & SOCK_STREAM
IsDgram(type) == (type \div 2) % 2 = 1            \* type & SOCK_DGRAM
IsNonblocking(type) == (type \div SOCK_NONBLOCK) % 2 = 1

\* Within RPC_MESSAGE_MAX_SIZE: the data counts, the other members are small.
FitsMessage(data) == Len(data) <= MaxData
\* What becomes of a program whose assertion is false: `how' where it has none.
Failing(how) == IF build = "Debug" THEN "assert" ELSE how

-----------------------------------------------------------------------------
(* The daemon.  A Socket with the members of its Pcb that a call can see.  *)

NoSocket == [kind |-> "none", nonblocking |-> FALSE, faddr |-> NoAddr, lport |-> 0,
             state |-> "CLOSED", estabCB |-> FALSE, waiting |-> "no", recvQ |-> << >>]

AnswerWith(code, call, members) == Set(Set(Nothing, "retcode", RetCode[code]), call, members)
Answer(code, call, ret) == AnswerWith(code, call, [ret |-> ret])
WaitNext == Set(Nothing, "retcode", RetCode.WAIT_NEXT)

\* Pcb::bind: the ports of two sockets differ
Bind(s, c) == IF s.lport = 0 THEN [s EXCEPT !.lport = 1024 + c] ELSE s

\* TcpPcb::send: the first is the SYN
TcpSend(s) == IF s.state = "CLOSED" THEN [s EXCEPT !.state = "SYN_SENT"] ELSE s

\* What a handler leaves: the Socket and the Response.
After(s, resp) == [sock |-> s, resp |-> resp]

socketCall(s, call) ==
  After([NoSocket EXCEPT !.kind = IF IsStream(call["type"]) THEN "TCP" ELSE "UDP",
                         !.nonblocking = IsNonblocking(call["type"])],
        Answer("OK", "socketcall", 0))

\* Mutant: a blocking TCP connect does not wait for the handshake.
connectCall_NoWait(s, call, c) ==
  IF s.kind = "UDP" THEN After(Bind([s EXCEPT !.faddr = call["addr"]], c),
                               Set(Nothing, "connectcall", [ret |-> 0]))
  ELSE After(TcpSend(Bind([s EXCEPT !.faddr = call["addr"]], c)),
             Answer("OK", "connectcall", 0))
connectCall(s, call, c) ==
  CASE s.kind = "UDP" -> After(Bind([s EXCEPT !.faddr = call["addr"]], c),
                               Set(Nothing, "connectcall", [ret |-> 0]))
    [] s.kind = "TCP" /\ s.nonblocking ->
         After(s, Answer("OK", "recvfromcall", EINPROGRESS))
    [] OTHER -> After(TcpSend(Bind([s EXCEPT !.faddr = call["addr"], !.estabCB = TRUE], c)),
                      WaitNext)

\* An unconnected send on UDP connects, sends and disconnects.
sendtoCall(s, call, c) ==
  LET len == Len(call["buf"])
  IN  CASE s.kind = "UDP" /\ Has(call, "addr") ->
             After([Bind(s, c) EXCEPT !.faddr = NoAddr], Answer("OK", "sendtocall", len))
        [] s.kind = "UDP" /\ ~ Has(call, "addr") ->
             After(Bind(s, c), Answer("OK", "sendtocall", len))
        [] OTHER -> After(TcpSend(Bind(s, c)),
                          Answer("OK", "sendtocall", IF s.state = "SYN_SENT" THEN 0 ELSE len))

\* Mutant: set_retcode is forgotten.
PacketAnswer_NoCode(p, requireAddr) ==
  Set(Nothing, "recvfromcall", [ret |-> Len(p.data), buf |-> p.data, addr |-> p.from])
\* The answer that carries the packet p; the member addr only where asked for.
PacketAnswer(p, requireAddr) ==
  AnswerWith("OK", "recvfromcall",
             IF requireAddr THEN [ret |-> Len(p.data), buf |-> p.data, addr |-> p.from]
             ELSE [ret |-> Len(p.data), buf |-> p.data])

\* Mutant: setWaiting(true) is forgotten.
recvfromCall_NoWaiting(s, call) ==
  IF s.recvQ # << >> THEN After([s EXCEPT !.recvQ = Tail(@)],
                                PacketAnswer(Head(s.recvQ), call["requireaddr"]))
  ELSE After(s, IF s.nonblocking THEN Answer("OK", "recvfromcall", EAGAIN) ELSE WaitNext)
recvfromCall(s, call) ==
  CASE s.recvQ # << >> -> After([s EXCEPT !.recvQ = Tail(@)],
                                PacketAnswer(Head(s.recvQ), call["requireaddr"]))
    [] s.recvQ = << >> /\ s.nonblocking -> After(s, Answer("OK", "recvfromcall", EAGAIN))
    [] OTHER -> After([s EXCEPT !.waiting = IF s.kind = "UDP" /\ call["requireaddr"]
                                            THEN "addr" ELSE "plain"], WaitNext)

\* sockaddr_in of an address that may be unset
SockAddr(addr) == IF addr = NoAddr THEN <<0, 0>> ELSE addr
LocalAddr(s) == <<1, s.lport>>

getpeernameCall(s) ==
  After(s, AnswerWith("OK", "getpeernamecall", [ret |-> 0, peername |-> SockAddr(s.faddr)]))
getsocknameCall(s) ==
  After(s, AnswerWith("OK", "getsocknamecall", [ret |-> 0, sockanme |-> LocalAddr(s)]))

atstartAction(s) ==
  After(s, AnswerWith("OK", "atstartaction", [startfd |-> 4096, count |-> 1024]))

\* poll, select, getsockopt, setsockopt and fcntl have handlers without a body;
\* the interceptor never sends them.
handleRequest(s, req, c) ==
  LET call == CHOOSE m \in Call(Request, req) : TRUE
  IN  CASE call = "socketcall" -> socketCall(s, req[call])
        [] call = "connectcall" -> connectCall(s, req[call], c)
        [] call = "closecall" -> After(s, Answer("OK", "closecall", 0))
        [] call = "recvfromcall" -> recvfromCall(s, req[call])
        [] call = "sendtocall" -> sendtoCall(s, req[call], c)
        [] call = "getpeernamecall" -> getpeernameCall(s)
        [] call = "getsocknamecall" -> getsocknameCall(s)
        [] call = "atstartaction" -> atstartAction(s)

\* The Response fits wrbuf.
ResponseFits(resp) ==
  Has(resp, "recvfromcall") /\ Has(resp["recvfromcall"], "buf")
    => FitsMessage(resp["recvfromcall"]["buf"])

\* ReqRespChannel::Impl::write in the last of a step that leaves the channel as
\* `ch'.  A Response too long for wrbuf is not serialized, and that many bytes
\* are sent from wrbuf and what lies behind it: the model does not follow the
\* daemon any further.
write(c, ch, resp) ==
  IF ResponseFits(resp) /\ (build = "Debug" => TopInitialized(Response, resp))
  THEN /\ chan' = [chan EXCEPT ![c] = [ch EXCEPT !.resp = Append(@, TopSerialize(Response, resp))]]
       /\ UNCHANGED daemon
  ELSE daemon' = Failing("overread") /\ chan' = [chan EXCEPT ![c] = ch]

\* What the daemon does about a client that has ended is in ChannelLifetime.
Daemon(c) == /\ daemon = "up" /\ client = "up" /\ chan[c].open
             /\ UNCHANGED <<build, clientVars, thread, opened, calls, overlap>>

\* ReqRespChannel::Impl::onReadReady
onReadReady(c) ==
  /\ Daemon(c) /\ UNCHANGED <<packets, longest>>
  /\ chan[c].req # << >>
  /\ LET r == handleRequest(chan[c].sock, TopParse(Request, Head(chan[c].req)), c)
     IN  write(c, [chan[c] EXCEPT !.req = Tail(@), !.sock = r.sock], r.resp)

\* Socket::putToRecvQ
putToRecvQ(c, from, n) ==
  chan' = [chan EXCEPT ![c].sock.recvQ =
             Append(@, [from |-> from, data |-> [i \in 1 .. n |-> packets]])]

\* The IP thread puts a packet for the socket into its queue; that of TCP is
\* never empty, and comes with an address nobody wrote.
PacketArrives(c) ==
  /\ Daemon(c)
  /\ packets < MaxPackets /\ packets' = packets + 1
  /\ \E n \in PacketLengths :
       /\ longest' = IF n > longest THEN n ELSE longest
       /\ \/ /\ chan[c].sock.kind = "UDP" /\ chan[c].sock.lport # 0
             /\ \E p \in Peers : putToRecvQ(c, p, n)
          \/ /\ chan[c].sock.kind = "TCP" /\ chan[c].sock.state = "ESTABLISHED" /\ n # 0
             /\ putToRecvQ(c, Unwritten, n)
  /\ UNCHANGED daemon

\* onAsyncNewUdpPacket, onAsyncNewTcpPacket
onAsyncNewPacket(c) ==
  /\ Daemon(c) /\ UNCHANGED <<packets, longest>>
  /\ LET s == chan[c].sock
     IN  /\ s.waiting # "no" /\ s.recvQ # << >>
         /\ write(c, [chan[c] EXCEPT !.sock.waiting = "no", !.sock.recvQ = Tail(@)],
                  PacketAnswer(Head(s.recvQ), s.waiting = "addr"))

\* The IP thread receives the SYN/ACK and calls onConnEstabCB.
ConnEstab(c) ==
  /\ Daemon(c) /\ UNCHANGED <<packets, longest>>
  /\ LET s == chan[c].sock
         ch == [chan[c] EXCEPT !.sock.state = "ESTABLISHED"]
     IN  /\ s.state = "SYN_SENT" /\ s.faddr # NoAddr
         /\ IF s.estabCB THEN write(c, ch, Answer("OK", "connectcall", 0))
            ELSE chan' = [chan EXCEPT ![c] = ch] /\ UNCHANGED daemon

-----------------------------------------------------------------------------
(* The application with the interceptor.                                   *)

\* A packed request whose member of the oneof is obj.
packed(call, obj) == TopPack(Request__C, [plain |-> [pid |-> 1], union |-> obj,
                                          case |-> Request__CallingCase[call]])
initial(call) == InitValue(request__calls[call].struct)

\* The Request fits the buffer of the thread.
RequestFits(call, obj) == call = "sendtocall" => FitsMessage(obj.buf)

\* A Request too long for the buffer is packed over its end.  A write to the
\* channel of a daemon that is gone fails, without SIGPIPE on this type of
\* channel, and only an assertion looks at the result; so it is with the
\* standard input (ch = 0), which need not accept a write.
channel_send(ch, call, obj) ==
  IF RequestFits(call, obj) /\ daemon = "up" /\ ch # 0
  THEN /\ chan' = [chan EXCEPT ![ch].req = Append(@, packed(call, obj))]
       /\ UNCHANGED client
  ELSE /\ UNCHANGED chan
       /\ CASE ~ RequestFits(call, obj) -> client' = Failing("overrun")
            [] RequestFits(call, obj) /\ ch = 0 -> client' \in {"up", Failing("up")}
            [] OTHER -> client' = Failing("up")

Bytes(n) == [i \in 1 .. n |-> 1]
\* The object of each call an application can make on a socket.
Objects(call) ==
  CASE call = "connectcall" -> {[initial(call) EXCEPT !.addr = a] : a \in Peers}
    [] call = "sendtocall" ->
         {[initial(call) EXCEPT !.buf = Bytes(n)] : n \in BufferLengths} \cup
         {[initial(call) EXCEPT !.buf = Bytes(n), !.has_addr = TRUE, !.addr = a]
            : n \in BufferLengths, a \in Peers}
    [] call = "recvfromcall" -> {[initial(call) EXCEPT !.len = n, !.requireaddr = w]
                                   : n \in BufferLengths, w \in BOOLEAN}
    [] OTHER -> {initial(call)}
SocketCalls == {"connectcall", "closecall", "sendtocall", "recvfromcall",
                "getpeernamecall", "getsocknamecall"}

NoResult == [call |-> "none", ret |-> 0, buf |-> << >>, addr |-> << >>]
Idle == [pc |-> "idle", call |-> "none", obj |-> << >>, ch |-> 0, own |-> 0, fd |-> 0,
         peer |-> <<0, 0>>, res |-> NoResult]

NoChannel == [open |-> FALSE, req |-> << >>, resp |-> << >>, sock |-> NoSocket]

\* interceptor_init has made the channel of the process and sent atstart.
Init == /\ build \in Builds
        /\ client = "up" /\ daemon = "up"
        /\ startfd = 0 /\ count = 0
        /\ table = [i \in 0 .. MaxSockets - 1 |-> 0]
        /\ chan = [c \in Channels \cup {ProcChannel} |->
                     IF c = ProcChannel
                     THEN [NoChannel EXCEPT !.open = TRUE,
                             !.req = <<packed("atstartaction", initial("atstartaction"))>>]
                     ELSE NoChannel]
        /\ thread = [t \in Threads |-> Idle]
        /\ opened = 0 /\ calls = 0 /\ packets = 0
        /\ overlap = FALSE /\ longest = 0

\* The end of ask_muquientd_fd_range
AtStart == /\ client = "up" /\ startfd = 0
           /\ chan[ProcChannel].resp # << >>
           /\ LET o == TopUnpack(Response__C, Head(chan[ProcChannel].resp)).union
              IN  startfd' = o.startfd /\ count' = o.count
           /\ chan' = [chan EXCEPT ![ProcChannel].resp = Tail(@)]
           /\ UNCHANGED <<build, client, daemon, table, thread, bounds, history>>

last_fd_assigned == startfd - 1
next_avail_fd == last_fd_assigned + 1
\* Mutant: off by one.
fd2channel_OffByOne(fd) == table[fd - startfd + 1]
fd2channel(fd) == table[fd - startfd]

Client(t, pc) == /\ client = "up" /\ startfd # 0 /\ thread[t].pc = pc
                 /\ UNCHANGED <<build, daemon, startfd, count, packets, longest>>

\* socket(), up to its channel_recv
Socket(t, type) ==
  /\ Client(t, "idle") /\ daemon = "up"
  /\ opened < MaxSockets /\ opened' = opened + 1
  /\ IsStream(type) \/ IsDgram(type)
  /\ LET connCh == opened + 1
         connfd == next_avail_fd
         obj == [initial("socketcall") EXCEPT !.domain = AF_INET, !["type"] = type]
     IN  /\ table' = [table EXCEPT ![connfd - startfd] = connCh]
         /\ chan' = [chan EXCEPT ![connCh].open = TRUE,
                                 ![connCh].req = <<packed("socketcall", obj)>>]
         /\ thread' = [thread EXCEPT ![t] = [Idle EXCEPT !.pc = "reading", !.call = "socketcall",
                                               !.obj = obj, !.ch = connCh, !.own = connCh,
                                               !.fd = connfd]]
  /\ overlap' = (overlap \/ \E c \in Channels : chan[c].open)
  /\ UNCHANGED <<client, calls>>

\* socket() when new_channel finds no daemon: the application exits.
SocketRefused(t) ==
  /\ Client(t, "idle") /\ daemon # "up"
  /\ client' = "exit"
  /\ UNCHANGED <<table, chan, thread, opened, calls, overlap>>

\* A call on the socket, up to its channel_send.  A descriptor that was closed
\* sends to the standard input.
Send(t, call) ==
  /\ Client(t, "idle") /\ thread[t].own # 0
  /\ calls < MaxCalls /\ calls' = calls + 1
  /\ \E obj \in Objects(call) :
       LET ch == fd2channel(thread[t].fd)
       IN  /\ channel_send(ch, call, obj)
           /\ thread' = [thread EXCEPT ![t].pc = IF ch = 0 THEN "stray" ELSE "sent",
                                       ![t].call = call, ![t].obj = obj,
                                       ![t].res = NoResult]
  /\ UNCHANGED <<table, opened, overlap>>

\* The argument of channel_recv looks the channel up again.
Lookup(t) ==
  /\ Client(t, "sent")
  /\ LET ch == fd2channel(thread[t].fd)
     IN  thread' = [thread EXCEPT ![t].pc = IF ch = 0 THEN "stray" ELSE "reading", ![t].ch = ch]
  /\ UNCHANGED <<client, table, chan, opened, calls, overlap>>

\* What resp->used->m finds in the answer o.
Deref(o, used, m) ==
  LET stored == CHOOSE c \in DOMAIN response__calls : Response__ReturningCase[c] = o.case
  IN  {o.union[a] : a \in Aliases(response__calls[stored].struct, response__calls[used].struct, m)}

\* The member of the oneof through which a call reads ret
RetThrough(call) == CASE call = "sendtocall" -> "recvfromcall"
                      [] call = "getsocknamecall" -> "getpeernamecall"
                      [] OTHER -> call

Ends(how) == client' = how /\ UNCHANGED <<table, thread>>

\* The result is returned; close still has the channel to close.
Returns(t, res) ==
  LET th == thread[t]
  IN  /\ thread' = [thread EXCEPT ![t] =
                      [th EXCEPT !.pc = IF th.call = "closecall" THEN "closing" ELSE "idle",
                                 !.ch = fd2channel(th.fd), !.res = res,
                                 !.peer = IF th.call = "connectcall" /\ res.ret = 0
                                          THEN th.obj.addr ELSE @]]
      /\ UNCHANGED <<client, table>>

\* What the rest of recvfrom finds: `bufs' the bytes to copy, `addrs' the address.
\* The copy is as long as the packet, whatever the caller's buffer holds, and
\* precedes the assertion about the address.
CopyOut(t, result, bufs, addrs) ==
  LET asked == thread[t].obj.requireaddr
      copied == IF result.ret > 0 THEN bufs ELSE {<< >>}
  IN  IF copied = {} \/ (asked /\ addrs = {}) THEN Ends("garbage")
      ELSE IF \E b \in copied : Len(b) > thread[t].obj.len THEN Ends("overrun")
      ELSE IF asked /\ addrs = {<< >>} THEN Ends(Failing("null"))
      ELSE \E b \in copied, a \in (IF asked THEN addrs ELSE {<< >>}) :
             Returns(t, [result EXCEPT !.buf = b, !.addr = a])

\* After channel_recv: the assertions, the copies and the return of each call.
\* Nor does getpeername look at the room for an address; a packet that it takes
\* for one need not fit.
Deliver(t, o) ==
  LET call == thread[t].call
      rets == Deref(o, RetThrough(call), "ret")
      bufs == Deref(o, "recvfromcall", "buf")
      addrs == Deref(o, "recvfromcall", "addr")
      result == [NoResult EXCEPT !.call = call, !.ret = CHOOSE r \in rets : TRUE]
  IN  IF build = "Debug" /\ o.case # Response__ReturningCase[call] THEN Ends("assert")
      ELSE CASE call \in {"getpeernamecall", "getsocknamecall"} ->
                  IF bufs = {} THEN Ends("garbage")
                  ELSE \/ \E b \in bufs : Returns(t, [result EXCEPT !.addr = b])
                       \/ /\ o.case = Response__ReturningCase["recvfromcall"]
                          /\ Ends("overrun")
             [] call = "recvfromcall" -> CopyOut(t, result, bufs, addrs)
             [] OTHER -> Returns(t, result)

\* channel_recv, and the rest of the call
Recv(t) ==
  /\ Client(t, "reading")
  /\ LET ch == thread[t].ch
         wire == Head(chan[ch].resp)
         o == TopUnpack(Response__C, wire)
     IN  /\ chan[ch].resp # << >>
         /\ chan' = [chan EXCEPT ![ch].resp = Tail(@)]
         /\ CASE ~ TopUnpacks(Response__C, wire) -> Ends("null")
              [] TopUnpacks(Response__C, wire) /\ o.plain.retcode = RetCode.WAIT_NEXT ->
                   UNCHANGED <<client, table, thread>>
              [] OTHER -> Deliver(t, o)
  /\ UNCHANGED <<opened, calls, overlap>>

\* The daemon has died: read returns 0, or what the daemon sent from behind wrbuf.
RecvEof(t) ==
  /\ Client(t, "reading")
  /\ daemon # "up" /\ chan[thread[t].ch].resp = << >>
  /\ \/ Ends(Failing("null"))
     \/ daemon = "overread" /\ Ends("garbage")
  /\ UNCHANGED <<chan, opened, calls, overlap>>

\* unset_fd2channel and close_channel of the channel looked up before
CloseChannel(t) ==
  /\ Client(t, "closing")
  /\ table' = [table EXCEPT ![thread[t].fd - startfd] = 0]
  /\ chan' = IF thread[t].ch = 0 THEN chan
             ELSE [chan EXCEPT ![thread[t].ch].open = FALSE]
  /\ thread' = [thread EXCEPT ![t] = Idle]
  /\ UNCHANGED <<client, opened, calls, overlap>>

Next == \/ AtStart
        \/ \E t \in Threads : \/ \E type \in SocketTypes : Socket(t, type)
                              \/ SocketRefused(t)
                              \/ \E call \in SocketCalls : Send(t, call)
                              \/ Lookup(t) \/ Recv(t) \/ RecvEof(t) \/ CloseChannel(t)
        \/ \E c \in Channels \cup {ProcChannel} :
             onReadReady(c) \/ onAsyncNewPacket(c) \/ PacketArrives(c) \/ ConnEstab(c)

Spec == Init /\ [][Next]_vars

-----------------------------------------------------------------------------
(* A descriptor denotes the channel it was returned for, in each of the    *)
(* lookups of a call, unless two sockets of the process were open at once: *)
(* next_avail_fd returns the same descriptor every time.                   *)
FdDenotesSocket ==
  ~ overlap => \A t \in Threads : thread[t].own # 0 =>
    /\ thread[t].pc # "stray"
    /\ fd2channel(thread[t].fd) = thread[t].own
    /\ thread[t].pc \in {"reading", "closing"} => thread[t].ch = thread[t].own

Reads(t, call) == thread[t].pc = "reading" /\ thread[t].call = call
SockOf(t) == chan[thread[t].own].sock

\* A connect of a UDP socket was handled: the Response has no return code.
UdpConnected == \E c \in Channels : chan[c].sock.kind = "UDP" /\ chan[c].sock.faddr # NoAddr
\* recvfrom asks for the address where the answer need not have one: when the
\* socket is nonblocking and nothing has arrived, and when TCP has to wait.
AddressMissing ==
  \E t \in Threads : /\ Reads(t, "recvfromcall") /\ thread[t].obj.requireaddr
                     /\ SockOf(t).nonblocking \/ SockOf(t).kind = "TCP"
\* A nonblocking connect is answered with the wrong member of the oneof.
ConnectInProgress ==
  \E t \in Threads : /\ Reads(t, "connectcall")
                     /\ SockOf(t).nonblocking /\ SockOf(t).kind = "TCP"
\* A packet arrived that does not fit a Response.
HugePacket == longest > MaxData
\* recvfrom is called with less room than a packet needs.
ShortBuffer == \E t \in Threads : Reads(t, "recvfromcall") /\ thread[t].obj.len < longest
\* sendto is called with more than fits a Request.
TooLong == \E t \in Threads : /\ thread[t].pc = "sent"
                              /\ ~ RequestFits(thread[t].call, thread[t].obj)

(* The calls of an application end either program only by the six ways     *)
(* above, by two open sockets sharing a descriptor and, for the            *)
(* application, by the end of the daemon.  Without assertions, the daemon  *)
(* survives all but a packet that does not fit; and whatever the build, a  *)
(* buffer shorter than the packet is overrun.  The address arguments are   *)
(* taken to be those of AF_INET with room for a sockaddr_in, and both      *)
(* programs to have the channel open.                                      *)
StopsExplained ==
  /\ daemon = "assert" => build = "Debug" /\ (UdpConnected \/ HugePacket)
  /\ daemon = "overread" => build = "Release" /\ HugePacket
  /\ client = "assert" => /\ build = "Debug"
                          /\ \/ daemon # "up" \/ TooLong \/ overlap
                             \/ AddressMissing \/ ConnectInProgress
  /\ client = "null" => /\ build = "Release"
                        /\ daemon # "up" \/ UdpConnected \/ AddressMissing \/ overlap
  /\ client = "garbage" => daemon = "overread" \/ overlap
  /\ client = "overrun" => (build = "Release" /\ TooLong) \/ ShortBuffer \/ overlap
  /\ client = "exit" => daemon # "up"

\* connect returns 0 only on a socket that is connected to the address given,
\* and for TCP established; EINPROGRESS only where the Pcb never was to connect.
ConnectTruthful(t, res) ==
  IF res.ret = 0
  THEN SockOf(t).faddr = thread[t].obj.addr /\ SockOf(t).state = "ESTABLISHED"
  ELSE res.ret = EINPROGRESS /\ SockOf(t).nonblocking /\ SockOf(t).faddr = NoAddr

\* recvfrom returns the number of the bytes it copied, except that EAGAIN, a
\* positive number, comes back as a count without bytes; the address it gives
\* is a sender's for UDP.
DataTruthful(t, res) ==
  /\ res.ret = Len(res.buf) \/ (SockOf(t).nonblocking /\ res.ret = EAGAIN)
  /\ SockOf(t).kind = "UDP" /\ thread[t].obj.requireaddr => res.addr \in Peers

(* What the calls return is true of the socket they were made on.          *)
(* getpeername gives the address a connect returned 0 for, and getsockname *)
(* the port others see, or none if none is bound yet.                      *)
AnswersTruthful ==
  ~ overlap => \A t \in Threads : thread[t].own # 0 =>
    LET res == thread[t].res
    IN  CASE res.call = "connectcall" -> ConnectTruthful(t, res)
          [] res.call = "recvfromcall" -> DataTruthful(t, res)
          [] res.call = "getpeernamecall" -> res.addr = thread[t].peer
          [] res.call = "getsocknamecall" -> res.addr \in {<<1, 0>>, LocalAddr(SockOf(t))}
          [] OTHER -> TRUE

(* While both programs run and no descriptor is shared, a thread in a call *)
(* has its Request or an answer in the channel it reads, or the daemon     *)
(* will write one: only recvfrom waits for a packet and only connect for   *)
(* the peer, and neither is forgotten.  A second connect of an established *)
(* socket is the exception: it is never answered.                          *)
AnswerOnItsWay ==
  ~ overlap /\ daemon = "up" /\ client = "up" => \A t \in Threads :
    thread[t].pc \in {"sent", "reading"} =>
      LET ch == chan[thread[t].own]
      IN  \/ Len(ch.req) + Len(ch.resp) > 0
          \/ thread[t].call = "recvfromcall" /\ ch.sock.waiting # "no"
          \/ /\ thread[t].call = "connectcall" /\ ch.sock.estabCB
             /\ ch.sock.state = "SYN_SENT" \/ thread[t].peer # <<0, 0>>
=============================================================================
