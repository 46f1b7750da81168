--------------------------- MODULE ChannelLifetime ---------------------------
(***************************************************************************)
(* Who keeps a request channel, its Socket and its Pcb alive, who holds    *)
(* raw pointers to their SelectableChannels, and when they are destroyed.  *)
(*                                                                         *)
(* Mux's list holds the ReqRespChannel, which holds the Socket, which      *)
(* holds the Pcb.  The event loop holds raw pointers: its list, the epoll  *)
(* set, and the batch that one epoll_wait returned.  The IP thread finds a *)
(* Pcb through a weak pointer and may hold the Pcb, the Socket or the      *)
(* ReqRespChannel while the event loop lets go of them.                    *)
(*                                                                         *)
(* An object lives as long as somebody holds it (shared_ptr), so lives are *)
(* derived from the holders; a destructor is the part of an action that    *)
(* takes the channels that no longer live out of the event loop.           *)
(*                                                                         *)
(* A client is one use of an application's socket: connected once, closed  *)
(* once, at any moment (close, or the death of the process).  The details  *)
(* of the receive queue are in SocketRecv, those of TCP in TcpClient.      *)
(***************************************************************************)
EXTENDS Naturals, Sequences

CONSTANTS
    Clients,    \* request channels, one for each socket of an application
    Tcp,        \* those whose socket is a blocking TCP socket; UDP the others
    Readers,    \* bound: the clients that call recvfrom
    MaxQueued   \* bound: packets in a receive queue

ASSUME ClientsAssumption ==
    Clients # {} /\ Tcp \subseteq Clients /\ Readers \subseteq Clients
ASSUME BoundAssumption == MaxQueued \in Nat \ {0}

VARIABLES
    conn,         \* the client's end of the UNIX connection
    busy,         \* the client is in channel_recv
    req,          \* the Request that waits in the connection, or "none"
    resp,         \* Responses the client has not read
    reset,        \* the client closed with Responses unread: ECONNRESET
    accepted,     \* clients whose connection was accepted
    listed,       \* Mux::Impl::rrChannels
    sockets,      \* clients whose ReqRespChannel has been given a Socket
    registered,   \* EventLoop::Impl::channels, and the epoll set
    batch,        \* raw pointers in `actives' that are not handled yet
    loop,         \* what the event loop thread does
    link,         \* the Pcb has a port / TcpPcb::conn_state
    pipe,         \* the notification pipe is readable
    queued,       \* packets in recvQ
    waiting,      \* Socket::Impl::waiting
    ip,           \* what the IP thread does
    failed,       \* clients to whom a write failed
    fault,        \* the access to a destroyed object, or the race, just made
    up            \* the daemon has not crashed

clientVars == <<conn, busy, req, resp, reset>>
objectVars == <<accepted, listed, sockets, registered>>
socketVars == <<link, pipe, queued, waiting>>
vars == <<clientVars, objectVars, socketVars, batch, loop, ip, failed, fault, up>>

Calls == {"socket", "open", "recvfrom", "close"}   \* open: connect, or sendto

Listener == <<"listen">>
Rr(c) == <<"rr", c>>
Pipe(c) == <<"pipe", c>>
Estab(c) == <<"estab", c>>
Owned(c) == {Rr(c), Pipe(c), Estab(c)}
Channels == {Listener} \cup UNION {Owned(c) : c \in Clients}

NoAnswer == "none"
Idle == [at |-> "poll", ch |-> Listener, answer |-> NoAnswer]
IpIdle == [at |-> "idle", c |-> CHOOSE c \in Clients : TRUE]
LoopStates == [at : {"poll", "enter", "take", "reply", "leave"},
               ch : Channels, answer : {NoAnswer, "wait", "final"}]

-----------------------------------------------------------------------------
(* Ownership.                                                              *)

\* onReadReady and the asynchronous callbacks hold the ReqRespChannel they
\* work on; the raw pointer with which a handler is entered holds nothing.
LoopHoldsRr(c) == /\ loop.ch \in {Rr(c), Pipe(c)}
                  /\ loop.at \in {"take", "reply"}

IpHolds(c, places) == ip.c = c /\ ip.at \in places
IpHoldsRr(c) == IpHolds(c, {"callback", "answered"})
IpHoldsSocket(c) == IpHolds(c, {"socket", "put"})
IpHoldsPcb(c) == IpHolds(c, {"pcb", "socket", "put", "callback", "answered", "done"})

\* Mutant: the callback is bound to a shared_ptr instead of a weak_ptr.
CallbackHoldsRr_Shared(c) == waiting[c]
\* The callback a waiting Socket keeps is bound to a weak_ptr.
CallbackHoldsRr(c) == FALSE

RrLives(c) == /\ c \in accepted
              /\ c \in listed \/ LoopHoldsRr(c) \/ IpHoldsRr(c) \/ CallbackHoldsRr(c)
SocketLives(c) == /\ c \in sockets
                  /\ RrLives(c) \/ IpHoldsSocket(c)
PcbLives(c) == /\ c \in sockets
               /\ SocketLives(c) \/ IpHoldsPcb(c)

LiveChannels == {Listener}
    \cup {Rr(c) : c \in {d \in Clients : RrLives(d)}}
    \cup {Pipe(c) : c \in {d \in Clients : SocketLives(d)}}
    \cup {Estab(c) : c \in {d \in Tcp : PcbLives(d)}}

\* What the destructors leave of a set of registered channels.  (Evaluated in
\* an action, after the new values of the holders.)
Destruct(chs) == registered' = chs \cap LiveChannels'

Gone(c) == /\ c \in accepted
           /\ ~RrLives(c) /\ ~SocketLives(c) /\ ~PcbLives(c)
           /\ registered \cap Owned(c) = {}

\* Undefined behaviour: the daemon may go on as if nothing were, or crash.
Fault(kind, c) == /\ fault' = <<kind, c>>
                  /\ up' \in BOOLEAN
NoFault == fault' = <<>> /\ UNCHANGED up

\* EventLoop::channels is a vector without a lock: a change by the IP thread
\* races with a callback that looks at or changes it.
VectorInUse == loop.at = "enter" /\ loop.ch \in {Listener} \cup {Rr(c) : c \in Clients}
IpChangesChannels(c) ==
    \/ NoFault
    \/ VectorInUse /\ registered' # registered /\ Fault("race", c)

-----------------------------------------------------------------------------
Init ==
    /\ conn = [c \in Clients |-> "new"]
    /\ busy = [c \in Clients |-> FALSE]
    /\ req = [c \in Clients |-> "none"]
    /\ resp = [c \in Clients |-> <<>>]
    /\ reset = [c \in Clients |-> FALSE]
    /\ accepted = {} /\ listed = {} /\ sockets = {}
    /\ registered = {Listener}
    /\ batch = {}
    /\ loop = Idle
    /\ link = [c \in Clients |-> "down"]
    /\ pipe = [c \in Clients |-> FALSE]
    /\ queued = [c \in Clients |-> 0]
    /\ waiting = [c \in Clients |-> FALSE]
    /\ ip = IpIdle
    /\ failed = {}
    /\ fault = <<>>
    /\ up = TRUE

-----------------------------------------------------------------------------
(* The application (the interceptor).                                      *)

Connect(c) ==
    /\ conn[c] = "new"
    /\ conn' = [conn EXCEPT ![c] = "open"]
    /\ UNCHANGED <<busy, req, resp, reset>>

\* A socket is made first, and a TCP socket is connected once.
Legal(c) == IF c \notin sockets THEN {"socket"}
            ELSE {"close"} \cup (IF c \in Readers THEN {"recvfrom"} ELSE {})
                           \cup (IF link[c] = "down" THEN {"open"} ELSE {})

Call(c) ==
    /\ conn[c] = "open" /\ ~busy[c]
    /\ \E k \in Legal(c) : req' = [req EXCEPT ![c] = k]
    /\ busy' = [busy EXCEPT ![c] = TRUE]
    /\ UNCHANGED <<conn, resp, reset>>

\* channel_recv: read Responses up to one that is not WAIT_NEXT.
Receive(c) ==
    /\ conn[c] = "open" /\ busy[c] /\ resp[c] # <<>>
    /\ resp' = [resp EXCEPT ![c] = Tail(@)]
    /\ busy' = [busy EXCEPT ![c] = Head(resp[c]) = "wait"]
    /\ UNCHANGED <<conn, req, reset>>

\* The client's end goes away.  Unread Responses reset the connection; a
\* Request that was sent can still be read.
Close(c) ==
    /\ conn[c] = "open"
    /\ conn' = [conn EXCEPT ![c] = "closed"]
    /\ reset' = [reset EXCEPT ![c] = resp[c] # <<>>]
    /\ busy' = [busy EXCEPT ![c] = FALSE]
    /\ resp' = [resp EXCEPT ![c] = <<>>]
    /\ UNCHANGED req

Application(c) ==
    /\ Connect(c) \/ Call(c) \/ Receive(c) \/ Close(c)
    /\ UNCHANGED <<objectVars, socketVars, batch, loop, ip, failed>>
    /\ NoFault

-----------------------------------------------------------------------------
(* The event loop.                                                         *)

Ready(ch) ==
    \/ ch = Listener /\ \E c \in Clients \ accepted : conn[c] # "new"
    \/ \E c \in Clients : ch = Rr(c) /\ (req[c] # "none" \/ conn[c] = "closed")
    \/ \E c \in Clients : ch = Pipe(c) /\ pipe[c]

\* epoll_wait returns what is ready, in any order (up to 64 events).
Poll ==
    /\ loop.at = "poll" /\ batch = {}
    /\ batch' = {ch \in registered : Ready(ch)}
    /\ batch' # {}
    /\ UNCHANGED <<clientVars, objectVars, socketVars, loop, ip, failed>>
    /\ NoFault

Goto(place) == loop' = [loop EXCEPT !.at = place]

\* The next raw pointer of the batch: handleEventsReceived is entered.
Dispatch ==
    /\ loop.at = "poll"
    /\ \E ch \in batch :
          /\ batch' = batch \ {ch}
          /\ \/ /\ ch \in LiveChannels
                /\ loop' = [at |-> "enter", ch |-> ch, answer |-> NoAnswer]
                /\ NoFault
             \/ /\ ch \notin LiveChannels
                /\ Fault("batch", ch[2])
                /\ UNCHANGED loop
    /\ UNCHANGED <<clientVars, objectVars, socketVars, ip, failed>>

\* Between the entry and the callback the IP thread may have destroyed the
\* channel whose handler runs.
Entered(ch) == loop.at = "enter" /\ loop.ch = ch /\ ch \in LiveChannels

EnterDestroyed ==
    /\ loop.at = "enter" /\ loop.ch \notin LiveChannels
    /\ Fault("running", loop.ch[2])
    /\ Goto("leave")
    /\ UNCHANGED <<clientVars, objectVars, socketVars, batch, ip, failed>>

\* handlingEvents is written after the callback, to an object that its own
\* callback may have destroyed.
Leave ==
    /\ loop.at = "leave"
    /\ loop' = Idle
    /\ IF loop.ch \in LiveChannels THEN NoFault ELSE Fault("self", loop.ch[2])
    /\ UNCHANGED <<clientVars, objectVars, socketVars, batch, ip, failed>>

\* MasterListener accepts every connection there is.
Accept ==
    /\ Entered(Listener)
    /\ LET new == {c \in Clients \ accepted : conn[c] # "new"}
       IN  /\ accepted' = accepted \cup new
           /\ listed' = listed \cup new
           /\ registered' = registered \cup {Rr(c) : c \in new}
    /\ Goto("leave")
    /\ UNCHANGED <<clientVars, socketVars, sockets, batch, ip, failed>>
    /\ NoFault

\* Mutant: the predicate of remove_if is the wrong way round.
removeRRChannel_Others(c) == listed' = listed \cap {c}
\* Mux::removeRRChannel
removeRRChannel(c) == listed' = listed \ {c}

\* Mutant: a failed write removes the channel from Mux, not from the event loop.
Write_Removes(c, answer, chs) ==
    \/ /\ conn[c] # "closed"
       /\ resp' = [resp EXCEPT ![c] = Append(@, answer)]
       /\ UNCHANGED <<listed, failed>>
       /\ Destruct(chs)
    \/ /\ conn[c] = "closed"
       /\ failed' = failed \cup {c}
       /\ UNCHANGED resp
       /\ removeRRChannel(c)
       /\ Destruct(chs)
\* ReqRespChannel::write, when chs are the registered channels.  A client that
\* is gone makes the write fail: the channel leaves the event loop, but not Mux.
\* The writer lets go of the channel next.
Write(c, answer, chs) ==
    \/ /\ conn[c] # "closed"
       /\ resp' = [resp EXCEPT ![c] = Append(@, answer)]
       /\ UNCHANGED <<listed, failed>>
       /\ Destruct(chs)
    \/ /\ conn[c] = "closed"
       /\ failed' = failed \cup {c}
       /\ UNCHANGED <<resp, listed>>
       /\ Destruct(chs \ {Rr(c)})

\* onReadReady reads EOF.
ReadEof(c) ==
    /\ Entered(Rr(c))
    /\ conn[c] = "closed" /\ ~reset[c] /\ req[c] = "none"
    /\ Goto("leave")
    /\ removeRRChannel(c)
    /\ UNCHANGED <<clientVars, accepted, sockets, socketVars, batch, ip, failed>>
    /\ NoFault
    /\ Destruct(registered)

\* onReadReady reads ECONNRESET, goes on with an empty Request and answers it.
ReadReset(c) ==
    /\ Entered(Rr(c)) /\ reset[c]
    /\ reset' = [reset EXCEPT ![c] = FALSE]
    /\ loop' = [loop EXCEPT !.at = "reply", !.answer = "final"]
    /\ UNCHANGED <<conn, busy, req, resp, objectVars, socketVars, batch, ip, failed>>
    /\ NoFault

\* RequestHandler.  A Request is handled, then answered.
Reply(answer) == loop' = [loop EXCEPT !.at = "reply", !.answer = answer]

socketCall(c) ==
    /\ req[c] = "socket"
    /\ sockets' = sockets \cup {c}
    /\ registered' = registered \cup {Pipe(c)} \cup {Estab(d) : d \in {c} \cap Tcp}
    /\ Reply("final")
    /\ UNCHANGED <<accepted, listed, socketVars>>

\* connect sends a SYN and waits; sendto binds a port.
openCall(c) ==
    /\ req[c] = "open"
    /\ link' = [link EXCEPT ![c] = IF c \in Tcp THEN "pending" ELSE "up"]
    /\ Reply(IF c \in Tcp THEN "wait" ELSE "final")
    /\ UNCHANGED <<objectVars, pipe, queued, waiting>>

recvfromCall(c) ==
    /\ req[c] = "recvfrom"
    /\ \/ /\ queued[c] > 0
          /\ queued' = [queued EXCEPT ![c] = @ - 1]
          /\ Reply("final")
          /\ UNCHANGED waiting
       \/ /\ queued[c] = 0
          /\ waiting' = [waiting EXCEPT ![c] = TRUE]
          /\ Reply("wait")
          /\ UNCHANGED queued
    /\ UNCHANGED <<objectVars, link, pipe>>

\* closeCall leaves everything to the EOF that follows.
closeCall(c) ==
    /\ req[c] = "close"
    /\ Reply("final")
    /\ UNCHANGED <<objectVars, socketVars>>

ReadRequest(c) ==
    /\ Entered(Rr(c)) /\ ~reset[c] /\ req[c] # "none"
    /\ socketCall(c) \/ openCall(c) \/ recvfromCall(c) \/ closeCall(c)
    /\ req' = [req EXCEPT ![c] = "none"]
    /\ UNCHANGED <<conn, busy, resp, reset, batch, ip, failed>>
    /\ NoFault

Answer(c) ==
    /\ loop.at = "reply" /\ loop.ch = Rr(c)
    /\ Goto("leave")
    /\ UNCHANGED <<conn, busy, req, reset, accepted, sockets, socketVars, batch, ip>>
    /\ NoFault
    /\ Write(c, loop.answer, registered)

\* Socket::sChannelReadCb drains the pipe and calls the callback if someone
\* waits; the callback gives up if the ReqRespChannel is gone.
sChannelReadCb(c) ==
    /\ Entered(Pipe(c))
    /\ pipe' = [pipe EXCEPT ![c] = FALSE]
    /\ \/ /\ waiting[c] /\ RrLives(c)
          /\ Goto("take")
          /\ UNCHANGED waiting
       \/ /\ ~(waiting[c] /\ RrLives(c))
          /\ Goto("leave")
          /\ waiting' = [waiting EXCEPT ![c] = FALSE]
    /\ UNCHANGED <<clientVars, objectVars, link, queued, batch, ip, failed>>
    /\ NoFault

\* Mutant: the flag is not reset.
onAsyncNewPacket_NoReset(c) ==
    /\ loop.at = "take" /\ loop.ch = Pipe(c)
    /\ queued[c] > 0
    /\ queued' = [queued EXCEPT ![c] = @ - 1]
    /\ Goto("leave")
    /\ UNCHANGED <<conn, busy, req, reset, accepted, sockets, link, pipe, waiting, batch, ip>>
    /\ NoFault
    /\ Write(c, "final", registered)
\* onAsyncNewUdpPacket, onAsyncNewTcpPacket: wait for a packet and answer.
onAsyncNewPacket(c) ==
    /\ loop.at = "take" /\ loop.ch = Pipe(c)
    /\ queued[c] > 0
    /\ queued' = [queued EXCEPT ![c] = @ - 1]
    /\ waiting' = [waiting EXCEPT ![c] = FALSE]
    /\ Goto("leave")
    /\ UNCHANGED <<conn, busy, req, reset, accepted, sockets, link, pipe, batch, ip>>
    /\ NoFault
    /\ Write(c, "final", registered)

EventLoop ==
    \/ Poll \/ Dispatch \/ EnterDestroyed \/ Leave \/ Accept
    \/ \E c \in Clients : \/ ReadEof(c) \/ ReadReset(c) \/ ReadRequest(c)
                          \/ Answer(c) \/ sChannelReadCb(c) \/ onAsyncNewPacket(c)

-----------------------------------------------------------------------------
(* The IP thread.                                                          *)

IpGoto(place) == ip' = [ip EXCEPT !.at = place]

\* Pcbs::find locks a weak pointer to a Pcb that has a port.
IpFind(c) ==
    /\ ip.at = "idle"
    /\ PcbLives(c) /\ link[c] # "down"
    /\ ip' = [at |-> "pcb", c |-> c]
    /\ UNCHANGED <<objectVars, socketVars, failed, resp>>
    /\ NoFault

\* A packet with data is for the Socket, whose weak pointer is locked and
\* used without a test.
IpLockSocket(c) ==
    /\ ip.at = "pcb" /\ link[c] = "up"
    /\ \/ /\ SocketLives(c)
          /\ IpGoto("socket")
          /\ NoFault
       \/ /\ ~SocketLives(c)
          /\ fault' = <<"null", c>>
          /\ up' = FALSE
          /\ UNCHANGED ip
    /\ UNCHANGED <<objectVars, socketVars, failed, resp>>

\* Mutant: the limit is not tested.
IpPut_NoLimit(c) ==
    /\ ip.at = "socket"
    /\ queued' = [queued EXCEPT ![c] = @ + 1]
    /\ pipe' = [pipe EXCEPT ![c] = TRUE]
    /\ IpGoto("put")
    /\ UNCHANGED <<objectVars, link, waiting, failed, resp>>
    /\ NoFault
\* Socket::putToRecvQ
IpPut(c) ==
    /\ ip.at = "socket"
    /\ \/ /\ queued[c] < MaxQueued
          /\ queued' = [queued EXCEPT ![c] = @ + 1]
          /\ pipe' = [pipe EXCEPT ![c] = TRUE]
       \/ /\ queued[c] = MaxQueued
          /\ UNCHANGED <<queued, pipe>>
    /\ IpGoto("put")
    /\ UNCHANGED <<objectVars, link, waiting, failed, resp>>
    /\ NoFault

\* A segment without data.
IpAck(c) ==
    /\ ip.at = "pcb" /\ c \in Tcp /\ link[c] = "up"
    /\ IpGoto("done")
    /\ UNCHANGED <<objectVars, socketVars, failed, resp>>
    /\ NoFault

\* SYN and ACK: the connection callback locks the ReqRespChannel.
IpEstablish(c) ==
    /\ ip.at = "pcb" /\ link[c] = "pending"
    /\ link' = [link EXCEPT ![c] = "up"]
    /\ IpGoto(IF RrLives(c) THEN "callback" ELSE "done")
    /\ UNCHANGED <<objectVars, pipe, queued, waiting, failed, resp>>
    /\ NoFault

\* The callback takes the estab channel out of the event loop and answers.
IpAnswer(c) ==
    /\ ip.at = "callback"
    /\ IpGoto("answered")
    /\ UNCHANGED <<accepted, sockets, socketVars>>
    /\ Write(c, "final", registered \ {Estab(c)})
    /\ IpChangesChannels(c)

\* The pointer to the Socket or the ReqRespChannel goes, then that to the Pcb;
\* each may be the last.
IpRelease(c) ==
    /\ \/ ip.at \in {"put", "answered"} /\ IpGoto("done")
       \/ ip.at = "done" /\ ip' = IpIdle
    /\ UNCHANGED <<accepted, listed, sockets, socketVars, failed, resp>>
    /\ Destruct(registered)
    /\ IpChangesChannels(c)

IpStep == \E c \in {ip.c} :
    /\ UNCHANGED <<conn, busy, req, reset, batch, loop>>
    /\ \/ IpLockSocket(c) \/ IpPut(c) \/ IpAck(c) \/ IpEstablish(c)
       \/ IpAnswer(c) \/ IpRelease(c)

IpArrival(c) == IpFind(c) /\ UNCHANGED <<conn, busy, req, reset, batch, loop>>

-----------------------------------------------------------------------------
Next == up /\ \/ \E c \in Clients : Application(c) \/ IpArrival(c)
              \/ EventLoop
              \/ IpStep

Spec == Init /\ [][Next]_vars

\* Both threads of the daemon run; clients and packets need not come.
FairSpec == /\ Spec
            /\ WF_vars(up /\ EventLoop)
            /\ WF_vars(up /\ IpStep)

-----------------------------------------------------------------------------
TypeOK ==
    /\ conn \in [Clients -> {"new", "open", "closed"}]
    /\ busy \in [Clients -> BOOLEAN] /\ reset \in [Clients -> BOOLEAN]
    /\ req \in [Clients -> Calls \cup {"none"}]
    /\ resp \in [Clients -> Seq({"wait", "final"})]
    /\ listed \subseteq accepted /\ sockets \subseteq accepted /\ accepted \subseteq Clients
    /\ registered \subseteq Channels /\ batch \subseteq Channels
    /\ loop \in LoopStates /\ (loop.at = "reply" => loop.answer # NoAnswer)
    /\ link \in [Clients -> {"down", "pending", "up"}]
    /\ pipe \in [Clients -> BOOLEAN] /\ waiting \in [Clients -> BOOLEAN]
    /\ queued \in [Clients -> 0 .. MaxQueued]
    /\ ip \in [at : {"idle", "pcb", "socket", "put", "callback", "answered", "done"},
               c : Clients]
    /\ failed \subseteq Clients
    /\ fault \in {<<>>} \cup {"batch", "running", "self", "null", "race"} \X Clients
    /\ up \in BOOLEAN

\* No access goes astray on behalf of a client that has not closed, whatever
\* the others do, except that a TCP connect changes the event loop's vector
\* from the IP thread (SelectableChannel::handleEventsReceived, UdpPcb::recv).
FaultNeedsClose ==
    fault # <<>> => \/ conn[fault[2]] = "closed"
                    \/ fault[1] = "race" /\ fault[2] \in Tcp

\* The request channel of a UDP socket is destroyed by nothing but its own
\* handler, so no batch holds a dangling pointer to one (EventLoop::loop).
RequestChannelOutlivesBatch ==
    \A c \in accepted \ Tcp : Rr(c) \in batch => RrLives(c)

\* A client outside a call has no final answer left to read: each call gets
\* one, although the event loop and the IP thread both write to the channel.
NoStrayAnswer ==
    \A c \in Clients :
        conn[c] = "open" /\ ~busy[c] => \A i \in DOMAIN resp[c] : resp[c][i] = "wait"

\* The event loop waits in takeFromRecvQ for a packet of a socket.
LoopStuck == loop.at = "take" /\ queued[loop.ch[2]] = 0

\* A client that closes is forgotten: its channel, Socket and Pcb are destroyed
\* and leave the event loop, unless a write to it failed or the daemon crashed
\* (removeRRChannel and the destructors).
Reclaimed ==
    \A c \in Clients :
        []<>~LoopStuck => (conn[c] = "closed" ~> Gone(c) \/ c \in failed \/ ~up)
=============================================================================
