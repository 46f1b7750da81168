--------------------------- MODULE SocketRecvProofs ---------------------------
(***************************************************************************)
(* Proofs about SocketRecv for every set of clients and sockets, every     *)
(* sharing of sockets and every limit.                                     *)
(***************************************************************************)
EXTENDS SocketRecv, SequenceTheorems, FiniteSetTheorems, WellFoundedInduction,
        TLAPS

(***************************************************************************)
(* Facts about short sequences and about families of queues.               *)
(***************************************************************************)

LEMMA OneElement ==
    ASSUME NEW T, NEW a \in T
    PROVE  Tail(<<a>>) = <<>> /\ Head(<<a>>) = a /\ Append(<<>>, a) = <<a>>
<1>1. Tail(<<a>>) = <<>>
    OBVIOUS
<1>2. Head(<<a>>) = a
    OBVIOUS
<1>3. Append(<<>>, a) = <<a>>
    OBVIOUS
<1>4. QED BY <1>1, <1>2, <1>3

LEMMA TwoElements ==
    ASSUME NEW T, NEW a \in T, NEW b \in T
    PROVE  /\ Tail(<<a, b>>) = <<b>>
           /\ Head(<<a, b>>) = a
           /\ Append(<<a>>, b) = <<a, b>>
<1>1. Tail(<<a, b>>) = <<b>>
    OBVIOUS
<1>2. Head(<<a, b>>) = a
    OBVIOUS
<1>3. Append(<<a>>, b) = <<a, b>>
    <2> DEFINE u == Append(<<a>>, b)
               v == <<a, b>>
    <2>1. <<a>> \in Seq(T) /\ Len(<<a>>) = 1 /\ <<a>>[1] = a
        OBVIOUS
    <2>2. u \in Seq(T) /\ Len(u) = 2 /\ u[1] = a /\ u[2] = b
        BY <2>1, AppendProperties
    <2>3. v \in Seq(T)
        OBVIOUS
    <2>4. Len(v) = 2
        OBVIOUS
    <2>5. v[1] = a /\ v[2] = b
        OBVIOUS
    <2>6. \A i \in 1 .. 2 : u[i] = v[i]
        <3> SUFFICES ASSUME NEW i \in 1 .. 2 PROVE u[i] = v[i]
            OBVIOUS
        <3>1. i = 1 \/ i = 2
            OBVIOUS
        <3>2. QED BY <3>1, <2>2, <2>5
    <2> HIDE DEF u, v
    <2>7. u = v
        BY <2>2, <2>3, <2>4, <2>6, SeqEqual
    <2>8. QED BY <2>7 DEF u, v
<1>4. QED BY <1>1, <1>2, <1>3

LEMMA LengthOne ==
    ASSUME NEW T, NEW q \in Seq(T), Len(q) = 1
    PROVE  Head(q) = q[1] /\ Tail(q) = <<>>
<1>1. Head(q) = q[1]
    OBVIOUS
<1>2. Tail(q) = <<>>
    <2>1. q # <<>>
        BY EmptySeq
    <2>2. Tail(q) \in Seq(T) /\ Len(Tail(q)) = Len(q) - 1
        BY <2>1, HeadTailProperties
    <2>3. Len(Tail(q)) = 0
        BY <2>2
    <2>4. QED BY <2>2, <2>3, EmptySeq
<1>3. QED BY <1>1, <1>2

USE SockOfAssumption, SubsetsAssumption, LimitsAssumption, NoSocketAssumption

(***************************************************************************)
(* Type correctness.                                                       *)
(***************************************************************************)

LEMMA RequestTypes ==
    /\ \A addr \in BOOLEAN, call \in Calls :
           [call |-> call, addr |-> addr] \in Requests
    /\ \A call \in Calls, p \in Packets \cup {NoPacket}, addr \in BOOLEAN :
           Answer(call, p, addr) \in Responses
    /\ WaitNext \in Responses
BY DEF Requests, Responses, Answers

\* The heads and tails of the queues have the types of the queues.
LEMMA QueueTypes ==
    ASSUME NEW T, NEW q \in Seq(T), q # <<>>
    PROVE  Head(q) \in T /\ Tail(q) \in Seq(T)
OBVIOUS

\* Appending to, or removing the head of, one queue of a family keeps its type.
LEMMA AppendAt ==
    ASSUME NEW D, NEW T, NEW f \in [D -> Seq(T)], NEW d \in D, NEW x \in T
    PROVE  [f EXCEPT ![d] = Append(@, x)] \in [D -> Seq(T)]
OBVIOUS

LEMMA TailAt ==
    ASSUME NEW D, NEW T, NEW f \in [D -> Seq(T)], NEW d \in D, f[d] # <<>>
    PROVE  [f EXCEPT ![d] = Tail(@)] \in [D -> Seq(T)]
OBVIOUS

\* The responses the event loop writes are responses.
LEMMA RespondType ==
    ASSUME resp \in [Sockets -> Seq(Responses)],
           NEW s \in Sockets, NEW r \in Responses, Respond(s, r)
    PROVE  resp' \in [Sockets -> Seq(Responses)]
BY AppendAt DEF Respond

LEMMA TakeType ==
    ASSUME recvQ \in [Sockets -> Seq(Packets)],
           answered \in [Sockets -> Seq(Packets)],
           NEW s \in Sockets, recvQ[s] # <<>>, Take(s)
    PROVE  /\ Head(recvQ[s]) \in Packets
           /\ recvQ' \in [Sockets -> Seq(Packets)]
           /\ answered' \in [Sockets -> Seq(Packets)]
<1>1. Head(recvQ[s]) \in Packets
    BY QueueTypes
<1>2. QED BY <1>1, AppendAt, TailAt DEF Take

LEMMA TypeInit == Init => TypeOK
BY DEF Init, TypeOK, Calls

LEMMA TypeStep == TypeOK /\ [Next]_vars => TypeOK'
<1> SUFFICES ASSUME TypeOK, [Next]_vars PROVE TypeOK'
    OBVIOUS
<1> USE DEF TypeOK, daemonVars, ipVars, clientVars
<1>1. ASSUME NEW s \in Sockets, IpArrive(s) PROVE TypeOK'
    <2>1. arrived' \in 0 .. MaxPackets /\ arrived' > 0
        BY <1>1 DEF IpArrive
    <2>2. CASE UNCHANGED <<ipPc, ipSock>>
        <3>1. ipPc' = "idle" /\ ipSock' = NoSocket
            BY <1>1, <2>2 DEF IpArrive
        <3>2. QED BY <1>1, <2>1, <3>1 DEF IpArrive
    <2>3. CASE ipPc' = "enqueue" /\ ipSock' = s
        BY <1>1, <2>1, <2>3 DEF IpArrive
    <2>4. UNCHANGED <<ipPc, ipSock>> \/ (ipPc' = "enqueue" /\ ipSock' = s)
        BY <1>1 DEF IpArrive
    <2>5. QED BY <2>2, <2>3, <2>4
<1>2. CASE IpEnqueue
    <2>1. arrived \in Packets
        BY <1>2 DEF IpEnqueue, Packets
    <2>2. recvQ' \in [Sockets -> Seq(Packets)] /\ ipPc' \in {"idle", "notify"}
        BY <1>2, <2>1 DEF IpEnqueue
    <2>3. QED BY <1>2, <2>2 DEF IpEnqueue
<1>3. CASE IpNotify
    <2>1. pipe' \in [Sockets -> 0 .. PipeCapacity]
        <3>1. pipe[ipSock] \in 0 .. PipeCapacity
            BY <1>3 DEF IpNotify
        <3>2. pipe[ipSock] < PipeCapacity => pipe[ipSock] + 1 \in 0 .. PipeCapacity
            BY <3>1
        <3>3. QED BY <1>3, <3>1, <3>2 DEF IpNotify
    <2>2. QED BY <1>3, <2>1 DEF IpNotify
<1>4. CASE Poll
    BY <1>4 DEF Poll, ReadyChannels, Channels
<1>5. ASSUME NEW s \in Sockets, onReadReady(s) PROVE TypeOK'
    <2>1. Head(req[s]) \in Requests /\ Tail(req[s]) \in Seq(Requests)
        BY <1>5, QueueTypes DEF onReadReady
    <2>2. req' \in [Sockets -> Seq(Requests)] /\ actives' \subseteq Channels
        BY <1>5, <2>1 DEF onReadReady
    <2>3. CASE recvfromCall(s, Head(req[s]))
        <3>1. Head(req[s]).addr \in BOOLEAN
            BY <2>1 DEF Requests
        <3>2. CASE recvQ[s] # <<>>
            <4>1. /\ Respond(s, Answer("recvfrom", Head(recvQ[s]), Head(req[s]).addr))
                  /\ Take(s)
                  /\ UNCHANGED <<waiting, cbAddr>>
                BY <2>3, <3>2 DEF recvfromCall
            <4>2. Answer("recvfrom", Head(recvQ[s]), Head(req[s]).addr) \in Responses
                BY <4>1, <3>1, <3>2, TakeType, RequestTypes DEF Calls
            <4>3. QED BY <1>5, <2>2, <3>2, <4>1, <4>2, RespondType, TakeType DEF onReadReady
        <3>3. CASE recvQ[s] = <<>>
            <4>1. PICK r \in Responses : Respond(s, r)
                BY <2>3, <3>3, RequestTypes DEF recvfromCall, Calls
            <4>2. resp' \in [Sockets -> Seq(Responses)]
                BY <4>1, RespondType
            <4>3. /\ UNCHANGED <<recvQ, answered>>
                  /\ waiting' \in [Sockets -> BOOLEAN]
                  /\ cbAddr' \in [Sockets -> BOOLEAN]
                BY <2>3, <3>1, <3>3 DEF recvfromCall
            <4>4. QED BY <1>5, <2>2, <4>2, <4>3 DEF onReadReady
        <3>4. QED BY <3>2, <3>3
    <2>4. CASE sendtoCall(s)
        <3>1. Answer("sendto", NoPacket, FALSE) \in Responses
            BY RequestTypes DEF Calls
        <3>2. resp' \in [Sockets -> Seq(Responses)]
            BY <2>4, <3>1, RespondType DEF sendtoCall
        <3>3. QED BY <1>5, <2>2, <2>4, <3>2 DEF onReadReady, sendtoCall
    <2>5. QED BY <1>5, <2>3, <2>4 DEF onReadReady
<1>6. ASSUME NEW s \in Sockets, sChannelReadCb(s) PROVE TypeOK'
    BY <1>6 DEF sChannelReadCb
<1>7. ASSUME NEW s \in Sockets, onAsyncNewPacket(s) PROVE TypeOK'
    <2>1. /\ Take(s)
          /\ recvQ[s] # <<>>
          /\ Respond(s, Answer("recvfrom", Head(recvQ[s]), s \notin Tcp /\ cbAddr[s]))
        BY <1>7 DEF onAsyncNewPacket
    <2>2. Answer("recvfrom", Head(recvQ[s]), s \notin Tcp /\ cbAddr[s]) \in Responses
        BY <2>1, TakeType, RequestTypes DEF Calls
    <2>3. /\ recvQ' \in [Sockets -> Seq(Packets)]
          /\ answered' \in [Sockets -> Seq(Packets)]
          /\ resp' \in [Sockets -> Seq(Responses)]
        BY <2>1, <2>2, TakeType, RespondType
    <2>4. QED BY <1>7, <2>3 DEF onAsyncNewPacket
<1>8. ASSUME NEW c \in Clients, CallRecvfrom(c) PROVE TypeOK'
    <2>1. [call |-> "recvfrom", addr |-> c \in WantAddr] \in Requests
        BY DEF Requests, Calls
    <2>2. req' \in [Sockets -> Seq(Requests)]
        BY <1>8, <2>1, AppendAt DEF CallRecvfrom
    <2>3. QED BY <1>8, <2>2 DEF CallRecvfrom, Calls
<1>9. ASSUME NEW c \in Clients, CallSendto(c) PROVE TypeOK'
    <2>1. [call |-> "sendto", addr |-> FALSE] \in Requests
        BY DEF Requests, Calls
    <2>2. req' \in [Sockets -> Seq(Requests)]
        BY <1>9, <2>1, AppendAt DEF CallSendto
    <2>3. QED BY <1>9, <2>2 DEF CallSendto, Calls
<1>10. ASSUME NEW c \in Clients, NEW r, ReadResponse(c, r)
       PROVE  resp' \in [Sockets -> Seq(Responses)]
    <2>1. SockOf[c] \in Sockets
        OBVIOUS
    <2>2. Tail(resp[SockOf[c]]) \in Seq(Responses)
        BY <1>10, <2>1, QueueTypes DEF ReadResponse
    <2>3. QED BY <1>10, <2>1, <2>2 DEF ReadResponse
<1>11. ASSUME NEW c \in Clients, SkipWaitNext(c) PROVE TypeOK'
    BY <1>10, <1>11 DEF SkipWaitNext, ReadResponse
<1>12. ASSUME NEW c \in Clients, Return(c) PROVE TypeOK'
    <2>1. PICK r \in Answers :
              /\ ReadResponse(c, r)
              /\ cstate' = [cstate EXCEPT ![c] = "idle"]
              /\ got' = IF r.pkt = NoPacket THEN got
                        ELSE [got EXCEPT ![SockOf[c]] = Append(@, r.pkt)]
        BY <1>12 DEF Return
    <2>2. r.pkt \in Packets \cup {NoPacket}
        BY DEF Answers, Answer
    <2>3. got' \in [Sockets -> Seq(Packets)]
        BY <2>1, <2>2
    <2>4. QED BY <1>10, <2>1, <2>3 DEF ReadResponse
<1>13. ASSUME NEW c \in Clients, Abort(c) PROVE TypeOK'
    BY <1>10, <1>13 DEF Abort, ReadResponse
<1>14. CASE UNCHANGED vars
    BY <1>14 DEF vars
<1>15. QED
    BY <1>1, <1>2, <1>3, <1>4, <1>5, <1>6, <1>7, <1>8, <1>9, <1>11, <1>12, <1>13, <1>14
       DEF Next, IpThread, EventLoop, Client, InCall

\* The variables of the receive path always have the types the code gives them.
THEOREM TypeCorrect == Spec => []TypeOK
BY TypeInit, TypeStep, PTL DEF Spec

(***************************************************************************)
(* The receive queue is bounded.  QueueBounded is not inductive by itself: *)
(* what makes it so is that the size the IP thread tested can only shrink  *)
(* until the same thread enqueues, because no other thread enqueues.       *)
(***************************************************************************)

BoundInv ==
    /\ QueueBounded
    /\ ipPc = "enqueue" => Len(recvQ[ipSock]) <= RecvQLimit

LEMMA LenTail ==
    ASSUME NEW T, NEW q \in Seq(T), q # <<>>
    PROVE  Len(Tail(q)) = Len(q) - 1 /\ Len(q) \in Nat
OBVIOUS

LEMMA LenAppend ==
    ASSUME NEW T, NEW q \in Seq(T), NEW x
    PROVE  Len(Append(q, x)) = Len(q) + 1 /\ Len(q) \in Nat
OBVIOUS

\* Taking a packet shortens the queue of one socket and leaves the others.
LEMMA BoundTake ==
    ASSUME TypeOK, BoundInv, NEW s \in Sockets, recvQ[s] # <<>>, Take(s),
           UNCHANGED <<ipPc, ipSock>>
    PROVE  BoundInv'
<1>1. recvQ' = [recvQ EXCEPT ![s] = Tail(@)] /\ recvQ \in [Sockets -> Seq(Packets)]
    BY DEF Take, TypeOK
<1>2. \A z \in Sockets : Len(recvQ'[z]) \in Nat /\ Len(recvQ[z]) \in Nat
    BY <1>1, QueueTypes
<1>3. \A z \in Sockets : Len(recvQ'[z]) <= Len(recvQ[z])
    BY <1>1, <1>2, LenTail
<1>4. ipPc = "enqueue" => ipSock \in Sockets
    BY DEF TypeOK
<1>5. QED BY <1>2, <1>3, <1>4 DEF BoundInv, QueueBounded

LEMMA BoundStep == TypeOK /\ BoundInv /\ [Next]_vars => BoundInv'
<1> SUFFICES ASSUME TypeOK, BoundInv, [Next]_vars PROVE BoundInv'
    OBVIOUS
<1> USE DEF daemonVars, ipVars, clientVars
<1>1. ASSUME NEW s \in Sockets, IpArrive(s) PROVE BoundInv'
    BY <1>1 DEF IpArrive, BoundInv, QueueBounded
<1>2. CASE IpEnqueue
    <2>1. /\ recvQ \in [Sockets -> Seq(Packets)]
          /\ recvQ' = [recvQ EXCEPT ![ipSock] = Append(@, arrived)]
          /\ ipPc' = "notify" /\ ipSock \in Sockets
          /\ Len(recvQ[ipSock]) <= RecvQLimit
        BY <1>2 DEF IpEnqueue, TypeOK, BoundInv
    <2>2. Len(recvQ'[ipSock]) <= RecvQLimit + 1
        BY <2>1, LenAppend
    <2>3. \A z \in Sockets : z # ipSock => recvQ'[z] = recvQ[z]
        BY <2>1
    <2>4. QED BY <2>1, <2>2, <2>3 DEF BoundInv, QueueBounded
<1>3. CASE IpNotify
    BY <1>3 DEF IpNotify, BoundInv, QueueBounded
<1>4. CASE Poll
    BY <1>4 DEF Poll, BoundInv, QueueBounded
<1>5. ASSUME NEW s \in Sockets, onReadReady(s) PROVE BoundInv'
    <2>1. UNCHANGED <<ipPc, ipSock>>
        BY <1>5 DEF onReadReady
    <2>2. (recvQ[s] # <<>> /\ Take(s)) \/ UNCHANGED recvQ
        BY <1>5 DEF onReadReady, recvfromCall, sendtoCall
    <2>3. QED BY <2>1, <2>2, BoundTake DEF BoundInv, QueueBounded
<1>6. ASSUME NEW s \in Sockets, sChannelReadCb(s) PROVE BoundInv'
    BY <1>6 DEF sChannelReadCb, BoundInv, QueueBounded
<1>7. ASSUME NEW s \in Sockets, onAsyncNewPacket(s) PROVE BoundInv'
    BY <1>7, BoundTake DEF onAsyncNewPacket
<1>8. ASSUME NEW c \in Clients, Client(c) PROVE BoundInv'
    <2>1. UNCHANGED <<recvQ, ipPc, ipSock>>
        BY <1>8 DEF Client, CallRecvfrom, CallSendto, InCall, SkipWaitNext, Return,
                    Abort, ReadResponse
    <2>2. QED BY <2>1 DEF BoundInv, QueueBounded
<1>9. CASE UNCHANGED vars
    BY <1>9 DEF vars, BoundInv, QueueBounded
<1>10. QED
    BY <1>1, <1>2, <1>3, <1>4, <1>5, <1>6, <1>7, <1>8, <1>9
       DEF Next, IpThread, EventLoop

\* Socket::putToRecvQ never leaves more than recvQlimit + 1 packets queued, for
\* every limit and any number of sockets.
THEOREM QueueNeverOverfull == Spec => []QueueBounded
<1>1. Init => BoundInv
    BY DEF Init, BoundInv, QueueBounded
<1>2. BoundInv => QueueBounded
    BY DEF BoundInv
<1>3. QED BY <1>1, <1>2, BoundStep, TypeCorrect, PTL DEF Spec

(***************************************************************************)
(* No wakeup is lost.  NoLostWakeup is inductive, given the types: a flag  *)
(* is raised only over an empty queue, a packet enters a queue only on the *)
(* way to a notification, and the pipe is drained only by the callback     *)
(* that, finding the flag raised, goes on to take a packet.                *)
(***************************************************************************)

\* The same fact about one socket.
Woken(s) ==
    waiting[s] /\ recvQ[s] # <<>> =>
        \/ pipe[s] > 0
        \/ ipPc = "notify" /\ ipSock = s
        \/ taking = s

LEMMA WakeupStep == TypeOK /\ NoLostWakeup /\ [Next]_vars => NoLostWakeup'
<1> SUFFICES ASSUME TypeOK, NoLostWakeup, [Next]_vars, NEW z \in Sockets
             PROVE  Woken(z)'
    BY DEF NoLostWakeup, Woken
<1> USE DEF daemonVars, ipVars, clientVars, Woken
<1>0. Woken(z) /\ z # NoSocket
    BY DEF NoLostWakeup
<1>1. ASSUME NEW s \in Sockets, IpArrive(s) PROVE Woken(z)'
    BY <1>0, <1>1 DEF IpArrive
<1>2. CASE IpEnqueue
    BY <1>0, <1>2 DEF IpEnqueue, TypeOK
<1>3. CASE IpNotify
    <2>1. ipSock \in Sockets /\ pipe \in [Sockets -> 0 .. PipeCapacity]
        BY <1>3 DEF IpNotify, TypeOK
    <2>2. pipe'[ipSock] > 0
        BY <1>3, <2>1 DEF IpNotify
    <2>3. z # ipSock => pipe'[z] = pipe[z]
        BY <1>3, <2>1 DEF IpNotify
    <2>4. QED BY <1>0, <1>3, <2>2, <2>3 DEF IpNotify
<1>4. CASE Poll
    BY <1>0, <1>4 DEF Poll
<1>5. ASSUME NEW s \in Sockets, onReadReady(s) PROVE Woken(z)'
    <2>1. UNCHANGED <<pipe, ipPc, ipSock, taking>> /\ taking = NoSocket
        BY <1>5 DEF onReadReady
    <2>2. z # s => waiting'[z] = waiting[z] /\ recvQ'[z] = recvQ[z]
        BY <1>5 DEF onReadReady, recvfromCall, sendtoCall, Take, TypeOK
    <2>3. CASE z = s
        <3>1. CASE UNCHANGED <<recvQ, waiting>>
            BY <1>0, <2>1, <3>1
        <3>2. CASE recvQ[s] # <<>> /\ UNCHANGED waiting
            BY <1>0, <2>1, <2>3, <3>2
        <3>3. CASE recvQ[s] = <<>> /\ UNCHANGED recvQ
            BY <2>3, <3>3
        <3>4. QED
            BY <1>5, <3>1, <3>2, <3>3 DEF onReadReady, recvfromCall, sendtoCall
    <2>4. QED BY <1>0, <2>1, <2>2, <2>3
<1>6. ASSUME NEW s \in Sockets, sChannelReadCb(s) PROVE Woken(z)'
    <2>1. /\ UNCHANGED <<recvQ, waiting, ipPc, ipSock>> /\ taking = NoSocket
          /\ pipe' = [pipe EXCEPT ![s] = 0]
          /\ taking' = IF waiting[s] THEN s ELSE NoSocket
        BY <1>6 DEF sChannelReadCb
    <2>2. z # s => pipe'[z] = pipe[z]
        BY <2>1 DEF TypeOK
    <2>3. QED BY <1>0, <2>1, <2>2
<1>7. ASSUME NEW s \in Sockets, onAsyncNewPacket(s) PROVE Woken(z)'
    <2>1. /\ UNCHANGED <<pipe, ipPc, ipSock>> /\ taking = s
          /\ waiting' = [waiting EXCEPT ![s] = FALSE]
          /\ recvQ' = [recvQ EXCEPT ![s] = Tail(@)]
        BY <1>7 DEF onAsyncNewPacket, Take
    <2>2. z = s => ~waiting'[z]
        BY <2>1 DEF TypeOK
    <2>3. z # s => waiting'[z] = waiting[z] /\ recvQ'[z] = recvQ[z]
        BY <2>1 DEF TypeOK
    <2>4. QED BY <1>0, <2>1, <2>2, <2>3
<1>8. ASSUME NEW c \in Clients, Client(c) PROVE Woken(z)'
    <2>1. UNCHANGED <<recvQ, pipe, waiting, ipPc, ipSock, taking>>
        BY <1>8 DEF Client, CallRecvfrom, CallSendto, InCall, SkipWaitNext, Return,
                    Abort, ReadResponse
    <2>2. QED BY <1>0, <2>1
<1>9. CASE UNCHANGED vars
    BY <1>0, <1>9 DEF vars
<1>10. QED
    BY <1>1, <1>2, <1>3, <1>4, <1>5, <1>6, <1>7, <1>8, <1>9
       DEF Next, IpThread, EventLoop

\* A recvfrom never sleeps through a packet: whatever the interleaving of the
\* IP thread's enqueue and notification with the event loop's drain and test.
THEOREM NoWakeupLost == Spec => []NoLostWakeup
<1>1. Init => NoLostWakeup
    BY DEF Init, NoLostWakeup
<1>2. QED BY <1>1, WakeupStep, TypeCorrect, PTL DEF Spec

(***************************************************************************)
(* One answer per call.  The event loop fetches a packet only for a        *)
(* recvfrom that waits; with that, OneAnswerPerCall is inductive.          *)
(***************************************************************************)

TakingForWaiter == taking # NoSocket => waiting[taking]

\* No request comes from nowhere: a socket nobody uses has none.
UnusedQuiet == \A s \in Sockets : (\A c \in Clients : SockOf[c] # s) => req[s] = <<>>

Position(c) ==
    IF cstate[c] \in Calls
      THEN Called(c, SockOf[c]) \/ Waiting(c, SockOf[c]) \/ Answered(c, SockOf[c])
      ELSE Quiet(SockOf[c])

CallInv ==
    /\ TakingForWaiter
    /\ UnusedQuiet
    /\ \A c \in Clients : Position(c)

LEMMA AnswersAreFinal ==
    /\ WaitNext \notin Answers
    /\ \A r \in Answers : r.call \in Calls /\ r # WaitNext
    /\ \A call \in Calls, p \in Packets \cup {NoPacket}, addr \in BOOLEAN :
           Answer(call, p, addr) \in Answers /\ Answer(call, p, addr).call = call
<1>1. \A call \in Calls, p \in Packets \cup {NoPacket}, addr \in BOOLEAN :
          /\ Answer(call, p, addr) \in Answers
          /\ Answer(call, p, addr).call = call
          /\ Answer(call, p, addr).code # WaitNext.code
    BY DEF WaitNext, Answers, Answer
<1>2. \A r \in Answers : r.call \in Calls /\ r.code # WaitNext.code
    BY <1>1 DEF Answers
<1>3. QED BY <1>1, <1>2

\* What a handler of socket z does not touch: the answers of another socket, and
\* its flag.
LEMMA OthersKept ==
    ASSUME TypeOK, NEW s \in Sockets, NEW z \in Sockets, z # s
    PROVE  /\ \A r : Respond(z, r) => resp'[s] = resp[s]
           /\ waiting' = [waiting EXCEPT ![z] = TRUE] => waiting'[s] = waiting[s]
BY DEF Respond, TypeOK

\* What a handler writes and leaves behind for a request of client c.
LEMMA HandlerAnswers ==
    ASSUME TypeOK, NEW s \in Sockets, onReadReady(s), ~waiting[s]
    PROVE  /\ waiting' \in [Sockets -> BOOLEAN]
           /\ \/ /\ Head(req[s]).call = "recvfrom"
                 /\ waiting'[s]
                 /\ resp' = [resp EXCEPT ![s] = Append(@, WaitNext)]
              \/ /\ ~waiting'[s]
                 /\ \E r \in Answers :
                       /\ r.call = Head(req[s]).call
                       /\ resp' = [resp EXCEPT ![s] = Append(@, r)]
<1>1. Head(req[s]) \in Requests
    BY QueueTypes DEF onReadReady, TypeOK
<1>2. CASE Head(req[s]).call = "recvfrom" /\ recvfromCall(s, Head(req[s]))
    <2>1. CASE recvQ[s] # <<>>
        <3>1. /\ UNCHANGED waiting /\ Take(s)
              /\ Respond(s, Answer("recvfrom", Head(recvQ[s]), Head(req[s]).addr))
            BY <1>2, <2>1 DEF recvfromCall
        <3>2. Head(recvQ[s]) \in Packets /\ Head(req[s]).addr \in BOOLEAN
            BY <1>1, <2>1, QueueTypes DEF TypeOK, Requests
        <3>3. QED BY <1>2, <3>1, <3>2, AnswersAreFinal DEF Respond, TypeOK, Calls
    <2>2. CASE recvQ[s] = <<>> /\ s \in Nonblocking
        BY <1>2, <2>2, AnswersAreFinal DEF recvfromCall, Respond, TypeOK, Calls
    <2>3. CASE recvQ[s] = <<>> /\ s \notin Nonblocking
        BY <1>2, <2>3 DEF recvfromCall, Respond, TypeOK
    <2>4. QED BY <2>1, <2>2, <2>3
<1>3. CASE Head(req[s]).call = "sendto" /\ sendtoCall(s)
    BY <1>3, AnswersAreFinal DEF sendtoCall, Respond, TypeOK, Calls
<1>4. QED BY <1>2, <1>3 DEF onReadReady

LEMMA TakingStep == TypeOK /\ TakingForWaiter /\ [Next]_vars => TakingForWaiter'
<1> SUFFICES ASSUME TypeOK, TakingForWaiter, [Next]_vars PROVE TakingForWaiter'
    OBVIOUS
<1> USE DEF daemonVars, ipVars, clientVars, TakingForWaiter
<1>1. CASE IpThread
    BY <1>1 DEF IpThread, IpArrive, IpEnqueue, IpNotify
<1>2. CASE Poll
    BY <1>2 DEF Poll
<1>3. ASSUME NEW s \in Sockets, onReadReady(s) PROVE TakingForWaiter'
    BY <1>3 DEF onReadReady
<1>4. ASSUME NEW s \in Sockets, sChannelReadCb(s) PROVE TakingForWaiter'
    BY <1>4 DEF sChannelReadCb
<1>5. ASSUME NEW s \in Sockets, onAsyncNewPacket(s) PROVE TakingForWaiter'
    BY <1>5 DEF onAsyncNewPacket
<1>6. ASSUME NEW c \in Clients, Client(c) PROVE TakingForWaiter'
    BY <1>6 DEF Client, CallRecvfrom, CallSendto, InCall, SkipWaitNext, Return,
                Abort, ReadResponse
<1>7. CASE UNCHANGED vars
    BY <1>7 DEF vars
<1>8. QED
    BY <1>1, <1>2, <1>3, <1>4, <1>5, <1>6, <1>7 DEF Next, EventLoop

LEMMA UnusedStep == TypeOK /\ UnusedQuiet /\ [Next]_vars => UnusedQuiet'
<1> SUFFICES ASSUME TypeOK, UnusedQuiet, [Next]_vars,
                    NEW z \in Sockets, \A c \in Clients : SockOf[c] # z
             PROVE  req'[z] = <<>>
    BY DEF UnusedQuiet
<1> USE DEF daemonVars, ipVars, clientVars
<1>0. req[z] = <<>> /\ req \in [Sockets -> Seq(Requests)]
    BY DEF UnusedQuiet, TypeOK
<1>1. CASE IpThread
    BY <1>0, <1>1 DEF IpThread, IpArrive, IpEnqueue, IpNotify
<1>2. CASE EventLoop
    <2>1. CASE Poll
        BY <1>0, <2>1 DEF Poll
    <2>2. ASSUME NEW s \in Sockets, onReadReady(s) PROVE req'[z] = <<>>
        BY <1>0, <2>2 DEF onReadReady
    <2>3. ASSUME NEW s \in Sockets, sChannelReadCb(s) \/ onAsyncNewPacket(s)
          PROVE  req'[z] = <<>>
        BY <1>0, <2>3 DEF sChannelReadCb, onAsyncNewPacket
    <2>4. QED BY <1>2, <2>1, <2>2, <2>3 DEF EventLoop
<1>3. ASSUME NEW c \in Clients, Client(c) PROVE req'[z] = <<>>
    BY <1>0, <1>3 DEF Client, CallRecvfrom, CallSendto, InCall, SkipWaitNext,
                      Return, Abort, ReadResponse
<1>4. CASE UNCHANGED vars
    BY <1>0, <1>4 DEF vars
<1>5. QED BY <1>1, <1>2, <1>3, <1>4 DEF Next

\* A step that touches neither a client nor its channel leaves its position.
LEMMA PositionKept ==
    ASSUME NEW c \in Clients, Position(c), cstate'[c] = cstate[c],
           waiting'[SockOf[c]] = waiting[SockOf[c]],
           req'[SockOf[c]] = req[SockOf[c]],
           resp'[SockOf[c]] = resp[SockOf[c]]
    PROVE  Position(c)'
BY DEF Position, Called, Waiting, Answered, Quiet

LEMMA PositionStep ==
    ASSUME Owned, TypeOK, CallInv, [Next]_vars, NEW c \in Clients
    PROVE  Position(c)'
<1> DEFINE s == SockOf[c]
<1> USE DEF daemonVars, ipVars, clientVars
<1>0. s \in Sockets /\ Position(c) /\ TakingForWaiter
    BY DEF CallInv
<1>1. CASE IpThread
    BY <1>0, <1>1, PositionKept DEF IpThread, IpArrive, IpEnqueue, IpNotify
<1>2. CASE Poll
    BY <1>0, <1>2, PositionKept DEF Poll
<1>3. ASSUME NEW z \in Sockets, onReadReady(z) PROVE Position(c)'
    <2>1. UNCHANGED cstate /\ req' = [req EXCEPT ![z] = Tail(@)] /\ req[z] # <<>>
        BY <1>3 DEF onReadReady
    <2>2. CASE z # s
        <3>1. resp'[s] = resp[s] /\ waiting'[s] = waiting[s]
            <4>1. CASE recvfromCall(z, Head(req[z]))
                BY <1>0, <2>2, <4>1, OthersKept DEF recvfromCall
            <4>2. CASE sendtoCall(z)
                BY <1>0, <2>2, <4>2, OthersKept DEF sendtoCall
            <4>3. QED BY <1>3, <4>1, <4>2 DEF onReadReady
        <3>2. req'[s] = req[s]
            BY <1>0, <2>1, <2>2 DEF TypeOK
        <3>3. QED BY <1>0, <2>1, <3>1, <3>2, PositionKept
    <2>3. CASE z = s
        <3>1. cstate[c] \in Calls /\ Called(c, s)
            BY <1>0, <2>1, <2>3 DEF Position, Waiting, Answered, Quiet
        <3>2. /\ ~waiting[s] /\ resp[s] = <<>> /\ Head(req[s]).call = cstate[c]
              /\ req'[s] = <<>>
            BY <1>0, <2>1, <2>3, <3>1, LengthOne DEF Called, TypeOK
        <3>3. CASE /\ Head(req[s]).call = "recvfrom"
                   /\ waiting'[s]
                   /\ resp' = [resp EXCEPT ![s] = Append(@, WaitNext)]
            <4>1. resp'[s] = <<WaitNext>>
                BY <1>0, <3>2, <3>3 DEF TypeOK
            <4>2. QED BY <2>1, <3>1, <3>2, <3>3, <4>1 DEF Position, Waiting
        <3>4. ASSUME ~waiting'[s], NEW r \in Answers, r.call = Head(req[s]).call,
                     resp' = [resp EXCEPT ![s] = Append(@, r)]
              PROVE  Position(c)'
            <4>1. resp'[s] = <<r>>
                BY <1>0, <3>2, <3>4 DEF TypeOK
            <4>2. QED BY <2>1, <3>1, <3>2, <3>4, <4>1 DEF Position, Answered
        <3>5. QED BY <1>0, <1>3, <2>3, <3>2, <3>3, <3>4, HandlerAnswers
    <2>4. QED BY <2>2, <2>3
<1>4. ASSUME NEW z \in Sockets, sChannelReadCb(z) PROVE Position(c)'
    BY <1>0, <1>4, PositionKept DEF sChannelReadCb
<1>5. ASSUME NEW z \in Sockets, onAsyncNewPacket(z) PROVE Position(c)'
    <2> DEFINE r == Answer("recvfrom", Head(recvQ[z]), z \notin Tcp /\ cbAddr[z])
    <2>1. /\ UNCHANGED <<cstate, req>>
          /\ waiting' = [waiting EXCEPT ![z] = FALSE]
          /\ resp' = [resp EXCEPT ![z] = Append(@, r)]
          /\ waiting[z]
        BY <1>0, <1>5 DEF onAsyncNewPacket, Respond, TakingForWaiter
    <2>2. CASE z # s
        BY <1>0, <2>1, <2>2, PositionKept DEF TypeOK
    <2>3. CASE z = s
        <3>1. cstate[c] = "recvfrom" /\ Waiting(c, s)
            BY <1>0, <2>1, <2>3 DEF Position, Called, Waiting, Answered, Quiet
        <3>2. Head(recvQ[z]) \in Packets
            BY <1>5, QueueTypes DEF onAsyncNewPacket, TypeOK
        <3>3. r \in Answers /\ r.call = "recvfrom"
            BY <3>2, AnswersAreFinal DEF Calls, TypeOK
        <3>4. resp'[s] \in {<<r>>, <<WaitNext, r>>}
            <4>1. resp'[s] = Append(resp[s], r) /\ resp[s] \in {<<>>, <<WaitNext>>}
                BY <1>0, <2>1, <2>3, <3>1 DEF Waiting, TypeOK
            <4>2. r \in Responses /\ WaitNext \in Responses
                BY <3>3 DEF Responses
            <4> HIDE DEF r
            <4>3. Append(<<>>, r) = <<r>>
                BY <4>2, OneElement
            <4>4. Append(<<WaitNext>>, r) = <<WaitNext, r>>
                BY <4>2, TwoElements
            <4>5. QED BY <4>1, <4>3, <4>4
        <3>5. req'[s] = <<>> /\ ~waiting'[s]
            BY <1>0, <2>1, <2>3, <3>1 DEF Waiting, TypeOK
        <3>6. QED BY <2>1, <3>1, <3>3, <3>4, <3>5 DEF Position, Answered, Calls
    <2>4. QED BY <2>2, <2>3
<1>6. ASSUME NEW d \in Clients, d # c, Client(d) PROVE Position(c)'
    <2>1. SockOf[d] # s /\ SockOf[d] \in Sockets
        BY <1>6 DEF Owned
    <2>2. UNCHANGED waiting /\ cstate'[c] = cstate[c]
        BY <1>6 DEF Client, CallRecvfrom, CallSendto, InCall, SkipWaitNext, Return,
                    Abort, ReadResponse, TypeOK
    <2>3. req'[s] = req[s] /\ resp'[s] = resp[s]
        BY <1>0, <1>6, <2>1 DEF Client, CallRecvfrom, CallSendto, InCall, SkipWaitNext,
                                Return, Abort, ReadResponse, TypeOK
    <2>4. QED BY <1>0, <2>2, <2>3, PositionKept
<1>7. CASE CallRecvfrom(c) \/ CallSendto(c)
    <2>1. Quiet(s) /\ cstate[c] = "idle"
        BY <1>0, <1>7 DEF CallRecvfrom, CallSendto, Position, Calls
    <2>2. PICK q \in Requests : /\ q.call \in Calls
                                /\ cstate' = [cstate EXCEPT ![c] = q.call]
                                /\ req' = [req EXCEPT ![s] = Append(@, q)]
        <3>1. CASE CallRecvfrom(c)
            <4> DEFINE q == [call |-> "recvfrom", addr |-> c \in WantAddr]
            <4>1. q \in Requests /\ q.call = "recvfrom"
                BY DEF Requests, Calls
            <4>2. QED BY <3>1, <4>1 DEF CallRecvfrom, Calls
        <3>2. CASE CallSendto(c)
            BY <3>2, RequestTypes DEF CallSendto, Calls
        <3>3. QED BY <1>7, <3>1, <3>2
    <2>3. req'[s] = <<q>> /\ cstate'[c] = q.call
        BY <1>0, <2>1, <2>2 DEF Quiet, TypeOK
    <2>4. UNCHANGED <<resp, waiting>>
        BY <1>7 DEF CallRecvfrom, CallSendto
    <2>5. QED BY <2>1, <2>2, <2>3, <2>4 DEF Position, Called, Quiet
<1>8. CASE InCall(c)
    <2>1. PICK r \in Responses : ReadResponse(c, r)
        BY <1>8 DEF InCall, SkipWaitNext, Return, Abort, Responses
    <2>2. /\ cstate[c] \in Calls /\ resp[s] # <<>> /\ r = Head(resp[s])
          /\ resp' = [resp EXCEPT ![s] = Tail(@)]
          /\ UNCHANGED <<req, waiting>>
        BY <2>1 DEF ReadResponse
    <2>3. resp'[s] = Tail(resp[s])
        BY <1>0, <2>2 DEF TypeOK
    <2>4. CASE SkipWaitNext(c)
        <3>1. Head(resp[s]) = WaitNext /\ cstate'[c] = cstate[c]
            BY <2>4 DEF SkipWaitNext, ReadResponse
        <3>2. CASE Waiting(c, s)
            <4>1. resp'[s] = <<>>
                BY <2>2, <2>3, <3>2, RequestTypes, OneElement DEF Waiting
            <4>2. QED BY <2>2, <3>1, <3>2, <4>1 DEF Position, Waiting
        <3>3. CASE Answered(c, s)
            <4>1. PICK a \in Answers : /\ a.call = cstate[c]
                                       /\ resp[s] \in {<<a>>, <<WaitNext, a>>}
                BY <3>3 DEF Answered
            <4>2. resp'[s] = <<a>>
                <5>1. a \in Responses /\ WaitNext \in Responses
                    BY DEF Responses
                <5>2. Head(<<a>>) = a /\ Tail(<<WaitNext, a>>) = <<a>>
                    BY <5>1, OneElement, TwoElements
                <5>3. QED BY <2>3, <3>1, <4>1, <5>2, AnswersAreFinal
            <4>3. QED BY <2>2, <3>1, <3>3, <4>1, <4>2 DEF Position, Answered
        <3>4. QED BY <1>0, <2>2, <3>2, <3>3 DEF Position, Called
    <2>5. CASE Return(c) \/ Abort(c)
        <3>1. Head(resp[s]) \in Answers /\ cstate'[c] \in {"idle", "aborted"}
            BY <2>5 DEF Return, Abort, ReadResponse, TypeOK
        <3>2. Answered(c, s)
            BY <1>0, <2>2, <3>1, AnswersAreFinal DEF Position, Called, Waiting
        <3>3. resp'[s] = <<>>
            <4>1. PICK a \in Answers : resp[s] \in {<<a>>, <<WaitNext, a>>}
                BY <3>2 DEF Answered
            <4>2. resp[s] = <<a>>
                BY <3>1, <4>1, AnswersAreFinal
            <4>3. QED BY <2>3, <4>2
        <3>4. QED BY <2>2, <3>1, <3>2, <3>3 DEF Position, Answered, Quiet, Calls
    <2>6. QED BY <1>8, <2>4, <2>5 DEF InCall
<1>9. CASE UNCHANGED vars
    BY <1>0, <1>9, PositionKept DEF vars
<1>10. QED
    BY <1>1, <1>2, <1>3, <1>4, <1>5, <1>6, <1>7, <1>8, <1>9
       DEF Next, EventLoop, Client

LEMMA CallInvariant == ASSUME Owned PROVE Spec => []CallInv
<1>1. Init => CallInv
    BY DEF Init, CallInv, TakingForWaiter, UnusedQuiet, Position, Quiet, Calls
<1>2. TypeOK /\ CallInv /\ [Next]_vars => CallInv'
    BY PositionStep, TakingStep, UnusedStep DEF CallInv
<1>3. QED BY <1>1, <1>2, TypeCorrect, PTL DEF Spec

\* For every set of clients with sockets of their own: a call is answered by
\* exactly one final Response of its own kind, whichever of the immediate and
\* the delayed path answers it, and leaves nothing for the next call.
THEOREM EveryCallOneAnswer == Spec => []OneAnswerPerCall
<1>1. CASE Owned
    <2>1. CallInv => OneAnswerPerCall
        BY DEF CallInv, OneAnswerPerCall, Position
    <2>2. QED BY <1>1, <2>1, CallInvariant, PTL
<1>2. CASE ~Owned
    <2>1. OneAnswerPerCall
        BY <1>2 DEF OneAnswerPerCall
    <2>2. QED BY <2>1, PTL
<1>3. QED BY <1>1, <1>2

(***************************************************************************)
(* The receive path implements RecvService.  recvQ is the service's        *)
(* buffer, and the number of calls it still owes an answer is the number   *)
(* of recvfrom Requests unread plus one if `waiting`.  Clients must not    *)
(* share a socket: a second recvfrom that waits is owed an answer that     *)
(* the single flag forgets.                                                *)
(***************************************************************************)

Recvfroms(q) == {i \in DOMAIN q : q[i].call = "recvfrom"}

LEMMA CountRecvfroms ==
    ASSUME NEW q \in Seq(Requests)
    PROVE  /\ q = <<>> => Cardinality(Recvfroms(q)) = 0
           /\ Len(q) = 1 /\ q[1].call # "recvfrom" => Cardinality(Recvfroms(q)) = 0
           /\ Len(q) = 1 /\ q[1].call = "recvfrom" => Cardinality(Recvfroms(q)) = 1
<1>1. DOMAIN q = 1 .. Len(q)
    BY LenProperties
<1>2. q = <<>> \/ (Len(q) = 1 /\ q[1].call # "recvfrom") => Recvfroms(q) = {}
    BY <1>1, EmptySeq DEF Recvfroms
<1>3. Len(q) = 1 /\ q[1].call = "recvfrom" => Recvfroms(q) = {1}
    BY <1>1 DEF Recvfroms
<1>4. QED BY <1>2, <1>3, FS_EmptySet, FS_Singleton

\* What is pending on a socket, read off its request queue and its flag.
LEMMA PendingValue ==
    ASSUME Owned, TypeOK, CallInv, NEW s \in Sockets
    PROVE  \/ req[s] = <<>> /\ Pending(s) = IF waiting[s] THEN 1 ELSE 0
           \/ /\ Len(req[s]) = 1 /\ ~waiting[s]
              /\ Pending(s) = IF req[s][1].call = "recvfrom" THEN 1 ELSE 0
<1>1. req[s] \in Seq(Requests) /\ waiting[s] \in BOOLEAN
    BY DEF TypeOK
<1>2. req[s] = <<>> \/ (Len(req[s]) = 1 /\ ~waiting[s])
    BY DEF CallInv, UnusedQuiet, Position, Called, Waiting, Answered, Quiet
<1>3. Pending(s) = Cardinality(Recvfroms(req[s])) + (IF waiting[s] THEN 1 ELSE 0)
    BY DEF Pending, Recvfroms
<1>4. QED BY <1>1, <1>2, <1>3, CountRecvfroms

pendingBar == [s \in Sockets |-> Pending(s)]

\* The same count after a step.
LEMMA PendingBarValue ==
    ASSUME NEW s \in Sockets
    PROVE  /\ pendingBar[s] = Pending(s)
           /\ pendingBar'[s] = Cardinality(Recvfroms(req'[s]))
                                  + (IF waiting'[s] THEN 1 ELSE 0)
BY DEF pendingBar, Pending, Recvfroms

\* A step that changes one socket's requests and flag changes one count.
LEMMA PendingElsewhere ==
    ASSUME NEW s \in Sockets, NEW n,
           pendingBar'[s] = n,
           \A z \in Sockets \ {s} : req'[z] = req[z] /\ waiting'[z] = waiting[z]
    PROVE  pendingBar' = [pendingBar EXCEPT ![s] = n]
<1>1. \A z \in Sockets \ {s} : pendingBar'[z] = pendingBar[z]
    BY DEF pendingBar, Pending
<1>2. pendingBar' = [z \in Sockets |-> pendingBar'[z]]
    BY DEF pendingBar
<1>3. pendingBar = [z \in Sockets |-> pendingBar[z]]
    BY DEF pendingBar
<1>4. QED BY <1>1, <1>2, <1>3

\* A step that leaves the queue and the history, and the number of calls owed.
LEMMA ServiceStutter ==
    ASSUME UNCHANGED <<recvQ, answered>>, pendingBar' = pendingBar
    PROVE  UNCHANGED Service!vars
BY DEF Service!vars, pendingBar

\* Serving a request of s: the request is answered with a packet, refused, or
\* becomes the recvfrom that waits; or it was a sendto.
LEMMA ServiceRead ==
    ASSUME Owned, TypeOK, CallInv, NEW s \in Sockets, onReadReady(s)
    PROVE  Service!Next \/ UNCHANGED Service!vars
<1>1. /\ Len(req[s]) = 1 /\ ~waiting[s] /\ req[s] \in Seq(Requests)
      /\ pendingBar[s] = IF req[s][1].call = "recvfrom" THEN 1 ELSE 0
    BY PendingValue, PendingBarValue DEF onReadReady, TypeOK
<1>2. Head(req[s]) = req[s][1] /\ Tail(req[s]) = <<>>
    BY <1>1, LengthOne
<1>3. req' = [req EXCEPT ![s] = <<>>] /\ req'[s] = <<>>
    BY <1>2 DEF onReadReady, TypeOK
<1>4. pendingBar'[s] = IF waiting'[s] THEN 1 ELSE 0
    <2>1. <<>> \in Seq(Requests)
        OBVIOUS
    <2>2. Cardinality(Recvfroms(req'[s])) = 0
        BY <1>3, <2>1, CountRecvfroms
    <2>3. QED BY <2>2, PendingBarValue
<1>5. \A z \in Sockets \ {s} : req'[z] = req[z] /\ waiting'[z] = waiting[z]
    BY <1>3 DEF onReadReady, recvfromCall, sendtoCall, TypeOK
<1>6. pendingBar \in [Sockets -> {pendingBar[z] : z \in Sockets}]
    BY DEF pendingBar
<1>7. CASE req[s][1].call = "recvfrom" /\ recvfromCall(s, Head(req[s]))
    <2>1. CASE recvQ[s] # <<>>
        <3>1. UNCHANGED waiting /\ Take(s)
            BY <1>7, <2>1 DEF recvfromCall
        <3>2. pendingBar'[s] = pendingBar[s] - 1 /\ pendingBar[s] = 1
            BY <1>1, <1>4, <1>7, <3>1
        <3>3. pendingBar' = [pendingBar EXCEPT ![s] = pendingBar[s] - 1]
            BY <1>5, <3>2, PendingElsewhere
        <3>4. Service!Deliver(s)
            BY <2>1, <3>1, <3>2, <3>3 DEF Service!Deliver, Take, pendingBar
        <3>5. QED BY <3>4 DEF Service!Next
    <2>2. CASE recvQ[s] = <<>> /\ s \in Nonblocking
        <3>1. UNCHANGED <<recvQ, answered, waiting>>
            BY <1>7, <2>2 DEF recvfromCall
        <3>2. pendingBar'[s] = pendingBar[s] - 1 /\ pendingBar[s] = 1
            BY <1>1, <1>4, <1>7, <3>1
        <3>3. pendingBar' = [pendingBar EXCEPT ![s] = pendingBar[s] - 1]
            BY <1>5, <3>2, PendingElsewhere
        <3>4. Service!Refuse(s)
            BY <2>2, <3>1, <3>2, <3>3 DEF Service!Refuse, pendingBar
        <3>5. QED BY <3>4 DEF Service!Next
    <2>3. CASE recvQ[s] = <<>> /\ s \notin Nonblocking
        <3>1. UNCHANGED <<recvQ, answered>> /\ waiting'[s]
            BY <1>7, <2>3 DEF recvfromCall, TypeOK
        <3>2. pendingBar' = [pendingBar EXCEPT ![s] = pendingBar[s]]
            BY <1>1, <1>4, <1>5, <1>7, <3>1, PendingElsewhere
        <3>3. QED BY <1>6, <3>1, <3>2, ServiceStutter
    <2>4. QED BY <2>1, <2>2, <2>3
<1>8. CASE req[s][1].call = "sendto" /\ sendtoCall(s)
    <2>1. UNCHANGED <<recvQ, answered, waiting>>
        BY <1>8 DEF sendtoCall
    <2>2. pendingBar' = [pendingBar EXCEPT ![s] = pendingBar[s]]
        BY <1>1, <1>4, <1>5, <1>8, <2>1, PendingElsewhere
    <2>3. QED BY <1>6, <2>1, <2>2, ServiceStutter
<1>9. QED BY <1>2, <1>7, <1>8 DEF onReadReady

\* A client's call adds one to what it is owed, unless it is a sendto.
LEMMA ServiceCall ==
    ASSUME Owned, TypeOK, CallInv, NEW c \in Clients,
           CallRecvfrom(c) \/ CallSendto(c)
    PROVE  Service!Next \/ UNCHANGED Service!vars
<1> DEFINE s == SockOf[c]
<1>1. s \in Sockets /\ req[s] = <<>> /\ ~waiting[s] /\ req \in [Sockets -> Seq(Requests)]
    BY DEF CallInv, Position, Quiet, CallRecvfrom, CallSendto, Calls, TypeOK
<1>2. pendingBar[s] = 0
    BY <1>1, PendingValue, PendingBarValue, EmptySeq
<1>3. UNCHANGED <<recvQ, answered, waiting>>
    BY DEF CallRecvfrom, CallSendto, daemonVars
<1>4. \A z \in Sockets \ {s} : req'[z] = req[z] /\ waiting'[z] = waiting[z]
    BY <1>1, <1>3 DEF CallRecvfrom, CallSendto
<1>5. CASE CallRecvfrom(c)
    <2> DEFINE q == [call |-> "recvfrom", addr |-> c \in WantAddr]
    <2>1. q \in Requests /\ req'[s] = <<q>>
        BY <1>1, <1>5, OneElement DEF CallRecvfrom, Requests, Calls
    <2>2. <<q>> \in Seq(Requests) /\ Len(<<q>>) = 1 /\ <<q>>[1].call = "recvfrom"
        BY <2>1
    <2>3. pendingBar'[s] = 1
        <3>1. Cardinality(Recvfroms(<<q>>)) = 1
            BY <2>2, CountRecvfroms
        <3>2. Cardinality(Recvfroms(req'[s])) = 1 /\ ~waiting'[s]
            BY <1>1, <1>3, <2>1, <3>1
        <3>3. pendingBar'[s] = 1 + 0
            BY <1>1, <3>2, PendingBarValue
        <3>4. QED BY <3>3
    <2>4. pendingBar' = [pendingBar EXCEPT ![s] = pendingBar[s] + 1]
        BY <1>1, <1>2, <1>4, <2>3, PendingElsewhere
    <2>5. Service!Call(s)
        BY <1>3, <2>4 DEF Service!Call, pendingBar
    <2>6. QED BY <1>1, <2>5 DEF Service!Next
<1>6. CASE CallSendto(c)
    <2> DEFINE q == [call |-> "sendto", addr |-> FALSE]
    <2>1. q \in Requests /\ req'[s] = <<q>>
        BY <1>1, <1>6, OneElement DEF CallSendto, Requests, Calls
    <2>2. <<q>> \in Seq(Requests) /\ Len(<<q>>) = 1 /\ <<q>>[1].call # "recvfrom"
        BY <2>1
    <2>3. pendingBar'[s] = 0
        <3>1. Cardinality(Recvfroms(<<q>>)) = 0
            BY <2>2, CountRecvfroms
        <3>2. Cardinality(Recvfroms(req'[s])) = 0 /\ ~waiting'[s]
            BY <1>1, <1>3, <2>1, <3>1
        <3>3. pendingBar'[s] = 0 + 0
            BY <1>1, <3>2, PendingBarValue
        <3>4. QED BY <3>3
    <2>4. pendingBar' = [pendingBar EXCEPT ![s] = pendingBar[s]]
        BY <1>1, <1>2, <1>4, <2>3, PendingElsewhere
    <2>5. pendingBar' = pendingBar
        BY <2>4 DEF pendingBar
    <2>6. QED BY <1>3, <2>5, ServiceStutter
<1>7. QED BY <1>5, <1>6

\* The callback of the notification pipe delivers to the recvfrom that waits.
LEMMA ServiceTake ==
    ASSUME Owned, TypeOK, CallInv, NEW s \in Sockets, onAsyncNewPacket(s)
    PROVE  Service!Next
<1>1. waiting[s] /\ waiting' = [waiting EXCEPT ![s] = FALSE] /\ UNCHANGED req
    BY DEF onAsyncNewPacket, CallInv, TakingForWaiter
<1>2. ~waiting'[s] /\ \A z \in Sockets \ {s} : waiting'[z] = waiting[z]
    BY <1>1 DEF TypeOK
<1>3. req[s] = <<>> /\ pendingBar[s] = 1
    BY <1>1, PendingValue, PendingBarValue
<1>4. pendingBar'[s] = 0
    <2>1. <<>> \in Seq(Requests)
        OBVIOUS
    <2>2. Cardinality(Recvfroms(req'[s])) = 0
        BY <1>1, <1>3, <2>1, CountRecvfroms
    <2>3. QED BY <1>2, <2>2, PendingBarValue
<1>5. pendingBar' = [pendingBar EXCEPT ![s] = pendingBar[s] - 1]
    <2>1. pendingBar'[s] = pendingBar[s] - 1
        BY <1>3, <1>4
    <2>2. QED BY <1>1, <1>2, <2>1, PendingElsewhere
<1>6. Service!Deliver(s)
    BY <1>3, <1>5 DEF onAsyncNewPacket, Take, Service!Deliver, pendingBar
<1>7. QED BY <1>6 DEF Service!Next

LEMMA ServiceStep ==
    ASSUME Owned, TypeOK, BoundInv, CallInv, [Next]_vars
    PROVE  [Service!Next]_(Service!vars)
<1> USE DEF daemonVars, ipVars, clientVars
<1>1. ASSUME UNCHANGED <<recvQ, answered, req, waiting>>
      PROVE  UNCHANGED Service!vars
    BY <1>1, ServiceStutter DEF pendingBar, Pending
<1>2. CASE IpEnqueue
    <2>1. /\ ipSock \in Sockets /\ arrived \in Packets
          /\ Len(recvQ[ipSock]) < RecvQLimit + 1
          /\ recvQ' = [recvQ EXCEPT ![ipSock] = Append(@, arrived)]
          /\ UNCHANGED <<answered, req, waiting>>
        BY <1>2, LenProperties DEF IpEnqueue, TypeOK, BoundInv, Packets
    <2>2. UNCHANGED pendingBar
        BY <2>1 DEF pendingBar, Pending
    <2>3. Service!Accept(ipSock, arrived)
        BY <2>1, <2>2 DEF Service!Accept, pendingBar
    <2>4. QED BY <2>1, <2>3 DEF Service!Next
<1>3. CASE IpNotify \/ Poll \/ UNCHANGED vars
    BY <1>1, <1>3 DEF IpNotify, Poll, vars
<1>4. ASSUME NEW s \in Sockets, IpArrive(s) \/ sChannelReadCb(s)
      PROVE  UNCHANGED Service!vars
    BY <1>1, <1>4 DEF IpArrive, sChannelReadCb
<1>5. ASSUME NEW c \in Clients, InCall(c)
      PROVE  UNCHANGED Service!vars
    BY <1>1, <1>5 DEF InCall, SkipWaitNext, Return, Abort, ReadResponse
<1>6. QED
    BY <1>2, <1>3, <1>4, <1>5, ServiceRead, ServiceTake, ServiceCall
       DEF Next, IpThread, EventLoop, Client

\* For clients with sockets of their own, muQuinetd's receive path is a bounded
\* FIFO per socket that owes and gives one answer per recvfrom.
THEOREM ReceivePathImplementsService == ASSUME Owned PROVE Spec => ServiceKept
<1>1. Init => Service!Init
    <2>1. <<>> \in Seq(Requests)
        OBVIOUS
    <2>2. ASSUME Init, NEW s \in Sockets PROVE Pending(s) = 0
        <3>1. Cardinality(Recvfroms(<<>>)) = 0
            BY <2>1, CountRecvfroms
        <3>2. req[s] = <<>> /\ ~waiting[s]
            BY <2>2 DEF Init
        <3>3. Pending(s) = Cardinality(Recvfroms(req[s])) + 0
            BY <3>2 DEF Pending, Recvfroms
        <3>4. QED BY <3>1, <3>2, <3>3
    <2>3. QED BY <2>2 DEF Init, Service!Init
<1>2. Init => BoundInv
    BY DEF Init, BoundInv, QueueBounded
<1>3. QED
    BY <1>1, <1>2, BoundStep, ServiceStep, TypeCorrect, CallInvariant, PTL
       DEF Spec, ServiceKept, Service!Spec

(***************************************************************************)
(* The packets of a sequence of responses, by induction along it.          *)
(***************************************************************************)

\* Induction, for a set of numbers: the least that is missing has a predecessor.
LEMMA SetInduction ==
    ASSUME NEW S, 0 \in S, \A n \in Nat : n \in S => n + 1 \in S
    PROVE  \A n \in Nat : n \in S
<1> DEFINE R == {p \in Nat \X Nat : p[1] < p[2]}
           T == Nat \ S
<1>1. IsWellFoundedOn(R, Nat)
    BY NatLessThanWellFounded DEF OpToRel
<1> SUFFICES ASSUME T # {} PROVE FALSE
    OBVIOUS
<1>2. T \subseteq Nat
    OBVIOUS
<1>3. PICK x \in T : \A y \in T : <<y, x>> \notin R
    BY <1>1, <1>2, WFMin
<1>4. x \in Nat \ {0}
    BY <1>3
<1>5. x - 1 \in Nat /\ x - 1 < x /\ (x - 1) + 1 = x
    BY <1>4
<1>6. x - 1 \notin T
    BY <1>3, <1>4, <1>5
<1>7. QED BY <1>3, <1>5, <1>6

\* The steps of the recursion in Payloads.
Sums(P, rs, k) ==
    P = [n \in 0 .. k |-> IF n = 0 THEN <<>> ELSE P[n - 1] \o Carried(rs[n])]

LEMMA SumsExist ==
    ASSUME NEW rs, NEW k \in Nat
    PROVE  \E P : Sums(P, rs, k)
<1> DEFINE S == {n \in Nat : \E P : Sums(P, rs, n)}
<1>1. 0 \in S
    <2> DEFINE Q == [n \in 0 .. 0 |-> <<>>]
    <2>1. Sums(Q, rs, 0)
        BY DEF Sums
    <2>2. QED BY <2>1
<1>2. ASSUME NEW n \in Nat, n \in S PROVE n + 1 \in S
    <2>1. PICK P : Sums(P, rs, n)
        BY <1>2
    <2> DEFINE Q == [i \in 0 .. n + 1 |->
                        IF i = n + 1 THEN P[n] \o Carried(rs[n + 1]) ELSE P[i]]
               N == [i \in 0 .. n + 1 |-> IF i = 0 THEN <<>> ELSE Q[i - 1] \o Carried(rs[i])]
    <2>2. ASSUME NEW i \in 0 .. n + 1 PROVE Q[i] = N[i]
        <3>1. CASE i = n + 1
            <4>1. Q[i] = P[n] \o Carried(rs[n + 1])
                BY <3>1
            <4>2. i # 0 /\ i - 1 = n /\ i - 1 \in 0 .. n + 1 /\ i - 1 # n + 1
                BY <3>1
            <4>3. Q[i - 1] = P[n]
                BY <4>2
            <4>4. N[i] = Q[i - 1] \o Carried(rs[i])
                BY <4>2
            <4>5. QED BY <3>1, <4>1, <4>3, <4>4
        <3>2. CASE i = 0
            <4>1. Q[i] = P[0]
                BY <3>2
            <4>2. P[0] = <<>>
                BY <2>1 DEF Sums
            <4>3. QED BY <3>2, <4>1, <4>2
        <3>3. CASE i \in 1 .. n
            <4>1. i - 1 \in 0 .. n /\ i # 0 /\ i # n + 1 /\ i - 1 # n + 1 /\ i \in 0 .. n
                BY <3>3
            <4>2. P[i] = P[i - 1] \o Carried(rs[i])
                BY <2>1, <4>1 DEF Sums
            <4>3. Q[i] = P[i]
                BY <4>1
            <4>4. Q[i - 1] = P[i - 1]
                BY <4>1
            <4>5. N[i] = Q[i - 1] \o Carried(rs[i])
                BY <4>1
            <4>6. QED BY <4>2, <4>3, <4>4, <4>5
        <3>4. QED BY <3>1, <3>2, <3>3
    <2>3. Q = N
        BY <2>2
    <2>4. Sums(Q, rs, n + 1)
        BY <2>3 DEF Sums
    <2>5. QED BY <2>4
<1> HIDE DEF S
<1>3. k \in S
    BY <1>1, <1>2, SetInduction
<1>4. QED BY <1>3 DEF S

LEMMA PayloadsBySteps ==
    ASSUME NEW rs
    PROVE  LET P == CHOOSE P : Sums(P, rs, Len(rs))
           IN  Payloads(rs) = P[Len(rs)]
BY DEF Payloads, Sums

LEMMA CarriedType ==
    ASSUME NEW r \in Responses
    PROVE  /\ Carried(r) \in Seq(Packets)
           /\ r.pkt = NoPacket => Carried(r) = <<>>
           /\ r.pkt # NoPacket => r.pkt \in Packets /\ Carried(r) = <<r.pkt>>
<1>1. r.pkt \in Packets \cup {NoPacket}
    BY DEF Responses, Answers, Answer, WaitNext
<1>2. QED BY <1>1 DEF Carried

\* A run of the recursion, its values and its last step.
LEMMA PayloadsRun ==
    ASSUME NEW rs \in Seq(Responses)
    PROVE  \E P \in [0 .. Len(rs) -> Seq(Packets)] :
               /\ P[0] = <<>>
               /\ \A n \in 1 .. Len(rs) : P[n] = P[n - 1] \o Carried(rs[n])
               /\ Payloads(rs) = P[Len(rs)]
<1> DEFINE P == CHOOSE P : Sums(P, rs, Len(rs))
<1>1. Len(rs) \in Nat
    BY LenProperties
<1>2. Sums(P, rs, Len(rs))
    BY <1>1, SumsExist
<1>3. Payloads(rs) = P[Len(rs)]
    BY PayloadsBySteps
<1> HIDE DEF P
<1>4. /\ DOMAIN P = 0 .. Len(rs)
      /\ P[0] = <<>>
      /\ \A n \in 1 .. Len(rs) : P[n] = P[n - 1] \o Carried(rs[n])
    <2>1. P = [n \in 0 .. Len(rs) |-> IF n = 0 THEN <<>> ELSE P[n - 1] \o Carried(rs[n])]
        BY <1>2 DEF Sums
    <2>2. \A n \in 1 .. Len(rs) : n \in 0 .. Len(rs) /\ n # 0
        BY <1>1
    <2>3. 0 \in 0 .. Len(rs)
        BY <1>1
    <2>4. QED BY <2>1, <2>2, <2>3
<1>5. P = [n \in 0 .. Len(rs) |-> P[n]]
    BY <1>2, <1>4 DEF Sums
<1> DEFINE S == {n \in Nat : n <= Len(rs) => P[n] \in Seq(Packets)}
<1>6. 0 \in S
    <2>1. <<>> \in Seq(Packets)
        OBVIOUS
    <2>2. P[0] \in Seq(Packets)
        BY <1>4, <2>1
    <2>3. QED BY <2>2
<1>7. ASSUME NEW n \in Nat, n \in S PROVE n + 1 \in S
    <2> SUFFICES ASSUME n + 1 <= Len(rs) PROVE P[n + 1] \in Seq(Packets)
        OBVIOUS
    <2>1. n + 1 \in 1 .. Len(rs) /\ (n + 1) - 1 = n /\ n <= Len(rs)
        BY <1>1
    <2>2. rs[n + 1] \in Responses
        BY <2>1, ElementOfSeq
    <2>3. Carried(rs[n + 1]) \in Seq(Packets)
        BY <2>2, CarriedType
    <2>4. P[n + 1] = P[n] \o Carried(rs[n + 1])
        BY <1>4, <2>1
    <2>5. P[n] \in Seq(Packets)
        BY <1>7, <2>1
    <2>6. QED BY <2>3, <2>4, <2>5, ConcatProperties
<1> HIDE DEF S
<1>8. \A n \in Nat : n \in S
    BY <1>6, <1>7, SetInduction
<1>9. \A n \in 0 .. Len(rs) : P[n] \in Seq(Packets)
    BY <1>1, <1>8 DEF S
<1>10. P \in [0 .. Len(rs) -> Seq(Packets)]
    BY <1>5, <1>9
<1>11. QED BY <1>3, <1>4, <1>10

LEMMA PayloadsOfNone == Payloads(<<>>) = <<>>
<1>1. <<>> \in Seq(Responses) /\ Len(<<>>) = 0
    OBVIOUS
<1>2. QED BY <1>1, PayloadsRun

LEMMA PayloadsType ==
    ASSUME NEW rs \in Seq(Responses)
    PROVE  Payloads(rs) \in Seq(Packets)
<1>1. Len(rs) \in 0 .. Len(rs)
    BY LenProperties
<1>2. PICK P \in [0 .. Len(rs) -> Seq(Packets)] : Payloads(rs) = P[Len(rs)]
    BY PayloadsRun
<1>3. QED BY <1>1, <1>2

LEMMA PayloadsAppend ==
    ASSUME NEW rs \in Seq(Responses), NEW r \in Responses
    PROVE  Payloads(Append(rs, r)) = Payloads(rs) \o Carried(r)
<1> DEFINE qs == Append(rs, r)
<1>1. /\ qs \in Seq(Responses) /\ Len(qs) = Len(rs) + 1 /\ Len(rs) \in Nat
      /\ \A n \in 1 .. Len(rs) : qs[n] = rs[n]
      /\ qs[Len(rs) + 1] = r
    BY AppendProperties, LenProperties
<1> HIDE DEF qs
<1>2. PICK P : /\ P[0] = <<>>
               /\ \A n \in 1 .. Len(rs) : P[n] = P[n - 1] \o Carried(rs[n])
               /\ Payloads(rs) = P[Len(rs)]
    BY PayloadsRun
<1>3. PICK Q : /\ Q[0] = <<>>
               /\ \A n \in 1 .. Len(qs) : Q[n] = Q[n - 1] \o Carried(qs[n])
               /\ Payloads(qs) = Q[Len(qs)]
    BY <1>1, PayloadsRun
<1> DEFINE S == {n \in Nat : n <= Len(rs) => P[n] = Q[n]}
<1>4. 0 \in S
    BY <1>2, <1>3
<1>5. ASSUME NEW n \in Nat, n \in S PROVE n + 1 \in S
    <2> SUFFICES ASSUME n + 1 <= Len(rs) PROVE P[n + 1] = Q[n + 1]
        OBVIOUS
    <2>1. n + 1 \in 1 .. Len(rs) /\ n + 1 \in 1 .. Len(qs) /\ (n + 1) - 1 = n /\ n <= Len(rs)
        BY <1>1
    <2>2. P[n + 1] = P[n] \o Carried(rs[n + 1])
        BY <1>2, <2>1
    <2>3. Q[n + 1] = Q[n] \o Carried(qs[n + 1])
        BY <1>3, <2>1
    <2>4. qs[n + 1] = rs[n + 1]
        BY <1>1, <2>1
    <2>5. P[n] = Q[n]
        BY <1>5, <2>1
    <2>6. QED BY <2>2, <2>3, <2>4, <2>5
<1> HIDE DEF S
<1>6. Len(rs) \in S
    BY <1>1, <1>4, <1>5, SetInduction
<1>7. P[Len(rs)] = Q[Len(rs)]
    BY <1>1, <1>6 DEF S
<1>8. Len(qs) \in 1 .. Len(qs) /\ Len(qs) - 1 = Len(rs)
    BY <1>1
<1>9. Q[Len(qs)] = Q[Len(rs)] \o Carried(r)
    BY <1>1, <1>3, <1>8
<1>10. QED BY <1>2, <1>3, <1>7, <1>9 DEF qs

LEMMA PayloadsTail ==
    ASSUME NEW rs \in Seq(Responses), rs # <<>>
    PROVE  Payloads(rs) = Carried(Head(rs)) \o Payloads(Tail(rs))
<1> DEFINE qs == Tail(rs)
           c == Carried(Head(rs))
<1>1. /\ qs \in Seq(Responses) /\ Len(qs) = Len(rs) - 1 /\ Len(qs) \in Nat
      /\ \A n \in 1 .. Len(qs) : qs[n] = rs[n + 1]
      /\ Head(rs) = rs[1] /\ Head(rs) \in Responses /\ Len(rs) \in Nat \ {0}
    BY HeadTailProperties, LenProperties, EmptySeq
<1>c. c \in Seq(Packets)
    BY <1>1, CarriedType
<1> HIDE DEF qs, c
<1>2. PICK P : /\ P[0] = <<>>
               /\ \A n \in 1 .. Len(rs) : P[n] = P[n - 1] \o Carried(rs[n])
               /\ Payloads(rs) = P[Len(rs)]
    BY PayloadsRun
<1>3. PICK Q \in [0 .. Len(qs) -> Seq(Packets)] :
               /\ Q[0] = <<>>
               /\ \A n \in 1 .. Len(qs) : Q[n] = Q[n - 1] \o Carried(qs[n])
               /\ Payloads(qs) = Q[Len(qs)]
    BY <1>1, PayloadsRun
<1> DEFINE S == {n \in Nat : n <= Len(qs) => P[n + 1] = c \o Q[n]}
<1>4. 0 \in S
    <2>1. 1 \in 1 .. Len(rs) /\ 1 - 1 = 0
        BY <1>1
    <2>2. P[1] = P[1 - 1] \o Carried(rs[1])
        BY <1>2, <2>1
    <2>3. P[1] = <<>> \o c
        BY <1>1, <1>2, <2>1, <2>2 DEF c
    <2>4. <<>> \o c = c /\ c \o <<>> = c
        BY <1>c, ConcatEmptySeq
    <2>5. P[0 + 1] = c \o Q[0]
        BY <1>3, <2>3, <2>4
    <2>6. QED BY <2>5
<1>5. ASSUME NEW n \in Nat, n \in S PROVE n + 1 \in S
    <2> SUFFICES ASSUME n + 1 <= Len(qs) PROVE P[n + 2] = c \o Q[n + 1]
        OBVIOUS
    <2>1. /\ n + 2 \in 1 .. Len(rs) /\ n + 1 \in 1 .. Len(qs) /\ (n + 1) - 1 = n
          /\ (n + 2) - 1 = n + 1 /\ n <= Len(qs) /\ n \in 0 .. Len(qs) /\ (n + 1) + 1 = n + 2
        BY <1>1
    <2>2. P[n + 2] = P[n + 1] \o Carried(rs[n + 2])
        BY <1>2, <2>1
    <2>3. Q[n + 1] = Q[n] \o Carried(qs[n + 1])
        BY <1>3, <2>1
    <2>4. qs[n + 1] = rs[n + 2] /\ qs[n + 1] \in Responses
        BY <1>1, <2>1, ElementOfSeq
    <2>5. P[n + 1] = c \o Q[n]
        BY <1>5, <2>1
    <2>6. Carried(qs[n + 1]) \in Seq(Packets) /\ Q[n] \in Seq(Packets)
        BY <1>3, <2>1, <2>4, CarriedType
    <2>7. (c \o Q[n]) \o Carried(qs[n + 1]) = c \o (Q[n] \o Carried(qs[n + 1]))
        <3> DEFINE t == Q[n]
                   u == Carried(qs[n + 1])
        <3>1. t \in Seq(Packets) /\ u \in Seq(Packets)
            BY <2>6
        <3> HIDE DEF t, u
        <3>2. (c \o t) \o u = c \o (t \o u)
            BY ONLY <1>c, <3>1, ConcatAssociative, SMTT(30)
        <3>3. QED BY <3>2 DEF t, u
    <2>8. QED BY <2>2, <2>3, <2>4, <2>5, <2>7
<1> HIDE DEF S
<1>6. Len(qs) \in S
    BY <1>1, <1>4, <1>5, SetInduction
<1>7. P[Len(qs) + 1] = c \o Q[Len(qs)]
    BY <1>1, <1>6 DEF S
<1>8. Len(qs) + 1 = Len(rs)
    BY <1>1
<1>9. QED BY <1>2, <1>3, <1>7, <1>8 DEF qs, c

(***************************************************************************)
(* The hand-over.  What the channel carries after an answer is written is  *)
(* one packet more, what it carries after one is read one less, and the    *)
(* two histories move with it.                                             *)
(***************************************************************************)

LEMMA WriteKept ==
    ASSUME TypeOK, NEW s \in Sockets, NEW r \in Responses, Respond(s, r),
           answered[s] = got[s] \o Payloads(resp[s]), got' = got,
           \/ r.pkt = NoPacket /\ answered' = answered
           \/ recvQ[s] # <<>> /\ Take(s) /\ r.pkt = Head(recvQ[s])
    PROVE  answered'[s] = got'[s] \o Payloads(resp'[s])
<1> DEFINE g == got[s]
           p == Payloads(resp[s])
           c == Carried(r)
<1>1. resp[s] \in Seq(Responses) /\ g \in Seq(Packets) /\ recvQ[s] \in Seq(Packets)
      /\ answered \in [Sockets -> Seq(Packets)] /\ resp \in [Sockets -> Seq(Responses)]
    BY DEF TypeOK
<1>2. resp'[s] = Append(resp[s], r)
    BY <1>1 DEF Respond
<1>3. p \in Seq(Packets) /\ c \in Seq(Packets)
    BY <1>1, PayloadsType, CarriedType
<1>4. Payloads(resp'[s]) = p \o c
    BY <1>1, <1>2, PayloadsAppend
<1> HIDE DEF g, p, c
<1>5. (g \o p) \o c = g \o (p \o c)
    <2>1. g \in Seq(Packets)
        BY <1>1
    <2>2. QED BY ONLY <1>3, <2>1, ConcatAssociative
<1>6. CASE r.pkt = NoPacket /\ answered' = answered
    <2>1. c = <<>>
        BY <1>6, CarriedType DEF c
    <2>2. p \o c = p
        BY <1>3, <2>1, ConcatEmptySeq
    <2>3. QED BY <1>4, <1>6, <2>2 DEF g, p
<1>7. CASE recvQ[s] # <<>> /\ Take(s) /\ r.pkt = Head(recvQ[s])
    <2>1. Head(recvQ[s]) \in Packets
        BY <1>1, <1>7, QueueTypes
    <2>2. r.pkt # NoPacket
        BY <1>7, <2>1 DEF Packets, NoPacket
    <2>3. c = <<Head(recvQ[s])>>
        BY <1>7, <2>2, CarriedType DEF c
    <2>4. answered'[s] = Append(answered[s], Head(recvQ[s]))
        BY <1>1, <1>7 DEF Take
    <2>5. answered[s] = g \o p /\ answered[s] \in Seq(Packets)
        BY <1>1 DEF g, p
    <2>6. Append(answered[s], Head(recvQ[s])) = answered[s] \o <<Head(recvQ[s])>>
        BY <2>1, <2>5, AppendIsConcat
    <2>7. QED BY <1>4, <1>5, <2>3, <2>4, <2>5, <2>6 DEF g, p
<1>8. QED BY <1>6, <1>7

\* What a client reads goes from the channel to what its calls have returned.
LEMMA ReadKept ==
    ASSUME TypeOK, NEW c \in Clients, NEW r \in Responses, ReadResponse(c, r),
           \A s \in Sockets : answered[s] = got[s] \o Payloads(resp[s]),
           \/ r.pkt = NoPacket /\ got' = got
           \/ r.pkt # NoPacket /\ got' = [got EXCEPT ![SockOf[c]] = Append(@, r.pkt)]
    PROVE  \A s \in Sockets : answered'[s] = got'[s] \o Payloads(resp'[s])
<1> DEFINE t == SockOf[c]
<1>1. resp \in [Sockets -> Seq(Responses)] /\ got \in [Sockets -> Seq(Packets)] /\ t \in Sockets
    <2>1. t \in Sockets
        BY SockOfAssumption
    <2>2. QED BY <2>1 DEF TypeOK
<1>2. /\ resp[t] # <<>> /\ r = Head(resp[t])
      /\ resp' = [resp EXCEPT ![t] = Tail(@)] /\ answered' = answered
    BY DEF ReadResponse, daemonVars
<1>3. ASSUME NEW s \in Sockets, s # t PROVE answered'[s] = got'[s] \o Payloads(resp'[s])
    <2>1. resp'[s] = resp[s] /\ got'[s] = got[s]
        BY <1>1, <1>2, <1>3
    <2>2. QED BY <1>2, <2>1
<1>4. answered'[t] = got'[t] \o Payloads(resp'[t])
    <2> DEFINE p == Payloads(Tail(resp[t]))
               g == got[t]
               x == Carried(r)
    <2>1. /\ resp'[t] = Tail(resp[t]) /\ Tail(resp[t]) \in Seq(Responses)
          /\ resp[t] \in Seq(Responses) /\ g \in Seq(Packets)
        BY <1>1, <1>2, QueueTypes
    <2>2. p \in Seq(Packets) /\ x \in Seq(Packets)
        BY <2>1, PayloadsType, CarriedType
    <2>3. answered[t] = g \o (x \o p)
        BY <1>1, <1>2, <2>1, PayloadsTail
    <2>4. g \o (x \o p) = (g \o x) \o p
        <3> HIDE DEF p, g, x
        <3>1. g \in Seq(Packets) /\ p \in Seq(Packets) /\ x \in Seq(Packets)
            BY <2>1, <2>2
        <3>2. QED BY ONLY <3>1, ConcatAssociative, SMTT(30)
    <2>5. got'[t] = g \o x
        <3>1. CASE r.pkt = NoPacket /\ got' = got
            BY <2>1, <3>1, CarriedType, ConcatEmptySeq
        <3>2. CASE r.pkt # NoPacket /\ got' = [got EXCEPT ![t] = Append(@, r.pkt)]
            <4>1. r.pkt \in Packets /\ x = <<r.pkt>>
                BY <3>2, CarriedType
            <4>2. got'[t] = Append(g, r.pkt)
                BY <1>1, <3>2
            <4>3. g \in Seq(Packets)
                BY <2>1
            <4> HIDE DEF g, x
            <4>4. Append(g, r.pkt) = g \o <<r.pkt>>
                BY ONLY <4>1, <4>3, AppendIsConcat
            <4>5. QED BY <4>1, <4>2, <4>4
        <3>3. QED BY <3>1, <3>2
    <2>6. QED BY <1>2, <2>1, <2>3, <2>4, <2>5
<1>5. QED BY <1>3, <1>4

NoneAborted == \A c \in Clients : cstate[c] # "aborted"

LEMMA HandoverStep == TypeOK /\ HandoverInOrder /\ [Next]_vars => HandoverInOrder'
<1> DEFINE InOrder == \A s \in Sockets : answered[s] = got[s] \o Payloads(resp[s])
<1> SUFFICES ASSUME TypeOK, HandoverInOrder, [Next]_vars, NoneAborted'
             PROVE  \A s \in Sockets : answered'[s] = got'[s] \o Payloads(resp'[s])
    BY DEF HandoverInOrder, NoneAborted
<1>1. ASSUME NoneAborted, UNCHANGED <<resp, answered, got>>
      PROVE  \A s \in Sockets : answered'[s] = got'[s] \o Payloads(resp'[s])
    BY <1>1 DEF HandoverInOrder, NoneAborted
<1>2. ASSUME NEW s \in Sockets, NEW r \in Responses, UNCHANGED clientVars, Respond(s, r),
             \/ r.pkt = NoPacket /\ answered' = answered
             \/ recvQ[s] # <<>> /\ Take(s) /\ r.pkt = Head(recvQ[s])
      PROVE  \A q \in Sockets : answered'[q] = got'[q] \o Payloads(resp'[q])
    <2>1. InOrder /\ got' = got
        BY <1>2 DEF HandoverInOrder, NoneAborted, clientVars
    <2>2. answered'[s] = got'[s] \o Payloads(resp'[s])
        BY <1>2, <2>1, WriteKept
    <2>3. ASSUME NEW q \in Sockets, q # s
          PROVE  answered'[q] = got'[q] \o Payloads(resp'[q])
        <3>1. resp'[q] = resp[q] /\ answered'[q] = answered[q]
            BY <1>2, <2>3 DEF TypeOK, Respond, Take
        <3>2. QED BY <2>1, <3>1
    <2>4. QED BY <2>2, <2>3
<1>3. ASSUME NEW c \in Clients, Client(c)
      PROVE  \A s \in Sockets : answered'[s] = got'[s] \o Payloads(resp'[s])
    <2>1. CASE CallRecvfrom(c) \/ CallSendto(c)
        <3>1. NoneAborted
            BY <2>1 DEF NoneAborted, CallRecvfrom, CallSendto, TypeOK
        <3>2. QED BY <1>1, <2>1, <3>1 DEF CallRecvfrom, CallSendto, daemonVars
    <2>2. CASE SkipWaitNext(c)
        <3>1. InOrder
            BY <2>2 DEF HandoverInOrder, NoneAborted, SkipWaitNext, clientVars
        <3>2. WaitNext \in Responses /\ WaitNext.pkt = NoPacket /\ ReadResponse(c, WaitNext)
            BY <2>2, RequestTypes DEF SkipWaitNext, WaitNext
        <3>3. got' = got
            BY <2>2 DEF SkipWaitNext, clientVars
        <3>4. QED BY <3>1, <3>2, <3>3, ReadKept
    <2>3. CASE Return(c)
        <3>1. NoneAborted
            BY <2>3 DEF NoneAborted, Return, ReadResponse, TypeOK, Calls
        <3>2. InOrder
            BY <3>1 DEF HandoverInOrder, NoneAborted
        <3>3. PICK r \in Answers :
                  /\ ReadResponse(c, r)
                  /\ got' = IF r.pkt = NoPacket
                              THEN got
                              ELSE [got EXCEPT ![SockOf[c]] = Append(@, r.pkt)]
            BY <2>3 DEF Return
        <3>4. r \in Responses
            BY DEF Responses
        <3>5. QED BY <3>2, <3>3, <3>4, ReadKept
    <2>4. CASE Abort(c)
        BY <2>4 DEF NoneAborted, Abort, TypeOK
    <2>5. QED BY <1>3, <2>1, <2>2, <2>3, <2>4 DEF Client, InCall
<1>4. CASE IpThread
    BY <1>1, <1>4 DEF IpThread, IpArrive, IpEnqueue, IpNotify, NoneAborted, daemonVars, clientVars
<1>5. CASE Poll
    BY <1>1, <1>5 DEF Poll, NoneAborted, clientVars
<1>6. ASSUME NEW s \in Sockets, onReadReady(s)
      PROVE  \A q \in Sockets : answered'[q] = got'[q] \o Payloads(resp'[q])
    <2>1. UNCHANGED clientVars
        BY <1>6 DEF onReadReady
    <2>2. CASE Head(req[s]).call = "sendto" /\ sendtoCall(s)
        <3>1. Answer("sendto", NoPacket, FALSE) \in Responses
              /\ Answer("sendto", NoPacket, FALSE).pkt = NoPacket
            BY RequestTypes DEF Answer, Calls
        <3>2. QED BY <1>2, <2>1, <2>2, <3>1 DEF sendtoCall
    <2>3. CASE Head(req[s]).call = "recvfrom" /\ recvfromCall(s, Head(req[s]))
        <3> DEFINE addr == Head(req[s]).addr
                   p == Head(recvQ[s])
        <3>1. addr \in BOOLEAN
            <4>1. req[s] \in Seq(Requests) /\ req[s] # <<>>
                BY <1>6 DEF onReadReady, TypeOK
            <4>2. Head(req[s]) \in Requests
                BY <4>1, QueueTypes
            <4>3. QED BY <4>2 DEF Requests
        <3>2. CASE recvQ[s] # <<>>
            <4>1. recvQ[s] \in Seq(Packets)
                BY DEF TypeOK
            <4>2. p \in Packets
                BY <3>2, <4>1, QueueTypes
            <4>3. Answer("recvfrom", p, addr) \in Responses /\ Answer("recvfrom", p, addr).pkt = p
                BY <3>1, <4>2, RequestTypes DEF Answer, Calls
            <4>4. Respond(s, Answer("recvfrom", p, addr)) /\ Take(s)
                BY <2>3, <3>2 DEF recvfromCall
            <4>5. QED BY <1>2, <2>1, <3>2, <4>3, <4>4
        <3>3. CASE recvQ[s] = <<>> /\ s \in Nonblocking
            <4>1. Answer("recvfrom", NoPacket, FALSE) \in Responses
                  /\ Answer("recvfrom", NoPacket, FALSE).pkt = NoPacket
                BY RequestTypes DEF Answer, Calls
            <4>2. QED BY <1>2, <2>1, <2>3, <3>3, <4>1 DEF recvfromCall
        <3>4. CASE recvQ[s] = <<>> /\ s \notin Nonblocking
            <4>1. WaitNext \in Responses /\ WaitNext.pkt = NoPacket
                BY RequestTypes DEF WaitNext
            <4>2. QED BY <1>2, <2>1, <2>3, <3>4, <4>1 DEF recvfromCall
        <3>5. QED BY <3>2, <3>3, <3>4
    <2>4. QED BY <1>6, <2>2, <2>3 DEF onReadReady
<1>7. ASSUME NEW s \in Sockets, sChannelReadCb(s)
      PROVE  \A q \in Sockets : answered'[q] = got'[q] \o Payloads(resp'[q])
    BY <1>1, <1>7 DEF sChannelReadCb, NoneAborted, clientVars
<1>8. ASSUME NEW s \in Sockets, onAsyncNewPacket(s)
      PROVE  \A q \in Sockets : answered'[q] = got'[q] \o Payloads(resp'[q])
    <2> DEFINE addr == (s \notin Tcp /\ cbAddr[s])
               p == Head(recvQ[s])
    <2>1. /\ recvQ[s] # <<>> /\ Respond(s, Answer("recvfrom", p, addr))
          /\ Take(s) /\ UNCHANGED clientVars
        BY <1>8 DEF onAsyncNewPacket
    <2>2. recvQ[s] \in Seq(Packets) /\ addr \in BOOLEAN
        BY DEF TypeOK
    <2>3. p \in Packets
        BY <2>1, <2>2, QueueTypes
    <2>4. Answer("recvfrom", p, addr) \in Responses /\ Answer("recvfrom", p, addr).pkt = p
        BY <2>2, <2>3, RequestTypes DEF Answer, Calls
    <2>5. QED BY <1>2, <2>1, <2>4
<1>9. CASE UNCHANGED vars
    BY <1>1, <1>9 DEF vars, NoneAborted
<1>10. QED BY <1>3, <1>4, <1>5, <1>6, <1>7, <1>8, <1>9 DEF Next, EventLoop

\* For every sharing of sockets and every limit: however the calls of a socket's
\* users, the event loop's answers (recvfrom in SocketRecvRequestHandler.cpp,
\* handed over later by onAsyncNewPacket after a WAIT_NEXT) and the clients'
\* reads interleave, what the event loop took from the socket's queue is what
\* recvfrom calls returned followed by what the channel still carries.
THEOREM NothingLostInHandover == Spec => []HandoverInOrder
<1>1. Init => HandoverInOrder
    <2> SUFFICES ASSUME Init, NEW s \in Sockets
                 PROVE  answered[s] = got[s] \o Payloads(resp[s])
        BY DEF HandoverInOrder
    <2>1. answered[s] = <<>> /\ got[s] = <<>> /\ resp[s] = <<>>
        BY DEF Init
    <2>2. QED BY <2>1, PayloadsOfNone, ConcatEmptySeq
<1>2. QED BY <1>1, HandoverStep, TypeCorrect, PTL DEF Spec

(***************************************************************************)
(* Aborts.  On a socket all whose users ask for addresses, and on which    *)
(* both paths that leave them out are closed, every request asks for one   *)
(* and every answer to recvfrom has one.                                   *)
(***************************************************************************)

AddressKept(s) ==
    /\ s \notin Tcp \cup Nonblocking
    /\ \A c \in Clients : SockOf[c] = s => c \in WantAddr

Asking == {r \in Requests : r.call = "recvfrom" => r.addr}
Giving == {r \in Responses : r.call = "recvfrom" => r.addr}

AddrInv ==
    \A s \in Sockets :
        AddressKept(s) =>
            /\ req[s] \in Seq(Asking)
            /\ resp[s] \in Seq(Giving)
            /\ waiting[s] => cbAddr[s]

\* The two things a step may do to a queue of requests or responses.
LEMMA GoodQueue ==
    ASSUME NEW G, NEW q \in Seq(G), NEW p, p = q \/ (\E x \in G : p = Append(q, x))
                                          \/ (q # <<>> /\ p = Tail(q))
    PROVE  p \in Seq(G)
<1>1. CASE \E x \in G : p = Append(q, x)
    BY <1>1
<1>2. CASE q # <<>> /\ p = Tail(q)
    BY <1>2
<1>3. QED BY <1>1, <1>2

LEMMA AddrStep == TypeOK /\ TakingForWaiter /\ AddrInv /\ [Next]_vars => AddrInv'
<1> SUFFICES ASSUME TypeOK, TakingForWaiter, AddrInv, [Next]_vars,
                    NEW s \in Sockets, AddressKept(s)
             PROVE  /\ req'[s] \in Seq(Asking)
                    /\ resp'[s] \in Seq(Giving)
                    /\ waiting'[s] => cbAddr'[s]
    BY DEF AddrInv, AddressKept
<1> DEFINE Goal == /\ req'[s] \in Seq(Asking)
                   /\ resp'[s] \in Seq(Giving)
                   /\ waiting'[s] => cbAddr'[s]
<1> USE DEF daemonVars, ipVars, clientVars
<1>0. req[s] \in Seq(Asking) /\ resp[s] \in Seq(Giving) /\ (waiting[s] => cbAddr[s])
    BY DEF AddrInv
<1>t. /\ req \in [Sockets -> Seq(Requests)] /\ resp \in [Sockets -> Seq(Responses)]
      /\ waiting \in [Sockets -> BOOLEAN] /\ cbAddr \in [Sockets -> BOOLEAN]
      /\ recvQ \in [Sockets -> Seq(Packets)]
    BY DEF TypeOK
<1>1. CASE IpThread \/ Poll \/ UNCHANGED vars
    BY <1>0, <1>1 DEF IpThread, IpArrive, IpEnqueue, IpNotify, Poll, vars
<1>2. ASSUME NEW z \in Sockets, sChannelReadCb(z) PROVE Goal
    BY <1>0, <1>2 DEF sChannelReadCb
<1>3. ASSUME NEW z \in Sockets, onAsyncNewPacket(z) PROVE Goal
    <2>1. UNCHANGED <<req, cbAddr>> /\ taking = z /\ waiting' = [waiting EXCEPT ![z] = FALSE]
        BY <1>3 DEF onAsyncNewPacket
    <2>2. CASE z # s
        BY <1>0, <1>t, <1>3, <2>1, <2>2 DEF onAsyncNewPacket, Respond
    <2>3. CASE z = s
        <3> DEFINE r == Answer("recvfrom", Head(recvQ[s]), s \notin Tcp /\ cbAddr[s])
        <3>1. s \notin Tcp /\ cbAddr[s] = TRUE
            BY <1>0, <1>t, <2>1, <2>3 DEF AddressKept, TakingForWaiter
        <3>2. recvQ[s] # <<>> /\ resp' = [resp EXCEPT ![s] = Append(@, r)]
            BY <1>3, <2>3 DEF onAsyncNewPacket, Respond
        <3>3. Head(recvQ[s]) \in Packets
            BY <1>t, <3>2, QueueTypes
        <3>4. r \in Responses
            BY <1>t, <3>1, <3>3, RequestTypes DEF Calls
        <3>5. r.addr = TRUE
            BY <3>1 DEF Answer
        <3>6. r \in Giving
            BY <3>4, <3>5 DEF Giving
        <3>7. resp'[s] \in Seq(Giving)
            BY <1>0, <1>t, <3>2, <3>6, GoodQueue
        <3>8. QED BY <1>0, <1>t, <2>1, <2>3, <3>7
    <2>4. QED BY <2>2, <2>3
<1>4. ASSUME NEW z \in Sockets, onReadReady(z) PROVE Goal
    <2>1. req[z] # <<>> /\ req' = [req EXCEPT ![z] = Tail(@)]
        BY <1>4 DEF onReadReady
    <2>2. CASE z # s
        BY <1>0, <1>t, <1>4, <2>1, <2>2 DEF onReadReady, recvfromCall, sendtoCall, Respond
    <2>3. CASE z = s
        <3> DEFINE q == Head(req[s])
        <3>1. q \in Asking /\ q \in Requests /\ req'[s] \in Seq(Asking)
            BY <1>0, <1>t, <2>1, <2>3, QueueTypes
        <3>2. CASE q.call = "sendto" /\ sendtoCall(s)
            <4> DEFINE r == Answer("sendto", NoPacket, FALSE)
            <4>1. r \in Giving
                BY RequestTypes DEF Giving, Calls, Answer
            <4>2. resp'[s] = Append(resp[s], r) /\ waiting' = waiting /\ cbAddr' = cbAddr
                BY <1>t, <3>2 DEF sendtoCall, Respond
            <4>3. QED BY <1>0, <3>1, <4>1, <4>2, GoodQueue
        <3>3. CASE q.call = "recvfrom" /\ recvfromCall(s, q)
            <4>1. q.addr = TRUE
                BY <3>1, <3>3 DEF Asking, Requests
            <4>2. s \notin Nonblocking
                BY DEF AddressKept
            <4>3. CASE recvQ[s] # <<>>
                <5> DEFINE r == Answer("recvfrom", Head(recvQ[s]), q.addr)
                <5>1. Head(recvQ[s]) \in Packets
                    BY <1>t, <4>3, QueueTypes
                <5>2. r \in Responses /\ r.addr = TRUE
                    BY <4>1, <5>1, RequestTypes DEF Calls, Answer
                <5>3. r \in Giving
                    BY <5>2 DEF Giving
                <5>4. resp'[s] = Append(resp[s], r) /\ waiting' = waiting /\ cbAddr' = cbAddr
                    BY <1>t, <3>3, <4>3 DEF recvfromCall, Respond
                <5>5. QED BY <1>0, <3>1, <5>3, <5>4, GoodQueue
            <4>4. CASE recvQ[s] = <<>>
                <5>1. WaitNext \in Giving
                    BY RequestTypes DEF Giving, WaitNext
                <5>2. resp'[s] = Append(resp[s], WaitNext) /\ cbAddr'[s] = q.addr
                    BY <1>t, <3>3, <4>2, <4>4 DEF recvfromCall, Respond
                <5>3. QED BY <1>0, <3>1, <4>1, <5>1, <5>2, GoodQueue
            <4>5. QED BY <4>3, <4>4
        <3>4. QED BY <1>4, <2>3, <3>2, <3>3 DEF onReadReady
    <2>4. QED BY <2>2, <2>3
<1>5. ASSUME NEW c \in Clients, Client(c) PROVE Goal
    <2>1. SockOf[c] \in Sockets
        OBVIOUS
    <2>2. CASE CallRecvfrom(c)
        <3> DEFINE r == [call |-> "recvfrom", addr |-> c \in WantAddr]
        <3>1. UNCHANGED <<resp, waiting, cbAddr>>
              /\ req' = [req EXCEPT ![SockOf[c]] = Append(@, r)]
            BY <2>2 DEF CallRecvfrom
        <3>2. SockOf[c] = s => r \in Asking
            BY DEF AddressKept, Asking, Requests, Calls
        <3>3. req'[s] = req[s] \/ (SockOf[c] = s /\ req'[s] = Append(req[s], r))
            BY <1>t, <2>1, <3>1
        <3>4. req'[s] \in Seq(Asking)
            BY <1>0, <3>2, <3>3, GoodQueue
        <3>5. QED BY <1>0, <3>1, <3>4
    <2>3. CASE CallSendto(c)
        <3> DEFINE r == [call |-> "sendto", addr |-> FALSE]
        <3>1. UNCHANGED <<resp, waiting, cbAddr>>
              /\ req' = [req EXCEPT ![SockOf[c]] = Append(@, r)]
            BY <2>3 DEF CallSendto
        <3>2. r \in Asking
            BY DEF Asking, Requests, Calls
        <3>3. req'[s] = req[s] \/ req'[s] = Append(req[s], r)
            BY <1>t, <2>1, <3>1
        <3>4. req'[s] \in Seq(Asking)
            BY <1>0, <3>2, <3>3, GoodQueue
        <3>5. QED BY <1>0, <3>1, <3>4
    <2>4. CASE InCall(c)
        <3>1. UNCHANGED <<req, waiting, cbAddr>> /\ resp[SockOf[c]] # <<>>
              /\ resp' = [resp EXCEPT ![SockOf[c]] = Tail(@)]
            BY <2>4 DEF InCall, SkipWaitNext, Return, Abort, ReadResponse
        <3>2. resp'[s] = resp[s] \/ (resp[s] # <<>> /\ resp'[s] = Tail(resp[s]))
            BY <1>t, <2>1, <3>1
        <3>3. resp'[s] \in Seq(Giving)
            BY <1>0, <3>2, GoodQueue
        <3>4. QED BY <1>0, <3>1, <3>3
    <2>5. QED BY <1>5, <2>2, <2>3, <2>4 DEF Client
<1>6. QED BY <1>1, <1>2, <1>3, <1>4, <1>5 DEF Next, EventLoop

\* The step that aborts: what the client reads is the answer to its call.
LEMMA AbortStep ==
    Owned /\ TypeOK /\ CallInv /\ AddrInv /\ AbortsExplained /\ [Next]_vars => AbortsExplained'
<1> SUFFICES ASSUME Owned, TypeOK, CallInv, AddrInv, AbortsExplained, [Next]_vars,
                    NEW c \in Clients, cstate'[c] = "aborted"
             PROVE  c \in WantAddr /\ SockOf[c] \in Tcp \cup Nonblocking
    BY DEF AbortsExplained
<1> DEFINE s == SockOf[c]
<1>1. CASE cstate[c] = "aborted"
    BY <1>1 DEF AbortsExplained
<1>2. CASE cstate[c] # "aborted"
    <2>1. Abort(c)
        <3>1. ~ UNCHANGED cstate
            BY <1>2
        <3>2. PICK d \in Clients : Client(d)
            BY <3>1 DEF Next, IpThread, IpArrive, IpEnqueue, IpNotify, EventLoop, Poll,
                        onReadReady, sChannelReadCb, onAsyncNewPacket, clientVars, vars
        <3>3. cstate \in [Clients -> Calls \cup {"idle", "aborted"}]
            BY DEF TypeOK
        <3>4. ~ SkipWaitNext(d)
            BY <3>1 DEF SkipWaitNext, clientVars
        <3>5. ~ CallRecvfrom(d) /\ ~ CallSendto(d) /\ ~ Return(d)
            BY <1>2, <3>3 DEF CallRecvfrom, CallSendto, Return
        <3>6. Abort(d)
            BY <3>2, <3>4, <3>5 DEF Client, InCall
        <3>7. d = c
            BY <1>2, <3>3, <3>6 DEF Abort
        <3>8. QED BY <3>6, <3>7
    <2>2. PICK r \in Answers : ReadResponse(c, r) /\ ~AnswerFits(c, r)
        BY <2>1 DEF Abort
    <2>3. cstate[c] \in Calls /\ resp[s] # <<>> /\ r = Head(resp[s]) /\ s \in Sockets
        BY <2>2 DEF ReadResponse
    <2>4. Answered(c, s)
        <3>1. Position(c)
            BY DEF CallInv
        <3>2. resp[s] # <<WaitNext>>
            BY <2>3, OneElement, AnswersAreFinal
        <3>3. QED BY <2>3, <3>1, <3>2 DEF Position, Called, Waiting
    <2>5. r.call = cstate[c]
        <3>1. PICK a \in Answers : a.call = cstate[c] /\ resp[s] \in {<<a>>, <<WaitNext, a>>}
            BY <2>4 DEF Answered
        <3>2. CASE resp[s] = <<a>>
            BY <2>3, <3>1, <3>2
        <3>3. CASE resp[s] = <<WaitNext, a>>
            <4>1. Head(<<WaitNext, a>>) = WaitNext
                OBVIOUS
            <4>2. QED BY <2>3, <3>3, <4>1, AnswersAreFinal
        <3>4. QED BY <3>1, <3>2, <3>3
    <2>6. cstate[c] = "recvfrom" /\ c \in WantAddr /\ ~ r.addr
        BY <2>2, <2>5 DEF AnswerFits
    <2>7. ~ AddressKept(s)
        <3>1. r \in Giving => r.addr
            BY <2>5, <2>6 DEF Giving
        <3>2. AddressKept(s) => r \in Giving
            BY <2>3, QueueTypes DEF AddrInv
        <3>3. QED BY <2>6, <3>1, <3>2
    <2>8. \A d \in Clients : SockOf[d] = s => d \in WantAddr
        BY <2>6 DEF Owned
    <2>9. QED BY <2>6, <2>7, <2>8 DEF AddressKept
<1>3. QED BY <1>1, <1>2

\* For every sharing of sockets and every limit: a client whose socket nobody
\* shares reaches the assertion of interceptor.c that an answer has an address
\* only if it asked for one, and only on a TCP socket or a nonblocking one, the
\* two for which recvfrom or its callback answers without one.
THEOREM AbortsOnlyForAddress == Spec => []AbortsExplained
<1>1. CASE Owned
    <2>1. Init => AddrInv /\ AbortsExplained
        BY DEF Init, AddrInv, AbortsExplained
    <2>2. TypeOK /\ CallInv /\ AddrInv /\ AbortsExplained /\ [Next]_vars
             => AddrInv' /\ AbortsExplained'
        BY <1>1, AddrStep, AbortStep DEF CallInv
    <2>3. QED BY <1>1, <2>1, <2>2, TypeCorrect, CallInvariant, PTL DEF Spec
<1>2. CASE ~Owned
    <2>1. AbortsExplained
        BY <1>2 DEF AbortsExplained
    <2>2. QED BY <2>1, PTL
<1>3. QED BY <1>1, <1>2
=============================================================================
