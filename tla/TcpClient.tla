------------------------------ MODULE TcpClient ------------------------------
(***************************************************************************)
(* TcpPcb: the client end of a TCP connection, without retransmission and  *)
(* without a reassembly queue, against a peer that follows RFC 793.        *)
(*                                                                         *)
(* Two threads of the daemon work on one TcpPcb without a lock.  The event *)
(* loop thread runs connect and send, the IP thread runs recv, ack2peer    *)
(* and the connection callback.  Each writes one of send_next, recv_next   *)
(* and reads the other into its segment before it gives the segment to     *)
(* Ip::tx, so the write, the read and the tx are steps of their own.       *)
(*                                                                         *)
(* Sequence numbers are modulo SeqSpace (2^32 in the code).  A byte of       *)
(* payload is its position in its stream; the peer and the network         *)
(* (definitions that begin with Peer or Net) are not part of the program.  *)
(*                                                                         *)
(* Not in this module: checksums, the request channel (an application is   *)
(* told that it is connected, nothing more), demultiplexing, FIN, which    *)
(* the code ignores, and the calls that change nothing: send outside       *)
(* CLOSED and ESTABLISHED returns 0, recv in CLOSED returns.               *)
(***************************************************************************)
EXTENDS Naturals, Sequences, SequencesExt

CONSTANTS
    SeqSpace,         \* sequence numbers are 0 .. SeqSpace - 1
    PeerIss,        \* the peer's initial sequence number
    RecvQLimit,     \* Socket::Impl::recvQlimit
    StoreDelay,     \* send's read of recv_next may pass its store to send_next
    Asserts,        \* the build has assertions (Debug; Release has none)
    SendFirst,      \* the application may send before it connects
    MaxUp,          \* bound: bytes the application writes
    MaxDown,        \* bound: bytes the peer writes
    MaxSegment,     \* bound: bytes in a segment
    Refuses,        \* the peer may answer SYN with RST
    Window,         \* bytes the peer keeps in flight
    Patient,        \* the peer retransmits only what is lost
    MaxRetransmits, \* bound: retransmissions by the peer
    LossesUp,       \* bound: segments to the peer that the network loses
    LossesDown,     \* bound: segments to the client that it loses
    Duplicates,     \* bound: segments the network duplicates
    Reorders        \* the network may reorder segments

ASSUME SeqAssumption ==
    /\ SeqSpace \in Nat /\ SeqSpace > 2
    /\ PeerIss \in 0 .. SeqSpace - 1
ASSUME BoundsAssumption ==
    /\ {RecvQLimit, MaxUp, MaxDown, MaxRetransmits,
        LossesUp, LossesDown, Duplicates} \subseteq Nat
    /\ {MaxSegment, Window} \subseteq Nat \ {0}
    /\ {StoreDelay, Asserts, SendFirst, Refuses, Patient, Reorders} \subseteq BOOLEAN
\* The peer keeps less than a turn of sequence numbers in flight (RFC 793: half).
ASSUME WindowAssumption == Window < SeqSpace

VARIABLES
    conn_state,     \* TcpPcb::conn_state
    send_unack,     \* TcpPcb::send_unack
    send_next,      \* TcpPcb::send_next
    irs,            \* TcpPcb::irs
    recv_next,      \* TcpPcb::recv_next
    fport,          \* Pcb::fport and faddr: "none" or "peer"
    evPc,           \* where the event loop is in TcpPcb::send
    evOut,          \* ... and its segment, <<>> if it has none
    ipPc,           \* where the IP thread is in TcpPcb::recv
    ipOut,          \* ... and its segment, <<>> if it has none
    ipCallback,     \* the IP thread has onConnEstabCB still to call
    recvQ,          \* number of packets in the Socket's recvQ
    aborted,        \* an assertion failed
    conn,           \* what the application knows of its connect
    written,        \* bytes the application was told it sent
    queued,         \* history: bytes put in recvQ
    toPeer,         \* segments on their way to the peer
    toClient,       \* segments on their way to the client
    budget,         \* losses, duplications and retransmissions used
    pstate,         \* the peer's connection state
    p_una,          \* the peer's SND.UNA
    p_next,         \* the peer's SND.NXT
    p_rcv,          \* the peer's RCV.NXT
    p_sent,         \* bytes the peer's application wrote
    accepted        \* bytes the peer's application received

pcbVars == <<conn_state, send_unack, send_next, irs, recv_next, fport>>
evVars == <<evPc, evOut>>
ipVars == <<ipPc, ipOut, ipCallback>>
appVars == <<recvQ, aborted, conn, written, queued>>
peerVars == <<pstate, p_una, p_next, p_rcv, p_sent, accepted>>
vars == <<pcbVars, evVars, ipVars, appVars, toPeer, toClient, budget, peerVars>>

SeqNumbers == 0 .. SeqSpace - 1

\* Mutant: a sum that does not wrap.
Plus_NoWrap(a, b) == a + b

Plus(a, b) == (a + b) % SeqSpace
Minus(a, b) == (a + SeqSpace - b) % SeqSpace

\* The n bytes of a stream that follow its first `from` bytes.
Bytes(from, n) == [i \in 1 .. n |-> from + i]

Segment(flags, seq, ackSeq, data) ==
    [flags |-> flags, seq |-> seq, ackSeq |-> ackSeq, data |-> data]

iss == 1

Init ==
    /\ conn_state = "CLOSED"
    /\ send_unack = 0 /\ send_next = 0 /\ irs = 0 /\ recv_next = 0
    /\ fport = "none"
    /\ evPc = "idle" /\ evOut = <<>>
    /\ ipPc = "idle" /\ ipOut = <<>> /\ ipCallback = FALSE
    /\ recvQ = 0 /\ aborted = FALSE
    /\ conn = "idle" /\ written = 0 /\ queued = <<>>
    /\ toPeer = <<>> /\ toClient = <<>>
    /\ budget = [up |-> 0, down |-> 0, dup |-> 0, rexmit |-> 0]
    /\ pstate = "listen"
    /\ p_una = 0 /\ p_next = 0 /\ p_rcv = 0 /\ p_sent = 0
    /\ accepted = <<>>

-----------------------------------------------------------------------------
(* The event loop thread *)

EventLoopFree == evPc = "idle" /\ ~aborted

\* TcpPcb::send in CLOSED: whatever the buffer holds, the segment is a SYN.
sendSyn(data) ==
    /\ conn_state = "CLOSED"
    /\ conn_state' = "SYN_SENT"
    /\ send_unack' = iss
    /\ send_next' = Plus(iss, 1)
    /\ evPc' = "tx"
    /\ evOut' = <<Segment({"SYN"}, iss, 0, data)>>
    /\ UNCHANGED <<irs, recv_next>>

\* Mutant: send_next stays where it is.
sendData_NoAdvance(data) ==
    /\ conn_state = "ESTABLISHED"
    /\ evPc' = "ack"
    /\ evOut' = <<Segment({"ACK"}, send_next, 0, data)>>
    /\ UNCHANGED <<conn_state, send_unack, send_next, irs, recv_next>>

\* TcpPcb::send in ESTABLISHED.  Nothing orders the store to send_next before
\* the read of recv_next for the other thread.
sendData(data) ==
    /\ conn_state = "ESTABLISHED"
    /\ \/ /\ send_next' = Plus(send_next, Len(data))
          /\ evPc' = "ack"
          /\ evOut' = <<Segment({"ACK"}, send_next, 0, data)>>
       \/ /\ StoreDelay
          /\ evPc' = "store"
          /\ evOut' = <<Segment({"ACK"}, send_next, recv_next, data)>>
          /\ UNCHANGED send_next
    /\ UNCHANGED <<conn_state, send_unack, irs, recv_next>>

\* Mutant: the application is not made to wait.
connect_NoWait ==
    /\ EventLoopFree
    /\ conn = "idle"
    /\ conn' = "connected"
    /\ fport' = "peer"
    /\ \/ sendSyn(<<>>)
       \/ conn_state = "SYN_SENT" /\ UNCHANGED <<conn_state, send_unack, send_next,
                                                irs, recv_next, evVars>>
    /\ UNCHANGED <<ipVars, recvQ, aborted, written, queued,
                   toPeer, toClient, budget, peerVars>>

\* TcpPcb::connect for a blocking connectCall: set the peer's address, then
\* send an empty buffer, which in SYN_SENT does nothing.
connect ==
    /\ EventLoopFree
    /\ conn = "idle"
    /\ conn' = "connecting"
    /\ fport' = "peer"
    /\ \/ sendSyn(<<>>)
       \/ conn_state = "SYN_SENT" /\ UNCHANGED <<conn_state, send_unack, send_next,
                                                irs, recv_next, evVars>>
    /\ UNCHANGED <<ipVars, recvQ, aborted, written, queued,
                   toPeer, toClient, budget, peerVars>>

\* sendtoCall on a TCP socket.  Pcb::send says ENOTCONN without a peer, and
\* TcpPcb::send does not listen.
send(n) ==
    /\ EventLoopFree
    /\ written + n <= MaxUp
    /\ conn = "connected" \/ (SendFirst /\ conn = "idle")
    /\ sendSyn(Bytes(written, n)) \/ sendData(Bytes(written, n))
    /\ written' = written + n
    /\ UNCHANGED <<fport, ipVars, recvQ, aborted, conn, queued,
                   toPeer, toClient, budget, peerVars>>

\* The second half of send: its read of recv_next, or its delayed store.
sendRest ==
    /\ ~aborted
    /\ \/ /\ evPc = "ack"
          /\ evOut' = <<[evOut[1] EXCEPT !.ackSeq = recv_next]>>
          /\ UNCHANGED send_next
       \/ /\ evPc = "store"
          /\ send_next' = Plus(send_next, Len(evOut[1].data))
          /\ UNCHANGED evOut
    /\ evPc' = "tx"
    /\ UNCHANGED <<conn_state, send_unack, irs, recv_next, fport, ipVars,
                   appVars, toPeer, toClient, budget, peerVars>>

\* Ip::tx of the event loop's segment; one without a destination is lost.
EventLoopTx ==
    /\ evPc = "tx" /\ ~aborted
    /\ evPc' = "idle"
    /\ evOut' = <<>>
    /\ toPeer' = IF fport = "peer" THEN toPeer \o evOut ELSE toPeer
    /\ UNCHANGED <<pcbVars, ipVars, appVars, toClient, budget, peerVars>>

\* recvfrom takes a packet from the queue.
takeFromRecvQ ==
    /\ ~aborted
    /\ recvQ > 0
    /\ recvQ' = recvQ - 1
    /\ UNCHANGED <<pcbVars, evVars, ipVars, aborted, conn, written, queued,
                   toPeer, toClient, budget, peerVars>>

-----------------------------------------------------------------------------
(* The IP thread *)

IpFree == ipPc = "idle" /\ ~aborted

SynAck(seg) == {"SYN", "ACK"} \subseteq seg.flags

\* ack2peer(value), its read of send_next still to come.
ack2peer(value) ==
    /\ ipPc' = "seq"
    /\ ipOut' = <<Segment({"ACK"}, 0, value, <<>>)>>

\* Mutants: the state stays SYN_SENT; the callback is forgotten.
establish_NoState(seg) ==
    /\ irs' = seg.seq
    /\ recv_next' = Plus(seg.seq, 1)
    /\ send_unack' = Plus(send_unack, 1)
    /\ ack2peer(recv_next')
    /\ ipCallback' = TRUE
    /\ UNCHANGED <<conn_state, send_next>>

establish_NoCallback(seg) ==
    /\ irs' = seg.seq
    /\ recv_next' = Plus(seg.seq, 1)
    /\ send_unack' = Plus(send_unack, 1)
    /\ conn_state' = "ESTABLISHED"
    /\ ack2peer(recv_next')
    /\ UNCHANGED <<ipCallback, send_next>>

\* What follows the assertion in recv.
establish(seg) ==
    /\ irs' = seg.seq
    /\ recv_next' = Plus(seg.seq, 1)
    /\ send_unack' = Plus(send_unack, 1)
    /\ conn_state' = "ESTABLISHED"
    /\ ack2peer(recv_next')
    /\ ipCallback' = TRUE
    /\ UNCHANGED send_next

\* TcpPcb::recv in SYN_SENT: what is not SYN and ACK fails the assertion, or,
\* in a build without it, is taken for the peer's SYN and ACK.
recvInSynSent(seg) ==
    /\ conn_state = "SYN_SENT"
    /\ \/ /\ Asserts /\ ~SynAck(seg)
          /\ aborted' = TRUE
          /\ UNCHANGED <<conn_state, send_unack, send_next, irs, recv_next, ipVars>>
       \/ /\ Asserts => SynAck(seg)
          /\ establish(seg)
          /\ UNCHANGED aborted
    /\ UNCHANGED <<recvQ, queued>>

\* Socket::putToRecvQ drops what does not fit and does not say so.
putToRecvQ(data) ==
    IF recvQ > RecvQLimit
      THEN UNCHANGED <<recvQ, queued>>
      ELSE recvQ' = recvQ + 1 /\ queued' = queued \o data

\* ack_seq and send_unack are compared as numbers.
acknowledged(seg) ==
    send_unack' = IF "ACK" \in seg.flags /\ seg.ackSeq > send_unack
                    THEN seg.ackSeq
                    ELSE send_unack

\* Mutants: the new recv_next is acknowledged but not stored; it is one too far.
payload_NotStored(seg) ==
    /\ putToRecvQ(seg.data)
    /\ ack2peer(Plus(seg.seq, Len(seg.data)))
    /\ UNCHANGED recv_next

payload_OffByOne(seg) ==
    /\ putToRecvQ(seg.data)
    /\ recv_next' = Plus(seg.seq, Len(seg.data) + 1)
    /\ ack2peer(recv_next')

\* A payload is queued and acknowledged as if it were the one expected.
payload(seg) ==
    /\ putToRecvQ(seg.data)
    /\ recv_next' = Plus(seg.seq, Len(seg.data))
    /\ ack2peer(recv_next')

\* TcpPcb::recv in ESTABLISHED.
recvInEstablished(seg) ==
    /\ conn_state = "ESTABLISHED"
    /\ acknowledged(seg)
    /\ \/ seg.data # <<>> /\ payload(seg)
       \/ seg.data = <<>> /\ UNCHANGED <<recvQ, queued, recv_next, ipPc, ipOut>>
    /\ UNCHANGED <<conn_state, send_next, irs, ipCallback, aborted>>

\* The places in a queue of segments from which the network may deliver.
NetDeliverable(net) ==
    {i \in DOMAIN net : i = 1 \/ Reorders}

recv ==
    \E i \in NetDeliverable(toClient) :
        /\ IpFree
        /\ toClient' = RemoveAt(toClient, i)
        /\ recvInSynSent(toClient[i]) \/ recvInEstablished(toClient[i])
        /\ UNCHANGED <<fport, evVars, conn, written, toPeer, budget, peerVars>>

\* The rest of ack2peer: its read of send_next, and Ip::tx.
ack2peerRest ==
    /\ ~aborted
    /\ \/ /\ ipPc = "seq"
          /\ ipPc' = "tx"
          /\ ipOut' = <<[ipOut[1] EXCEPT !.seq = send_next]>>
          /\ UNCHANGED toPeer
       \/ /\ ipPc = "tx"
          /\ ipPc' = IF ipCallback THEN "callback" ELSE "idle"
          /\ ipOut' = <<>>
          /\ toPeer' = toPeer \o ipOut
    /\ UNCHANGED <<pcbVars, evVars, ipCallback, appVars, toClient, budget, peerVars>>

\* The callback of connectCall writes the answer the application waits for.
onConnEstabCB ==
    /\ ipPc = "callback" /\ ~aborted
    /\ ipPc' = "idle"
    /\ ipCallback' = FALSE
    /\ conn' = "connected"
    /\ UNCHANGED <<pcbVars, evVars, ipOut, recvQ, aborted, written, queued,
                   toPeer, toClient, budget, peerVars>>

-----------------------------------------------------------------------------
(* The peer: a server that follows RFC 793 *)

PeerOpen == pstate \in {"synrcvd", "estab"}

PeerSays(flags, seq, ackSeq, data) ==
    toClient' = Append(toClient, Segment(flags, seq, ackSeq, data))

PeerListen(seg) ==
    /\ pstate = "listen"
    /\ \/ /\ pstate' = "synrcvd"
          /\ p_rcv' = Plus(seg.seq, 1)
          /\ p_una' = PeerIss
          /\ p_next' = Plus(PeerIss, 1)
          /\ PeerSays({"SYN", "ACK"}, PeerIss, p_rcv', <<>>)
       \/ /\ Refuses
          /\ pstate' = "refused"
          /\ PeerSays({"RST", "ACK"}, 0, Plus(seg.seq, 1), <<>>)
          /\ UNCHANGED <<p_una, p_next, p_rcv>>
    /\ UNCHANGED <<p_sent, accepted>>

\* A segment from before RCV.NXT is answered and otherwise ignored, with the
\* acknowledgment it carries.
PeerOld(seg) == Minus(p_rcv, seg.seq) \in 1 .. SeqSpace \div 2

PeerIgnore(seg) ==
    /\ PeerOpen
    /\ PeerOld(seg)
    /\ IF pstate = "synrcvd"
         THEN PeerSays({"SYN", "ACK"}, PeerIss, p_rcv, <<>>)
         ELSE PeerSays({"ACK"}, p_next, p_rcv, <<>>)
    /\ UNCHANGED peerVars

PeerAccept(seg) ==
    /\ PeerOpen
    /\ ~PeerOld(seg)
    /\ p_una' = IF Minus(seg.ackSeq, p_una) <= Minus(p_next, p_una)
                  THEN seg.ackSeq
                  ELSE p_una
    /\ pstate' = IF p_una' = PeerIss /\ pstate = "synrcvd" THEN "synrcvd" ELSE "estab"
    /\ IF seg.seq = p_rcv
         THEN /\ accepted' = accepted \o seg.data
              /\ p_rcv' = Plus(p_rcv, Len(seg.data))
         ELSE UNCHANGED <<accepted, p_rcv>>
    /\ IF seg.data = <<>>
         THEN UNCHANGED toClient
         ELSE PeerSays({"ACK"}, p_next, p_rcv', <<>>)
    /\ UNCHANGED <<p_next, p_sent>>

PeerReceive ==
    \E i \in NetDeliverable(toPeer) :
        /\ toPeer' = RemoveAt(toPeer, i)
        /\ \/ PeerListen(toPeer[i])
           \/ PeerIgnore(toPeer[i])
           \/ PeerAccept(toPeer[i])
           \/ pstate = "refused" /\ UNCHANGED <<toClient, peerVars>>
        /\ UNCHANGED <<pcbVars, evVars, ipVars, appVars, budget>>

PeerUnacked == Minus(p_next, p_una)

PeerSend ==
    \E n \in 1 .. MaxSegment :
        /\ pstate = "estab"
        /\ p_sent + n <= MaxDown
        /\ PeerUnacked + n <= Window
        /\ PeerSays({"ACK"}, p_next, p_rcv, Bytes(p_sent, n))
        /\ p_next' = Plus(p_next, n)
        /\ p_sent' = p_sent + n
        /\ UNCHANGED <<pcbVars, evVars, ipVars, appVars, toPeer, budget,
                       pstate, p_una, p_rcv, accepted>>

\* Nothing that could make a retransmission superfluous is still on its way.
NothingInTransit ==
    toPeer = <<>> /\ toClient = <<>> /\ evOut = <<>> /\ ipOut = <<>>

PeerRetransmit ==
    /\ PeerOpen
    /\ PeerUnacked > 0
    /\ Patient => NothingInTransit
    /\ budget.rexmit < MaxRetransmits
    /\ budget' = [budget EXCEPT !.rexmit = @ + 1]
    /\ \/ /\ pstate = "synrcvd"
          /\ PeerSays({"SYN", "ACK"}, PeerIss, p_rcv, <<>>)
       \/ /\ pstate = "estab"
          /\ \E n \in 1 .. MaxSegment :
                 /\ n <= PeerUnacked
                 /\ PeerSays({"ACK"}, p_una, p_rcv, Bytes(p_sent - PeerUnacked, n))
    /\ UNCHANGED <<pcbVars, evVars, ipVars, appVars, toPeer, peerVars>>

-----------------------------------------------------------------------------
(* The network *)

NetLose ==
    /\ \/ /\ budget.up < LossesUp
          /\ budget' = [budget EXCEPT !.up = @ + 1]
          /\ \E i \in DOMAIN toPeer : toPeer' = RemoveAt(toPeer, i)
          /\ UNCHANGED toClient
       \/ /\ budget.down < LossesDown
          /\ budget' = [budget EXCEPT !.down = @ + 1]
          /\ \E i \in DOMAIN toClient : toClient' = RemoveAt(toClient, i)
          /\ UNCHANGED toPeer
    /\ UNCHANGED <<pcbVars, evVars, ipVars, appVars, peerVars>>

NetDuplicate ==
    /\ budget.dup < Duplicates
    /\ budget' = [budget EXCEPT !.dup = @ + 1]
    /\ \/ /\ \E i \in DOMAIN toPeer : toPeer' = Append(toPeer, toPeer[i])
          /\ UNCHANGED toClient
       \/ /\ \E i \in DOMAIN toClient : toClient' = Append(toClient, toClient[i])
          /\ UNCHANGED toPeer
    /\ UNCHANGED <<pcbVars, evVars, ipVars, appVars, peerVars>>

-----------------------------------------------------------------------------

EventLoop ==
    \/ connect
    \/ \E n \in 1 .. MaxSegment : send(n)
    \/ sendRest
    \/ EventLoopTx
    \/ takeFromRecvQ
IpThread == recv \/ ack2peerRest \/ onConnEstabCB
Peer == PeerReceive \/ PeerSend \/ PeerRetransmit
Network == NetLose \/ NetDuplicate

Next == EventLoop \/ IpThread \/ Peer \/ Network

\* Both threads go on, segments arrive, the peer retransmits and has something
\* to send.  Nothing makes the application call, or the network lose.
Fairness ==
    /\ WF_vars(sendRest \/ EventLoopTx)
    /\ WF_vars(IpThread)
    /\ WF_vars(PeerReceive)
    /\ WF_vars(PeerRetransmit)
    /\ WF_vars(PeerSend)

Spec == Init /\ [][Next]_vars
FairSpec == Spec /\ Fairness

-----------------------------------------------------------------------------
(* Properties *)

Segments ==
    [flags : {{"SYN"}, {"ACK"}, {"SYN", "ACK"}, {"RST", "ACK"}},
     seq : SeqNumbers, ackSeq : SeqNumbers, data : Seq(Nat \ {0})]

\* Every variable of TcpPcb and of its surroundings has its type; sequence
\* numbers stay within their width.
TypeOK ==
    /\ conn_state \in {"CLOSED", "SYN_SENT", "ESTABLISHED"}
    /\ {send_unack, send_next, irs, recv_next, p_una, p_next, p_rcv} \subseteq SeqNumbers
    /\ fport \in {"none", "peer"}
    /\ {evOut, ipOut, toPeer, toClient} \subseteq Seq(Segments)
    /\ evPc \in {"idle", "ack", "store", "tx"}
    /\ ipPc \in {"idle", "seq", "tx", "callback"}
    /\ ipCallback \in BOOLEAN /\ aborted \in BOOLEAN
    /\ recvQ \in 0 .. RecvQLimit + 1
    /\ conn \in {"idle", "connecting", "connected"}
    /\ written \in 0 .. MaxUp /\ p_sent \in 0 .. MaxDown
    /\ {queued, accepted} \subseteq Seq(Nat \ {0})
    /\ budget \in [up : 0 .. LossesUp, down : 0 .. LossesDown,
                   dup : 0 .. Duplicates, rexmit : 0 .. MaxRetransmits]
    /\ pstate \in {"listen", "refused", "synrcvd", "estab"}

\* An application told that it is connected is connected to this peer, and a
\* peer that took the connection for established has a client that did.
HandshakeAgrees ==
    /\ conn = "connected" => PeerOpen /\ irs = PeerIss
    /\ pstate = "estab" => conn_state = "ESTABLISHED"

\* The sequence number the client goes on with and the one the peer expects
\* differ by exactly the bytes written and not yet received, except while a
\* delayed store is under way (TcpPcb::send).
SequenceAgrees ==
    PeerOpen /\ evPc # "store" =>
        Minus(send_next, p_rcv) = (written - Len(accepted)) % SeqSpace

\* No segment acknowledges what the peer has not sent, in whatever order and
\* number its segments came (recv sets recv_next from any of them).
AcksTruthful ==
    PeerOpen =>
        \A i \in DOMAIN toPeer :
            "ACK" \in toPeer[i].flags =>
                Minus(toPeer[i].ackSeq, PeerIss) \in 1 .. Minus(p_next, PeerIss)

\* What has been acknowledged is what has been put in the receive queue.
AckMeansQueued ==
    conn_state = "ESTABLISHED" =>
        Minus(recv_next, Plus(irs, 1)) = Len(queued) % SeqSpace

\* Only a refused connection makes the assertion in recv fail.
CrashExplained == aborted => pstate = "refused"

Up == INSTANCE ByteStream WITH sent <- written, received <- accepted
Down == INSTANCE ByteStream WITH sent <- p_sent, received <- queued

\* The peer receives the application's bytes in order and once.
UploadKept == Up!Spec

\* The receive queue gets the peer's bytes in order and once.
DownloadKept == Down!Spec

\* A connect that waits is answered.
ConnectCompletes == conn = "connecting" ~> conn = "connected"

\* What the application wrote arrives.
UploadCompletes == Len(accepted) # written ~> Len(accepted) = written

\* A connected client gets everything a steady peer has to say.
DownloadCompletes == conn = "connected" ~> Len(queued) >= MaxDown
=============================================================================
