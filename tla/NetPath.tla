------------------------------- MODULE NetPath -------------------------------
(***************************************************************************)
(* The Pcbs between the two threads that use them without a lock.  The     *)
(* event loop makes, binds, connects and closes Pcbs and sends from them;  *)
(* the IP thread takes a packet and walks a copy of the list of the        *)
(* protocol's Pcbs, reading the fields of each while they change.  Both    *)
(* take the identification of what they send from one IpIdGenerator.       *)
(*                                                                         *)
(* Every read or write of a field the other thread uses is a step of its   *)
(* own: an operation of the event loop is the sequence of its accesses.    *)
(* What a Socket does with a packet is SocketRecv's, what a TcpPcb does    *)
(* with it beyond the connection state TcpClient's, and fragments are      *)
(* Defrag's.  Assertions are compiled out, as in the default build.        *)
(***************************************************************************)
EXTENDS Naturals, Sequences

CONSTANTS PortMod,     \* ports are 0 .. PortMod - 1 (uint16_t), and 0 is unbound
          FirstPort,   \* what the static `port' of nextAvailPort starts from
          MaxId,       \* UINT16_MAX of the identification
          Remotes,     \* the addresses <<address, port>> applications use
          Packets,     \* what may arrive
          MaxPcbs, MaxOps, MaxPackets      \* bounds of a run

ASSUME PortAssumption == PortMod \in Nat /\ FirstPort \in Nat /\ FirstPort < PortMod
ASSUME IdAssumption == MaxId \in Nat \ {0}
ASSUME RemoteAssumption == Remotes \subseteq (Nat \ {0}) \X (Nat \ {0})
ASSUME BoundAssumption == MaxPcbs \in Nat

\* kind is the protocol and data that there is payload; here is FALSE when the packet
\* is for another address of the network.  Left out is what enRxQue and Ip's thread
\* drop: version 6, short packets, other protocols, fragments of what is incomplete.
ASSUME PacketAssumption ==
  Packets \subseteq [kind : {"UDP", "TCP"}, saddr : Nat, sport : Nat, dport : 0 .. PortMod - 1,
                     here : BOOLEAN, data : BOOLEAN]

Pcbs == 1 .. MaxPcbs       \* in the order of their making, that of the lists
Kinds == {"UDP", "TCP"}

VARIABLES pcb,             \* the Pcbs
          port,            \* nextAvailPort's counter, one for each protocol
          ev,              \* the event loop: its Pcb, its accesses to come, an id it read
          ip,              \* the IP thread: where it is, its packet, the Pcbs to look at
          last,            \* IpIdGenerator::last
          ops, packets,    \* counters for the bounds
          allocated,       \* history: ports given out for each protocol
          ticket,          \* history: which of them each Pcb has
          moved,           \* history: Pcbs changed while this packet is demultiplexed
          asked, early,    \* history: addresses of connect; SYN sent before any
          opener,          \* history: the segment that established each TcpPcb
          ids, raced       \* history: the last MaxId ids; two threads took one at once

ports == <<port, allocated, ticket>>
history == <<moved, asked, early, opener>>
idVars == <<last, ids, raced>>
vars == <<pcb, ports, ev, ip, idVars, ops, packets, history>>

-----------------------------------------------------------------------------
NoPcb == [kind |-> "none", alive |-> FALSE, faddr |-> 0, fport |-> 0, lport |-> 0,
          state |-> "CLOSED"]
NewPcb(kind) == [NoPcb EXCEPT !.kind = kind, !.alive = TRUE]

nextAvailPort_Saturates(n) == IF n = PortMod - 1 THEN n ELSE n + 1
nextAvailPort(n) == IF n = PortMod - 1 THEN 0 ELSE n + 1

\* The accesses of an operation: Set writes a field, the others take no value.
Set(field, v) == <<[do |-> field, v |-> v]>>
Do(what) == <<[do |-> what, v |-> 0]>>

bind == Do("bind")
connect_BindFirst(a) == bind \o Set("faddr", a[1]) \o Set("fport", a[2])
connect(a) == Set("faddr", a[1]) \o Set("fport", a[2]) \o bind
disconnect == Set("faddr", 0) \o Set("fport", 0)
send == bind \o Do("send")
TcpConnect(a) == connect(a) \o send
UdpSendTo(a) == bind \o connect(a) \o send \o disconnect
tx == Do("load") \o Do("store")

next_NoReset(n) == IF n = MaxId THEN 0 ELSE n + 1
next(n) == IF n = MaxId THEN 1 ELSE n + 1

\* id goes out: the history keeps a window of MaxId of them.
Sent(id) == LET all == Append(ids, id)
            IN  IF Len(all) > MaxId THEN Tail(all) ELSE all

-----------------------------------------------------------------------------
NoPacket == [pc |-> "idle", pkt |-> << >>, list |-> {}, p |-> 0, accum |-> 0, to |-> 0,
             id |-> 0]

Init == /\ pcb = [p \in Pcbs |-> NoPcb]
        /\ port = [k \in Kinds |-> FirstPort]
        /\ ev = [p |-> 0, todo |-> << >>, id |-> 0]
        /\ ip = NoPacket
        /\ last = 0 /\ ops = 0 /\ packets = 0
        /\ allocated = [k \in Kinds |-> 0] /\ ticket = [p \in Pcbs |-> 0]
        /\ moved = {} /\ asked = [p \in Pcbs |-> {}] /\ early = [p \in Pcbs |-> FALSE]
        /\ opener = [p \in Pcbs |-> << >>] /\ ids = << >> /\ raced = FALSE

\* While a packet is demultiplexed the history notes each Pcb that changes.
Walking == ip.pc \in {"lport", "fport", "faddr", "found"}
Touch(p) == moved' = (IF Walking THEN moved \cup {p} ELSE {}) /\ UNCHANGED opener

\* A request for the event loop, on any Pcb that is open.
Running == ip.pc # "crashed"
Request == Running /\ ev.todo = << >> /\ ops < MaxOps /\ ops' = ops + 1
Begin(p, todo) == ev' = [p |-> p, todo |-> todo, id |-> 0]
Open(kind) == {p \in Pcbs : pcb[p].alive /\ pcb[p].kind = kind}

newPcb(kind) ==
  \E p \in Pcbs :
    /\ Request
    /\ pcb[p] = NoPcb /\ \A q \in 1 .. p - 1 : pcb[q] # NoPcb
    /\ pcb' = [pcb EXCEPT ![p] = NewPcb(kind)]
    /\ Touch(p) /\ UNCHANGED <<ports, ev, ip, idVars, packets, asked, early>>

\* The Socket goes and with it the Pcb; the list keeps an expired pointer.
Close(p) ==
  /\ Request
  /\ pcb' = [pcb EXCEPT ![p].alive = FALSE]
  /\ Touch(p) /\ UNCHANGED <<ports, ev, ip, idVars, packets, asked, early>>

Connect(p) ==
  \E a \in Remotes :
    /\ Request
    /\ Begin(p, IF pcb[p].kind = "TCP" THEN TcpConnect(a) ELSE connect(a))
    /\ asked' = [asked EXCEPT ![p] = @ \cup {a}]
    /\ UNCHANGED <<pcb, ports, ip, idVars, packets, moved, early, opener>>

Send(p) ==
  /\ Request /\ Begin(p, send)
  /\ UNCHANGED <<pcb, ports, ip, idVars, packets, history>>

\* Only UDP looks at the address of a sendto.
SendTo(p) ==
  \E a \in Remotes :
    /\ Request /\ Begin(p, UdpSendTo(a))
    /\ UNCHANGED <<pcb, ports, ip, idVars, packets, history>>

-----------------------------------------------------------------------------
\* The next access of the event loop, and what is left then.
Access(what) == Running /\ ev.todo # << >> /\ Head(ev.todo).do = what
Goes(rest) == Begin(IF rest = << >> THEN 0 ELSE ev.p, rest)

EvSet(field) ==
  /\ Access(field) /\ Goes(Tail(ev.todo))
  /\ pcb' = [pcb EXCEPT ![ev.p][field] = Head(ev.todo).v]
  /\ Touch(ev.p) /\ UNCHANGED <<ports, ip, idVars, ops, packets, asked, early>>

EvBind ==
  LET k == pcb[ev.p].kind
  IN  /\ Access("bind") /\ Goes(Tail(ev.todo))
      /\ IF pcb[ev.p].lport # 0
         THEN UNCHANGED <<pcb, ports, moved, opener>>
         ELSE /\ port' = [port EXCEPT ![k] = nextAvailPort(@)]
              /\ pcb' = [pcb EXCEPT ![ev.p].lport = port'[k]]
              /\ allocated' = [allocated EXCEPT ![k] = @ + 1]
              /\ ticket' = [ticket EXCEPT ![ev.p] = allocated'[k]]
              /\ Touch(ev.p)
      /\ UNCHANGED <<ip, idVars, ops, packets, asked, early>>

\* UdpPcb::send transmits; TcpPcb::send, which ignores that Pcb::send found no
\* peer, transmits the SYN when CLOSED and data when ESTABLISHED.
EvSend ==
  LET b == pcb[ev.p]
      syn == b.kind = "TCP" /\ b.state = "CLOSED"
  IN  /\ Access("send")
      /\ Goes(IF b.state = "SYN_SENT" THEN Tail(ev.todo) ELSE tx \o Tail(ev.todo))
      /\ pcb' = IF syn THEN [pcb EXCEPT ![ev.p].state = "SYN_SENT"] ELSE pcb
      /\ early' = [early EXCEPT ![ev.p] = @ \/ (syn /\ b.fport = 0)]
      /\ UNCHANGED <<ports, ip, idVars, ops, packets, moved, asked, opener>>

EvLoad ==
  /\ Access("load")
  /\ ev' = [ev EXCEPT !.todo = Tail(@), !.id = next(last)]
  /\ raced' = (raced \/ ip.pc = "store")
  /\ UNCHANGED <<pcb, ports, ip, last, ids, ops, packets, history>>

EvStore ==
  /\ Access("store") /\ Goes(Tail(ev.todo))
  /\ last' = ev.id /\ ids' = Sent(ev.id)
  /\ UNCHANGED <<pcb, ports, ip, raced, ops, packets, history>>

-----------------------------------------------------------------------------
At(pc) == Running /\ ip.pc = pc
IsOf(kind) == {p \in Pcbs : pcb[p].kind = kind}

Take(pkt) ==
  /\ At("idle") /\ packets < MaxPackets /\ packets' = packets + 1
  /\ ip' = [ip EXCEPT !.pc = "lport", !.pkt = pkt, !.to = 0,
              !.list = IsOf(pkt.kind)]
  /\ moved' = IF ev.todo = << >> THEN {} ELSE {ev.p}
  /\ UNCHANGED <<pcb, ports, ev, idVars, ops, asked, early, opener>>

\* 2 is the -1 of the code: no match.
in_addr_match_Any(ours, theirs) == IF ours = 0 THEN 0 ELSE 1
in_addr_match(ours, theirs) == IF ours = 0 THEN 0 ELSE IF ours = theirs THEN 1 ELSE 2

Curr == pcb[ip.p]
Continue == ip' = [ip EXCEPT !.pc = "lport", !.p = 0, !.accum = 0]
Reads(pc) == At(pc) /\ UNCHANGED <<pcb, ports, ev, idVars, ops, packets, history>>

\* The next of the list; expired pointers are passed over.
ReadLport ==
  \E p \in ip.list :
    /\ \A q \in ip.list : p <= q
    /\ Reads("lport")
    /\ ip' = IF pcb[p].alive /\ pcb[p].lport = ip.pkt.dport
             THEN [ip EXCEPT !.pc = "fport", !.list = @ \ {p}, !.p = p, !.accum = 1]
             ELSE [ip EXCEPT !.list = @ \ {p}]

ReadFport ==
  /\ Reads("fport")
  /\ IF Curr.fport \in {0, ip.pkt.sport}
     THEN ip' = [ip EXCEPT !.pc = "faddr", !.accum = @ + (IF Curr.fport = 0 THEN 0 ELSE 1)]
     ELSE Continue

\* faddr, and laddr, which never changes and is never 0.  m is then the match of
\* laddr, so accum exceeds it whatever the Pcbs before: the last match is taken.
ReadFaddr ==
  LET f == in_addr_match(Curr.faddr, ip.pkt.saddr)
      m == in_addr_match(1, IF ip.pkt.here THEN 1 ELSE 2)
  IN  /\ Reads("faddr")
      /\ IF f # 2 /\ m # 2 /\ ip.accum + f + m > m
         THEN ip' = [ip EXCEPT !.pc = "lport", !.p = 0, !.accum = 0, !.to = ip.p]
         ELSE Continue

EndOfList ==
  /\ At("lport") /\ ip.list = {}
  /\ ip' = [ip EXCEPT !.pc = "found"]
  /\ UNCHANGED <<pcb, ports, ev, idVars, ops, packets, history>>

\* A closed Pcb has no Socket to put the packet in.
Opens == ip.to # 0 /\ pcb[ip.to].kind = "TCP" /\ pcb[ip.to].state = "SYN_SENT"
Payload == pcb[ip.to].kind = "UDP" \/ (pcb[ip.to].state = "ESTABLISHED" /\ ip.pkt.data)

Recv ==
  /\ At("found")
  /\ ip' = IF Opens THEN [NoPacket EXCEPT !.pc = "load"]
           ELSE IF ip.to = 0 \/ ~ Payload THEN NoPacket
           ELSE IF ~ pcb[ip.to].alive THEN [NoPacket EXCEPT !.pc = "crashed"]
           ELSE IF pcb[ip.to].kind = "TCP" THEN [NoPacket EXCEPT !.pc = "load"]
           ELSE NoPacket
  /\ IF Opens
     THEN /\ pcb' = [pcb EXCEPT ![ip.to].state = "ESTABLISHED"]
          /\ opener' = [opener EXCEPT ![ip.to] = ip.pkt]
     ELSE UNCHANGED <<pcb, opener>>
  /\ moved' = {}
  /\ UNCHANGED <<ports, ev, idVars, ops, packets, asked, early>>

\* ack2peer
IpLoad ==
  /\ At("load")
  /\ ip' = [ip EXCEPT !.pc = "store", !.id = next(last)]
  /\ raced' = (raced \/ (ev.todo # << >> /\ Head(ev.todo).do = "store"))
  /\ UNCHANGED <<pcb, ports, ev, last, ids, ops, packets, history>>

IpStore ==
  /\ At("store")
  /\ ip' = NoPacket
  /\ last' = ip.id /\ ids' = Sent(ip.id)
  /\ UNCHANGED <<pcb, ports, ev, raced, ops, packets, history>>

-----------------------------------------------------------------------------
EventLoop == \/ \E kind \in Kinds : newPcb(kind)
             \/ \E p \in Open("UDP") \cup Open("TCP") : Close(p) \/ Connect(p) \/ Send(p)
             \/ \E p \in Open("UDP") : SendTo(p)
             \/ \E field \in {"faddr", "fport"} : EvSet(field)
             \/ EvBind \/ EvSend \/ EvLoad \/ EvStore
IpThread == \/ \E pkt \in Packets : Take(pkt)
            \/ ReadLport \/ ReadFport \/ ReadFaddr \/ EndOfList \/ Recv
            \/ IpLoad \/ IpStore
Next == EventLoop \/ IpThread
Spec == Init /\ [][Next]_vars

-----------------------------------------------------------------------------
\* More ports of a protocol were given out than there are.
Reused(kind) == allocated[kind] > PortMod

Matches(p, pkt) ==
  /\ pcb[p].alive /\ pcb[p].kind = pkt.kind /\ pkt.here
  /\ pcb[p].lport = pkt.dport
  /\ pcb[p].fport \in {0, pkt.sport} /\ pcb[p].faddr \in {0, pkt.saddr}

(* Pcbs::find, with the fields changing under it, finds a Pcb that matches, *)
(* and the Pcb that matches is found, for all Pcbs that no operation was    *)
(* changing meanwhile: an unconnected sendto in progress, which connects    *)
(* the Pcb for the time it takes, is such an operation.  The match is       *)
(* unique, so that it does not matter that the best is not kept, unless     *)
(* ports were reused or the packet is for port 0, that of unbound Pcbs.     *)
DemuxCorrect ==
  ip.pc = "found" =>
    /\ ip.to \notin moved \cup {0} => Matches(ip.to, ip.pkt)
    /\ \A p \in Pcbs \ moved : Matches(p, ip.pkt) =>
         \/ ip.to = p
         \/ ip.to # 0 /\ (Reused(ip.pkt.kind) \/ ip.pkt.dport = 0)

(* A TcpPcb is established only by a segment from an address that connect   *)
(* was given (its address from one call and its port from another if there  *)
(* were two), however the walk of the list interleaves with connect: the    *)
(* port, which is compared first, is bound after the address is set.  Not   *)
(* so when the application sent before it connected, or for port 0.         *)
EstablishedByPeer ==
  \A p \in Pcbs :
    opener[p] # << >> /\ ~ early[p] /\ opener[p].dport # 0 =>
      \E a, b \in asked[p] : opener[p].saddr = a[1] /\ opener[p].sport = b[2]

(* Of any MaxId packets sent one after the other no two have the same       *)
(* identification, and none has 0, as long as the two threads never were    *)
(* in IpIdGenerator::next together: a lost update repeats a whole range.    *)
IdsDistinct ==
  ~ raced => /\ \A i \in DOMAIN ids : ids[i] \in 1 .. MaxId
             /\ \A i, j \in DOMAIN ids : ids[i] = ids[j] => i = j

(* No two open Pcbs of a protocol have the same local port, whatever was    *)
(* bound and rebound since (the port 0 that wrapping gives is rebound),     *)
(* until as many ports were given out as there are.                         *)
PortsDistinct ==
  \A p, q \in Pcbs :
    (/\ p # q /\ pcb[p].alive /\ pcb[q].alive /\ pcb[p].kind = pcb[q].kind
     /\ ~ Reused(pcb[p].kind) /\ pcb[p].lport # 0)
    => pcb[p].lport # pcb[q].lport
=============================================================================
