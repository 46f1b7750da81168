---------------------------- MODULE NetPathProofs ----------------------------
(***************************************************************************)
(* Theorems about NetPath, for every value of its constants.  Three parts: *)
(* types, ports and identifications; the walk of the list, and what it has *)
(* read of Pcbs that may have changed since (DemuxCorrect); the peers of   *)
(* established TcpPcbs (EstablishedByPeer).                                *)
(***************************************************************************)
EXTENDS NetPath, TLAPS, SequenceTheorems

Accesses == {"faddr", "fport", "bind", "send", "load", "store"}
AccessType == [do : Accesses, v : Nat]
PcbType == [kind : Kinds \cup {"none"}, alive : BOOLEAN, faddr : Nat, fport : Nat,
            lport : Nat, state : {"CLOSED", "SYN_SENT", "ESTABLISHED"}]
IpType == [pc : {"idle", "lport", "fport", "faddr", "found", "load", "store", "crashed"},
           pkt : Packets \cup {<< >>}, list : SUBSET Pcbs, p : Pcbs \cup {0}, accum : Nat,
           to : Pcbs \cup {0}, id : Nat]

PcbsOK == pcb \in [Pcbs -> PcbType]
PortsOK == /\ port \in [Kinds -> 0 .. PortMod - 1]
           /\ allocated \in [Kinds -> Nat] /\ ticket \in [Pcbs -> Nat]
\* The event loop works on a Pcb that was made.
EvOK == /\ ev \in [p : Pcbs \cup {0}, todo : Seq(AccessType), id : Nat]
        /\ ev.todo # << >> => ev.p \in Pcbs /\ pcb[ev.p].kind \in Kinds
\* The IP thread looks at Pcbs of the protocol of its packet.
IpOK == /\ ip \in IpType
        /\ Walking => ip.pkt \in Packets /\ ip.list \subseteq IsOf(ip.pkt.kind)
        /\ ip.pc \in {"fport", "faddr"} => ip.p \in IsOf(ip.pkt.kind)
        /\ Walking /\ ip.to # 0 => ip.to \in IsOf(ip.pkt.kind)
IdsOK == last \in Nat /\ ids \in Seq(Nat) /\ raced \in BOOLEAN
HistoryOK == /\ moved \in SUBSET Pcbs /\ asked \in [Pcbs -> SUBSET Remotes]
             /\ early \in [Pcbs -> BOOLEAN] /\ opener \in [Pcbs -> Packets \cup {<< >>}]
TypeOK == PcbsOK /\ PortsOK /\ EvOK /\ IpOK /\ IdsOK /\ HistoryOK

-----------------------------------------------------------------------------
\* The operations are sequences of accesses, none of them of the id generator.
PlainType == [do : {"faddr", "fport", "bind", "send"}, v : Nat]

LEMMA PlainIsAccess ==
  ASSUME NEW s \in Seq(PlainType)
  PROVE  s \in Seq(AccessType)
  <1>1. PlainType \subseteq AccessType
    BY DEF PlainType, AccessType, Accesses
  <1> QED
    BY <1>1, SeqMonotonic

LEMMA SetType ==
  ASSUME NEW n \in Nat
  PROVE  Set("faddr", n) \in Seq(PlainType) /\ Set("fport", n) \in Seq(PlainType)
  BY DEF Set, PlainType

LEMMA DoType == bind \in Seq(PlainType) /\ Do("send") \in Seq(PlainType)
  BY DEF bind, Do, PlainType

LEMMA ThenType ==
  ASSUME NEW s \in Seq(PlainType), NEW t \in Seq(PlainType)
  PROVE  s \o t \in Seq(PlainType)
  OBVIOUS

LEMMA OperationType ==
  /\ send \in Seq(PlainType)
  /\ \A a \in Remotes : /\ connect(a) \in Seq(PlainType) /\ TcpConnect(a) \in Seq(PlainType)
                        /\ UdpSendTo(a) \in Seq(PlainType)
  <1>0. send \in Seq(PlainType)
    BY DoType, ThenType DEF send
  <1> SUFFICES ASSUME NEW a \in Remotes
               PROVE  /\ connect(a) \in Seq(PlainType) /\ TcpConnect(a) \in Seq(PlainType)
                      /\ UdpSendTo(a) \in Seq(PlainType)
    BY <1>0
  <1>1. Set("faddr", a[1]) \in Seq(PlainType) /\ Set("fport", a[2]) \in Seq(PlainType)
    <2>1. a[1] \in Nat /\ a[2] \in Nat
      BY RemoteAssumption
    <2> QED
      BY <2>1, SetType
  <1>2. Set("faddr", a[1]) \o Set("fport", a[2]) \in Seq(PlainType)
    BY <1>1, ThenType
  <1>3. connect(a) \in Seq(PlainType)
    BY <1>2, DoType, ThenType DEF connect
  <1>4. disconnect \in Seq(PlainType)
    BY SetType, ThenType DEF disconnect
  <1>5. bind \o connect(a) \in Seq(PlainType)
    BY <1>3, DoType, ThenType
  <1>6. bind \o connect(a) \o send \in Seq(PlainType)
    BY <1>0, <1>5, ThenType
  <1>7. UdpSendTo(a) \in Seq(PlainType)
    BY <1>4, <1>6, ThenType DEF UdpSendTo
  <1> QED
    BY <1>0, <1>3, <1>7, ThenType DEF TcpConnect

LEMMA TailType ==
  ASSUME NEW s \in Seq(AccessType), s # << >>
  PROVE  /\ Tail(s) \in Seq(AccessType) /\ Head(s) \in AccessType
         /\ tx \o Tail(s) \in Seq(AccessType)
  <1>1. tx \in Seq(AccessType)
    <2>1. Do("load") \in Seq(AccessType) /\ Do("store") \in Seq(AccessType)
      BY DEF Do, AccessType, Accesses
    <2> QED
      BY <2>1 DEF tx
  <1> QED
    BY <1>1

LEMMA TypeInit == Init => TypeOK
  <1> SUFFICES ASSUME Init PROVE TypeOK
    OBVIOUS
  <1> USE DEF Init
  <1>1. PcbsOK
    BY DEF PcbsOK, PcbType, NoPcb
  <1>2. PortsOK
    BY PortAssumption DEF PortsOK, Kinds
  <1>3. EvOK
    BY DEF EvOK
  <1>4. IpOK
    BY DEF IpOK, IpType, NoPacket, Walking
  <1>5. IdsOK
    <2>1. ids \in Seq(Nat) /\ last \in Nat
      OBVIOUS
    <2>2. raced \in BOOLEAN
      BY Zenon
    <2> QED
      BY <2>1, <2>2 DEF IdsOK
  <1>6. HistoryOK
    BY DEF HistoryOK
  <1> QED
    BY <1>1, <1>2, <1>3, <1>4, <1>5, <1>6 DEF TypeOK

\* A Pcb that changes, but for its making, keeps its protocol.
KeepsKind == \A p \in Pcbs : pcb[p].kind # "none" => pcb'[p].kind = pcb[p].kind

LEMMA EvStays ==
  ASSUME TypeOK, KeepsKind, UNCHANGED ev
  PROVE  EvOK'
  BY DEF TypeOK, EvOK, KeepsKind, Kinds

LEMMA IpStays ==
  ASSUME TypeOK, KeepsKind, UNCHANGED ip
  PROVE  IpOK'
  <1>1. ip.pkt \in Packets => ip.pkt.kind # "none"
    BY PacketAssumption
  <1>2. ip.pkt \in Packets => \A p \in IsOf(ip.pkt.kind) : p \in IsOf(ip.pkt.kind)'
    BY <1>1 DEF KeepsKind, IsOf
  <1>3. Walking' <=> Walking
    BY DEF Walking
  <1>4. ip' = ip /\ IpOK
    BY DEF TypeOK
  <1>5. ip.pc \in {"fport", "faddr"} => Walking
    BY DEF Walking
  <1> QED
    BY <1>2, <1>3, <1>4, <1>5 DEF IpOK

LEMMA TouchType ==
  ASSUME HistoryOK, NEW p \in Pcbs, Touch(p), UNCHANGED <<asked, early>>
  PROVE  HistoryOK'
  BY DEF HistoryOK, Touch

LEMMA TypeNewPcb ==
  ASSUME TypeOK, NEW kind \in Kinds, newPcb(kind)
  PROVE  TypeOK'
  <1> PICK p \in Pcbs : /\ pcb[p] = NoPcb /\ pcb' = [pcb EXCEPT ![p] = NewPcb(kind)]
                        /\ Touch(p) /\ UNCHANGED <<ports, ev, ip, idVars, asked, early>>
    BY DEF newPcb
  <1>1. PcbsOK'
    BY DEF TypeOK, PcbsOK, PcbType, NewPcb, NoPcb, Kinds
  <1>2. KeepsKind
    BY DEF KeepsKind, TypeOK, PcbsOK, NoPcb
  <1> QED
    BY <1>1, <1>2, EvStays, IpStays, TouchType
    DEF TypeOK, PortsOK, IdsOK, ports, idVars

LEMMA TypeClose ==
  ASSUME TypeOK, NEW p \in Pcbs, Close(p)
  PROVE  TypeOK'
  <1>1. PcbsOK' /\ KeepsKind
    BY DEF TypeOK, PcbsOK, PcbType, Close, KeepsKind
  <1> QED
    BY <1>1, EvStays, IpStays, TouchType
    DEF Close, TypeOK, PortsOK, IdsOK, ports, idVars

\* An operation begins.
LEMMA TypeBegin ==
  ASSUME TypeOK, NEW p \in Pcbs, pcb[p].kind \in Kinds, NEW todo \in Seq(PlainType),
         Begin(p, todo), UNCHANGED <<pcb, ports, ip, idVars>>, HistoryOK'
  PROVE  TypeOK'
  <1>1. EvOK'
    BY PlainIsAccess DEF EvOK, Begin
  <1>2. KeepsKind
    BY DEF KeepsKind
  <1> QED
    BY <1>1, <1>2, IpStays DEF TypeOK, PcbsOK, PortsOK, IdsOK, ports, idVars

LEMMA TypeRequests ==
  ASSUME TypeOK, NEW p \in Open("UDP") \cup Open("TCP"),
         Connect(p) \/ Send(p) \/ (p \in Open("UDP") /\ SendTo(p))
  PROVE  TypeOK'
  <1>0. p \in Pcbs /\ pcb[p].kind \in Kinds
    BY DEF Open, Kinds
  <1>1. ASSUME Connect(p) PROVE TypeOK'
    <2> PICK a \in Remotes :
          /\ Begin(p, IF pcb[p].kind = "TCP" THEN TcpConnect(a) ELSE connect(a))
          /\ asked' = [asked EXCEPT ![p] = @ \cup {a}]
          /\ UNCHANGED <<pcb, ports, ip, idVars, packets, moved, early, opener>>
      BY <1>1 DEF Connect
    <2>1. HistoryOK'
      BY <1>0 DEF TypeOK, HistoryOK
    <2> QED
      BY <1>0, <2>1, OperationType, TypeBegin
  <1>2. ASSUME Send(p) PROVE TypeOK'
    <2>1. HistoryOK'
      BY <1>2 DEF Send, TypeOK, HistoryOK, history
    <2> QED
      BY <1>0, <1>2, <2>1, OperationType, TypeBegin DEF Send
  <1>3. ASSUME SendTo(p) PROVE TypeOK'
    <2>1. HistoryOK'
      BY <1>3 DEF SendTo, TypeOK, HistoryOK, history
    <2> QED
      BY <1>0, <1>3, <2>1, OperationType, TypeBegin DEF SendTo
  <1> QED
    BY <1>1, <1>2, <1>3

\* The event loop's Pcb and what is left of its operation.
LEMMA Accessing ==
  ASSUME TypeOK, NEW what, Access(what)
  PROVE  /\ ev.p \in Pcbs /\ pcb[ev.p].kind \in Kinds
         /\ Tail(ev.todo) \in Seq(AccessType) /\ Head(ev.todo).v \in Nat
         /\ tx \o Tail(ev.todo) \in Seq(AccessType)
  BY TailType DEF TypeOK, EvOK, Access, AccessType

LEMMA GoesType ==
  ASSUME TypeOK, KeepsKind, ev.p \in Pcbs, pcb[ev.p].kind \in Kinds,
         NEW rest \in Seq(AccessType), Goes(rest)
  PROVE  EvOK'
  BY DEF TypeOK, EvOK, KeepsKind, Goes, Begin, Kinds

LEMMA TypeEvSet ==
  ASSUME TypeOK, NEW field \in {"faddr", "fport"}, EvSet(field)
  PROVE  TypeOK'
  <1>1. PcbsOK' /\ KeepsKind
    <2>0. ev.p \in Pcbs /\ Head(ev.todo).v \in Nat
      BY Accessing DEF EvSet
    <2>1. CASE field = "faddr"
      BY <2>0, <2>1 DEF EvSet, TypeOK, PcbsOK, PcbType, KeepsKind
    <2>2. CASE field = "fport"
      BY <2>0, <2>2 DEF EvSet, TypeOK, PcbsOK, PcbType, KeepsKind
    <2> QED
      BY <2>1, <2>2
  <1>2. EvOK' /\ IpOK' /\ HistoryOK'
    BY <1>1, Accessing, GoesType, IpStays, TouchType DEF EvSet, TypeOK
  <1> QED
    BY <1>1, <1>2 DEF EvSet, TypeOK, PortsOK, IdsOK, ports, idVars

LEMMA TypeEvBind ==
  ASSUME TypeOK, EvBind
  PROVE  TypeOK'
  <1>0. ev.p \in Pcbs /\ pcb[ev.p].kind \in Kinds
    BY Accessing DEF EvBind
  <1>1. PcbsOK' /\ PortsOK' /\ KeepsKind /\ HistoryOK'
    <2>1. CASE pcb[ev.p].lport # 0
      BY <2>1 DEF EvBind, TypeOK, PcbsOK, PortsOK, HistoryOK, KeepsKind, ports
    <2>2. ASSUME pcb[ev.p].lport = 0 PROVE PcbsOK' /\ PortsOK' /\ KeepsKind /\ HistoryOK'
      <3> DEFINE k == pcb[ev.p].kind
      <3>1. PortsOK'
        BY <1>0, <2>2, PortAssumption DEF EvBind, TypeOK, PortsOK, nextAvailPort
      <3>2. PcbsOK' /\ KeepsKind
        <4>1. port'[k] \in Nat
          BY <1>0, <3>1 DEF PortsOK
        <4> QED
          BY <1>0, <2>2, <4>1 DEF EvBind, TypeOK, PcbsOK, PcbType, KeepsKind
      <3> QED
        BY <1>0, <2>2, <3>1, <3>2, TouchType DEF EvBind, TypeOK
    <2> QED
      BY <2>1, <2>2
  <1>2. EvOK' /\ IpOK'
    BY <1>1, Accessing, GoesType, IpStays DEF EvBind
  <1> QED
    BY <1>1, <1>2 DEF EvBind, TypeOK, IdsOK, idVars

LEMMA TypeEvSend ==
  ASSUME TypeOK, EvSend
  PROVE  TypeOK'
  <1>0. ev.p \in Pcbs
    BY Accessing DEF EvSend
  <1>1. PcbsOK' /\ KeepsKind
    BY <1>0 DEF EvSend, TypeOK, PcbsOK, PcbType, KeepsKind
  <1>2. HistoryOK'
    BY <1>0 DEF EvSend, TypeOK, HistoryOK
  <1>3. EvOK' /\ IpOK'
    BY <1>1, Accessing, GoesType, IpStays DEF EvSend
  <1> QED
    BY <1>1, <1>2, <1>3 DEF EvSend, TypeOK, PortsOK, IdsOK, ports, idVars

\* The id generator, used by either thread.
LEMMA SentType ==
  ASSUME IdsOK, NEW id \in Nat
  PROVE  Sent(id) \in Seq(Nat)
  BY DEF Sent, IdsOK

LEMMA NextType == \A n \in Nat : next(n) \in Nat
  BY DEF next

LEMMA TypeEvIds ==
  ASSUME TypeOK, EvLoad \/ EvStore
  PROVE  TypeOK'
  <1>1. KeepsKind
    BY DEF EvLoad, EvStore, KeepsKind
  <1>2. EvOK'
    <2>1. CASE EvLoad
      BY <2>1, Accessing, NextType DEF EvLoad, TypeOK, EvOK, IdsOK
    <2>2. CASE EvStore
      BY <2>2, <1>1, Accessing, GoesType DEF EvStore
    <2> QED
      BY <2>1, <2>2
  <1>3. IdsOK'
    <2>1. CASE EvLoad
      BY <2>1 DEF EvLoad, TypeOK, IdsOK
    <2>2. CASE EvStore
      BY <2>2, SentType DEF EvStore, TypeOK, IdsOK, EvOK
    <2> QED
      BY <2>1, <2>2
  <1>4. IpOK'
    BY <1>1, IpStays DEF EvLoad, EvStore
  <1> QED
    BY <1>2, <1>3, <1>4
    DEF EvLoad, EvStore, TypeOK, PcbsOK, PortsOK, HistoryOK, ports, history

-----------------------------------------------------------------------------
\* The IP thread.
LEMMA PcKinds ==
  ASSUME TypeOK
  PROVE  /\ Walking => ip.pkt \in Packets /\ ip.pkt.kind \in Kinds
         /\ ip.pc \in {"fport", "faddr"} => Walking /\ ip.p \in Pcbs
  BY PacketAssumption DEF TypeOK, IpOK, Walking, IsOf, Kinds

LEMMA TypeTake ==
  ASSUME TypeOK, NEW pkt \in Packets, Take(pkt)
  PROVE  TypeOK'
  <1>1. IpOK'
    <2>1. ip' = [ip EXCEPT !.pc = "lport", !.pkt = pkt, !.to = 0, !.list = IsOf(pkt.kind)]
      BY DEF Take
    <2>2. ip.pc = "idle" /\ pcb' = pcb
      BY DEF Take, At
    <2>3. IsOf(pkt.kind) \subseteq Pcbs /\ IsOf(pkt.kind)' = IsOf(pkt.kind)
      BY <2>2 DEF IsOf
    <2>4. ip' \in IpType
      BY <2>1, <2>3 DEF TypeOK, IpOK, IpType
    <2> QED
      BY <2>1, <2>3, <2>4 DEF TypeOK, IpOK, IpType, IsOf
  <1>2. HistoryOK'
    BY DEF Take, TypeOK, HistoryOK, EvOK
  <1> QED
    BY <1>1, <1>2 DEF Take, TypeOK, PcbsOK, PortsOK, EvOK, IdsOK, ports, idVars

\* What a step of the walk leaves as it was.
LEMMA WalkFrame ==
  ASSUME TypeOK, NEW pc, Reads(pc) \/ EndOfList
  PROVE  PcbsOK' /\ PortsOK' /\ EvOK' /\ IdsOK' /\ HistoryOK'
  BY DEF Reads, EndOfList, TypeOK, PcbsOK, PortsOK, EvOK, IdsOK, HistoryOK, ports, idVars,
    history

LEMMA WalkIp ==
  ASSUME TypeOK, Walking, pcb' = pcb, ip' \in IpType, ip'.pkt = ip.pkt,
         ip'.list \subseteq ip.list, ip'.to \in {ip.to} \cup IsOf(ip.pkt.kind),
         ip'.pc \in {"fport", "faddr"} => ip'.p \in IsOf(ip.pkt.kind)
  PROVE  IpOK'
  <1>1. IsOf(ip.pkt.kind)' = IsOf(ip.pkt.kind)
    BY DEF IsOf
  <1> QED
    BY <1>1 DEF TypeOK, IpOK

LEMMA TypeWalk ==
  ASSUME TypeOK, ReadLport \/ ReadFport \/ ReadFaddr \/ EndOfList
  PROVE  TypeOK'
  <1>1. ASSUME ReadLport PROVE TypeOK'
    <2> PICK p \in ip.list :
          /\ Reads("lport")
          /\ ip' = IF pcb[p].alive /\ pcb[p].lport = ip.pkt.dport
                   THEN [ip EXCEPT !.pc = "fport", !.list = @ \ {p}, !.p = p, !.accum = 1]
                   ELSE [ip EXCEPT !.list = @ \ {p}]
      BY <1>1 DEF ReadLport
    <2>1. Walking /\ pcb' = pcb
      BY DEF Reads, At, Walking
    <2>2. IpOK'
      BY <2>1, PcKinds DEF TypeOK, IpOK, IpType, IsOf, Walking
    <2> QED
      BY <2>2, WalkFrame DEF TypeOK
  <1>2. ASSUME ReadFport PROVE TypeOK'
    <2>1. Walking /\ pcb' = pcb /\ Reads("fport") /\ ip.pc = "fport"
      BY <1>2 DEF ReadFport, Reads, At, Walking
    <2>2. ip.p \in IsOf(ip.pkt.kind) /\ ip \in IpType
      BY <2>1 DEF TypeOK, IpOK
    <2> DEFINE n == ip.accum + (IF Curr.fport = 0 THEN 0 ELSE 1)
    <2>3. n \in Nat
      BY <2>2 DEF IpType
    <2>4. \/ ip' = [ip EXCEPT !.pc = "faddr", !.accum = n]
          \/ ip' = [ip EXCEPT !.pc = "lport", !.p = 0, !.accum = 0]
      BY <1>2 DEF ReadFport, Continue
    <2> HIDE DEF n
    <2>5. /\ ip' \in IpType /\ ip'.pkt = ip.pkt /\ ip'.list = ip.list /\ ip'.to = ip.to
          /\ ip'.pc = "lport" \/ ip'.p = ip.p
      <3>1. CASE ip' = [ip EXCEPT !.pc = "faddr", !.accum = n]
        BY <2>2, <2>3, <3>1 DEF IpType
      <3>2. CASE ip' = [ip EXCEPT !.pc = "lport", !.p = 0, !.accum = 0]
        BY <2>2, <3>2 DEF IpType
      <3> QED
        BY <2>4, <3>1, <3>2
    <2>6. IpOK'
      BY <2>1, <2>2, <2>5, WalkIp
    <2> QED
      BY <2>1, <2>6, WalkFrame DEF TypeOK
  <1>3. ASSUME ReadFaddr PROVE TypeOK'
    <2>1. Walking /\ pcb' = pcb /\ Reads("faddr") /\ ip.pc = "faddr"
      BY <1>3 DEF ReadFaddr, Reads, At, Walking
    <2>2. \/ ip' = [ip EXCEPT !.pc = "lport", !.p = 0, !.accum = 0, !.to = ip.p]
          \/ ip' = [ip EXCEPT !.pc = "lport", !.p = 0, !.accum = 0]
      BY <1>3 DEF ReadFaddr, Continue
    <2>3. ip.p \in IsOf(ip.pkt.kind) /\ ip \in IpType
      BY <2>1 DEF TypeOK, IpOK
    <2>4. IpOK'
      <3>1. ip.p \in Pcbs
        BY <2>3 DEF IsOf
      <3>2. /\ ip' \in IpType /\ ip'.pkt = ip.pkt /\ ip'.list = ip.list
            /\ ip'.to \in {ip.to, ip.p} /\ ip'.pc = "lport"
        <4>1. CASE ip' = [ip EXCEPT !.pc = "lport", !.p = 0, !.accum = 0, !.to = ip.p]
          BY <2>3, <3>1, <4>1 DEF IpType
        <4>2. CASE ip' = [ip EXCEPT !.pc = "lport", !.p = 0, !.accum = 0]
          BY <2>3, <4>2 DEF IpType
        <4> QED
          BY <2>2, <4>1, <4>2
      <3> QED
        BY <2>1, <2>3, <3>2, WalkIp
    <2> QED
      BY <2>1, <2>4, WalkFrame DEF TypeOK
  <1>4. ASSUME EndOfList PROVE TypeOK'
    <2>1. IpOK'
      BY <1>4 DEF EndOfList, At, TypeOK, IpOK, IpType, IsOf, Walking
    <2> QED
      BY <1>4, <2>1, WalkFrame DEF TypeOK
  <1> QED
    BY <1>1, <1>2, <1>3, <1>4

\* Past the walk the packet is gone.
LEMMA NoPacketType ==
  ASSUME NEW pc \in {"idle", "load", "crashed"}, ip' = [NoPacket EXCEPT !.pc = pc]
  PROVE  IpOK' /\ ~ Walking'
  BY DEF NoPacket, IpOK, IpType, Walking

LEMMA TypeRecv ==
  ASSUME TypeOK, Recv
  PROVE  TypeOK'
  <1>1. ip' = NoPacket \/ \E pc \in {"load", "crashed"} : ip' = [NoPacket EXCEPT !.pc = pc]
    BY DEF Recv
  <1>2. IpOK'
    <2>1. NoPacket = [NoPacket EXCEPT !.pc = "idle"]
      BY DEF NoPacket
    <2> QED
      BY <1>1, <2>1, NoPacketType
  <1>3. PcbsOK' /\ KeepsKind /\ HistoryOK'
    <2>1. ip.pkt \in Packets /\ ip.to \in Pcbs \cup {0}
      BY DEF Recv, At, TypeOK, IpOK, IpType, Walking
    <2>2. ASSUME Opens PROVE PcbsOK' /\ KeepsKind /\ HistoryOK'
      <3>1. ip.to \in Pcbs
        BY <2>1, <2>2 DEF Opens
      <3>2. /\ pcb' = [pcb EXCEPT ![ip.to].state = "ESTABLISHED"] /\ moved' = {}
            /\ opener' = [opener EXCEPT ![ip.to] = ip.pkt] /\ UNCHANGED <<asked, early>>
        BY <2>2 DEF Recv
      <3>3. PcbsOK' /\ KeepsKind
        BY <3>1, <3>2 DEF TypeOK, PcbsOK, PcbType, KeepsKind
      <3>4. HistoryOK'
        BY <2>1, <3>1, <3>2 DEF TypeOK, HistoryOK
      <3> QED
        BY <3>3, <3>4
    <2>3. ASSUME ~ Opens PROVE PcbsOK' /\ KeepsKind /\ HistoryOK'
      <3>1. UNCHANGED <<pcb, opener, asked, early>> /\ moved' = {}
        BY <2>3 DEF Recv
      <3> QED
        BY <3>1 DEF TypeOK, PcbsOK, HistoryOK, KeepsKind
    <2> QED
      BY <2>2, <2>3
  <1>4. EvOK'
    BY <1>3, EvStays DEF Recv
  <1> QED
    BY <1>2, <1>3, <1>4 DEF Recv, TypeOK, PortsOK, IdsOK, ports, idVars

LEMMA TypeIpIds ==
  ASSUME TypeOK, IpLoad \/ IpStore
  PROVE  TypeOK'
  <1>1. IpOK' /\ IdsOK'
    <2>1. CASE IpLoad
      <3>1. next(last) \in Nat
        BY NextType DEF TypeOK, IdsOK
      <3>2. IpOK'
        BY <2>1, <3>1 DEF IpLoad, At, TypeOK, IpOK, IpType, Walking
      <3> QED
        BY <2>1, <3>2 DEF IpLoad, TypeOK, IdsOK
    <2>2. CASE IpStore
      <3>1. ip.id \in Nat
        BY DEF TypeOK, IpOK, IpType
      <3>2. IpOK'
        BY <2>2 DEF IpStore, NoPacket, IpOK, IpType, Walking
      <3> QED
        BY <2>2, <3>1, <3>2, SentType DEF IpStore, TypeOK, IdsOK
    <2> QED
      BY <2>1, <2>2
  <1>2. EvOK'
    BY EvStays DEF IpLoad, IpStore, KeepsKind
  <1> QED
    BY <1>1, <1>2
    DEF IpLoad, IpStore, TypeOK, PcbsOK, PortsOK, HistoryOK, ports, history

-----------------------------------------------------------------------------
LEMMA TypeStep == TypeOK /\ [Next]_vars => TypeOK'
  <1> SUFFICES ASSUME TypeOK, [Next]_vars PROVE TypeOK'
    OBVIOUS
  <1>1. ASSUME EventLoop PROVE TypeOK'
    <2>1. ASSUME NEW p \in Open("UDP") \cup Open("TCP"), Close(p) PROVE TypeOK'
      BY <2>1, TypeClose DEF Open
    <2>2. ASSUME NEW p \in Open("UDP"), SendTo(p) PROVE TypeOK'
      BY <2>2, TypeRequests
    <2> QED
      BY <1>1, <2>1, <2>2, TypeNewPcb, TypeRequests, TypeEvSet, TypeEvBind, TypeEvSend,
        TypeEvIds DEF EventLoop
  <1>2. ASSUME IpThread PROVE TypeOK'
    BY <1>2, TypeTake, TypeWalk, TypeRecv, TypeIpIds DEF IpThread
  <1>3. ASSUME UNCHANGED vars PROVE TypeOK'
    <2>1. EvOK' /\ IpOK'
      BY <1>3, EvStays, IpStays DEF vars, KeepsKind
    <2> QED
      BY <1>3, <2>1
      DEF vars, TypeOK, PcbsOK, PortsOK, IdsOK, HistoryOK, ports, idVars, history
  <1> QED
    BY <1>1, <1>2, <1>3 DEF Next

(* Every variable keeps its type, and the threads work on Pcbs that were    *)
(* made, of the protocol they believe them to be of.                        *)
THEOREM TypeCorrect == Spec => []TypeOK
  BY TypeInit, TypeStep, PTL DEF Spec

-----------------------------------------------------------------------------
\* Local ports.  The n-th port given out, as long as n is at most PortMod; the
\* tickets of bound Pcbs are distinct, and PortAt maps distinct tickets to
\* distinct ports.
PortAt(n) == IF FirstPort + n < PortMod THEN FirstPort + n ELSE FirstPort + n - PortMod

CounterInv == \A k \in Kinds : ~ Reused(k) => port[k] = PortAt(allocated[k])
TicketInv == \A p \in Pcbs : pcb[p].lport # 0 =>
               /\ pcb[p].kind \in Kinds /\ ticket[p] \in 1 .. allocated[pcb[p].kind]
               /\ ~ Reused(pcb[p].kind) => pcb[p].lport = PortAt(ticket[p])
DistinctInv == \A p, q \in Pcbs :
                 (/\ p # q /\ pcb[p].lport # 0 /\ pcb[q].lport # 0
                  /\ pcb[p].kind = pcb[q].kind)
                 => ticket[p] # ticket[q]
PortInv == CounterInv /\ TicketInv /\ DistinctInv

LEMMA PortAtDistinct ==
  ASSUME NEW m \in 1 .. PortMod, NEW n \in 1 .. PortMod, m # n
  PROVE  PortAt(m) # PortAt(n)
  BY PortAssumption DEF PortAt

LEMMA PortAtNext ==
  ASSUME NEW n \in Nat, n < PortMod
  PROVE  PortAt(n + 1) = nextAvailPort(PortAt(n))
  BY PortAssumption DEF PortAt, nextAvailPort

LEMMA PortInit == Init => PortInv
  BY PortAssumption
  DEF Init, PortInv, CounterInv, TicketInv, DistinctInv, NoPcb, PortAt, Kinds

\* Only bind gives ports out and sets them.
KeepsPorts == /\ UNCHANGED ports
              /\ \A p \in Pcbs : /\ pcb'[p].lport = pcb[p].lport
                                 /\ pcb[p].lport # 0 => pcb'[p].kind = pcb[p].kind

LEMMA PortsStay ==
  ASSUME PortInv, KeepsPorts
  PROVE  PortInv'
  <1>1. \A p \in Pcbs : /\ pcb'[p].lport = pcb[p].lport
                        /\ pcb[p].lport # 0 => pcb'[p].kind = pcb[p].kind
    BY DEF KeepsPorts
  <1>2. port' = port /\ allocated' = allocated /\ ticket' = ticket
    BY DEF KeepsPorts, ports
  <1>3. CounterInv'
    BY <1>2 DEF PortInv, CounterInv, Reused, PortAt
  <1>4. ASSUME NEW p \in Pcbs, pcb'[p].lport # 0
        PROVE  /\ pcb'[p].kind \in Kinds /\ ticket'[p] \in 1 .. allocated'[pcb'[p].kind]
               /\ ~ (allocated'[pcb'[p].kind] > PortMod) => pcb'[p].lport = PortAt(ticket'[p])
    <2>1. pcb[p].lport # 0 /\ pcb'[p].lport = pcb[p].lport /\ pcb'[p].kind = pcb[p].kind
      BY <1>1, <1>4
    <2>2. /\ pcb[p].kind \in Kinds /\ ticket[p] \in 1 .. allocated[pcb[p].kind]
          /\ ~ (allocated[pcb[p].kind] > PortMod) => pcb[p].lport = PortAt(ticket[p])
      BY <2>1 DEF PortInv, TicketInv, Reused
    <2> QED
      BY <1>2, <2>1, <2>2
  <1>5. ASSUME NEW p \in Pcbs, NEW q \in Pcbs, p # q, pcb'[p].lport # 0, pcb'[q].lport # 0,
               pcb'[p].kind = pcb'[q].kind
        PROVE  ticket'[p] # ticket'[q]
    <2>1. /\ pcb[p].lport # 0 /\ pcb'[p].kind = pcb[p].kind
          /\ pcb[q].lport # 0 /\ pcb'[q].kind = pcb[q].kind
      BY <1>1, <1>5
    <2>2. ticket[p] # ticket[q]
      BY <1>5, <2>1 DEF PortInv, DistinctInv
    <2> QED
      BY <1>2, <2>2
  <1>6. TicketInv'
    BY <1>4 DEF TicketInv, Reused, PortAt
  <1>7. DistinctInv'
    BY <1>5 DEF DistinctInv
  <1> QED
    BY <1>3, <1>6, <1>7 DEF PortInv

LEMMA OthersKeepPorts ==
  ASSUME TypeOK, [Next]_vars, ~ EvBind
  PROVE  KeepsPorts
  <1>1. ASSUME NEW kind \in Kinds, newPcb(kind) PROVE KeepsPorts
    BY <1>1 DEF newPcb, KeepsPorts, TypeOK, PcbsOK, NewPcb, NoPcb
  <1>2. ASSUME NEW p \in Open("UDP") \cup Open("TCP"), Close(p) PROVE KeepsPorts
    BY <1>2 DEF Close, Open, KeepsPorts, TypeOK, PcbsOK, PcbType
  <1>3. ASSUME NEW field \in {"faddr", "fport"}, EvSet(field) PROVE KeepsPorts
    <2>0. ev.p \in Pcbs
      BY <1>3, Accessing DEF EvSet
    <2>1. CASE field = "faddr"
      BY <1>3, <2>0, <2>1 DEF EvSet, KeepsPorts, TypeOK, PcbsOK, PcbType
    <2>2. CASE field = "fport"
      BY <1>3, <2>0, <2>2 DEF EvSet, KeepsPorts, TypeOK, PcbsOK, PcbType
    <2> QED
      BY <2>1, <2>2
  <1>4. ASSUME EvSend PROVE KeepsPorts
    BY <1>4, Accessing DEF EvSend, KeepsPorts, TypeOK, PcbsOK, PcbType
  <1>5. ASSUME Recv PROVE KeepsPorts
    <2>1. ASSUME Opens PROVE KeepsPorts
      <3>1. ip.to \in Pcbs
        BY <2>1 DEF Opens, TypeOK, IpOK, IpType
      <3>2. pcb' = [pcb EXCEPT ![ip.to].state = "ESTABLISHED"] /\ UNCHANGED ports
        BY <1>5, <2>1 DEF Recv
      <3> QED
        BY <3>1, <3>2 DEF KeepsPorts, TypeOK, PcbsOK, PcbType
    <2>2. CASE ~ Opens
      BY <1>5, <2>2 DEF Recv, KeepsPorts
    <2> QED
      BY <2>1, <2>2
  <1>6. ASSUME UNCHANGED <<pcb, ports>> PROVE KeepsPorts
    BY <1>6 DEF KeepsPorts
  <1>7. ASSUME NEW p, Connect(p) \/ Send(p) \/ SendTo(p) PROVE KeepsPorts
    BY <1>6, <1>7 DEF Connect, Send, SendTo
  <1>8. ASSUME EvLoad \/ EvStore \/ IpLoad \/ IpStore \/ EndOfList \/ UNCHANGED vars
        PROVE  KeepsPorts
    BY <1>6, <1>8 DEF EvLoad, EvStore, IpLoad, IpStore, EndOfList, vars
  <1>9. ASSUME ReadLport \/ ReadFport \/ ReadFaddr \/ \E pkt \in Packets : Take(pkt)
        PROVE  KeepsPorts
    BY <1>6, <1>9 DEF ReadLport, ReadFport, ReadFaddr, Reads, Take
  <1> QED
    BY <1>1, <1>2, <1>3, <1>4, <1>5, <1>7, <1>8, <1>9 DEF Next, EventLoop, IpThread

LEMMA BindKeepsPortInv ==
  ASSUME TypeOK, PortInv, EvBind
  PROVE  PortInv'
  <1>0. ev.p \in Pcbs /\ pcb[ev.p].kind \in Kinds
    BY Accessing DEF EvBind
  <1>1. CASE pcb[ev.p].lport # 0
    BY <1>1, PortsStay DEF EvBind, KeepsPorts, ports
  <1>2. ASSUME pcb[ev.p].lport = 0, NEW k \in Kinds, k = pcb[ev.p].kind PROVE PortInv'
    <2>1. /\ port' = [port EXCEPT ![k] = nextAvailPort(@)]
          /\ allocated' = [allocated EXCEPT ![k] = @ + 1]
          /\ ticket' = [ticket EXCEPT ![ev.p] = allocated'[k]]
          /\ pcb' = [pcb EXCEPT ![ev.p].lport = port'[k]]
      BY <1>2 DEF EvBind
    <2>2. /\ \A kk \in Kinds \ {k} : port'[kk] = port[kk] /\ allocated'[kk] = allocated[kk]
          /\ allocated'[k] = allocated[k] + 1 /\ allocated[k] \in Nat
          /\ port'[k] = nextAvailPort(port[k])
      BY <1>0, <2>1 DEF TypeOK, PortsOK
    <2>3. /\ \A p \in Pcbs \ {ev.p} : pcb'[p] = pcb[p] /\ ticket'[p] = ticket[p]
          /\ ticket'[ev.p] = allocated[k] + 1 /\ pcb'[ev.p].kind = k
          /\ pcb'[ev.p].lport = port'[k]
      <3>1. pcb'[ev.p] = [pcb[ev.p] EXCEPT !.lport = port'[k]] /\ pcb[ev.p] \in PcbType
        BY <1>0, <2>1 DEF TypeOK, PcbsOK
      <3> QED
        BY <1>0, <1>2, <2>1, <2>2, <3>1 DEF TypeOK, PcbsOK, PortsOK, PcbType
    <2>4. \A kk \in Kinds : Reused(kk) => Reused(kk)'
      BY <2>2, PortAssumption DEF Reused, TypeOK, PortsOK
    <2>5. CounterInv'
      <3>1. ~ Reused(k)' => port'[k] = PortAt(allocated'[k])
        <4>1. SUFFICES ASSUME allocated[k] < PortMod PROVE port'[k] = PortAt(allocated[k] + 1)
          BY <2>2, PortAssumption DEF Reused
        <4>2. port[k] = PortAt(allocated[k])
          BY <1>0, <2>2, <4>1, PortAssumption DEF PortInv, CounterInv, Reused
        <4> QED
          BY <2>2, <4>1, <4>2, PortAtNext
      <3>2. \A kk \in Kinds \ {k} : ~ Reused(kk)' => port'[kk] = PortAt(allocated'[kk])
        BY <2>2 DEF PortInv, CounterInv, Reused
      <3> QED
        BY <3>1, <3>2 DEF CounterInv, PortAt
    <2>6. TicketInv'
      <3>1. \A p \in Pcbs \ {ev.p} : pcb'[p].lport # 0 => pcb[p].lport # 0
        BY <2>3
      <3>2. \A p \in Pcbs \ {ev.p} :
              pcb[p].lport # 0 => ticket[p] \in 1 .. allocated'[pcb[p].kind]
        <4> SUFFICES ASSUME NEW p \in Pcbs \ {ev.p}, pcb[p].lport # 0
                     PROVE  ticket[p] \in 1 .. allocated'[pcb[p].kind]
          OBVIOUS
        <4>1. pcb[p].kind \in Kinds /\ ticket[p] \in 1 .. allocated[pcb[p].kind]
          BY DEF PortInv, TicketInv
        <4>2. allocated[pcb[p].kind] \in Nat
          BY <4>1 DEF TypeOK, PortsOK
        <4> QED
          BY <2>2, <4>1, <4>2
      <3>3. \A p \in Pcbs \ {ev.p} :
              pcb[p].lport # 0 /\ ~ (allocated'[pcb[p].kind] > PortMod) =>
              pcb[p].lport = PortAt(ticket[p])
        <4> SUFFICES ASSUME NEW p \in Pcbs \ {ev.p}, pcb[p].lport # 0,
                            ~ (allocated'[pcb[p].kind] > PortMod)
                     PROVE  pcb[p].lport = PortAt(ticket[p])
          OBVIOUS
        <4>1. pcb[p].kind \in Kinds
          BY DEF PortInv, TicketInv
        <4>2. allocated[pcb[p].kind] \in Nat
          BY <4>1 DEF TypeOK, PortsOK
        <4>3. ~ Reused(pcb[p].kind)
          BY <2>2, <4>1, <4>2, PortAssumption DEF Reused
        <4> QED
          BY <4>3 DEF PortInv, TicketInv
      <3>4. \A p \in Pcbs \ {ev.p} : pcb[p].lport # 0 => pcb[p].kind \in Kinds
        BY DEF PortInv, TicketInv
      <3>5. ~ Reused(k)' => pcb'[ev.p].lport = PortAt(ticket'[ev.p])
        <4>1. ~ Reused(k)' => port'[k] = PortAt(allocated[k] + 1)
          BY <1>0, <2>2, <2>5 DEF CounterInv, PortAt, Reused
        <4> QED
          BY <2>3, <4>1
      <3>6. ASSUME NEW p \in Pcbs, pcb'[p].lport # 0
            PROVE  /\ pcb'[p].kind \in Kinds /\ ticket'[p] \in 1 .. allocated'[pcb'[p].kind]
                   /\ ~ (allocated'[pcb'[p].kind] > PortMod) =>
                        pcb'[p].lport = PortAt(ticket'[p])
        <4>1. CASE p = ev.p
          BY <1>0, <2>2, <2>3, <3>5, <4>1 DEF Reused
        <4>2. CASE p # ev.p
          BY <2>3, <3>1, <3>2, <3>3, <3>4, <3>6, <4>2 DEF Reused
        <4> QED
          BY <4>1, <4>2
      <3> QED
        BY <3>6 DEF TicketInv, Reused, PortAt
    <2>7. DistinctInv'
      <3>1. \A p \in Pcbs \ {ev.p} :
              pcb[p].lport # 0 /\ pcb[p].kind = k => ticket[p] # allocated[k] + 1
        BY <2>2 DEF PortInv, TicketInv
      <3> QED
        BY <1>0, <2>3, <3>1 DEF PortInv, DistinctInv
    <2> QED
      BY <2>5, <2>6, <2>7 DEF PortInv
  <1> QED
    BY <1>0, <1>1, <1>2

LEMMA PortStep == TypeOK /\ PortInv /\ [Next]_vars => PortInv'
  BY PortsStay, OthersKeepPorts, BindKeepsPortInv

LEMMA PortInvGivesDistinct == TypeOK /\ PortInv => PortsDistinct
  <1> SUFFICES ASSUME TypeOK, PortInv, NEW p \in Pcbs, NEW q \in Pcbs,
                      p # q, pcb[p].kind = pcb[q].kind, ~ Reused(pcb[p].kind),
                      pcb[p].lport # 0, pcb[q].lport # 0
               PROVE  pcb[p].lport # pcb[q].lport
    BY DEF PortsDistinct
  <1>1. ticket[p] \in 1 .. PortMod /\ ticket[q] \in 1 .. PortMod /\ ticket[p] # ticket[q]
    BY PortAssumption DEF PortInv, TicketInv, DistinctInv, Reused, TypeOK, PortsOK
  <1> QED
    BY <1>1, PortAtDistinct DEF PortInv, TicketInv

(* No two bound Pcbs of a protocol share a local port until as many ports   *)
(* were given out as there are, for any number of Pcbs, ports and steps.    *)
THEOREM PortsStayDistinct == Spec => []PortsDistinct
  BY TypeInit, TypeStep, PortInit, PortStep, PortInvGivesDistinct, PTL DEF Spec

-----------------------------------------------------------------------------
\* Identifications.  A load is followed by its store, nothing else is a store.
ShapeInv == \/ ev.todo \in Seq(PlainType)
            \/ \E rest \in Seq(PlainType) : ev.todo \in {tx \o rest, Do("store") \o rest}

LEMMA PlainShape ==
  ASSUME NEW s \in Seq(PlainType), s # << >>
  PROVE  Tail(s) \in Seq(PlainType) /\ Head(s).do \in {"faddr", "fport", "bind", "send"}
  <1>1. Head(s) \in PlainType /\ Tail(s) \in Seq(PlainType)
    BY HeadTailProperties
  <1> QED
    BY <1>1 DEF PlainType

LEMMA FirstThen ==
  ASSUME NEW S, NEW x \in S, NEW s \in Seq(S)
  PROVE  <<x>> \o s # << >> /\ Head(<<x>> \o s) = x /\ Tail(<<x>> \o s) = s
  <1> DEFINE t == <<x>> \o s
  <1>1. /\ t \in Seq(S) /\ Len(t) = 1 + Len(s) /\ Len(s) \in Nat
        /\ \A i \in 1 .. 1 + Len(s) : t[i] = IF i <= 1 THEN x ELSE s[i - 1]
    BY ConcatProperties
  <1>2. t # << >>
    BY <1>1, EmptySeq
  <1> HIDE DEF t
  <1>3. Head(t) = x
    BY <1>1, <1>2
  <1>4. /\ Tail(t) \in Seq(S) /\ Len(Tail(t)) = Len(s)
        /\ \A i \in 1 .. Len(Tail(t)) : Tail(t)[i] = t[i + 1]
    BY <1>1, <1>2, HeadTailProperties
  <1>5. \A i \in 1 .. Len(Tail(t)) : Tail(t)[i] = s[i]
    BY <1>1, <1>4
  <1>6. Tail(t) = s
    BY <1>4, <1>5, SeqEqual
  <1> QED
    BY <1>2, <1>3, <1>6 DEF t

LEMMA TxShape ==
  ASSUME NEW rest \in Seq(PlainType)
  PROVE  /\ Head(tx \o rest).do = "load" /\ Tail(tx \o rest) = Do("store") \o rest
         /\ Head(Do("store") \o rest).do = "store" /\ Tail(Do("store") \o rest) = rest
         /\ tx \o rest # << >> /\ Do("store") \o rest # << >>
  <1> DEFINE st == [do |-> "store", v |-> 0]
             ld == [do |-> "load", v |-> 0]
  <1>1. st \in AccessType /\ ld \in AccessType /\ rest \in Seq(AccessType)
    BY PlainIsAccess DEF AccessType, Accesses
  <1>2. st.do = "store" /\ ld.do = "load"
    OBVIOUS
  <1>3. Do("store") = <<st>> /\ Do("load") = <<ld>>
    BY DEF Do
  <1> HIDE DEF st, ld
  <1>4. <<st>> \in Seq(AccessType) /\ <<ld>> \in Seq(AccessType)
    BY <1>1
  <1>5. tx \o rest = <<ld>> \o (<<st>> \o rest) /\ <<st>> \o rest \in Seq(AccessType)
    <2>1. (<<ld>> \o <<st>>) \o rest = <<ld>> \o (<<st>> \o rest)
      BY <1>1, <1>4, ConcatAssociative
    <2>2. <<st>> \o rest \in Seq(AccessType)
      BY <1>1, <1>4, ConcatProperties
    <2> QED
      BY <1>3, <2>1, <2>2 DEF tx
  <1>6. /\ <<st>> \o rest # << >> /\ Head(<<st>> \o rest) = st /\ Tail(<<st>> \o rest) = rest
        /\ <<ld>> \o (<<st>> \o rest) # << >> /\ Head(<<ld>> \o (<<st>> \o rest)) = ld
        /\ Tail(<<ld>> \o (<<st>> \o rest)) = <<st>> \o rest
    BY <1>1, <1>5, FirstThen
  <1> QED
    BY <1>2, <1>3, <1>5, <1>6

\* What is left after an access.
LEMMA ShapeAccess ==
  ASSUME ShapeInv, NEW what, Access(what)
  PROVE  /\ what \notin {"load", "store"} => Tail(ev.todo) \in Seq(PlainType)
         /\ what = "load" => \E rest \in Seq(PlainType) : Tail(ev.todo) = Do("store") \o rest
         /\ what = "store" => Tail(ev.todo) \in Seq(PlainType)
  <1>1. ev.todo # << >> /\ Head(ev.todo).do = what
    BY DEF Access
  <1>2. CASE ev.todo \in Seq(PlainType)
    <2>1. Tail(ev.todo) \in Seq(PlainType) /\ what \notin {"load", "store"}
      BY <1>1, <1>2, PlainShape
    <2> QED
      BY <2>1
  <1>3. ASSUME NEW rest \in Seq(PlainType), ev.todo = tx \o rest
        PROVE  what = "load" /\ Tail(ev.todo) = Do("store") \o rest
    BY <1>1, <1>3, TxShape
  <1>4. ASSUME NEW rest \in Seq(PlainType), ev.todo = Do("store") \o rest
        PROVE  what = "store" /\ Tail(ev.todo) \in Seq(PlainType)
    BY <1>1, <1>4, TxShape
  <1> QED
    BY <1>2, <1>3, <1>4 DEF ShapeInv

Stores == ev.todo # << >> /\ Head(ev.todo).do = "store"
\* The id taken j before l.
Back(l, j) == IF l > j THEN l - j ELSE l - j + MaxId

WindowInv == /\ last \in 0 .. MaxId /\ Len(ids) <= MaxId
             /\ \A i \in 1 .. Len(ids) : ids[i] = Back(last, Len(ids) - i)
\* An id in the hands of a thread is the next one, and only one has it.
TakenInv == /\ Stores => ev.id = next(last)
            /\ ip.pc = "store" => ip.id = next(last)
            /\ ~ (Stores /\ ip.pc = "store")
IdInv == ShapeInv /\ (~ raced => WindowInv /\ TakenInv)

LEMMA IdInit == Init => IdInv
  BY IdAssumption
  DEF Init, IdInv, ShapeInv, WindowInv, TakenInv, Stores, NoPacket

LEMMA BackNext ==
  ASSUME NEW l \in 0 .. MaxId, NEW j \in 0 .. MaxId - 1
  PROVE  /\ next(l) \in 1 .. MaxId /\ Back(next(l), 0) = next(l)
         /\ Back(next(l), j + 1) = Back(l, j)
  BY IdAssumption DEF next, Back

LEMMA WindowSlides ==
  ASSUME IdsOK, WindowInv, NEW n, n = next(last)
  PROVE  /\ n \in 0 .. MaxId /\ Len(Sent(n)) <= MaxId
         /\ \A i \in 1 .. Len(Sent(n)) : Sent(n)[i] = Back(n, Len(Sent(n)) - i)
  <1>0. MaxId \in Nat \ {0} /\ last \in 0 .. MaxId
    BY IdAssumption DEF WindowInv
  <1>1. n \in 1 .. MaxId /\ Back(n, 0) = n
    BY <1>0, BackNext
  <1> DEFINE all == Append(ids, n)
             k == Len(ids)
  <1>2. k \in Nat /\ k <= MaxId /\ all \in Seq(Nat) /\ Len(all) = k + 1
    BY <1>0, <1>1 DEF IdsOK, WindowInv
  <1>3. ASSUME NEW i \in 1 .. k + 1 PROVE all[i] = Back(n, k + 1 - i) \/ (i = 1 /\ k = MaxId)
    <2>1. CASE i = k + 1
      BY <1>1, <1>2, <2>1 DEF IdsOK
    <2>2. ASSUME i \in 1 .. k, ~ (i = 1 /\ k = MaxId) PROVE all[i] = Back(n, k + 1 - i)
      <3>1. all[i] = ids[i] /\ ids[i] = Back(last, k - i)
        BY <2>2 DEF WindowInv, IdsOK
      <3>2. k - i \in 0 .. MaxId - 1 /\ k + 1 - i = (k - i) + 1
        BY <1>0, <1>2, <2>2
      <3>3. Back(next(last), (k - i) + 1) = Back(last, k - i)
        BY <1>0, <3>2, BackNext
      <3> QED
        BY <3>1, <3>2, <3>3
    <2> QED
      BY <1>2, <2>1, <2>2
  <1>4. CASE k + 1 > MaxId
    <2>1. Sent(n) = Tail(all) /\ k = MaxId
      BY <1>0, <1>2, <1>4 DEF Sent
    <2>2. Len(Tail(all)) = k /\ \A i \in 1 .. k : Tail(all)[i] = all[i + 1]
      BY <1>2
    <2>3. \A i \in 1 .. k : all[i + 1] = Back(n, k - i)
      <3> SUFFICES ASSUME NEW i \in 1 .. k PROVE all[i + 1] = Back(n, k - i)
        OBVIOUS
      <3>1. i + 1 \in 1 .. k + 1 /\ i + 1 # 1 /\ k + 1 - (i + 1) = k - i
        BY <1>2
      <3> HIDE DEF all
      <3> QED
        BY <1>3, <3>1
    <2>4. Len(Sent(n)) = k /\ \A i \in 1 .. k : Sent(n)[i] = Back(n, k - i)
      BY <2>1, <2>2, <2>3
    <2>5. n \in 0 .. MaxId /\ Len(Sent(n)) <= MaxId
      BY <1>0, <1>1, <2>1, <2>4
    <2>6. \A i \in 1 .. Len(Sent(n)) : Sent(n)[i] = Back(n, Len(Sent(n)) - i)
      BY <2>4
    <2> QED
      BY <2>5, <2>6
  <1>5. CASE ~ (k + 1 > MaxId)
    <2>1. Sent(n) = all /\ k # MaxId
      BY <1>0, <1>2, <1>5 DEF Sent
    <2> HIDE DEF all
    <2> QED
      BY <1>0, <1>1, <1>2, <1>3, <1>5, <2>1
  <1> QED
    BY <1>4, <1>5

\* Accesses that are not of the generator leave something plain to do, or a load.
LEMMA IdsStay ==
  ASSUME IdInv, UNCHANGED idVars, ShapeInv', ~ Stores' \/ UNCHANGED ev,
         ip'.pc = "store" => UNCHANGED ip
  PROVE  IdInv'
  BY DEF IdInv, WindowInv, TakenInv, Stores, idVars, Back, next

LEMMA ShapeGives ==
  ASSUME NEW rest \in Seq(PlainType), ev'.todo \in {rest, tx \o rest}
  PROVE  ShapeInv' /\ ~ Stores'
  <1>1. ShapeInv'
    BY DEF ShapeInv, tx, Do
  <1>2. CASE ev'.todo = rest
    <2>1. rest = << >> \/ Head(rest).do # "store"
      BY PlainShape
    <2> QED
      BY <1>1, <1>2, <2>1 DEF Stores
  <1>3. CASE ev'.todo = tx \o rest
    <2>1. Head(tx \o rest).do # "store"
      BY TxShape
    <2> QED
      BY <1>1, <1>3, <2>1 DEF Stores
  <1> QED
    BY <1>1, <1>2, <1>3

LEMMA IdStep == TypeOK /\ IdInv /\ [Next]_vars => IdInv'
  <1> SUFFICES ASSUME TypeOK, IdInv, [Next]_vars PROVE IdInv'
    OBVIOUS
  <1>0. ShapeInv
    BY DEF IdInv
  <1>1. ASSUME UNCHANGED <<idVars, ev>>, ip'.pc = "store" => UNCHANGED ip PROVE IdInv'
    BY <1>0, <1>1, IdsStay DEF ShapeInv
  <1>2. ASSUME NEW p, NEW todo \in Seq(PlainType), Begin(p, todo), UNCHANGED <<idVars, ip>>
        PROVE  IdInv'
    <2>1. ev'.todo = todo
      BY <1>2 DEF Begin
    <2> QED
      BY <1>2, <2>1, ShapeGives, IdsStay
  <1>3. ASSUME NEW kind \in Kinds, newPcb(kind) PROVE IdInv'
    BY <1>1, <1>3 DEF newPcb
  <1>4. ASSUME NEW p \in Pcbs, Close(p) \/ Connect(p) \/ Send(p) \/ SendTo(p) PROVE IdInv'
    BY <1>1, <1>2, <1>4, OperationType DEF Close, Connect, Send, SendTo
  <1>5. ASSUME NEW what \in {"faddr", "fport", "bind", "send"}, Access(what), 
               Goes(Tail(ev.todo)) \/ Goes(tx \o Tail(ev.todo)), UNCHANGED <<idVars, ip>>
        PROVE  IdInv'
    <2>1. Tail(ev.todo) \in Seq(PlainType)
      BY <1>0, <1>5, ShapeAccess
    <2>2. ev'.todo \in {Tail(ev.todo), tx \o Tail(ev.todo)}
      BY <1>5 DEF Goes, Begin
    <2> QED
      BY <1>5, <2>1, <2>2, ShapeGives, IdsStay
  <1>6. ASSUME EvBind \/ EvSend \/ \E field \in {"faddr", "fport"} : EvSet(field) PROVE IdInv'
    BY <1>5, <1>6 DEF EvBind, EvSend, EvSet
  <1>7. ASSUME EvLoad PROVE IdInv'
    <2>1. PICK rest \in Seq(PlainType) : Tail(ev.todo) = Do("store") \o rest
      BY <1>0, <1>7, ShapeAccess DEF EvLoad
    <2>2. ev'.todo = Do("store") \o rest /\ ev'.id = next(last)
      BY <1>7, <2>1 DEF EvLoad, TypeOK, EvOK
    <2>3. ShapeInv'
      BY <2>2 DEF ShapeInv, Do
    <2> QED
      BY <1>7, <2>2, <2>3
      DEF EvLoad, IdInv, WindowInv, TakenInv, Back, next
  <1>8. ASSUME EvStore PROVE IdInv'
    <2>1. Tail(ev.todo) \in Seq(PlainType) /\ ev'.todo = Tail(ev.todo) /\ Stores
      BY <1>0, <1>8, ShapeAccess DEF EvStore, Goes, Begin, Stores, Access
    <2>2. ShapeInv' /\ ~ Stores'
      BY <2>1, ShapeGives
    <2>3. ASSUME ~ raced PROVE WindowInv' /\ TakenInv'
      <3>1. ev.id = next(last) /\ ip.pc # "store" /\ WindowInv
        BY <2>1, <2>3 DEF IdInv, TakenInv
      <3>2. last' = ev.id /\ ids' = Sent(ev.id) /\ ip' = ip
        BY <1>8 DEF EvStore
      <3> QED
        BY <2>2, <3>1, <3>2, WindowSlides DEF WindowInv, TakenInv, TypeOK, Back
    <2> QED
      BY <1>8, <2>2, <2>3 DEF EvStore, IdInv
  <1>9. ASSUME IpLoad PROVE IdInv'
    BY <1>0, <1>9
    DEF IpLoad, IdInv, ShapeInv, WindowInv, TakenInv, Stores, Back, next, TypeOK, IpOK, IpType
  <1>10. ASSUME IpStore PROVE IdInv'
    <2>1. ASSUME ~ raced PROVE WindowInv' /\ TakenInv'
      <3>1. ip.id = next(last) /\ ~ Stores /\ WindowInv
        BY <1>10, <2>1 DEF IdInv, TakenInv, IpStore, At
      <3>2. last' = ip.id /\ ids' = Sent(ip.id) /\ ip' = NoPacket /\ ev' = ev
        BY <1>10 DEF IpStore
      <3> QED
        BY <3>1, <3>2, WindowSlides DEF WindowInv, TakenInv, TypeOK, Back, Stores, NoPacket
    <2> QED
      BY <1>0, <1>10, <2>1 DEF IpStore, IdInv, ShapeInv
  <1>11. ASSUME NEW pkt \in Packets, Take(pkt) PROVE IdInv'
    BY <1>1, <1>11 DEF Take, TypeOK, IpOK, IpType
  <1>12. ASSUME ReadLport \/ ReadFport \/ ReadFaddr \/ EndOfList PROVE IdInv'
    <2>0. ip \in IpType
      BY DEF TypeOK, IpOK
    <2>1. ip'.pc # "store"
      <3>1. CASE ReadLport
        BY <2>0, <3>1 DEF ReadLport, Reads, At, IpType
      <3>2. CASE ReadFport
        BY <2>0, <3>2 DEF ReadFport, Continue, IpType
      <3>3. CASE ReadFaddr
        BY <2>0, <3>3 DEF ReadFaddr, Continue, IpType
      <3>4. CASE EndOfList
        BY <2>0, <3>4 DEF EndOfList, IpType
      <3> QED
        BY <1>12, <3>1, <3>2, <3>3, <3>4
    <2>2. UNCHANGED <<idVars, ev>>
      BY <1>12 DEF ReadLport, ReadFport, ReadFaddr, EndOfList, Reads
    <2> QED
      BY <1>1, <2>1, <2>2
  <1>13. ASSUME Recv PROVE IdInv'
    <2>1. ip'.pc # "store" /\ UNCHANGED <<idVars, ev>>
      BY <1>13 DEF Recv, NoPacket
    <2> QED
      BY <1>1, <2>1
  <1>14. CASE UNCHANGED vars
    BY <1>1, <1>14 DEF vars
  <1> QED
    BY <1>3, <1>4, <1>6, <1>7, <1>8, <1>9, <1>10, <1>11, <1>12, <1>13, <1>14
    DEF Next, EventLoop, IpThread, Open

LEMMA IdInvGivesDistinct == TypeOK /\ IdInv => IdsDistinct
  <1> SUFFICES ASSUME TypeOK, WindowInv
               PROVE  /\ \A i \in DOMAIN ids : ids[i] \in 1 .. MaxId
                      /\ \A i, j \in DOMAIN ids : ids[i] = ids[j] => i = j
    BY DEF IdInv, IdsDistinct
  <1>1. DOMAIN ids = 1 .. Len(ids) /\ Len(ids) \in Nat
    BY DEF TypeOK, IdsOK
  <1>2. \A i \in 1 .. Len(ids) : ids[i] = Back(last, Len(ids) - i)
    BY DEF WindowInv
  <1>3. Len(ids) <= MaxId /\ last \in 0 .. MaxId /\ MaxId \in Nat
    BY IdAssumption DEF WindowInv
  <1> QED
    BY <1>1, <1>2, <1>3 DEF Back

(* Of MaxId packets in a row no two have the same identification, and none  *)
(* has 0, until both threads were in IpIdGenerator::next at once.           *)
THEOREM IdsStayDistinct == Spec => []IdsDistinct
  BY TypeInit, TypeStep, IdInit, IdStep, IdInvGivesDistinct, PTL DEF Spec

-----------------------------------------------------------------------------
(* The walk of the IP thread finds the Pcb that matches.                    *)

\* What a Pcb is matched by.
SameToWalk(p) ==
  /\ pcb'[p].alive = pcb[p].alive /\ pcb'[p].kind = pcb[p].kind
  /\ pcb'[p].lport = pcb[p].lport /\ pcb'[p].fport = pcb[p].fport
  /\ pcb'[p].faddr = pcb[p].faddr

\* The IP thread reads a Pcb.
Reading == ip.pc \in {"fport", "faddr"}

LEMMA TouchMoves ==
  ASSUME Walking, NEW p, Touch(p)
  PROVE  moved' = moved \cup {p}
  BY DEF Touch

\* An operation of the event loop, as the walk sees it.
LEMMA Undisturbed ==
  ASSUME TypeOK, Walking, EventLoop \/ UNCHANGED vars
  PROVE  ip' = ip /\ moved \subseteq moved' /\ \A q \in Pcbs \ moved' : SameToWalk(q)
  <1> USE DEF SameToWalk
  <1>1. ASSUME UNCHANGED <<pcb, ip, moved>>
        PROVE  ip' = ip /\ moved \subseteq moved' /\ \A q \in Pcbs \ moved' : SameToWalk(q)
    BY <1>1
  <1>2. ASSUME NEW p \in Pcbs, Touch(p), UNCHANGED ip,
               NEW b, pcb' = [pcb EXCEPT ![p] = b]
        PROVE  ip' = ip /\ moved \subseteq moved' /\ \A q \in Pcbs \ moved' : SameToWalk(q)
    BY <1>2, TouchMoves DEF TypeOK, PcbsOK
  <1>3. ASSUME NEW kind \in Kinds, newPcb(kind)
        PROVE  ip' = ip /\ moved \subseteq moved' /\ \A q \in Pcbs \ moved' : SameToWalk(q)
    BY <1>2, <1>3 DEF newPcb
  <1>4. ASSUME NEW p \in Pcbs, Close(p)
        PROVE  ip' = ip /\ moved \subseteq moved' /\ \A q \in Pcbs \ moved' : SameToWalk(q)
    <2>1. pcb' = [pcb EXCEPT ![p] = [pcb[p] EXCEPT !.alive = FALSE]]
      BY <1>4 DEF Close, TypeOK, PcbsOK
    <2> QED
      BY <1>2, <1>4, <2>1 DEF Close
  <1>5. ASSUME NEW p, Connect(p) \/ Send(p) \/ SendTo(p)
        PROVE  ip' = ip /\ moved \subseteq moved' /\ \A q \in Pcbs \ moved' : SameToWalk(q)
    BY <1>1, <1>5 DEF Connect, Send, SendTo, history
  <1>6. ASSUME NEW field \in {"faddr", "fport"}, EvSet(field)
        PROVE  ip' = ip /\ moved \subseteq moved' /\ \A q \in Pcbs \ moved' : SameToWalk(q)
    <2>1. ev.p \in Pcbs
      BY <1>6, Accessing DEF EvSet
    <2>2. pcb' = [pcb EXCEPT ![ev.p] = [pcb[ev.p] EXCEPT ![field] = Head(ev.todo).v]]
      BY <1>6, <2>1 DEF EvSet, TypeOK, PcbsOK
    <2> QED
      BY <1>2, <1>6, <2>1, <2>2 DEF EvSet
  <1>7. ASSUME EvBind
        PROVE  ip' = ip /\ moved \subseteq moved' /\ \A q \in Pcbs \ moved' : SameToWalk(q)
    <2>1. ev.p \in Pcbs
      BY <1>7, Accessing DEF EvBind
    <2>2. CASE pcb[ev.p].lport # 0
      BY <1>1, <1>7, <2>2 DEF EvBind
    <2>3. ASSUME pcb[ev.p].lport = 0, NEW n, n = port'[pcb[ev.p].kind]
          PROVE  ip' = ip /\ moved \subseteq moved' /\ \A q \in Pcbs \ moved' : SameToWalk(q)
      <3>1. pcb' = [pcb EXCEPT ![ev.p] = [pcb[ev.p] EXCEPT !.lport = n]] /\ Touch(ev.p)
        BY <1>7, <2>1, <2>3 DEF EvBind, TypeOK, PcbsOK
      <3> QED
        BY <1>2, <1>7, <2>1, <3>1 DEF EvBind
    <2> QED
      BY <2>2, <2>3
  <1>8. ASSUME EvSend
        PROVE  ip' = ip /\ moved \subseteq moved' /\ \A q \in Pcbs \ moved' : SameToWalk(q)
    <2>1. ev.p \in Pcbs
      BY <1>8, Accessing DEF EvSend
    <2> QED
      BY <1>8, <2>1 DEF EvSend, TypeOK, PcbsOK, PcbType
  <1>9. ASSUME EvLoad \/ EvStore
        PROVE  ip' = ip /\ moved \subseteq moved' /\ \A q \in Pcbs \ moved' : SameToWalk(q)
    BY <1>1, <1>9 DEF EvLoad, EvStore, history
  <1>10. ASSUME UNCHANGED vars
         PROVE  ip' = ip /\ moved \subseteq moved' /\ \A q \in Pcbs \ moved' : SameToWalk(q)
    BY <1>1, <1>10 DEF vars, history
  <1> QED
    BY <1>3, <1>4, <1>5, <1>6, <1>7, <1>8, <1>9, <1>10 DEF EventLoop, Open

LEMMA PastWalk ==
  ASSUME ip \in IpType, Recv \/ IpLoad \/ IpStore
  PROVE  ~ Walking'
  <1>1. CASE Recv
    <2>1. ip' = NoPacket \/ \E pc \in {"load", "crashed"} : ip' = [NoPacket EXCEPT !.pc = pc]
      BY <1>1 DEF Recv
    <2>2. NoPacket = [NoPacket EXCEPT !.pc = "idle"]
      BY DEF NoPacket
    <2> QED
      BY <2>1, <2>2, NoPacketType
  <1>2. CASE IpLoad
    BY <1>2 DEF IpLoad, Walking, IpType
  <1>3. CASE IpStore
    BY <1>3 DEF IpStore, NoPacket, Walking
  <1> QED
    BY <1>1, <1>2, <1>3

\* A port once bound stays, and ports once reused stay so.
LEMMA PortsLast ==
  ASSUME TypeOK, [Next]_vars
  PROVE  /\ \A p \in Pcbs : pcb[p].lport # 0 => pcb'[p].lport = pcb[p].lport
         /\ \A k \in Kinds : allocated'[k] >= allocated[k]
  <1>1. CASE ~ EvBind
    BY <1>1, OthersKeepPorts DEF KeepsPorts, ports, TypeOK, PortsOK
  <1>2. ASSUME EvBind
        PROVE  /\ \A p \in Pcbs : pcb[p].lport # 0 => pcb'[p].lport = pcb[p].lport
               /\ \A k \in Kinds : allocated'[k] >= allocated[k]
    <2>1. ev.p \in Pcbs /\ pcb[ev.p].kind \in Kinds
      BY <1>2, Accessing DEF EvBind
    <2>2. CASE pcb[ev.p].lport # 0
      BY <1>2, <2>2 DEF EvBind, ports, TypeOK, PortsOK
    <2>3. CASE pcb[ev.p].lport = 0
      BY <1>2, <2>1, <2>3 DEF EvBind, TypeOK, PcbsOK, PortsOK
    <2> QED
      BY <2>2, <2>3
  <1> QED
    BY <1>1, <1>2

-----------------------------------------------------------------------------
\* The Pcb being read and the one found have the port of the packet.
KeptInv ==
  /\ Reading /\ ip.pkt.dport # 0 => pcb[ip.p].lport = ip.pkt.dport
  /\ Walking /\ ip.to # 0 /\ ip.pkt.dport # 0 => pcb[ip.to].lport = ip.pkt.dport

LEMMA KeptStep == TypeOK /\ KeptInv /\ [Next]_vars => KeptInv'
  <1> SUFFICES ASSUME TypeOK, KeptInv, [Next]_vars PROVE KeptInv'
    OBVIOUS
  <1>0. ip \in IpType
    BY DEF TypeOK, IpOK
  <1>1. \A p \in Pcbs : pcb[p].lport # 0 => pcb'[p].lport = pcb[p].lport
    BY PortsLast
  <1>2. CASE ~ Walking'
    BY <1>2 DEF KeptInv, Walking, Reading
  <1>3. ASSUME ip' = ip, Walking PROVE KeptInv'
    <2>1. /\ Reading => ip.p \in Pcbs
          /\ ip.to # 0 => ip.to \in Pcbs
      BY <1>0, PcKinds DEF Reading, IpType
    <2> QED
      BY <1>1, <1>3, <2>1 DEF KeptInv, Reading, Walking
  <1>4. ASSUME EventLoop \/ UNCHANGED vars PROVE KeptInv'
    <2>1. ip' = ip
      BY <1>4 DEF EventLoop, newPcb, Close, Connect, Send, SendTo, EvSet, EvBind, EvSend,
        EvLoad, EvStore, vars
    <2> QED
      BY <1>2, <1>3, <2>1 DEF Walking
  <1>5. ASSUME NEW pkt \in Packets, Take(pkt) PROVE KeptInv'
    BY <1>0, <1>5 DEF Take, KeptInv, Reading, IpType
  <1>6. ASSUME ReadLport PROVE KeptInv'
    <2> PICK p \in ip.list :
          /\ Reads("lport")
          /\ ip' = IF pcb[p].alive /\ pcb[p].lport = ip.pkt.dport
                   THEN [ip EXCEPT !.pc = "fport", !.list = @ \ {p}, !.p = p, !.accum = 1]
                   ELSE [ip EXCEPT !.list = @ \ {p}]
      BY <1>6 DEF ReadLport
    <2>1. pcb' = pcb /\ Walking /\ ~ Reading
      BY DEF Reads, At, Walking, Reading
    <2> QED
      BY <1>0, <2>1 DEF KeptInv, Reading, Walking, IpType
  <1>7. ASSUME ReadFport PROVE KeptInv'
    <2>1. pcb' = pcb /\ Walking /\ Reading
      BY <1>7 DEF ReadFport, Reads, At, Walking, Reading
    <2>2. ip'.pkt = ip.pkt /\ ip'.to = ip.to /\ (ip'.pc = "lport" \/ ip'.p = ip.p)
      BY <1>0, <1>7 DEF ReadFport, Continue, IpType
    <2> QED
      BY <2>1, <2>2 DEF KeptInv, Reading
  <1>8. ASSUME ReadFaddr PROVE KeptInv'
    <2>1. pcb' = pcb /\ Walking /\ Reading
      BY <1>8 DEF ReadFaddr, Reads, At, Walking, Reading
    <2>2. ip'.pkt = ip.pkt /\ ip'.to \in {ip.to, ip.p} /\ ip'.pc = "lport"
      BY <1>0, <1>8 DEF ReadFaddr, Continue, IpType
    <2> QED
      BY <2>1, <2>2 DEF KeptInv, Reading
  <1>9. ASSUME EndOfList PROVE KeptInv'
    BY <1>0, <1>9 DEF EndOfList, At, KeptInv, Reading, Walking, IpType
  <1>10. ASSUME Recv \/ IpLoad \/ IpStore PROVE ~ Walking'
    BY <1>0, <1>10, PastWalk
  <1> QED
    BY <1>2, <1>4, <1>5, <1>6, <1>7, <1>8, <1>9, <1>10 DEF Next, IpThread

\* Two Pcbs with the port of the packet.
LEMMA OnePort ==
  ASSUME TypeOK, PortInv, NEW p \in Pcbs, NEW q \in Pcbs, p # q, pcb[p].kind = pcb[q].kind,
         pcb[p].lport = pcb[q].lport
  PROVE  pcb[p].lport = 0 \/ Reused(pcb[p].kind)
  <1> SUFFICES ASSUME ~ Reused(pcb[p].kind), pcb[p].lport # 0 PROVE FALSE
    OBVIOUS
  <1>1. ticket[p] \in 1 .. PortMod /\ ticket[q] \in 1 .. PortMod /\ ticket[p] # ticket[q]
    BY PortAssumption DEF PortInv, TicketInv, DistinctInv, Reused, TypeOK, PortsOK
  <1> QED
    BY <1>1, PortAtDistinct DEF PortInv, TicketInv

-----------------------------------------------------------------------------
\* What was read of a Pcb that did not change since still holds of it.
ReadInv ==
  /\ Reading => /\ ip.accum >= 1
                /\ ip.p \notin moved => pcb[ip.p].alive /\ pcb[ip.p].lport = ip.pkt.dport
  /\ ip.pc = "faddr" /\ ip.p \notin moved => pcb[ip.p].fport \in {0, ip.pkt.sport}
FoundInv == Walking /\ ip.to \notin moved \cup {0} => Matches(ip.to, ip.pkt)
\* A Pcb that matches is to come, is being read, was found or has been replaced.
Excused == ip.to # 0 /\ (Reused(ip.pkt.kind) \/ ip.pkt.dport = 0)
MissedInv ==
  Walking => \A q \in Pcbs \ moved : Matches(q, ip.pkt) =>
               q \in ip.list \/ (Reading /\ q = ip.p) \/ ip.to = q \/ Excused
DemuxInv == /\ ReadInv /\ FoundInv /\ MissedInv
            /\ ip.pc = "found" => ip.list = {}

LEMMA MatchesStays ==
  ASSUME NEW q, SameToWalk(q), NEW pkt
  PROVE  Matches(q, pkt)' <=> Matches(q, pkt)
  BY DEF SameToWalk, Matches

LEMMA DemuxEventLoop ==
  ASSUME TypeOK, DemuxInv, Walking, EventLoop \/ UNCHANGED vars
  PROVE  DemuxInv'
  <1>0. ip' = ip /\ moved \subseteq moved' /\ \A q \in Pcbs \ moved' : SameToWalk(q)
    BY Undisturbed
  <1>1. ip.pkt.kind \in Kinds /\ (Reading => ip.p \in Pcbs) /\ (ip.to # 0 => ip.to \in Pcbs)
    BY PcKinds DEF TypeOK, IpOK, IpType, Reading
  <1>2. ReadInv'
    BY <1>0, <1>1 DEF DemuxInv, ReadInv, Reading, SameToWalk
  <1>3. FoundInv'
    <2> SUFFICES ASSUME ip.to \notin moved' \cup {0} PROVE Matches(ip.to, ip.pkt)'
      BY <1>0 DEF FoundInv, Matches
    <2>1. Matches(ip.to, ip.pkt) /\ SameToWalk(ip.to)
      BY <1>0, <1>1 DEF DemuxInv, FoundInv
    <2> QED
      BY <1>0, <2>1 DEF SameToWalk, Matches
  <1>4. MissedInv'
    <2> SUFFICES ASSUME NEW q \in Pcbs \ moved', Matches(q, ip.pkt)'
                 PROVE  q \in ip.list \/ (Reading /\ q = ip.p) \/ ip.to = q \/ Excused'
      BY <1>0 DEF MissedInv, Reading
    <2>1. Matches(q, ip.pkt)
      BY <1>0 DEF SameToWalk, Matches
    <2>2. q \in ip.list \/ (Reading /\ q = ip.p) \/ ip.to = q \/ Excused
      BY <1>0, <2>1 DEF DemuxInv, MissedInv
    <2>3. Excused => Excused'
      <3>1. allocated'[ip.pkt.kind] >= allocated[ip.pkt.kind]
        BY <1>1, PortsLast DEF Next
      <3>2. allocated[ip.pkt.kind] \in Nat /\ allocated'[ip.pkt.kind] \in Nat
        BY <1>1, TypeStep DEF Next, TypeOK, PortsOK
      <3> QED
        BY <1>0, <3>1, <3>2, PortAssumption DEF Excused, Reused
    <2> QED
      BY <2>2, <2>3
  <1> QED
    BY <1>0, <1>2, <1>3, <1>4 DEF DemuxInv

\* Steps of the walk change no Pcb.
LEMMA DemuxWalk ==
  ASSUME TypeOK, PortInv, KeptInv, DemuxInv, ReadLport \/ ReadFport \/ ReadFaddr \/ EndOfList
  PROVE  DemuxInv'
  <1>0. /\ Walking /\ ip \in IpType
        /\ UNCHANGED <<pcb, moved, allocated>>
    BY DEF ReadLport, ReadFport, ReadFaddr, EndOfList, Reads, At, Walking, TypeOK, IpOK,
      ports, history
  <1>1. ip.pkt \in Packets /\ ip.list \subseteq IsOf(ip.pkt.kind)
        /\ (Reading => ip.p \in IsOf(ip.pkt.kind))
        /\ (ip.to # 0 => ip.to \in IsOf(ip.pkt.kind))
    BY <1>0 DEF TypeOK, IpOK, Reading
  <1>2. \A q, pkt : Matches(q, pkt)' <=> Matches(q, pkt')
    BY <1>0 DEF Matches
  <1>3. ASSUME ReadLport PROVE DemuxInv'
    <2> PICK p \in ip.list :
          /\ Reads("lport")
          /\ ip' = IF pcb[p].alive /\ pcb[p].lport = ip.pkt.dport
                   THEN [ip EXCEPT !.pc = "fport", !.list = @ \ {p}, !.p = p, !.accum = 1]
                   ELSE [ip EXCEPT !.list = @ \ {p}]
      BY <1>3 DEF ReadLport
    <2>1. ip.pc = "lport"
      BY DEF Reads, At
    <2>2. ip'.pkt = ip.pkt /\ ip'.to = ip.to /\ ip'.list = ip.list \ {p}
      BY <1>0 DEF IpType
    <2>3. \/ /\ pcb[p].alive /\ pcb[p].lport = ip.pkt.dport
             /\ ip'.pc = "fport" /\ ip'.p = p /\ ip'.accum = 1
          \/ ~ (pcb[p].alive /\ pcb[p].lport = ip.pkt.dport) /\ ip'.pc = "lport"
      BY <1>0, <2>1 DEF IpType
    <2>4. ReadInv'
      BY <1>0, <2>2, <2>3 DEF ReadInv, Reading
    <2>5. FoundInv'
      BY <1>0, <2>2 DEF DemuxInv, FoundInv, Matches
    <2>6. MissedInv'
      <3> SUFFICES ASSUME NEW q \in Pcbs \ moved, Matches(q, ip.pkt)
                   PROVE  (q \in ip'.list \/ (Reading /\ q = ip.p)' \/ ip.to = q \/ Excused)
        BY <1>0, <2>2 DEF MissedInv, Matches, Excused, Reused
      <3>1. q \in ip.list \/ ip.to = q \/ Excused
        BY <1>0, <2>1 DEF DemuxInv, MissedInv, Reading
      <3>2. q = p => (Reading /\ q = ip.p)'
        BY <2>3 DEF Matches, Reading
      <3> QED
        BY <2>2, <3>1, <3>2
    <2> QED
      BY <2>3, <2>4, <2>5, <2>6 DEF DemuxInv
  <1>4. ASSUME ReadFport PROVE DemuxInv'
    <2>1. ip.pc = "fport" /\ ip.p \in Pcbs
      BY <1>1, <1>4 DEF ReadFport, Reads, At, Reading, IsOf
    <2>2. ip'.pkt = ip.pkt /\ ip'.to = ip.to /\ ip'.list = ip.list
      BY <1>0, <1>4 DEF ReadFport, Continue, IpType
    <2>3. \/ /\ Curr.fport \in {0, ip.pkt.sport}
             /\ ip'.pc = "faddr" /\ ip'.p = ip.p /\ ip'.accum >= ip.accum
          \/ Curr.fport \notin {0, ip.pkt.sport} /\ ip'.pc = "lport"
      <3>1. CASE Curr.fport \in {0, ip.pkt.sport}
        <4> DEFINE n == ip.accum + (IF Curr.fport = 0 THEN 0 ELSE 1)
        <4>1. n \in Nat /\ n >= ip.accum
          BY <1>0 DEF IpType
        <4>2. ip' = [ip EXCEPT !.pc = "faddr", !.accum = n]
          BY <1>4, <3>1 DEF ReadFport
        <4> HIDE DEF n
        <4>3. ip'.pc = "faddr" /\ ip'.p = ip.p /\ ip'.accum = n
          BY <1>0, <4>2 DEF IpType
        <4> QED
          BY <3>1, <4>1, <4>3
      <3>2. CASE Curr.fport \notin {0, ip.pkt.sport}
        BY <1>0, <1>4, <3>2 DEF ReadFport, Continue, IpType
      <3> QED
        BY <3>1, <3>2
    <2>4. ReadInv'
      <3>1. ip.accum >= 1 /\ ip.accum \in Nat /\ ip'.accum \in Nat
        <4>1. TypeOK'
          BY <1>4, TypeWalk
        <4> QED
          BY <2>1, <4>1 DEF DemuxInv, ReadInv, Reading, TypeOK, IpOK, IpType
      <3>2. ip.p \notin moved => pcb[ip.p].alive /\ pcb[ip.p].lport = ip.pkt.dport
        BY <2>1 DEF DemuxInv, ReadInv, Reading
      <3> QED
        BY <1>0, <2>2, <2>3, <3>1, <3>2 DEF ReadInv, Reading, Curr
    <2>5. FoundInv'
      BY <1>0, <2>2 DEF DemuxInv, FoundInv, Matches
    <2>6. MissedInv'
      <3> SUFFICES ASSUME NEW q \in Pcbs \ moved, Matches(q, ip.pkt)
                   PROVE  (q \in ip'.list \/ (Reading /\ q = ip.p)' \/ ip.to = q \/ Excused)
        BY <1>0, <2>2 DEF MissedInv, Matches, Excused, Reused
      <3>1. q \in ip.list \/ q = ip.p \/ ip.to = q \/ Excused
        BY <1>0, <2>1 DEF DemuxInv, MissedInv, Reading
      <3>2. q = ip.p => (Reading /\ q = ip.p)'
        BY <2>3 DEF Matches, Reading, Curr
      <3> QED
        BY <2>2, <3>1, <3>2
    <2> QED
      BY <2>3, <2>4, <2>5, <2>6 DEF DemuxInv
  <1>5. ASSUME ReadFaddr PROVE DemuxInv'
    <2>1. ip.pc = "faddr" /\ ip.p \in Pcbs /\ Reading /\ pcb[ip.p].kind = ip.pkt.kind
      BY <1>1, <1>5 DEF ReadFaddr, Reads, At, Reading, IsOf
    <2> DEFINE good == ip.pkt.here /\ pcb[ip.p].faddr \in {0, ip.pkt.saddr}
               f == in_addr_match(Curr.faddr, ip.pkt.saddr)
               m == in_addr_match(1, IF ip.pkt.here THEN 1 ELSE 2)
    <2>2. f \in {0, 1, 2} /\ m \in {1, 2} /\ (f # 2 <=> pcb[ip.p].faddr \in {0, ip.pkt.saddr})
          /\ (m # 2 <=> ip.pkt.here)
      <3>1. pcb[ip.p].faddr \in Nat
        BY <2>1 DEF TypeOK, PcbsOK, PcbType
      <3> QED
        BY <3>1 DEF in_addr_match, Curr
    <2>3. ip.accum \in Nat /\ ip.accum >= 1
      BY <1>0, <2>1 DEF DemuxInv, ReadInv, IpType
    <2>4. ip' = IF f # 2 /\ m # 2 /\ ip.accum + f + m > m
                THEN [ip EXCEPT !.pc = "lport", !.p = 0, !.accum = 0, !.to = ip.p]
                ELSE [ip EXCEPT !.pc = "lport", !.p = 0, !.accum = 0]
      BY <1>5 DEF ReadFaddr, Continue
    <2> HIDE DEF f, m
    <2>5. (f # 2 /\ m # 2 /\ ip.accum + f + m > m) <=> good
      BY <2>2, <2>3
    <2> HIDE DEF good
    <2>6. ip'.pkt = ip.pkt /\ ip'.list = ip.list /\ ip'.pc = "lport"
          /\ ip'.to = IF good THEN ip.p ELSE ip.to
      BY <1>0, <2>4, <2>5 DEF IpType
    <2>7. ReadInv'
      BY <2>6 DEF ReadInv, Reading
    <2>8. FoundInv'
      <3>1. ASSUME good, ip.p \notin moved PROVE Matches(ip.p, ip.pkt)
        BY <2>1, <3>1 DEF good, DemuxInv, ReadInv, Matches
      <3> QED
        BY <1>0, <2>6, <3>1 DEF DemuxInv, FoundInv, Matches
    <2>9. MissedInv'
      <3> SUFFICES ASSUME NEW q \in Pcbs \ moved, Matches(q, ip.pkt)
                   PROVE  q \in ip.list \/ ip'.to = q \/ Excused'
        BY <1>0, <2>6 DEF MissedInv, Matches
      <3>0. Excused' <=> ip'.to # 0 /\ (Reused(ip.pkt.kind) \/ ip.pkt.dport = 0)
        BY <1>0, <2>6 DEF Excused, Reused
      <3>1. q \in ip.list \/ q = ip.p \/ ip.to = q \/ Excused
        BY <1>0, <2>1 DEF DemuxInv, MissedInv
      <3>2. CASE ~ good
        <4>1. q # ip.p
          BY <3>2 DEF good, Matches
        <4> QED
          BY <2>6, <3>0, <3>1, <3>2, <4>1 DEF Excused
      <3>3. ASSUME good, q # ip.p PROVE Reused(ip.pkt.kind) \/ ip.pkt.dport = 0
        <4> SUFFICES ASSUME ip.pkt.dport # 0 PROVE Reused(ip.pkt.kind)
          OBVIOUS
        <4>1. pcb[ip.p].lport = ip.pkt.dport
          BY <2>1 DEF KeptInv
        <4>2. pcb[q].lport = ip.pkt.dport /\ pcb[q].kind = ip.pkt.kind
          BY DEF Matches
        <4> QED
          BY <2>1, <3>3, <4>1, <4>2, OnePort
      <3>4. ip.p # 0
        BY <2>1 DEF Pcbs
      <3> QED
        BY <2>6, <3>0, <3>2, <3>3, <3>4
    <2> QED
      BY <2>6, <2>7, <2>8, <2>9 DEF DemuxInv
  <1>6. ASSUME EndOfList PROVE DemuxInv'
    <2>1. ip.pc = "lport" /\ ip.list = {} /\ ip' = [ip EXCEPT !.pc = "found"]
      BY <1>6 DEF EndOfList, At
    <2>2. ip'.pkt = ip.pkt /\ ip'.to = ip.to /\ ip'.list = {} /\ ip'.pc = "found"
      BY <1>0, <2>1 DEF IpType
    <2> QED
      BY <1>0, <2>1, <2>2
      DEF DemuxInv, ReadInv, FoundInv, MissedInv, Reading, Matches, Excused, Reused
  <1> QED
    BY <1>3, <1>4, <1>5, <1>6

LEMMA DemuxStep == TypeOK /\ PortInv /\ KeptInv /\ DemuxInv /\ [Next]_vars => DemuxInv'
  <1> SUFFICES ASSUME TypeOK, PortInv, KeptInv, DemuxInv, [Next]_vars PROVE DemuxInv'
    OBVIOUS
  <1>0. ip \in IpType
    BY DEF TypeOK, IpOK
  <1>1. CASE ~ Walking'
    BY <1>1 DEF DemuxInv, ReadInv, FoundInv, MissedInv, Walking, Reading
  <1>2. ASSUME EventLoop \/ UNCHANGED vars PROVE DemuxInv'
    <2>1. ip' = ip
      BY <1>2 DEF EventLoop, newPcb, Close, Connect, Send, SendTo, EvSet, EvBind, EvSend,
        EvLoad, EvStore, vars
    <2> QED
      BY <1>1, <1>2, <2>1, DemuxEventLoop DEF Walking
  <1>3. ASSUME NEW pkt \in Packets, Take(pkt) PROVE DemuxInv'
    <2>1. ip'.pc = "lport" /\ ip'.pkt = pkt /\ ip'.to = 0 /\ ip'.list = IsOf(pkt.kind)
          /\ pcb' = pcb
      BY <1>0, <1>3 DEF Take, IpType
    <2> QED
      BY <2>1 DEF DemuxInv, ReadInv, FoundInv, MissedInv, Reading, Matches, IsOf
  <1>4. ASSUME Recv \/ IpLoad \/ IpStore PROVE ~ Walking'
    BY <1>0, <1>4, PastWalk
  <1> QED
    BY <1>1, <1>2, <1>3, <1>4, DemuxWalk DEF Next, IpThread

LEMMA WalkInit == Init => KeptInv /\ DemuxInv
  BY DEF Init, NoPacket, KeptInv, DemuxInv, ReadInv, FoundInv, MissedInv, Reading, Walking

LEMMA DemuxInvGivesCorrect == DemuxInv => DemuxCorrect
  BY DEF DemuxInv, FoundInv, MissedInv, Excused, DemuxCorrect, Walking, Reading

(* The walk finds a Pcb that matches, and the one that matches, among those *)
(* that no operation was changing meanwhile.                                *)
THEOREM WalkFindsMatch == Spec => []DemuxCorrect
  <1>1. Init => TypeOK /\ PortInv /\ KeptInv /\ DemuxInv
    BY TypeInit, PortInit, WalkInit
  <1>2. TypeOK /\ PortInv /\ KeptInv /\ DemuxInv /\ [Next]_vars
        => TypeOK' /\ PortInv' /\ KeptInv' /\ DemuxInv'
    BY TypeStep, PortStep, KeptStep, DemuxStep
  <1> QED
    BY <1>1, <1>2, DemuxInvGivesCorrect, PTL DEF Spec

-----------------------------------------------------------------------------
(* A bound TcpPcb has its peer, but for one that sends before it was        *)
(* connected.                                                               *)

Tcp(p) == pcb[p].kind = "TCP"

\* What is left of the operations of a TcpPcb, from the last access to the first.
OnlySend == <<[do |-> "send", v |-> 0]>>
BindSend == <<[do |-> "bind", v |-> 0]>> \o OnlySend
BindTwice == <<[do |-> "bind", v |-> 0]>> \o BindSend
FromPort(a) == <<[do |-> "fport", v |-> a[2]]>> \o BindTwice
FromAddr(a) == <<[do |-> "faddr", v |-> a[1]]>> \o FromPort(a)

LEMMA SendShape ==
  /\ OnlySend \in Seq(PlainType) /\ OnlySend # << >>
  /\ Head(OnlySend).do = "send" /\ Tail(OnlySend) = << >>
  /\ BindSend \in Seq(PlainType) /\ BindSend # << >>
  /\ Head(BindSend).do = "bind" /\ Tail(BindSend) = OnlySend
  /\ BindTwice \in Seq(PlainType) /\ BindTwice # << >>
  /\ Head(BindTwice).do = "bind" /\ Tail(BindTwice) = BindSend
  /\ send = BindSend
  <1> DEFINE b == [do |-> "bind", v |-> 0]
  <1>1. b \in PlainType /\ b.do = "bind" /\ <<b>> \in Seq(PlainType)
    BY DEF PlainType
  <1> HIDE DEF b
  <1>2. /\ OnlySend \in Seq(PlainType) /\ OnlySend # << >>
        /\ Head(OnlySend).do = "send" /\ Tail(OnlySend) = << >>
    BY DEF OnlySend, PlainType
  <1>3. BindSend = <<b>> \o OnlySend /\ BindTwice = <<b>> \o BindSend
    BY DEF b, BindSend, BindTwice
  <1>4. BindSend \in Seq(PlainType)
    BY <1>1, <1>2, <1>3, ConcatProperties
  <1>5. BindSend # << >> /\ Head(BindSend) = b /\ Tail(BindSend) = OnlySend
    BY <1>1, <1>2, <1>3, FirstThen
  <1>6. BindTwice \in Seq(PlainType)
    BY <1>1, <1>3, <1>4, ConcatProperties
  <1>7. BindTwice # << >> /\ Head(BindTwice) = b /\ Tail(BindTwice) = BindSend
    BY <1>1, <1>3, <1>4, FirstThen
  <1>8. send = BindSend
    BY DEF send, bind, Do, BindSend, OnlySend
  <1> QED
    BY <1>1, <1>2, <1>4, <1>5, <1>6, <1>7, <1>8

LEMMA ConnectShape ==
  ASSUME NEW a \in Remotes
  PROVE  /\ FromPort(a) # << >> /\ Head(FromPort(a)) = [do |-> "fport", v |-> a[2]]
         /\ Tail(FromPort(a)) = BindTwice
         /\ FromAddr(a) # << >> /\ Head(FromAddr(a)) = [do |-> "faddr", v |-> a[1]]
         /\ Tail(FromAddr(a)) = FromPort(a)
         /\ TcpConnect(a) = FromAddr(a)
         /\ a[1] \in Nat \ {0} /\ a[2] \in Nat \ {0}
  <1>0. a[1] \in Nat \ {0} /\ a[2] \in Nat \ {0}
    BY RemoteAssumption
  <1> DEFINE x == [do |-> "fport", v |-> a[2]]
             y == [do |-> "faddr", v |-> a[1]]
             b == [do |-> "bind", v |-> 0]
  <1>1. x \in PlainType /\ y \in PlainType /\ b \in PlainType
    BY <1>0 DEF PlainType
  <1>2. FromPort(a) = <<x>> \o BindTwice /\ FromAddr(a) = <<y>> \o FromPort(a)
    BY DEF FromPort, FromAddr
  <1>3. BindTwice = <<b>> \o BindSend /\ TcpConnect(a) = ((<<y>> \o <<x>>) \o <<b>>) \o BindSend
    BY SendShape DEF BindTwice, TcpConnect, connect, Set, bind, Do
  <1> HIDE DEF x, y, b
  <1>4. <<x>> \in Seq(PlainType) /\ <<y>> \in Seq(PlainType) /\ <<b>> \in Seq(PlainType)
    BY <1>1
  <1>5. FromPort(a) \in Seq(PlainType)
    BY <1>2, <1>4, SendShape, ConcatProperties
  <1>6. FromPort(a) # << >> /\ Head(FromPort(a)) = x /\ Tail(FromPort(a)) = BindTwice
    BY <1>1, <1>2, SendShape, FirstThen
  <1>7. FromAddr(a) # << >> /\ Head(FromAddr(a)) = y /\ Tail(FromAddr(a)) = FromPort(a)
    BY <1>1, <1>2, <1>5, FirstThen
  <1>8. TcpConnect(a) = FromAddr(a)
    <2>1. <<y>> \o <<x>> \in Seq(PlainType) /\ BindTwice \in Seq(PlainType)
      BY <1>4, SendShape, ConcatProperties
    <2>2. ((<<y>> \o <<x>>) \o <<b>>) \o BindSend = (<<y>> \o <<x>>) \o BindTwice
      BY <1>3, <1>4, <2>1, SendShape, ConcatAssociative
    <2>3. (<<y>> \o <<x>>) \o BindTwice = <<y>> \o FromPort(a)
      BY <1>2, <1>4, <2>1, ConcatAssociative
    <2> QED
      BY <1>2, <1>3, <2>2, <2>3
  <1> QED
    BY <1>0, <1>6, <1>7, <1>8 DEF x, y

LEMMA TxAlone ==
  /\ tx \o << >> = tx /\ tx # << >> /\ Head(tx).do = "load" /\ Tail(tx) = Do("store")
  /\ Do("store") # << >> /\ Head(Do("store")).do = "store" /\ Tail(Do("store")) = << >>
  <1> DEFINE st == [do |-> "store", v |-> 0]
             ld == [do |-> "load", v |-> 0]
  <1>1. st \in AccessType /\ ld \in AccessType /\ st.do = "store" /\ ld.do = "load"
    BY DEF AccessType, Accesses
  <1>2. tx = <<ld>> \o <<st>> /\ Do("store") = <<st>>
    BY DEF tx, Do
  <1> HIDE DEF st, ld
  <1>3. <<st>> \in Seq(AccessType) /\ <<ld>> \in Seq(AccessType)
    BY <1>1
  <1>4. tx # << >> /\ Head(tx) = ld /\ Tail(tx) = <<st>>
    BY <1>1, <1>2, <1>3, FirstThen
  <1>5. tx \o << >> = tx
    BY <1>2, <1>3, ConcatProperties, ConcatEmptySeq
  <1>6. <<st>> # << >> /\ Head(<<st>>) = st /\ Tail(<<st>>) = << >>
    BY <1>1
  <1> QED
    BY <1>1, <1>2, <1>4, <1>5, <1>6

-----------------------------------------------------------------------------
\* Between the bind and the SYN of a send that no connect preceded.
Unsent(p) == /\ Tcp(p) /\ ev.p = p /\ ev.todo = OnlySend
             /\ pcb[p].state = "CLOSED" /\ pcb[p].fport = 0

TodoInv ==
  ev.todo # << >> /\ Tcp(ev.p) =>
    \/ \E a \in asked[ev.p] : \/ ev.todo = FromAddr(a)
                              \/ ev.todo = FromPort(a) /\ pcb[ev.p].faddr # 0
    \/ ev.todo = BindTwice /\ pcb[ev.p].fport # 0
    \/ ev.todo \in {BindSend, OnlySend, tx, Do("store")}

\* The addresses of a TcpPcb are those of connect, the port is set last, and one
\* that sent or is bound has them, or sent early, or is about to.
PeerOf(p) ==
  Tcp(p) =>
    /\ pcb[p].faddr # 0 => \E a \in asked[p] : pcb[p].faddr = a[1]
    /\ pcb[p].fport # 0 => pcb[p].faddr # 0 /\ \E a \in asked[p] : pcb[p].fport = a[2]
    /\ pcb[p].state # "CLOSED" => early[p] \/ pcb[p].fport # 0
    /\ pcb[p].lport # 0 => early[p] \/ pcb[p].fport # 0 \/ Unsent(p)
PeerInv == \A p \in Pcbs : PeerOf(p)

\* What the walk has read of a TcpPcb was given to connect.
PortClaim(p) == early[p] \/ Unsent(p) \/ \E b \in asked[p] : ip.pkt.sport = b[2]
AddrClaim(p) == early[p] \/ Unsent(p) \/ \E a \in asked[p] : ip.pkt.saddr = a[1]
ClaimInv ==
  Walking /\ ip.pkt.kind = "TCP" /\ ip.pkt.dport # 0 =>
    /\ ip.pc = "faddr" => PortClaim(ip.p)
    /\ ip.to # 0 => PortClaim(ip.to) /\ AddrClaim(ip.to)

ConnInv == TodoInv /\ PeerInv /\ ClaimInv /\ EstablishedByPeer

LEMMA ConnInit == Init => ConnInv
  BY DEF Init, ConnInv, TodoInv, PeerInv, PeerOf, Tcp, ClaimInv, Walking, NoPcb, NoPacket,
    EstablishedByPeer

-----------------------------------------------------------------------------
\* A step that leaves the Pcb as it was, as far as its peer is concerned.
LEMMA PeerStays ==
  ASSUME NEW p, PeerOf(p), SameToWalk(p), pcb'[p].state = pcb[p].state,
         asked[p] \subseteq asked'[p], early'[p] = early[p], Unsent(p) => Unsent(p)'
  PROVE  PeerOf(p)'
  BY DEF PeerOf, SameToWalk, Tcp

\* The access of a TcpPcb that is due.
LEMMA TcpAccess ==
  ASSUME TypeOK, TodoInv, NEW what, Access(what), Tcp(ev.p)
  PROVE  /\ what = "faddr" => \E a \in asked[ev.p] : /\ a \in Remotes
                                                     /\ Tail(ev.todo) = FromPort(a)
                                                     /\ Head(ev.todo).v = a[1]
         /\ what = "fport" => /\ pcb[ev.p].faddr # 0 /\ Tail(ev.todo) = BindTwice
                              /\ \E a \in asked[ev.p] : a \in Remotes /\ Head(ev.todo).v = a[2]
         /\ what = "bind" => \/ Tail(ev.todo) = BindSend /\ pcb[ev.p].fport # 0
                             \/ Tail(ev.todo) = OnlySend
         /\ what = "send" => Tail(ev.todo) = << >> /\ ev.todo = OnlySend
         /\ what = "load" => Tail(ev.todo) = Do("store")
         /\ what = "store" => Tail(ev.todo) = << >>
  <1>0. ev.todo # << >> /\ Head(ev.todo).do = what /\ ev.p \in Pcbs
    BY Accessing DEF Access
  <1>1. asked[ev.p] \subseteq Remotes
    BY <1>0 DEF TypeOK, HistoryOK
  <1>2. ASSUME NEW a \in asked[ev.p], ev.todo = FromAddr(a)
        PROVE  a \in Remotes /\ what = "faddr" /\ Tail(ev.todo) = FromPort(a)
               /\ Head(ev.todo).v = a[1]
    BY <1>0, <1>1, <1>2, ConnectShape
  <1>3. ASSUME NEW a \in asked[ev.p], ev.todo = FromPort(a)
        PROVE  a \in Remotes /\ what = "fport" /\ Tail(ev.todo) = BindTwice
               /\ Head(ev.todo).v = a[2]
    BY <1>0, <1>1, <1>3, ConnectShape
  <1>4. ev.todo = BindTwice => what = "bind" /\ Tail(ev.todo) = BindSend
    BY <1>0, SendShape
  <1>5. ev.todo = BindSend => what = "bind" /\ Tail(ev.todo) = OnlySend
    BY <1>0, SendShape
  <1>6. ev.todo = OnlySend => what = "send" /\ Tail(ev.todo) = << >>
    BY <1>0, SendShape
  <1>7. ev.todo = tx => what = "load" /\ Tail(ev.todo) = Do("store")
    BY <1>0, TxAlone
  <1>8. ev.todo = Do("store") => what = "store" /\ Tail(ev.todo) = << >>
    BY <1>0, TxAlone
  <1>9. \/ \E a \in asked[ev.p] : \/ ev.todo = FromAddr(a)
                                  \/ ev.todo = FromPort(a) /\ pcb[ev.p].faddr # 0
        \/ ev.todo = BindTwice /\ pcb[ev.p].fport # 0
        \/ ev.todo \in {BindSend, OnlySend, tx, Do("store")}
    BY <1>0 DEF TodoInv
  <1> QED
    BY <1>2, <1>3, <1>4, <1>5, <1>6, <1>7, <1>8, <1>9

-----------------------------------------------------------------------------
\* The steps of the event loop.
LEMMA IdleUnsent ==
  ASSUME NEW p, Unsent(p)
  PROVE  ev.todo # << >>
  BY SendShape DEF Unsent

LEMMA NewPcbPeers ==
  ASSUME TypeOK, TodoInv, PeerInv, NEW kind \in Kinds, newPcb(kind)
  PROVE  TodoInv' /\ PeerInv'
  <1> PICK p \in Pcbs : /\ ev.todo = << >> /\ pcb' = [pcb EXCEPT ![p] = NewPcb(kind)]
                        /\ UNCHANGED <<ev, asked, early>>
    BY DEF newPcb, Request
  <1>1. ASSUME NEW q \in Pcbs PROVE PeerOf(q)'
    <2>1. CASE q = p
      BY <2>1 DEF PeerOf, TypeOK, PcbsOK, NewPcb, NoPcb
    <2>2. CASE q # p
      BY <2>2, IdleUnsent, PeerStays DEF PeerInv, SameToWalk, TypeOK, PcbsOK
    <2> QED
      BY <2>1, <2>2
  <1> QED
    BY <1>1 DEF TodoInv, PeerInv

LEMMA RequestPeers ==
  ASSUME TypeOK, TodoInv, PeerInv, NEW p \in Open("UDP") \cup Open("TCP"),
         Close(p) \/ Connect(p) \/ Send(p) \/ (p \in Open("UDP") /\ SendTo(p))
  PROVE  TodoInv' /\ PeerInv'
  <1>0. ev.todo = << >> /\ early' = early /\ p \in Pcbs
    BY DEF Close, Connect, Send, SendTo, Request, history, Open
  <1>1. ASSUME NEW q \in Pcbs PROVE PeerOf(q)'
    <2>1. \/ SameToWalk(q) /\ pcb'[q].state = pcb[q].state /\ asked[q] \subseteq asked'[q]
          \/ Close(p)
      BY <1>0 DEF Connect, Send, SendTo, history, SameToWalk, TypeOK, HistoryOK
    <2>2. CASE Close(p)
      BY <1>0, <2>2, IdleUnsent DEF Close, PeerInv, PeerOf, Tcp, TypeOK, PcbsOK, PcbType
    <2> QED
      BY <1>0, <2>1, <2>2, IdleUnsent, PeerStays DEF PeerInv
  <1>2. ASSUME Close(p) PROVE TodoInv'
    BY <1>0, <1>2 DEF Close, TodoInv
  <1>3. ASSUME Connect(p) PROVE TodoInv'
    <2> PICK a \in Remotes :
          /\ Begin(p, IF pcb[p].kind = "TCP" THEN TcpConnect(a) ELSE connect(a))
          /\ asked' = [asked EXCEPT ![p] = @ \cup {a}] /\ pcb' = pcb
      BY <1>3 DEF Connect
    <2>1. a \in asked'[p] /\ ev'.p = p
      BY <1>0 DEF TypeOK, HistoryOK, Begin
    <2>2. pcb'[p].kind = "TCP" => ev'.todo = FromAddr(a)
      BY ConnectShape DEF Begin
    <2>3. FromAddr(a)' = FromAddr(a)
      BY DEF FromAddr, FromPort, BindTwice, BindSend, OnlySend
    <2>4. CASE pcb'[p].kind # "TCP"
      BY <2>1, <2>4 DEF TodoInv, Tcp
    <2>5. CASE pcb'[p].kind = "TCP"
      <3>1. \E d \in asked'[p] : ev'.todo = FromAddr(d)'
        BY <2>1, <2>2, <2>3, <2>5
      <3> QED
        BY <2>1, <3>1 DEF TodoInv
    <2> QED
      BY <2>4, <2>5
  <1>4. ASSUME Send(p) PROVE TodoInv'
    <2>1. ev'.todo = BindSend
      BY <1>4, SendShape DEF Send, Begin
    <2> QED
      BY <2>1 DEF TodoInv, BindSend, OnlySend
  <1>5. ASSUME p \in Open("UDP"), SendTo(p) PROVE TodoInv'
    BY <1>5 DEF SendTo, Begin, Open, TodoInv, Tcp
  <1> QED
    BY <1>1, <1>2, <1>3, <1>4, <1>5 DEF PeerInv

\* An access of a Pcb that is not a TcpPcb, or of another.
LEMMA OtherPeers ==
  ASSUME TypeOK, PeerInv, NEW e \in Pcbs, e = ev.p, NEW b, pcb' = [pcb EXCEPT ![e] = b],
         b.kind = pcb[e].kind, UNCHANGED asked,
         \A q \in Pcbs \ {e} : early'[q] = early[q],
         Tcp(e) => PeerOf(e)'
  PROVE  PeerInv'
  <1>1. ASSUME NEW q \in Pcbs, q # e PROVE PeerOf(q)'
    <2>1. pcb'[q] = pcb[q] /\ ~ Unsent(q)
      BY <1>1 DEF TypeOK, PcbsOK, Unsent
    <2> QED
      BY <1>1, <2>1, PeerStays DEF PeerInv, SameToWalk
  <1>2. ~ Tcp(e) => PeerOf(e)'
    BY DEF PeerOf, Tcp, TypeOK, PcbsOK
  <1> QED
    BY <1>1, <1>2 DEF PeerInv

\* What the event loop's Pcb has left is in order.
LEMMA TodoGives ==
  ASSUME NEW e, e = ev.p, ev'.todo = << >> \/ ev'.p = e, pcb'[e].kind = pcb[e].kind,
         Tcp(e) => \/ ev'.todo \in {<< >>, BindSend, OnlySend, tx, Do("store")}
                   \/ ev'.todo = BindTwice /\ pcb'[e].fport # 0
                   \/ \E a \in asked'[e] : ev'.todo = FromPort(a) /\ pcb'[e].faddr # 0
  PROVE  TodoInv'
  <1>1. \A a : FromAddr(a)' = FromAddr(a) /\ FromPort(a)' = FromPort(a)
    BY DEF FromAddr, FromPort, BindTwice, BindSend, OnlySend
  <1>2. BindTwice' = BindTwice /\ BindSend' = BindSend /\ OnlySend' = OnlySend /\ tx' = tx
        /\ Do("store")' = Do("store")
    BY DEF BindTwice, BindSend, OnlySend, tx, Do
  <1>3. CASE ev'.todo = << >>
    BY <1>3 DEF TodoInv
  <1>4. CASE ev'.todo # << >> /\ ev'.p = e
    <2> SUFFICES ASSUME Tcp(e)
                 PROVE  \/ \E a \in asked'[e] : \/ ev'.todo = FromAddr(a)
                                                \/ ev'.todo = FromPort(a) /\ pcb'[e].faddr # 0
                        \/ ev'.todo = BindTwice /\ pcb'[e].fport # 0
                        \/ ev'.todo \in {BindSend, OnlySend, tx, Do("store")}
      BY <1>1, <1>2, <1>4 DEF TodoInv, Tcp
    <2> QED
      BY <1>4
  <1> QED
    BY <1>3, <1>4

LEMMA GoesOn ==
  ASSUME NEW rest, Goes(rest)
  PROVE  ev'.todo = rest /\ (rest = << >> \/ ev'.p = ev.p)
  BY DEF Goes, Begin

LEMMA EvSetPeers ==
  ASSUME TypeOK, TodoInv, PeerInv, NEW field \in {"faddr", "fport"}, EvSet(field)
  PROVE  TodoInv' /\ PeerInv'
  <1> DEFINE v == Head(ev.todo).v
  <1>0. ev.p \in Pcbs /\ Access(field) /\ Goes(Tail(ev.todo)) /\ UNCHANGED <<asked, early>>
        /\ pcb' = [pcb EXCEPT ![ev.p][field] = v] /\ ev.todo # OnlySend
    <2>1. Access(field)
      BY DEF EvSet
    <2>2. ev.todo # OnlySend
      BY <2>1, SendShape DEF Access
    <2> QED
      BY <2>1, <2>2, Accessing DEF EvSet
  <1> SUFFICES ASSUME NEW e \in Pcbs, e = ev.p PROVE TodoInv' /\ PeerInv'
    BY <1>0
  <1>1. ~ Unsent(e)
    BY <1>0 DEF Unsent
  <1>2. PeerOf(e) /\ pcb[e] \in PcbType
    BY DEF PeerInv, TypeOK, PcbsOK
  <1>3. ev'.todo = Tail(ev.todo) /\ (Tail(ev.todo) = << >> \/ ev'.p = e)
    BY <1>0 DEF Goes, Begin
  <1>4. ASSUME field = "faddr" PROVE TodoInv' /\ PeerInv'
    <2>1. pcb' = [pcb EXCEPT ![e] = [pcb[e] EXCEPT !.faddr = v]]
          /\ pcb'[e] = [pcb[e] EXCEPT !.faddr = v]
          /\ [pcb[e] EXCEPT !.faddr = v].kind = pcb[e].kind
      BY <1>0, <1>2, <1>4 DEF TypeOK, PcbsOK, PcbType
    <2>2. Tcp(e) => \E a \in asked[e] : a \in Remotes /\ Tail(ev.todo) = FromPort(a) /\ v = a[1]
      BY <1>0, <1>4, TcpAccess
    <2> HIDE DEF v
    <2>3. /\ pcb'[e].faddr = v /\ pcb'[e].kind = pcb[e].kind /\ pcb'[e].fport = pcb[e].fport
          /\ pcb'[e].lport = pcb[e].lport /\ pcb'[e].state = pcb[e].state
      BY <1>2, <2>1 DEF PcbType
    <2>4. Tcp(e) => v # 0
      BY <2>2, RemoteAssumption
    <2>5. Tcp(e) => PeerOf(e)'
      BY <1>0, <1>1, <1>2, <2>2, <2>3, <2>4 DEF PeerOf, Tcp
    <2>6. PeerInv'
      BY <1>0, <2>1, <2>5, OtherPeers
    <2>7. TodoInv'
      BY <1>0, <1>3, <2>2, <2>3, <2>4, TodoGives
    <2> QED
      BY <2>6, <2>7
  <1>5. ASSUME field = "fport" PROVE TodoInv' /\ PeerInv'
    <2>1. pcb' = [pcb EXCEPT ![e] = [pcb[e] EXCEPT !.fport = v]]
          /\ pcb'[e] = [pcb[e] EXCEPT !.fport = v]
          /\ [pcb[e] EXCEPT !.fport = v].kind = pcb[e].kind
      BY <1>0, <1>2, <1>5 DEF TypeOK, PcbsOK, PcbType
    <2>2. Tcp(e) => /\ pcb[e].faddr # 0 /\ Tail(ev.todo) = BindTwice
                    /\ \E a \in asked[e] : a \in Remotes /\ v = a[2]
      BY <1>0, <1>5, TcpAccess
    <2> HIDE DEF v
    <2>3. /\ pcb'[e].fport = v /\ pcb'[e].kind = pcb[e].kind /\ pcb'[e].faddr = pcb[e].faddr
          /\ pcb'[e].lport = pcb[e].lport /\ pcb'[e].state = pcb[e].state
      BY <1>2, <2>1 DEF PcbType
    <2>4. Tcp(e) => v # 0
      BY <2>2, RemoteAssumption
    <2>5. Tcp(e) => PeerOf(e)'
      BY <1>0, <1>1, <1>2, <2>2, <2>3, <2>4 DEF PeerOf, Tcp
    <2>6. PeerInv'
      BY <1>0, <2>1, <2>5, OtherPeers
    <2>7. TodoInv'
      BY <1>0, <1>3, <2>2, <2>3, <2>4, TodoGives
    <2> QED
      BY <2>6, <2>7
  <1> QED
    BY <1>4, <1>5

LEMMA EvBindPeers ==
  ASSUME TypeOK, TodoInv, PeerInv, EvBind
  PROVE  TodoInv' /\ PeerInv'
  <1>0. ev.p \in Pcbs /\ Access("bind") /\ Goes(Tail(ev.todo)) /\ UNCHANGED <<asked, early>>
        /\ ev.todo # OnlySend
    <2>1. Access("bind")
      BY DEF EvBind
    <2>2. ev.todo # OnlySend
      BY <2>1, SendShape DEF Access
    <2> QED
      BY <2>1, <2>2, Accessing DEF EvBind
  <1> SUFFICES ASSUME NEW e \in Pcbs, e = ev.p PROVE TodoInv' /\ PeerInv'
    BY <1>0
  <1>1. ~ Unsent(e)
    BY <1>0 DEF Unsent
  <1>2. PeerOf(e) /\ pcb[e] \in PcbType
    BY DEF PeerInv, TypeOK, PcbsOK
  <1>3. ev'.todo = Tail(ev.todo) /\ (Tail(ev.todo) = << >> \/ ev'.p = e)
    BY <1>0 DEF Goes, Begin
  <1>4. Tcp(e) => \/ Tail(ev.todo) = BindSend /\ pcb[e].fport # 0
                  \/ Tail(ev.todo) = OnlySend
    BY <1>0, TcpAccess
  <1>5. \E n : /\ pcb' = [pcb EXCEPT ![e] = [pcb[e] EXCEPT !.lport = n]]
               /\ pcb[e].lport # 0 => n = pcb[e].lport
    <2>1. CASE pcb[e].lport # 0
      <3>1. pcb' = pcb
        BY <2>1 DEF EvBind
      <3>2. pcb = [pcb EXCEPT ![e] = [pcb[e] EXCEPT !.lport = pcb[e].lport]]
        BY <1>2 DEF TypeOK, PcbsOK, PcbType
      <3> QED
        BY <3>1, <3>2
    <2>2. CASE pcb[e].lport = 0
      BY <2>2 DEF EvBind, TypeOK, PcbsOK
    <2> QED
      BY <2>1, <2>2
  <1> PICK n : /\ pcb' = [pcb EXCEPT ![e] = [pcb[e] EXCEPT !.lport = n]]
               /\ pcb[e].lport # 0 => n = pcb[e].lport
    BY <1>5
  <1>6. pcb'[e] = [pcb[e] EXCEPT !.lport = n]
    BY DEF TypeOK, PcbsOK
  <1>7. /\ pcb'[e].faddr = pcb[e].faddr /\ pcb'[e].kind = pcb[e].kind
        /\ pcb'[e].fport = pcb[e].fport /\ pcb'[e].lport = n /\ pcb'[e].state = pcb[e].state
    BY <1>2, <1>6 DEF PcbType
  <1>8. ASSUME Tcp(e) PROVE PeerOf(e)'
    <2>1. OnlySend' = OnlySend
      BY DEF OnlySend
    <2>2. ASSUME ~ early[e], pcb[e].fport = 0 PROVE Unsent(e)'
      <3>1. pcb[e].state = "CLOSED" /\ Tail(ev.todo) = OnlySend
        BY <1>2, <1>4, <1>8, <2>2 DEF PeerOf
      <3>2. ev'.p = e /\ ev'.todo = OnlySend
        BY <1>3, <3>1, SendShape
      <3> QED
        BY <1>7, <1>8, <2>1, <2>2, <3>1, <3>2 DEF Unsent, Tcp
    <2> QED
      BY <1>0, <1>1, <1>2, <1>7, <1>8, <2>2 DEF PeerOf, Tcp
  <1>9. PeerInv'
    <2>1. [pcb[e] EXCEPT !.lport = n].kind = pcb[e].kind
      BY <1>6, <1>7
    <2> QED
      BY <1>0, <1>8, <2>1, OtherPeers
  <1>10. TodoInv'
    BY <1>3, <1>4, <1>7, TodoGives
  <1> QED
    BY <1>9, <1>10

LEMMA EvSendPeers ==
  ASSUME TypeOK, TodoInv, PeerInv, EvSend
  PROVE  TodoInv' /\ PeerInv'
  <1>0. ev.p \in Pcbs /\ Access("send") /\ UNCHANGED asked
    BY Accessing DEF EvSend
  <1> SUFFICES ASSUME NEW e \in Pcbs, e = ev.p PROVE TodoInv' /\ PeerInv'
    BY <1>0
  <1> DEFINE syn == pcb[e].kind = "TCP" /\ pcb[e].state = "CLOSED"
             b == IF syn THEN [pcb[e] EXCEPT !.state = "SYN_SENT"] ELSE pcb[e]
  <1>1. PeerOf(e) /\ pcb[e] \in PcbType
    BY DEF PeerInv, TypeOK, PcbsOK
  <1>2. pcb' = [pcb EXCEPT ![e] = b] /\ pcb'[e] = b
    BY DEF EvSend, TypeOK, PcbsOK
  <1>3. early' = [early EXCEPT ![e] = @ \/ (syn /\ pcb[e].fport = 0)]
    BY DEF EvSend
  <1>4. /\ b.faddr = pcb[e].faddr /\ b.kind = pcb[e].kind /\ b.fport = pcb[e].fport
        /\ b.lport = pcb[e].lport
        /\ b.state = IF syn THEN "SYN_SENT" ELSE pcb[e].state
    BY <1>1 DEF PcbType
  <1> HIDE DEF b
  <1>5. early'[e] <=> early[e] \/ (syn /\ pcb[e].fport = 0)
    BY <1>3 DEF TypeOK, HistoryOK
  <1>6. \A q \in Pcbs \ {e} : early'[q] = early[q]
    BY <1>3 DEF TypeOK, HistoryOK
  <1>7. Tcp(e) => PeerOf(e)'
    <2> SUFFICES ASSUME Tcp(e) PROVE PeerOf(e)'
      OBVIOUS
    <2>1. Unsent(e) => syn /\ pcb[e].fport = 0
      BY DEF Unsent, Tcp
    <2>2. pcb[e].lport # 0 => early'[e] \/ pcb[e].fport # 0
      BY <1>1, <1>5, <2>1 DEF PeerOf
    <2>3. b.state # "CLOSED" => early'[e] \/ pcb[e].fport # 0
      BY <1>1, <1>4, <1>5 DEF PeerOf, Tcp
    <2> QED
      BY <1>0, <1>1, <1>2, <1>4, <2>2, <2>3 DEF PeerOf, Tcp
  <1>8. PeerInv'
    BY <1>0, <1>2, <1>4, <1>6, <1>7, OtherPeers
  <1>9. TodoInv'
    <2>1. Goes(Tail(ev.todo)) \/ Goes(tx \o Tail(ev.todo))
      BY DEF EvSend
    <2>2. Tcp(e) => Tail(ev.todo) = << >>
      BY <1>0, TcpAccess
    <2>3. Tcp(e) => ev'.todo \in {<< >>, tx}
      <3>1. ev'.todo \in {Tail(ev.todo), tx \o Tail(ev.todo)}
        BY <2>1, GoesOn
      <3> QED
        BY <2>2, <3>1, TxAlone
    <2>4. ev'.todo = << >> \/ ev'.p = e
      BY <2>1, GoesOn
    <2> QED
      BY <1>2, <1>4, <2>3, <2>4, TodoGives
  <1> QED
    BY <1>8, <1>9

LEMMA EvIdsPeers ==
  ASSUME TypeOK, TodoInv, PeerInv, EvLoad \/ EvStore
  PROVE  TodoInv' /\ PeerInv'
  <1>0. ev.p \in Pcbs /\ ev.todo # << >> /\ UNCHANGED <<pcb, asked, early>>
    BY Accessing DEF EvLoad, EvStore, Access, history
  <1> SUFFICES ASSUME NEW e \in Pcbs, e = ev.p PROVE TodoInv' /\ PeerInv'
    BY <1>0
  <1>1. ev'.todo = Tail(ev.todo) /\ (Tail(ev.todo) = << >> \/ ev'.p = e)
    <2>1. CASE EvLoad
      BY <2>1 DEF EvLoad, TypeOK, EvOK
    <2>2. CASE EvStore
      BY <2>2, GoesOn DEF EvStore
    <2> QED
      BY <2>1, <2>2
  <1>2. Tcp(e) => Tail(ev.todo) \in {<< >>, Do("store")}
    BY TcpAccess DEF EvLoad, EvStore
  <1>3. TodoInv'
    BY <1>0, <1>1, <1>2, TodoGives
  <1>4. ev.todo # OnlySend
    BY SendShape DEF EvLoad, EvStore, Access
  <1>5. PeerInv'
    BY <1>0, <1>4, PeerStays DEF PeerInv, SameToWalk, Unsent
  <1> QED
    BY <1>3, <1>5

LEMMA EventLoopPeers ==
  ASSUME TypeOK, TodoInv, PeerInv, EventLoop
  PROVE  TodoInv' /\ PeerInv'
  <1>1. ASSUME NEW p \in Open("UDP") \cup Open("TCP"), Close(p) \/ Connect(p) \/ Send(p)
        PROVE  TodoInv' /\ PeerInv'
    BY <1>1, RequestPeers
  <1>2. ASSUME NEW p \in Open("UDP"), SendTo(p) PROVE TodoInv' /\ PeerInv'
    BY <1>2, RequestPeers
  <1> QED
    BY <1>1, <1>2, NewPcbPeers, EvSetPeers, EvBindPeers, EvSendPeers, EvIdsPeers
    DEF EventLoop

-----------------------------------------------------------------------------
\* What was given to connect and what was sent early stays so, and a bound Pcb that
\* is about to send without an address has then sent early.
Grows(p) == /\ asked[p] \subseteq asked'[p] /\ (early[p] => early'[p])
            /\ Unsent(p) => early'[p] \/ Unsent(p)'

LEMMA SameGrows ==
  ASSUME UNCHANGED <<pcb, ev, asked, early>>, NEW p
  PROVE  Grows(p)
  BY DEF Grows, Unsent, Tcp

LEMMA EventLoopGrows ==
  ASSUME TypeOK, EventLoop \/ UNCHANGED vars, NEW p \in Pcbs
  PROVE  Grows(p)
  <1>1. asked[p] \subseteq asked'[p]
    <2>1. ASSUME NEW q, Connect(q) PROVE asked[p] \subseteq asked'[p]
      BY <2>1 DEF Connect, TypeOK, HistoryOK
    <2>2. CASE UNCHANGED asked
      BY <2>2
    <2> QED
      BY <2>1, <2>2 DEF EventLoop, newPcb, Close, Send, SendTo, EvSet, EvBind, EvSend, EvLoad,
        EvStore, vars, history
  <1>2. early[p] => early'[p]
    <2>1. ASSUME EvSend, NEW b, b = (pcb[ev.p].kind = "TCP" /\ pcb[ev.p].state = "CLOSED"
                                     /\ pcb[ev.p].fport = 0)
          PROVE  early[p] => early'[p]
      <3>1. early' = [early EXCEPT ![ev.p] = @ \/ b]
        BY <2>1 DEF EvSend
      <3> QED
        BY <3>1 DEF TypeOK, HistoryOK
    <2>2. CASE UNCHANGED early
      BY <2>2
    <2> QED
      BY <2>1, <2>2 DEF EventLoop, newPcb, Close, Connect, Send, SendTo, EvSet, EvBind, EvLoad,
        EvStore, vars, history
  <1>3. ASSUME Unsent(p) PROVE early'[p] \/ Unsent(p)'
    <2>0. /\ ev.todo # << >> /\ Head(ev.todo).do = "send" /\ ev.p = p
          /\ pcb[p].kind = "TCP" /\ pcb[p].state = "CLOSED" /\ pcb[p].fport = 0
      BY <1>3, SendShape DEF Unsent, Tcp
    <2>1. ASSUME EvSend PROVE early'[p]
      BY <2>0, <2>1 DEF EvSend, TypeOK, HistoryOK
    <2>2. ASSUME UNCHANGED vars PROVE Unsent(p)'
      BY <1>3, <2>2, SameGrows DEF vars, history, Unsent, Tcp
    <2> QED
      BY <2>0, <2>1, <2>2 DEF EventLoop, newPcb, Close, Connect, Send, SendTo, EvSet, EvBind,
        EvLoad, EvStore, Request, Access
  <1> QED
    BY <1>1, <1>2, <1>3 DEF Grows

LEMMA ClaimsGrow ==
  ASSUME NEW p, Grows(p), ip'.pkt = ip.pkt
  PROVE  (PortClaim(p) => PortClaim(p)') /\ (AddrClaim(p) => AddrClaim(p)')
  BY DEF Grows, PortClaim, AddrClaim

\* The steps of the walk.
LEMMA WalkClaims ==
  ASSUME TypeOK, KeptInv, PeerInv, ClaimInv, ReadLport \/ ReadFport \/ ReadFaddr \/ EndOfList
  PROVE  ClaimInv'
  <1>0. /\ Walking /\ ip \in IpType /\ ip.pkt \in Packets
        /\ UNCHANGED <<pcb, ev, asked, early>> /\ ip'.pkt = ip.pkt
    <2>1. Walking /\ ip \in IpType /\ UNCHANGED <<pcb, ev, asked, early>>
      BY DEF ReadLport, ReadFport, ReadFaddr, EndOfList, Reads, At, Walking, TypeOK, IpOK,
        history
    <2>2. ip'.pkt = ip.pkt
      BY <2>1 DEF ReadLport, ReadFport, ReadFaddr, EndOfList, Continue, IpType
    <2> QED
      BY <2>1, <2>2, PcKinds
  <1> SUFFICES ASSUME ip.pkt.kind = "TCP", ip.pkt.dport # 0
               PROVE  /\ ip'.pc = "faddr" => PortClaim(ip'.p)
                      /\ ip'.to # 0 => PortClaim(ip'.to) /\ AddrClaim(ip'.to)
    <2>1. OnlySend' = OnlySend
      BY DEF OnlySend
    <2> QED
      BY <1>0, <2>1 DEF ClaimInv, PortClaim, AddrClaim, Unsent, Tcp
  <1>2. ip.to # 0 => PortClaim(ip.to) /\ AddrClaim(ip.to)
    BY <1>0 DEF ClaimInv
  <1>3. ASSUME Reading
        PROVE  \/ early[ip.p] \/ Unsent(ip.p)
               \/ /\ pcb[ip.p].fport # 0 /\ \E a \in asked[ip.p] : pcb[ip.p].fport = a[2]
                  /\ pcb[ip.p].faddr # 0 /\ \E a \in asked[ip.p] : pcb[ip.p].faddr = a[1]
    <2>1. ip.p \in Pcbs /\ Tcp(ip.p)
      BY <1>3 DEF TypeOK, IpOK, Reading, IsOf, Tcp
    <2>2. pcb[ip.p].lport # 0
      BY <1>3 DEF KeptInv
    <2> QED
      BY <2>1, <2>2 DEF PeerInv, PeerOf
  <1>4. ASSUME ReadLport
        PROVE  ip'.pc # "faddr" /\ ip'.to = ip.to
    BY <1>0, <1>4 DEF ReadLport, Reads, At, IpType
  <1>5. ASSUME ReadFport
        PROVE  /\ ip'.pc = "faddr" => PortClaim(ip'.p)
               /\ ip'.to = ip.to
    <2>1. Reading
      BY <1>5 DEF ReadFport, Reads, At, Reading
    <2>2. ip'.to = ip.to
      BY <1>0, <1>5 DEF ReadFport, Continue, IpType
    <2>3. ip'.pc = "faddr" => ip'.p = ip.p /\ pcb[ip.p].fport \in {0, ip.pkt.sport}
      BY <1>0, <1>5 DEF ReadFport, Continue, Curr, IpType
    <2> QED
      BY <1>3, <2>1, <2>2, <2>3 DEF PortClaim
  <1>6. ASSUME ReadFaddr
        PROVE  /\ ip'.pc # "faddr"
               /\ ip'.to # 0 => PortClaim(ip'.to) /\ AddrClaim(ip'.to)
    <2>1. Reading /\ ip.pc = "faddr"
      BY <1>6 DEF ReadFaddr, Reads, At, Reading
    <2>2. PortClaim(ip.p)
      BY <1>0, <2>1 DEF ClaimInv
    <2>3. ip'.pc = "lport" /\ ip'.to \in {ip.to, ip.p}
      BY <1>0, <1>6 DEF ReadFaddr, Continue, IpType
    <2>4. ip'.to # ip.to => in_addr_match(pcb[ip.p].faddr, ip.pkt.saddr) # 2
      BY <1>0, <1>6 DEF ReadFaddr, Continue, Curr, IpType
    <2>5. in_addr_match(pcb[ip.p].faddr, ip.pkt.saddr) # 2
          => pcb[ip.p].faddr = 0 \/ pcb[ip.p].faddr = ip.pkt.saddr
      BY DEF in_addr_match
    <2>6. ip'.to # ip.to => AddrClaim(ip.p)
      BY <1>3, <2>1, <2>4, <2>5 DEF AddrClaim
    <2> QED
      BY <1>2, <2>2, <2>3, <2>6
  <1>7. ASSUME EndOfList
        PROVE  ip'.pc # "faddr" /\ ip'.to = ip.to
    BY <1>0, <1>7 DEF EndOfList, IpType
  <1>8. ip'.to = ip.to => (ip'.to # 0 => PortClaim(ip'.to) /\ AddrClaim(ip'.to))
    BY <1>2
  <1> QED
    BY <1>4, <1>5, <1>6, <1>7, <1>8

LEMMA ClaimStep == TypeOK /\ KeptInv /\ PeerInv /\ ClaimInv /\ [Next]_vars => ClaimInv'
  <1> SUFFICES ASSUME TypeOK, KeptInv, PeerInv, ClaimInv, [Next]_vars PROVE ClaimInv'
    OBVIOUS
  <1>0. ip \in IpType
    BY DEF TypeOK, IpOK
  <1>1. CASE ~ Walking'
    BY <1>1 DEF ClaimInv
  <1>2. ASSUME EventLoop \/ UNCHANGED vars PROVE ClaimInv'
    <2>1. ip' = ip
      BY <1>2 DEF EventLoop, newPcb, Close, Connect, Send, SendTo, EvSet, EvBind, EvSend,
        EvLoad, EvStore, vars
    <2>2. \A p \in Pcbs : (PortClaim(p) => PortClaim(p)') /\ (AddrClaim(p) => AddrClaim(p)')
      BY <1>2, <2>1, EventLoopGrows, ClaimsGrow
    <2> SUFFICES ASSUME Walking, ip.pkt.kind = "TCP", ip.pkt.dport # 0,
                        NEW p \in Pcbs
                 PROVE  /\ ip.pc = "faddr" /\ p = ip.p => PortClaim(p)'
                        /\ p = ip.to => PortClaim(p)' /\ AddrClaim(p)'
      <3>1. ip.pc = "faddr" => ip.p \in Pcbs
        BY PcKinds
      <3>2. ip.to # 0 => ip.to \in Pcbs
        BY <1>0 DEF IpType
      <3> QED
        BY <2>1, <3>1, <3>2 DEF ClaimInv, Walking, PortClaim, AddrClaim, Unsent, Tcp
    <2>3. p # 0
      BY DEF Pcbs
    <2> QED
      BY <2>2, <2>3 DEF ClaimInv
  <1>3. ASSUME NEW pkt \in Packets, Take(pkt) PROVE ClaimInv'
    BY <1>0, <1>3 DEF Take, ClaimInv, IpType
  <1>4. ASSUME Recv \/ IpLoad \/ IpStore PROVE ~ Walking'
    BY <1>0, <1>4, PastWalk
  <1> QED
    BY <1>1, <1>2, <1>3, <1>4, WalkClaims DEF Next, IpThread

-----------------------------------------------------------------------------
\* The IP thread leaves the peers alone.
LEMMA IpPeers ==
  ASSUME TypeOK, TodoInv, PeerInv, IpThread \/ UNCHANGED vars
  PROVE  TodoInv' /\ PeerInv'
  <1>1. ASSUME UNCHANGED <<pcb, ev, asked, early>> PROVE TodoInv' /\ PeerInv'
    BY <1>1, PeerStays DEF TodoInv, PeerInv, Tcp, FromAddr, FromPort, BindTwice, BindSend,
      OnlySend, tx, Do, SameToWalk, Unsent
  <1>2. ASSUME Recv, Opens PROVE TodoInv' /\ PeerInv'
    <2>0. ip.to \in Pcbs /\ pcb[ip.to].state = "SYN_SENT"
      BY <1>2 DEF Opens, TypeOK, IpOK, IpType
    <2> SUFFICES ASSUME NEW t \in Pcbs, t = ip.to PROVE TodoInv' /\ PeerInv'
      BY <2>0
    <2>1. pcb' = [pcb EXCEPT ![t].state = "ESTABLISHED"] /\ UNCHANGED <<ev, asked, early>>
      BY <1>2 DEF Recv
    <2>2. /\ \A q \in Pcbs : SameToWalk(q) /\ (q # t => pcb'[q] = pcb[q])
          /\ pcb'[t].state = "ESTABLISHED"
      BY <2>1 DEF SameToWalk, TypeOK, PcbsOK, PcbType
    <2>3. ~ Unsent(t)
      BY <2>0 DEF Unsent
    <2>4. ASSUME NEW q \in Pcbs, q # t PROVE PeerOf(q)'
      BY <2>1, <2>2, <2>4, PeerStays DEF PeerInv, Unsent, Tcp
    <2>5. PeerOf(t)'
      BY <2>0, <2>1, <2>2, <2>3 DEF PeerInv, PeerOf, SameToWalk, Tcp
    <2>6. TodoInv'
      <3>1. ev.todo # << >> => ev.p \in Pcbs
        BY DEF TypeOK, EvOK
      <3>2. UNCHANGED <<ev, asked>>
        BY <2>1
      <3>3. ev.todo # << >> => /\ pcb'[ev.p].kind = pcb[ev.p].kind
                               /\ pcb'[ev.p].fport = pcb[ev.p].fport
                               /\ pcb'[ev.p].faddr = pcb[ev.p].faddr
        BY <2>2, <3>1 DEF SameToWalk
      <3> QED
        BY <3>2, <3>3 DEF TodoInv, Tcp, FromAddr, FromPort, BindTwice, BindSend, OnlySend, tx, Do
    <2> QED
      BY <2>4, <2>5, <2>6 DEF PeerInv
  <1>3. ASSUME Recv, ~ Opens PROVE TodoInv' /\ PeerInv'
    BY <1>1, <1>3 DEF Recv
  <1> QED
    BY <1>1, <1>2, <1>3 DEF IpThread, Take, ReadLport, ReadFport, ReadFaddr, Reads, EndOfList,
      IpLoad, IpStore, vars, history

\* The segment that establishes a TcpPcb.
LEMMA OpenerStep ==
  TypeOK /\ ClaimInv /\ EstablishedByPeer /\ [Next]_vars => EstablishedByPeer'
  <1> SUFFICES ASSUME TypeOK, ClaimInv, EstablishedByPeer, [Next]_vars
               PROVE  EstablishedByPeer'
    OBVIOUS
  <1>1. \A p \in Pcbs : asked[p] \subseteq asked'[p] /\ (early[p] => early'[p])
    <2>1. ASSUME IpThread PROVE asked' = asked /\ early' = early
      BY <2>1 DEF IpThread, Take, ReadLport, ReadFport, ReadFaddr, Reads, EndOfList, Recv,
        IpLoad, IpStore, history
    <2> QED
      BY <2>1, EventLoopGrows DEF Next, Grows
  <1>2. ASSUME UNCHANGED opener PROVE EstablishedByPeer'
    BY <1>1, <1>2 DEF EstablishedByPeer
  <1>3. ASSUME Recv, Opens PROVE EstablishedByPeer'
    <2>1. /\ Walking /\ ip.to \in Pcbs /\ ip.to # 0 /\ ip.pkt.kind = "TCP"
          /\ pcb[ip.to].state = "SYN_SENT"
      BY <1>3 DEF Recv, At, Opens, TypeOK, IpOK, IpType, Walking, IsOf
    <2> SUFFICES ASSUME NEW t \in Pcbs, t = ip.to PROVE EstablishedByPeer'
      BY <2>1
    <2>2. opener' = [opener EXCEPT ![t] = ip.pkt] /\ UNCHANGED <<asked, early>>
      BY <1>3 DEF Recv
    <2>3. opener'[t] = ip.pkt /\ \A q \in Pcbs \ {t} : opener'[q] = opener[q]
      BY <2>2 DEF TypeOK, HistoryOK
    <2>4. ASSUME ~ early[t], ip.pkt.dport # 0
          PROVE  \E a, b \in asked[t] : ip.pkt.saddr = a[1] /\ ip.pkt.sport = b[2]
      <3>1. PortClaim(t) /\ AddrClaim(t) /\ ~ Unsent(t)
        BY <2>1, <2>4 DEF ClaimInv, Unsent
      <3> QED
        BY <2>4, <3>1 DEF PortClaim, AddrClaim
    <2>5. ASSUME NEW p \in Pcbs, opener'[p] # << >>, ~ early'[p], opener'[p].dport # 0
          PROVE  \E a, b \in asked'[p] : opener'[p].saddr = a[1] /\ opener'[p].sport = b[2]
      <3>1. CASE p = t
        BY <2>2, <2>3, <2>4, <2>5, <3>1
      <3>2. CASE p # t
        BY <2>2, <2>3, <2>5, <3>2 DEF EstablishedByPeer
      <3> QED
        BY <3>1, <3>2
    <2> QED
      BY <2>5 DEF EstablishedByPeer
  <1>4. ASSUME Recv, ~ Opens PROVE UNCHANGED opener
    BY <1>4 DEF Recv
  <1>5. ASSUME EventLoop PROVE UNCHANGED opener
    BY <1>5 DEF EventLoop, newPcb, Close, Connect, Send, SendTo, EvSet, EvBind, EvSend, EvLoad,
      EvStore, Touch, history
  <1> QED
    BY <1>2, <1>3, <1>4, <1>5 DEF Next, IpThread, Take, ReadLport, ReadFport, ReadFaddr, Reads,
      EndOfList, IpLoad, IpStore, vars, history

(* A TcpPcb is established by a segment from the addresses connect was      *)
(* given, wherever the walk and the operations of the Pcb meet.             *)
THEOREM PeerEstablishes == Spec => []EstablishedByPeer
  <1> DEFINE Inv == TypeOK /\ KeptInv /\ ConnInv
  <1>1. Init => Inv
    BY TypeInit, WalkInit, ConnInit
  <1>2. Inv /\ [Next]_vars => Inv'
    <2> SUFFICES ASSUME Inv, [Next]_vars PROVE Inv'
      OBVIOUS
    <2>1. TypeOK' /\ KeptInv'
      BY TypeStep, KeptStep
    <2>2. TodoInv' /\ PeerInv'
      BY EventLoopPeers, IpPeers DEF ConnInv, Next
    <2>3. ClaimInv' /\ EstablishedByPeer'
      BY ClaimStep, OpenerStep DEF ConnInv
    <2> QED
      BY <2>1, <2>2, <2>3 DEF ConnInv
  <1>3. Inv => EstablishedByPeer
    BY DEF ConnInv
  <1> QED
    BY <1>1, <1>2, <1>3, PTL DEF Spec
=============================================================================
