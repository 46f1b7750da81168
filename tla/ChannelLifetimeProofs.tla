----------------------- MODULE ChannelLifetimeProofs -----------------------
(***************************************************************************)
(* Proofs about ChannelLifetime, for every set of clients.                 *)
(***************************************************************************)
EXTENDS ChannelLifetime, SequenceTheorems, TLAPS

(***************************************************************************)
(* The names of channels.                                                  *)
(***************************************************************************)

LEMMA ChannelNames ==
    /\ Listener \in Channels
    /\ \A c \in Clients : Rr(c) \in Channels /\ Pipe(c) \in Channels /\ Estab(c) \in Channels
    /\ \A ch \in Channels : ch = Listener \/ \E c \in Clients : ch \in {Rr(c), Pipe(c), Estab(c)}
BY DEF Channels, Owned

LEMMA NamesDiffer ==
    /\ \A c : Rr(c) # Listener /\ Pipe(c) # Listener /\ Estab(c) # Listener
    /\ \A c, d : Rr(c) # Pipe(d) /\ Rr(c) # Estab(d) /\ Pipe(c) # Estab(d)
BY DEF Rr, Pipe, Estab, Listener

LEMMA NamesTell ==
    /\ \A c : Rr(c)[2] = c /\ Pipe(c)[2] = c /\ Estab(c)[2] = c
    /\ \A c, d : Rr(c) = Rr(d) \/ Pipe(c) = Pipe(d) \/ Estab(c) = Estab(d) => c = d
BY DEF Rr, Pipe, Estab, Listener

\* Every channel but the listener names its client.
LEMMA NameOfClient ==
    ASSUME NEW ch \in Channels, ch # Listener
    PROVE  ch[2] \in Clients /\ ch \in {Rr(ch[2]), Pipe(ch[2]), Estab(ch[2])}
BY ChannelNames, NamesTell

(***************************************************************************)
(* Types.                                                                  *)
(***************************************************************************)

LEMMA LiveAreChannels == LiveChannels \subseteq Channels
BY ChannelNames, ClientsAssumption DEF LiveChannels

LEMMA IdleTypes ==
    /\ Idle \in LoopStates
    /\ IpIdle \in [at : {"idle", "pcb", "socket", "put", "callback", "answered", "done"},
                   c : Clients]
BY ChannelNames, ClientsAssumption DEF Idle, IpIdle, LoopStates, NoAnswer

LEMMA TypeInit == Init => TypeOK
<1> SUFFICES ASSUME Init PROVE TypeOK
    OBVIOUS
<1>1. registered \subseteq Channels
    BY ChannelNames DEF Init
<1>2. queued \in [Clients -> 0 .. MaxQueued]
    BY BoundAssumption DEF Init
<1>3. resp \in [Clients -> Seq({"wait", "final"})]
    BY DEF Init
<1>4. loop.at # "reply"
    BY DEF Init, Idle
<1>5. QED BY <1>1, <1>2, <1>3, <1>4, IdleTypes DEF Init, TypeOK

ClientTypes ==
    /\ conn \in [Clients -> {"new", "open", "closed"}]
    /\ busy \in [Clients -> BOOLEAN] /\ reset \in [Clients -> BOOLEAN]
    /\ req \in [Clients -> Calls \cup {"none"}]
    /\ resp \in [Clients -> Seq({"wait", "final"})]
ObjectTypes ==
    /\ listed \subseteq accepted /\ sockets \subseteq accepted /\ accepted \subseteq Clients
    /\ registered \subseteq Channels /\ batch \subseteq Channels
SocketTypes ==
    /\ link \in [Clients -> {"down", "pending", "up"}]
    /\ pipe \in [Clients -> BOOLEAN] /\ waiting \in [Clients -> BOOLEAN]
    /\ queued \in [Clients -> 0 .. MaxQueued]
LoopType == loop \in LoopStates /\ (loop.at = "reply" => loop.answer # NoAnswer)
PlaceTypes ==
    /\ LoopType
    /\ ip \in [at : {"idle", "pcb", "socket", "put", "callback", "answered", "done"},
               c : Clients]
FaultTypes ==
    /\ failed \subseteq Clients
    /\ fault \in {<<>>} \cup {"batch", "running", "self", "null", "race"} \X Clients
    /\ up \in BOOLEAN

Types == ClientTypes /\ ObjectTypes /\ SocketTypes /\ PlaceTypes /\ FaultTypes

LEMMA TypeParts == TypeOK <=> Types
BY DEF TypeOK, Types, ClientTypes, ObjectTypes, SocketTypes, PlaceTypes, LoopType, FaultTypes

LEMMA FaultTypesKept ==
    ASSUME FaultTypes, failed' \subseteq Clients,
           \/ NoFault
           \/ \E c \in Clients, kind \in {"batch", "running", "self", "null", "race"} : Fault(kind, c)
    PROVE  FaultTypes'
BY DEF FaultTypes, NoFault, Fault

LEMMA LoopPlace ==
    ASSUME LoopType, NEW place \in {"poll", "enter", "take", "leave"}, Goto(place)
    PROVE  LoopType' /\ loop'.at = place /\ loop'.ch = loop.ch
BY DEF LoopType, LoopStates, Goto

LEMMA LoopReply ==
    ASSUME LoopType, NEW answer \in {"wait", "final"}, Reply(answer)
    PROVE  LoopType' /\ loop'.at = "reply" /\ loop'.ch = loop.ch
BY DEF LoopType, LoopStates, Reply, NoAnswer

\* What a write, failed or not, does to the channels and the Responses.
LEMMA WriteEffect ==
    ASSUME ClientTypes, ObjectTypes, FaultTypes,
           NEW c \in Clients, NEW answer \in {"wait", "final"}, NEW chs, Write(c, answer, chs)
    PROVE  /\ resp' \in [Clients -> Seq({"wait", "final"})]
           /\ listed' = listed
           /\ registered' \subseteq chs \cap LiveChannels'
           /\ failed' \subseteq Clients
<1>1. CASE conn[c] # "closed"
    <2>1. /\ resp' = [resp EXCEPT ![c] = Append(@, answer)]
          /\ listed' = listed /\ failed' = failed
          /\ registered' = chs \cap LiveChannels'
        BY <1>1 DEF Write, Destruct
    <2>2. resp' \in [Clients -> Seq({"wait", "final"})]
        BY <2>1 DEF ClientTypes
    <2>3. QED BY <2>1, <2>2 DEF FaultTypes
<1>2. CASE conn[c] = "closed"
    <2>1. /\ failed' = failed \cup {c} /\ resp' = resp /\ listed' = listed
          /\ registered' = (chs \ {Rr(c)}) \cap LiveChannels'
        BY <1>2 DEF Write, Destruct
    <2>2. QED BY <2>1 DEF FaultTypes, ClientTypes
<1>3. QED BY <1>1, <1>2

\* What the application does changes nothing of the daemon's.
LEMMA ApplicationTypes ==
    ASSUME Types, NEW c \in Clients, Application(c)
    PROVE  Types'
<1> USE DEF Types
<1>1. ObjectTypes' /\ SocketTypes' /\ PlaceTypes'
    BY DEF Application, objectVars, socketVars, ObjectTypes, SocketTypes, PlaceTypes, LoopType
<1>2. FaultTypes'
    BY FaultTypesKept DEF Application, FaultTypes
<1>3. ASSUME Connect(c) PROVE ClientTypes'
    BY <1>3 DEF Connect, ClientTypes
<1>4. ASSUME Call(c) PROVE ClientTypes'
    <2>1. PICK k \in Legal(c) : req' = [req EXCEPT ![c] = k]
        BY <1>4 DEF Call
    <2>2. k \in Calls
        BY DEF Legal, Calls
    <2>3. QED BY <1>4, <2>1, <2>2 DEF Call, ClientTypes
<1>5. ASSUME Receive(c) PROVE ClientTypes'
    <2>1. resp' \in [Clients -> Seq({"wait", "final"})]
        BY <1>5 DEF Receive, ClientTypes
    <2>2. QED BY <1>5, <2>1 DEF Receive, ClientTypes
<1>6. ASSUME Close(c) PROVE ClientTypes'
    <2>1. resp' \in [Clients -> Seq({"wait", "final"})]
        BY <1>6 DEF Close, ClientTypes
    <2>2. QED BY <1>6, <2>1 DEF Close, ClientTypes
<1>7. QED
    BY <1>1, <1>2, <1>3, <1>4, <1>5, <1>6 DEF Application

\* The steps of the event loop that concern no client in particular.
LEMMA LoopTypes ==
    ASSUME Types, Poll \/ Dispatch \/ EnterDestroyed \/ Leave \/ Accept
    PROVE  Types'
<1> USE DEF Types
<1>1. CASE Poll
    <2>1. batch' \subseteq Channels /\ NoFault
        BY <1>1 DEF Poll, ObjectTypes
    <2>2. FaultTypes'
        BY <1>1, <2>1, FaultTypesKept DEF Poll, FaultTypes
    <2>3. QED BY <1>1, <2>1, <2>2
          DEF Poll, clientVars, objectVars, socketVars, ClientTypes, ObjectTypes, SocketTypes,
              PlaceTypes, LoopType
<1>2. CASE Dispatch
    <2>1. PICK ch \in batch :
              /\ batch' = batch \ {ch}
              /\ \/ /\ loop' = [at |-> "enter", ch |-> ch, answer |-> NoAnswer]
                    /\ NoFault
                 \/ /\ ch \notin LiveChannels
                    /\ Fault("batch", ch[2])
                    /\ UNCHANGED loop
        BY <1>2 DEF Dispatch
    <2>2. ch \in Channels
        BY DEF ObjectTypes
    <2>3. LoopType'
        BY <2>1, <2>2 DEF PlaceTypes, LoopType, LoopStates, NoAnswer
    <2>4. ch \notin LiveChannels => ch[2] \in Clients
        BY <2>2, NameOfClient DEF LiveChannels
    <2>5. failed' = failed
        BY <1>2 DEF Dispatch
    <2>6. FaultTypes'
        BY <2>1, <2>4, <2>5, FaultTypesKept DEF FaultTypes
    <2>7. QED BY <1>2, <2>1, <2>3, <2>6
          DEF Dispatch, clientVars, objectVars, socketVars, ClientTypes, ObjectTypes, SocketTypes, PlaceTypes
<1>3. loop.ch \in Channels /\ (loop.ch \notin LiveChannels => loop.ch[2] \in Clients)
    BY NameOfClient DEF PlaceTypes, LoopType, LoopStates, LiveChannels
<1>4. CASE EnterDestroyed
    <2>1. LoopType'
        BY <1>4, LoopPlace DEF EnterDestroyed, PlaceTypes
    <2>2. FaultTypes'
        BY <1>3, <1>4, FaultTypesKept DEF EnterDestroyed, FaultTypes
    <2>3. QED BY <1>4, <2>1, <2>2
          DEF EnterDestroyed, clientVars, objectVars, socketVars, ClientTypes, ObjectTypes, SocketTypes, PlaceTypes
<1>5. CASE Leave
    <2>1. FaultTypes'
        BY <1>3, <1>5, FaultTypesKept DEF Leave, FaultTypes
    <2>2. LoopType'
        BY <1>5, IdleTypes DEF Leave, LoopType, Idle
    <2>3. QED BY <1>5, <2>1, <2>2
          DEF Leave, clientVars, objectVars, socketVars, ClientTypes, ObjectTypes, SocketTypes, PlaceTypes
<1>6. CASE Accept
    <2>1. LoopType'
        BY <1>6, LoopPlace DEF Accept, PlaceTypes
    <2>2. FaultTypes'
        BY <1>6, FaultTypesKept DEF Accept, FaultTypes
    <2>3. ObjectTypes'
        BY <1>6, ChannelNames DEF Accept, ObjectTypes
    <2>4. QED BY <1>6, <2>1, <2>2, <2>3
          DEF Accept, clientVars, socketVars, ClientTypes, SocketTypes, PlaceTypes
<1>7. QED BY <1>1, <1>2, <1>4, <1>5, <1>6

LoopClient(c) == \/ ReadEof(c) \/ ReadReset(c) \/ ReadRequest(c)
                 \/ Answer(c) \/ sChannelReadCb(c) \/ onAsyncNewPacket(c)

\* The steps of the event loop for one client.
LEMMA LoopClientTypes ==
    ASSUME Types, NEW c \in Clients, LoopClient(c)
    PROVE  Types'
<1> USE DEF Types
<1>1. CASE ReadEof(c)
    <2>1. LoopType'
        BY <1>1, LoopPlace DEF ReadEof, PlaceTypes
    <2>2. FaultTypes'
        BY <1>1, FaultTypesKept DEF ReadEof, FaultTypes
    <2>3. ObjectTypes'
        BY <1>1 DEF ReadEof, removeRRChannel, Destruct, ObjectTypes
    <2>4. QED BY <1>1, <2>1, <2>2, <2>3
          DEF ReadEof, clientVars, socketVars, ClientTypes, SocketTypes, PlaceTypes
<1>2. CASE ReadReset(c)
    <2>1. LoopType'
        BY <1>2 DEF ReadReset, PlaceTypes, LoopType, LoopStates, NoAnswer
    <2>2. FaultTypes'
        BY <1>2, FaultTypesKept DEF ReadReset, FaultTypes
    <2>3. reset' \in [Clients -> BOOLEAN]
        BY <1>2 DEF ReadReset, ClientTypes
    <2>4. QED BY <1>2, <2>1, <2>2, <2>3
          DEF ReadReset, objectVars, socketVars, ClientTypes, ObjectTypes, SocketTypes, PlaceTypes
<1>3. CASE ReadRequest(c)
    <2>1. /\ req' = [req EXCEPT ![c] = "none"]
          /\ UNCHANGED <<conn, busy, resp, reset, batch, ip, failed>>
          /\ NoFault
        BY <1>3 DEF ReadRequest
    <2>2. ClientTypes'
        BY <2>1 DEF ClientTypes
    <2>3. FaultTypes'
        BY <2>1, FaultTypesKept DEF FaultTypes
    <2>4. ip' \in [at : {"idle", "pcb", "socket", "put", "callback", "answered", "done"},
                   c : Clients]
        BY <2>1 DEF PlaceTypes
    <2>5. LoopType
        BY DEF PlaceTypes
    <2>6. CASE socketCall(c)
        <3>1. LoopType'
            BY <2>5, <2>6, LoopReply DEF socketCall
        <3>2. c \in accepted
            BY <1>3, ChannelNames, NamesDiffer, NamesTell
               DEF ReadRequest, Entered, LiveChannels, RrLives
        <3>3. ObjectTypes'
            BY <2>1, <2>6, <3>2, ChannelNames DEF socketCall, ObjectTypes
        <3>4. SocketTypes'
            BY <2>6 DEF socketCall, socketVars, SocketTypes
        <3>5. QED BY <2>2, <2>3, <2>4, <3>1, <3>3, <3>4 DEF PlaceTypes
    <2>7. CASE openCall(c)
        <3>1. LoopType'
            BY <2>5, <2>7, LoopReply DEF openCall
        <3>2. ObjectTypes' /\ SocketTypes'
            BY <2>1, <2>7 DEF openCall, objectVars, ObjectTypes, SocketTypes
        <3>3. QED BY <2>2, <2>3, <2>4, <3>1, <3>2 DEF PlaceTypes
    <2>8. CASE recvfromCall(c)
        <3>1. LoopType'
            BY <2>5, <2>8, LoopReply DEF recvfromCall
        <3>2. ObjectTypes'
            BY <2>1, <2>8 DEF recvfromCall, objectVars, ObjectTypes
        <3>3. queued' \in [Clients -> 0 .. MaxQueued]
            BY <2>8, BoundAssumption DEF recvfromCall, SocketTypes
        <3>4. waiting' \in [Clients -> BOOLEAN]
            BY <2>8 DEF recvfromCall, SocketTypes
        <3>5. QED BY <2>2, <2>3, <2>4, <2>8, <3>1, <3>2, <3>3, <3>4
              DEF recvfromCall, SocketTypes, PlaceTypes
    <2>9. CASE closeCall(c)
        <3>1. LoopType'
            BY <2>5, <2>9, LoopReply DEF closeCall
        <3>2. ObjectTypes' /\ SocketTypes'
            BY <2>1, <2>9 DEF closeCall, objectVars, socketVars, ObjectTypes, SocketTypes
        <3>3. QED BY <2>2, <2>3, <2>4, <3>1, <3>2 DEF PlaceTypes
    <2>10. QED BY <1>3, <2>6, <2>7, <2>8, <2>9 DEF ReadRequest
<1>4. CASE Answer(c)
    <2>1. LoopType' /\ ip' = ip
        BY <1>4, LoopPlace DEF Answer, PlaceTypes
    <2>2. loop.answer \in {"wait", "final"}
        BY <1>4 DEF Answer, PlaceTypes, LoopType, LoopStates, NoAnswer
    <2>3. /\ resp' \in [Clients -> Seq({"wait", "final"})]
          /\ listed' = listed /\ registered' \subseteq registered
          /\ failed' \subseteq Clients
        BY <1>4, <2>2, WriteEffect DEF Answer
    <2>4. FaultTypes'
        BY <1>4, <2>3, FaultTypesKept DEF Answer
    <2>5. ClientTypes' /\ ObjectTypes' /\ SocketTypes'
        BY <1>4, <2>3 DEF Answer, socketVars, ClientTypes, ObjectTypes, SocketTypes
    <2>6. QED BY <2>1, <2>4, <2>5 DEF PlaceTypes
<1>5. CASE sChannelReadCb(c)
    <2>1. LoopType' /\ ip' = ip
        BY <1>5, LoopPlace DEF sChannelReadCb, PlaceTypes
    <2>2. FaultTypes'
        BY <1>5, FaultTypesKept DEF sChannelReadCb, FaultTypes
    <2>3. pipe' \in [Clients -> BOOLEAN] /\ waiting' \in [Clients -> BOOLEAN]
        BY <1>5 DEF sChannelReadCb, SocketTypes
    <2>4. QED BY <1>5, <2>1, <2>2, <2>3
          DEF sChannelReadCb, clientVars, objectVars, ClientTypes, ObjectTypes, SocketTypes, PlaceTypes
<1>6. CASE onAsyncNewPacket(c)
    <2>1. LoopType' /\ ip' = ip
        BY <1>6, LoopPlace DEF onAsyncNewPacket, PlaceTypes
    <2>2. /\ resp' \in [Clients -> Seq({"wait", "final"})]
          /\ listed' = listed /\ registered' \subseteq registered
          /\ failed' \subseteq Clients
        BY <1>6, WriteEffect DEF onAsyncNewPacket
    <2>3. FaultTypes'
        BY <1>6, <2>2, FaultTypesKept DEF onAsyncNewPacket
    <2>4. queued' \in [Clients -> 0 .. MaxQueued]
        BY <1>6, BoundAssumption DEF onAsyncNewPacket, SocketTypes
    <2>5. waiting' \in [Clients -> BOOLEAN]
        BY <1>6 DEF onAsyncNewPacket, SocketTypes
    <2>6. ClientTypes' /\ ObjectTypes' /\ SocketTypes'
        BY <1>6, <2>2, <2>4, <2>5 DEF onAsyncNewPacket, ClientTypes, ObjectTypes, SocketTypes
    <2>7. QED BY <2>1, <2>3, <2>6 DEF PlaceTypes
<1>7. QED BY <1>1, <1>2, <1>3, <1>4, <1>5, <1>6 DEF LoopClient

LEMMA IpPlace ==
    ASSUME PlaceTypes, loop' = loop,
           NEW place \in {"pcb", "socket", "put", "callback", "answered", "done"}, IpGoto(place)
    PROVE  PlaceTypes' /\ ip'.at = place /\ ip'.c = ip.c
BY DEF PlaceTypes, LoopType, IpGoto

\* A change of the registered channels by the IP thread.
LEMMA IpChangesTypes ==
    ASSUME FaultTypes, failed' \subseteq Clients, NEW c \in Clients, IpChangesChannels(c)
    PROVE  FaultTypes'
BY FaultTypesKept DEF IpChangesChannels

\* The steps of the IP thread.
LEMMA IpTypes ==
    ASSUME Types, IpStep \/ \E c \in Clients : IpArrival(c)
    PROVE  Types'
<1> USE DEF Types
<1>1. UNCHANGED <<conn, busy, req, reset, batch, loop>>
    BY DEF IpStep, IpArrival
<1>2. ip.c \in Clients
    BY DEF PlaceTypes
<1>3. ASSUME NEW c \in Clients, IpFind(c) PROVE Types'
    <2>1. FaultTypes'
        BY <1>3, FaultTypesKept DEF IpFind, FaultTypes
    <2>2. QED BY <1>1, <1>3, <2>1
          DEF IpFind, objectVars, socketVars, ClientTypes, ObjectTypes, SocketTypes, PlaceTypes, LoopType
<1>4. CASE IpLockSocket(ip.c)
    <2>1. FaultTypes'
        BY <1>2, <1>4, FaultTypesKept DEF IpLockSocket, FaultTypes, NoFault, Fault
    <2>2. PlaceTypes'
        BY <1>1, <1>4, IpPlace DEF IpLockSocket, PlaceTypes, LoopType
    <2>3. QED BY <1>1, <1>4, <2>1, <2>2
          DEF IpLockSocket, objectVars, socketVars, ClientTypes, ObjectTypes, SocketTypes
<1>5. CASE IpPut(ip.c)
    <2>1. FaultTypes'
        BY <1>5, FaultTypesKept DEF IpPut, FaultTypes
    <2>2. PlaceTypes'
        BY <1>1, <1>5, IpPlace DEF IpPut
    <2>3. queued' \in [Clients -> 0 .. MaxQueued]
        BY <1>2, <1>5, BoundAssumption DEF IpPut, SocketTypes
    <2>4. pipe' \in [Clients -> BOOLEAN]
        BY <1>5 DEF IpPut, SocketTypes
    <2>5. QED BY <1>1, <1>5, <2>1, <2>2, <2>3, <2>4
          DEF IpPut, objectVars, ClientTypes, ObjectTypes, SocketTypes
<1>6. CASE IpAck(ip.c)
    <2>1. FaultTypes'
        BY <1>6, FaultTypesKept DEF IpAck, FaultTypes
    <2>2. PlaceTypes'
        BY <1>1, <1>6, IpPlace DEF IpAck
    <2>3. QED BY <1>1, <1>6, <2>1, <2>2
          DEF IpAck, objectVars, socketVars, ClientTypes, ObjectTypes, SocketTypes
<1>7. CASE IpEstablish(ip.c)
    <2>1. FaultTypes'
        BY <1>7, FaultTypesKept DEF IpEstablish, FaultTypes
    <2>2. PlaceTypes'
        BY <1>1, <1>7, IpPlace DEF IpEstablish
    <2>3. QED BY <1>1, <1>7, <2>1, <2>2
          DEF IpEstablish, objectVars, ClientTypes, ObjectTypes, SocketTypes
<1>8. CASE IpAnswer(ip.c)
    <2>1. /\ resp' \in [Clients -> Seq({"wait", "final"})]
          /\ listed' = listed /\ registered' \subseteq registered
          /\ failed' \subseteq Clients
        BY <1>2, <1>8, WriteEffect DEF IpAnswer
    <2>2. FaultTypes'
        BY <1>2, <1>8, <2>1, IpChangesTypes DEF IpAnswer
    <2>3. PlaceTypes'
        BY <1>1, <1>8, IpPlace DEF IpAnswer
    <2>4. QED BY <1>1, <1>8, <2>1, <2>2, <2>3
          DEF IpAnswer, socketVars, ClientTypes, ObjectTypes, SocketTypes
<1>9. CASE IpRelease(ip.c)
    <2>1. FaultTypes'
        BY <1>2, <1>9, IpChangesTypes DEF IpRelease, FaultTypes
    <2>2. PlaceTypes'
        BY <1>1, <1>9, IpPlace, IdleTypes DEF IpRelease, PlaceTypes, LoopType
    <2>3. registered' \subseteq registered
        BY <1>9 DEF IpRelease, Destruct
    <2>4. QED BY <1>1, <1>9, <2>1, <2>2, <2>3
          DEF IpRelease, socketVars, ClientTypes, ObjectTypes, SocketTypes
<1>10. QED BY <1>3, <1>4, <1>5, <1>6, <1>7, <1>8, <1>9 DEF IpStep, IpArrival

LEMMA StutterTypes == Types /\ UNCHANGED vars => Types'
BY DEF vars, clientVars, objectVars, socketVars, Types, ClientTypes, ObjectTypes, SocketTypes,
       PlaceTypes, LoopType, FaultTypes

LEMMA TypeStep == Types /\ [Next]_vars => Types'
BY ApplicationTypes, LoopTypes, LoopClientTypes, IpTypes, StutterTypes
   DEF Next, EventLoop, LoopClient

\* The objects of the daemon have their types: every list, batch and holder
\* names channels and clients that exist.
THEOREM TypeCorrect == Spec => []TypeOK
<1>1. Init => Types
    BY TypeInit, TypeParts
<1>2. Types => TypeOK
    BY TypeParts
<1>3. QED BY <1>1, <1>2, TypeStep, PTL DEF Spec

(***************************************************************************)
(* Ownership.  What the event loop refers to has existed (RefsKnown), what *)
(* it has registered still lives (RegisteredLive), Mux lists every client  *)
(* that has not closed (OpenListed), and the IP thread holds a Pcb that    *)
(* belongs to a Socket (IpOnSocket).  None is inductive without the rest:  *)
(* a registered channel stays alive because the step that drops the last   *)
(* holder destroys it, a listed one because only EOF removes it.           *)
(***************************************************************************)

KnownChannels ==
    {Listener} \cup {Rr(c) : c \in accepted}
        \cup {Pipe(c) : c \in sockets} \cup {Estab(c) : c \in sockets \cap Tcp}

RefsKnown == batch \cup {loop.ch} \subseteq KnownChannels
RegisteredLive == registered \subseteq LiveChannels
OpenListed ==
    \A c \in accepted : conn[c] = "closed" \/ (conn[c] = "open" /\ c \in listed)
IpOnSocket ==
    /\ ip.at # "idle" => ip.c \in sockets
    /\ ip.at \in {"callback", "answered"} => ip.c \in Tcp
    /\ \A c \in Clients : link[c] = "pending" => c \in Tcp

OwnInv == RefsKnown /\ RegisteredLive /\ OpenListed /\ IpOnSocket

\* What lives has been made.
LEMMA LiveKnown == LiveChannels \subseteq KnownChannels
BY ClientsAssumption DEF LiveChannels, KnownChannels, RrLives, SocketLives, PcbLives

\* Everything of a listed client lives.
LEMMA ListedLive ==
    ASSUME Types, NEW c \in Clients, c \in listed
    PROVE  /\ RrLives(c)
           /\ c \in sockets => SocketLives(c) /\ PcbLives(c)
           /\ KnownChannels \cap {Rr(c), Pipe(c), Estab(c)} \subseteq LiveChannels
<1>1. RrLives(c) /\ (c \in sockets => SocketLives(c) /\ PcbLives(c))
    BY DEF Types, ObjectTypes, RrLives, SocketLives, PcbLives
<1>2. Pipe(c) \in KnownChannels => c \in sockets
    BY NamesDiffer, NamesTell DEF KnownChannels
<1>3. Estab(c) \in KnownChannels => c \in sockets \cap Tcp
    BY NamesDiffer, NamesTell DEF KnownChannels
<1>4. Rr(c) \in LiveChannels
    BY <1>1 DEF LiveChannels
<1>5. c \in sockets => Pipe(c) \in LiveChannels
    BY <1>1 DEF LiveChannels
<1>6. c \in sockets \cap Tcp => Estab(c) \in LiveChannels
    BY <1>1 DEF LiveChannels
<1>7. QED BY <1>1, <1>2, <1>3, <1>4, <1>5, <1>6

\* Nothing dies in a step that takes no holder away.
LEMMA LivesKept ==
    ASSUME accepted \subseteq accepted', listed \subseteq listed', sockets \subseteq sockets',
           \A c \in Clients : /\ LoopHoldsRr(c) => LoopHoldsRr(c)'
                              /\ IpHoldsRr(c) => IpHoldsRr(c)'
                              /\ IpHoldsSocket(c) => IpHoldsSocket(c)'
                              /\ IpHoldsPcb(c) => IpHoldsPcb(c)'
    PROVE  LiveChannels \subseteq LiveChannels'
<1>1. \A c \in Clients : RrLives(c) => RrLives(c)'
    BY DEF RrLives, CallbackHoldsRr
<1>2. \A c \in Clients : SocketLives(c) => SocketLives(c)'
    BY <1>1 DEF SocketLives
<1>3. \A c \in Clients : PcbLives(c) => PcbLives(c)'
    BY <1>2 DEF PcbLives
<1>4. QED BY <1>1, <1>2, <1>3, ClientsAssumption DEF LiveChannels

LEMMA KnownKept ==
    ASSUME accepted \subseteq accepted', sockets \subseteq sockets'
    PROVE  KnownChannels \subseteq KnownChannels'
BY DEF KnownChannels

LEMMA OwnInit == Init => OwnInv
<1> SUFFICES ASSUME Init PROVE OwnInv
    OBVIOUS
<1>1. RegisteredLive
    BY DEF Init, RegisteredLive, LiveChannels
<1>2. RefsKnown
    BY DEF Init, RefsKnown, Idle, KnownChannels
<1>3. IpOnSocket
    BY DEF Init, IpOnSocket, IpIdle
<1>4. QED BY <1>1, <1>2, <1>3 DEF Init, OwnInv, OpenListed

\* The application changes no holder; a connection that was accepted is open.
LEMMA ApplicationOwn ==
    ASSUME Types, OwnInv, NEW c \in Clients, Application(c)
    PROVE  OwnInv'
<1>1. UNCHANGED <<accepted, listed, sockets, registered, batch, loop, ip, link>>
    BY DEF Application, objectVars, socketVars
<1>2. RegisteredLive'
    BY <1>1, LivesKept
       DEF OwnInv, RegisteredLive, LoopHoldsRr, IpHoldsRr, IpHoldsSocket, IpHoldsPcb, IpHolds
<1>3. RefsKnown' /\ IpOnSocket'
    BY <1>1, KnownKept DEF OwnInv, RefsKnown, IpOnSocket
<1>4. \A d \in Clients : conn[d] # "new" => \/ conn'[d] = conn[d]
                                            \/ conn'[d] = "closed"
    BY DEF Application, Connect, Call, Receive, Close, Types, ClientTypes
<1>5. OpenListed'
    BY <1>1, <1>4 DEF OwnInv, OpenListed, Types, ObjectTypes
<1>6. QED BY <1>2, <1>3, <1>5 DEF OwnInv

\* A step of the event loop that is not at a callback's end loses no holder.
LEMMA LoopKeepsLives ==
    ASSUME accepted \subseteq accepted', listed \subseteq listed', sockets \subseteq sockets',
           ip' = ip, loop.at \notin {"take", "reply"} \/ loop' = loop
    PROVE  LiveChannels \subseteq LiveChannels'
<1>1. \A c \in Clients : LoopHoldsRr(c) => LoopHoldsRr(c)'
    BY DEF LoopHoldsRr
<1>2. \A c \in Clients : /\ IpHoldsRr(c) => IpHoldsRr(c)'
                         /\ IpHoldsSocket(c) => IpHoldsSocket(c)'
                         /\ IpHoldsPcb(c) => IpHoldsPcb(c)'
    BY DEF IpHoldsRr, IpHoldsSocket, IpHoldsPcb, IpHolds
<1>3. QED BY <1>1, <1>2, LivesKept

LEMMA LoopOwn ==
    ASSUME Types, OwnInv, Poll \/ Dispatch \/ EnterDestroyed \/ Leave \/ Accept
    PROVE  OwnInv'
<1>1. UNCHANGED <<conn, sockets, link, ip>>
    BY DEF Poll, Dispatch, EnterDestroyed, Leave, Accept, clientVars, objectVars, socketVars
<1>2. loop.at \notin {"take", "reply"}
    BY DEF Poll, Dispatch, EnterDestroyed, Leave, Accept, Entered
<1>3. /\ accepted \subseteq accepted' /\ listed \subseteq listed'
      /\ UNCHANGED <<accepted, listed, registered>> \/ Accept
    BY DEF Poll, Dispatch, EnterDestroyed, Leave, Accept, objectVars
<1>4. LiveChannels \subseteq LiveChannels'
    BY <1>1, <1>2, <1>3, LoopKeepsLives
<1>5. registered \subseteq KnownChannels /\ KnownChannels \subseteq KnownChannels'
    BY <1>1, <1>3, LiveKnown, KnownKept DEF OwnInv, RegisteredLive
<1>6. IpOnSocket'
    BY <1>1 DEF OwnInv, IpOnSocket
<1>7. CASE Accept
    <2>1. PICK new : /\ new = {c \in Clients \ accepted : conn[c] # "new"}
                     /\ accepted' = accepted \cup new
                     /\ listed' = listed \cup new
                     /\ registered' = registered \cup {Rr(c) : c \in new}
        BY <1>7 DEF Accept
    <2>2. OpenListed'
        BY <1>1, <2>1 DEF OwnInv, OpenListed, Types, ClientTypes
    <2>3. \A c \in new : RrLives(c)'
        BY <2>1 DEF RrLives
    <2>4. RegisteredLive'
        BY <1>4, <2>1, <2>3 DEF OwnInv, RegisteredLive, LiveChannels
    <2>5. batch' = batch /\ loop'.ch = loop.ch
        BY <1>7, LoopPlace DEF Accept, Types, PlaceTypes
    <2>6. RefsKnown'
        BY <1>5, <2>5 DEF OwnInv, RefsKnown
    <2>7. QED BY <1>6, <2>2, <2>4, <2>6 DEF OwnInv
<1>8. CASE ~Accept
    <2>1. OpenListed' /\ RegisteredLive'
        BY <1>1, <1>3, <1>4, <1>8 DEF OwnInv, OpenListed, RegisteredLive
    <2>2. batch' \subseteq batch \cup registered
        BY <1>8 DEF Poll, Dispatch, EnterDestroyed, Leave
    <2>3. loop'.ch \in batch \cup {loop.ch, Listener}
        <3>1. ASSUME EnterDestroyed PROVE loop'.ch = loop.ch
            BY <3>1, LoopPlace DEF EnterDestroyed, Types, PlaceTypes
        <3>2. QED BY <1>8, <3>1 DEF Poll, Dispatch, Leave, Idle
    <2>4. Listener \in KnownChannels
        BY DEF KnownChannels
    <2>5. RefsKnown'
        BY <1>5, <2>2, <2>3, <2>4 DEF OwnInv, RefsKnown
    <2>6. QED BY <1>6, <2>1, <2>5 DEF OwnInv
<1>9. QED BY <1>7, <1>8

\* What every step of the event loop for a client has in common.
LEMMA LoopClientFrame ==
    ASSUME Types, NEW c \in Clients, LoopClient(c)
    PROVE  /\ UNCHANGED <<conn, accepted, batch, ip>>
           /\ loop'.ch = loop.ch
           /\ listed' = listed \/ (conn[c] = "closed" /\ listed' = listed \ {c})
           /\ sockets' = sockets \/ ReadRequest(c)
<1>1. LoopType
    BY DEF Types, PlaceTypes
<1>2. CASE ReadEof(c)
    BY <1>1, <1>2, LoopPlace DEF ReadEof, removeRRChannel, clientVars
<1>3. CASE ReadReset(c)
    BY <1>1, <1>3 DEF ReadReset, objectVars, LoopType, LoopStates
<1>4. CASE ReadRequest(c)
    BY <1>1, <1>4, LoopReply
       DEF ReadRequest, socketCall, openCall, recvfromCall, closeCall, objectVars
<1>5. CASE Answer(c)
    <2>1. listed' = listed
        BY <1>5 DEF Answer, Write
    <2>2. QED BY <1>1, <1>5, <2>1, LoopPlace DEF Answer
<1>6. CASE sChannelReadCb(c)
    BY <1>1, <1>6, LoopPlace DEF sChannelReadCb, clientVars, objectVars
<1>7. CASE onAsyncNewPacket(c)
    <2>1. listed' = listed
        BY <1>7 DEF onAsyncNewPacket, Write
    <2>2. QED BY <1>1, <1>7, <2>1, LoopPlace DEF onAsyncNewPacket
<1>8. QED BY <1>2, <1>3, <1>4, <1>5, <1>6, <1>7 DEF LoopClient

LEMMA LoopClientOwn ==
    ASSUME Types, OwnInv, NEW c \in Clients, LoopClient(c)
    PROVE  OwnInv'
<1>1. /\ UNCHANGED <<conn, accepted, batch, ip>> /\ loop'.ch = loop.ch
      /\ listed' = listed \/ (conn[c] = "closed" /\ listed' = listed \ {c})
      /\ sockets' = sockets \/ ReadRequest(c)
    BY LoopClientFrame
<1>2. sockets \subseteq sockets'
    BY <1>1 DEF ReadRequest, socketCall, openCall, recvfromCall, closeCall, objectVars
<1>3. RefsKnown'
    BY <1>1, <1>2, KnownKept DEF OwnInv, RefsKnown
<1>4. OpenListed'
    BY <1>1 DEF OwnInv, OpenListed
<1>5. \A d \in Clients : link'[d] = "pending" => link[d] = "pending" \/ d \in Tcp
    <2>1. CASE link' = link
        BY <2>1
    <2>2. CASE openCall(c)
        BY <2>2 DEF openCall, Types, SocketTypes
    <2>3. QED BY <2>1, <2>2
          DEF LoopClient, ReadEof, ReadReset, ReadRequest, Answer, sChannelReadCb,
              onAsyncNewPacket, socketCall, recvfromCall, closeCall, socketVars
<1>6. IpOnSocket'
    BY <1>1, <1>2, <1>5 DEF OwnInv, IpOnSocket
<1>7. ASSUME ReadEof(c) PROVE RegisteredLive'
    BY <1>7 DEF ReadEof, Destruct, RegisteredLive
<1>8. ASSUME ReadReset(c) PROVE RegisteredLive'
    <2>1. LiveChannels \subseteq LiveChannels'
        BY <1>1, <1>8, LoopKeepsLives DEF ReadReset, Entered, objectVars
    <2>2. QED BY <1>8, <2>1 DEF ReadReset, objectVars, OwnInv, RegisteredLive
<1>9. ASSUME ReadRequest(c) PROVE RegisteredLive'
    <2>1. listed' = listed /\ loop.at = "enter" /\ loop.ch = Rr(c)
        BY <1>9 DEF ReadRequest, Entered, socketCall, openCall, recvfromCall, closeCall, objectVars
    <2>2. LiveChannels \subseteq LiveChannels'
        BY <1>1, <1>2, <2>1, LoopKeepsLives
    <2>3. CASE socketCall(c)
        <3>1. /\ sockets' = sockets \cup {c}
              /\ registered' = registered \cup {Pipe(c)} \cup {Estab(d) : d \in {c} \cap Tcp}
            BY <2>3 DEF socketCall
        <3>2. c \in accepted
            BY <2>1, NamesDiffer, NamesTell DEF OwnInv, RefsKnown, KnownChannels
        <3>3. loop'.at = "reply"
            BY <2>3, LoopReply DEF socketCall, Types, PlaceTypes
        <3>4. RrLives(c)'
            BY <1>1, <2>1, <3>2, <3>3 DEF RrLives, LoopHoldsRr
        <3>5. SocketLives(c)' /\ PcbLives(c)'
            BY <3>1, <3>4 DEF SocketLives, PcbLives
        <3>6. Pipe(c) \in LiveChannels' /\ (c \in Tcp => Estab(c) \in LiveChannels')
            BY <3>5 DEF LiveChannels
        <3>7. QED BY <2>2, <3>1, <3>6 DEF OwnInv, RegisteredLive
    <2>4. CASE ~socketCall(c)
        <3>1. registered' = registered
            BY <1>9, <2>4 DEF ReadRequest, openCall, recvfromCall, closeCall, objectVars
        <3>2. QED BY <2>2, <3>1 DEF OwnInv, RegisteredLive
    <2>5. QED BY <2>3, <2>4
<1>10. ASSUME Answer(c) PROVE RegisteredLive'
    <2>1. loop.answer \in {"wait", "final"}
        BY <1>10 DEF Answer, Types, PlaceTypes, LoopType, LoopStates, NoAnswer
    <2>2. QED BY <1>10, <2>1, WriteEffect DEF Answer, RegisteredLive, Types
<1>11. ASSUME sChannelReadCb(c) PROVE RegisteredLive'
    <2>1. LiveChannels \subseteq LiveChannels'
        BY <1>1, <1>11, LoopKeepsLives DEF sChannelReadCb, Entered, objectVars
    <2>2. QED BY <1>11, <2>1 DEF sChannelReadCb, objectVars, OwnInv, RegisteredLive
<1>12. ASSUME onAsyncNewPacket(c) PROVE RegisteredLive'
    BY <1>12, WriteEffect DEF onAsyncNewPacket, RegisteredLive, Types
<1>13. RegisteredLive'
    BY <1>7, <1>8, <1>9, <1>10, <1>11, <1>12 DEF LoopClient
<1>14. QED BY <1>3, <1>4, <1>6, <1>13 DEF OwnInv

\* What the IP thread leaves alone, and where each of its steps leads.
LEMMA IpFrame ==
    ASSUME Types, IpStep \/ \E c \in Clients : IpArrival(c)
    PROVE  UNCHANGED <<conn, accepted, listed, sockets, batch, loop>>
<1>1. ASSUME IpAnswer(ip.c) PROVE listed' = listed
    BY <1>1 DEF IpAnswer, Write
<1>2. QED
    BY <1>1 DEF IpStep, IpArrival, IpFind, IpLockSocket, IpPut, IpAck, IpEstablish, IpAnswer,
                IpRelease, objectVars

\* Until the IP thread lets go of something, nothing dies.
LEMMA IpKeepsLives ==
    ASSUME Types, UNCHANGED <<accepted, listed, sockets, loop>>,
           \/ ip' = ip
           \/ ip.at = "idle"
           \/ ip.at = "pcb" /\ ip'.c = ip.c /\ ip'.at \in {"socket", "callback", "done"}
           \/ ip.at = "socket" /\ ip'.c = ip.c /\ ip'.at = "put"
    PROVE  LiveChannels \subseteq LiveChannels'
<1>1. \A c \in Clients : LoopHoldsRr(c) => LoopHoldsRr(c)'
    BY DEF LoopHoldsRr
<1>2. \A c \in Clients : /\ IpHoldsRr(c) => IpHoldsRr(c)'
                         /\ IpHoldsSocket(c) => IpHoldsSocket(c)'
                         /\ IpHoldsPcb(c) => IpHoldsPcb(c)'
    BY DEF IpHoldsRr, IpHoldsSocket, IpHoldsPcb, IpHolds
<1>3. QED BY <1>1, <1>2, LivesKept

LEMMA IpOwn ==
    ASSUME Types, OwnInv, IpStep \/ \E c \in Clients : IpArrival(c)
    PROVE  OwnInv'
<1>1. UNCHANGED <<conn, accepted, listed, sockets, batch, loop>>
    BY IpFrame
<1>2. RefsKnown' /\ OpenListed'
    BY <1>1, KnownKept DEF OwnInv, RefsKnown, OpenListed
<1>3. ip.c \in Clients /\ PlaceTypes
    BY DEF Types, PlaceTypes
<1>4. ASSUME NEW c \in Clients, IpFind(c) PROVE RegisteredLive' /\ IpOnSocket'
    <2>1. LiveChannels \subseteq LiveChannels' /\ registered' = registered
        BY <1>1, <1>4, IpKeepsLives DEF IpFind, objectVars
    <2>2. c \in sockets
        BY <1>4 DEF IpFind, PcbLives
    <2>3. QED BY <1>1, <1>4, <2>1, <2>2 DEF IpFind, socketVars, OwnInv, RegisteredLive, IpOnSocket
<1>5. ASSUME IpLockSocket(ip.c) PROVE RegisteredLive' /\ IpOnSocket'
    <2>1. ip' = ip \/ (ip'.at = "socket" /\ ip'.c = ip.c)
        BY <1>1, <1>3, <1>5, IpPlace DEF IpLockSocket
    <2>2. LiveChannels \subseteq LiveChannels' /\ registered' = registered
        BY <1>1, <1>5, <2>1, IpKeepsLives DEF IpLockSocket, objectVars
    <2>3. QED BY <1>1, <1>5, <2>1, <2>2
          DEF IpLockSocket, socketVars, OwnInv, RegisteredLive, IpOnSocket
<1>6. ASSUME IpPut(ip.c) PROVE RegisteredLive' /\ IpOnSocket'
    <2>1. ip'.at = "put" /\ ip'.c = ip.c
        BY <1>1, <1>3, <1>6, IpPlace DEF IpPut
    <2>2. LiveChannels \subseteq LiveChannels' /\ registered' = registered
        BY <1>1, <1>6, <2>1, IpKeepsLives DEF IpPut, objectVars
    <2>3. QED BY <1>1, <1>6, <2>1, <2>2 DEF IpPut, OwnInv, RegisteredLive, IpOnSocket
<1>7. ASSUME IpAck(ip.c) PROVE RegisteredLive' /\ IpOnSocket'
    <2>1. ip'.at = "done" /\ ip'.c = ip.c
        BY <1>1, <1>3, <1>7, IpPlace DEF IpAck
    <2>2. LiveChannels \subseteq LiveChannels' /\ registered' = registered
        BY <1>1, <1>7, <2>1, IpKeepsLives DEF IpAck, objectVars
    <2>3. QED BY <1>1, <1>7, <2>1, <2>2 DEF IpAck, socketVars, OwnInv, RegisteredLive, IpOnSocket
<1>8. ASSUME IpEstablish(ip.c) PROVE RegisteredLive' /\ IpOnSocket'
    <2>1. ip'.at \in {"callback", "done"} /\ ip'.c = ip.c
        BY <1>1, <1>3, <1>8, IpPlace DEF IpEstablish
    <2>2. LiveChannels \subseteq LiveChannels' /\ registered' = registered
        BY <1>1, <1>8, <2>1, IpKeepsLives DEF IpEstablish, objectVars
    <2>3. \A d \in Clients : link'[d] = "pending" => link[d] = "pending"
        BY <1>3, <1>8 DEF IpEstablish, Types, SocketTypes
    <2>4. QED BY <1>1, <1>3, <1>8, <2>1, <2>2, <2>3
          DEF IpEstablish, OwnInv, RegisteredLive, IpOnSocket
<1>9. ASSUME IpAnswer(ip.c) PROVE RegisteredLive' /\ IpOnSocket'
    <2>1. ip'.at = "answered" /\ ip'.c = ip.c
        BY <1>1, <1>3, <1>9, IpPlace DEF IpAnswer
    <2>2. registered' \subseteq LiveChannels'
        BY <1>3, <1>9, WriteEffect DEF IpAnswer, Types
    <2>3. QED BY <1>1, <1>9, <2>1, <2>2
          DEF IpAnswer, socketVars, OwnInv, RegisteredLive, IpOnSocket
<1>10. ASSUME IpRelease(ip.c) PROVE RegisteredLive' /\ IpOnSocket'
    <2>1. ip' = IpIdle \/ (ip.at # "idle" /\ ip'.at = "done" /\ ip'.c = ip.c)
        BY <1>1, <1>3, <1>10, IpPlace DEF IpRelease
    <2>2. registered' \subseteq LiveChannels'
        BY <1>10 DEF IpRelease, Destruct
    <2>3. QED BY <1>1, <1>10, <2>1, <2>2
          DEF IpRelease, socketVars, OwnInv, RegisteredLive, IpOnSocket, IpIdle
<1>11. QED
    BY <1>2, <1>4, <1>5, <1>6, <1>7, <1>8, <1>9, <1>10 DEF IpStep, IpArrival, OwnInv

LEMMA OwnStutter == OwnInv /\ UNCHANGED vars => OwnInv'
<1> SUFFICES ASSUME OwnInv, UNCHANGED vars PROVE OwnInv'
    OBVIOUS
<1> USE DEF vars, clientVars, objectVars, socketVars
<1>1. LiveChannels \subseteq LiveChannels'
    BY LivesKept DEF LoopHoldsRr, IpHoldsRr, IpHoldsSocket, IpHoldsPcb, IpHolds
<1>2. KnownChannels \subseteq KnownChannels'
    BY KnownKept
<1>3. QED BY <1>1, <1>2 DEF OwnInv, RefsKnown, RegisteredLive, OpenListed, IpOnSocket

LEMMA OwnStep == Types /\ OwnInv /\ [Next]_vars => OwnInv'
BY ApplicationOwn, LoopOwn, LoopClientOwn, IpOwn, OwnStutter DEF Next, EventLoop, LoopClient

LEMMA Ownership == Spec => [](Types /\ OwnInv)
<1>1. Init => Types
    BY TypeInit, TypeParts
<1>2. QED BY <1>1, OwnInit, TypeStep, OwnStep, PTL DEF Spec

(***************************************************************************)
(* Faults.                                                                 *)
(***************************************************************************)

\* A channel that was made and lives no more belongs to a client that closed.
LEMMA DeadNeedsClose ==
    ASSUME Types, OwnInv, NEW ch \in KnownChannels, ch \notin LiveChannels
    PROVE  ch[2] \in Clients /\ conn[ch[2]] = "closed"
<1>1. ch # Listener
    BY DEF LiveChannels
<1>2. PICK c \in accepted : ch \in {Rr(c), Pipe(c), Estab(c)}
    BY <1>1 DEF KnownChannels, Types, ObjectTypes
<1>3. c \in Clients /\ ch[2] = c
    BY <1>2, NamesTell DEF Types, ObjectTypes
<1>4. c \notin listed
    BY <1>2, <1>3, ListedLive
<1>5. QED BY <1>2, <1>3, <1>4 DEF OwnInv, OpenListed

\* The IP thread, letting go of an open client, is never the last holder.
LEMMA ReleaseOfOpen ==
    ASSUME Types, OwnInv, UNCHANGED <<accepted, listed, sockets, loop>>,
           ip.at # "idle", conn[ip.c] # "closed"
    PROVE  LiveChannels \subseteq LiveChannels'
<1>1. ip.c \in sockets /\ ip.c \in accepted /\ ip.c \in listed
    BY DEF OwnInv, IpOnSocket, OpenListed, Types, ObjectTypes
<1>2. \A d \in Clients : d # ip.c => ~IpHoldsRr(d) /\ ~IpHoldsSocket(d) /\ ~IpHoldsPcb(d)
    BY DEF IpHoldsRr, IpHoldsSocket, IpHoldsPcb, IpHolds
<1>3. \A d \in Clients : LoopHoldsRr(d) => LoopHoldsRr(d)'
    BY DEF LoopHoldsRr
<1>4. \A d \in Clients : RrLives(d) => RrLives(d)'
    BY <1>1, <1>2, <1>3 DEF RrLives, CallbackHoldsRr
<1>5. RrLives(ip.c)
    BY <1>1 DEF RrLives
<1>6. \A d \in Clients : SocketLives(d) => SocketLives(d)'
    <2>1. ASSUME NEW d \in Clients, SocketLives(d), d # ip.c PROVE SocketLives(d)'
        BY <1>2, <1>4, <2>1 DEF SocketLives
    <2>2. ASSUME NEW d \in Clients, SocketLives(d), d = ip.c PROVE SocketLives(d)'
        BY <1>4, <1>5, <2>2 DEF SocketLives
    <2>3. QED BY <2>1, <2>2
<1>7. SocketLives(ip.c)
    BY <1>1, <1>5 DEF SocketLives
<1>8. \A d \in Clients : PcbLives(d) => PcbLives(d)'
    <2>1. ASSUME NEW d \in Clients, PcbLives(d), d # ip.c PROVE PcbLives(d)'
        BY <1>2, <1>6, <2>1 DEF PcbLives
    <2>2. ASSUME NEW d \in Clients, PcbLives(d), d = ip.c PROVE PcbLives(d)'
        BY <1>6, <1>7, <2>2 DEF PcbLives
    <2>3. QED BY <2>1, <2>2
<1>9. QED BY <1>4, <1>6, <1>8, ClientsAssumption DEF LiveChannels

LEMMA FaultStep == Types /\ OwnInv /\ FaultNeedsClose /\ [Next]_vars => FaultNeedsClose'
<1> SUFFICES ASSUME Types, OwnInv, FaultNeedsClose, [Next]_vars PROVE FaultNeedsClose'
    OBVIOUS
<1>1. ASSUME NoFault PROVE FaultNeedsClose'
    BY <1>1 DEF NoFault, FaultNeedsClose
<1>2. ASSUME NEW kind, NEW c \in Clients, Fault(kind, c), conn'[c] = "closed"
      PROVE  FaultNeedsClose'
    BY <1>2 DEF Fault, FaultNeedsClose
<1>3. ASSUME NEW c \in Tcp, Fault("race", c) PROVE FaultNeedsClose'
    BY <1>3 DEF Fault, FaultNeedsClose
<1>4. CASE Dispatch
    <2>1. conn' = conn /\ batch \subseteq KnownChannels
        BY <1>4 DEF Dispatch, clientVars, OwnInv, RefsKnown
    <2>2. PICK ch \in batch : NoFault \/ (ch \notin LiveChannels /\ Fault("batch", ch[2]))
        BY <1>4 DEF Dispatch
    <2>3. QED BY <1>1, <1>2, <2>1, <2>2, DeadNeedsClose
<1>5. CASE EnterDestroyed \/ Leave
    <2>1. conn' = conn /\ loop.ch \in KnownChannels
        BY <1>5 DEF EnterDestroyed, Leave, clientVars, OwnInv, RefsKnown
    <2>2. \/ NoFault
          \/ /\ loop.ch \notin LiveChannels
             /\ Fault("running", loop.ch[2]) \/ Fault("self", loop.ch[2])
        BY <1>5 DEF EnterDestroyed, Leave
    <2>3. QED BY <1>1, <1>2, <2>1, <2>2, DeadNeedsClose
<1>6. CASE IpStep
    <2>1. UNCHANGED <<conn, accepted, listed, sockets, loop>>
        BY <1>6, IpFrame
    <2>2. ip.c \in Clients
        BY DEF Types, PlaceTypes
    <2>3. CASE IpLockSocket(ip.c) /\ ~NoFault
        <3>1. ~SocketLives(ip.c) /\ fault' = <<"null", ip.c>> /\ ip.at = "pcb"
            BY <2>3 DEF IpLockSocket
        <3>2. ip.c \in sockets /\ ip.c \in accepted
            BY <3>1 DEF OwnInv, IpOnSocket, Types, ObjectTypes
        <3>3. conn[ip.c] = "closed"
            BY <2>2, <3>1, <3>2, ListedLive DEF OwnInv, OpenListed
        <3>4. QED BY <2>1, <3>1, <3>3 DEF FaultNeedsClose
    <2>4. CASE IpAnswer(ip.c)
        <3>1. ip.c \in Tcp
            BY <2>4 DEF IpAnswer, OwnInv, IpOnSocket
        <3>2. QED BY <1>1, <1>3, <2>4, <3>1 DEF IpAnswer, IpChangesChannels
    <2>5. CASE IpRelease(ip.c)
        <3>1. ip.at # "idle" /\ registered' = registered \cap LiveChannels'
            BY <2>5 DEF IpRelease, Destruct
        <3>2. NoFault \/ (registered' # registered /\ Fault("race", ip.c))
            BY <2>5 DEF IpRelease, IpChangesChannels
        <3>3. conn[ip.c] # "closed" => registered' = registered
            BY <2>1, <3>1, ReleaseOfOpen DEF OwnInv, RegisteredLive
        <3>4. QED BY <1>1, <1>2, <2>1, <2>2, <3>2, <3>3
    <2>6. QED BY <1>1, <1>6, <2>3, <2>4, <2>5 DEF IpStep, IpPut, IpAck, IpEstablish
<1>7. CASE UNCHANGED vars
    BY <1>7 DEF vars, clientVars, FaultNeedsClose
<1>8. ASSUME \/ \E c \in Clients : Application(c) \/ IpArrival(c) \/ LoopClient(c)
             \/ Poll \/ Accept
      PROVE  NoFault
    BY <1>8 DEF Application, IpArrival, IpFind, LoopClient, ReadEof, ReadReset, ReadRequest, Answer,
                sChannelReadCb, onAsyncNewPacket, Poll, Accept
<1>9. QED BY <1>1, <1>4, <1>5, <1>6, <1>7, <1>8 DEF Next, EventLoop, LoopClient

\* Whatever the interleaving of the two threads and of any number of clients,
\* an access to a destroyed object is on behalf of a client that has closed,
\* and a race on behalf of such a client or of a TCP connect.
THEOREM FaultsNeedClose == Spec => []FaultNeedsClose
<1>1. Init => FaultNeedsClose
    BY DEF Init, FaultNeedsClose
<1>2. QED BY <1>1, FaultStep, Ownership, PTL DEF Spec

(***************************************************************************)
(* Request channels of UDP sockets.  The event loop takes the channel it   *)
(* handles out of the batch, and only the handler of a listed channel      *)
(* removes it from Mux.                                                    *)
(***************************************************************************)

UdpListed == \A c \in accepted \ Tcp : Rr(c) \in registered \cup batch => c \in listed
RunningLeftBatch == loop.at # "poll" => loop.ch \notin batch

UdpInv == UdpListed /\ RunningLeftBatch

LEMMA UdpInit == Init => UdpInv
BY DEF Init, UdpInv, UdpListed, RunningLeftBatch, Idle

LEMMA UdpStep == Types /\ OwnInv /\ UdpInv /\ [Next]_vars => UdpInv'
<1> SUFFICES ASSUME Types, OwnInv, UdpInv, [Next]_vars PROVE UdpInv'
    OBVIOUS
<1> USE DEF UdpInv, UdpListed, RunningLeftBatch
<1>1. ASSUME NEW c \in Clients, Application(c) PROVE UdpInv'
    BY <1>1 DEF Application, objectVars
<1>2. CASE Poll
    BY <1>2 DEF Poll, objectVars
<1>3. CASE Dispatch
    BY <1>3 DEF Dispatch, objectVars
<1>4. CASE EnterDestroyed \/ Leave
    <2>1. UNCHANGED <<accepted, listed, registered, batch>>
        BY <1>4 DEF EnterDestroyed, Leave, objectVars
    <2>2. loop'.at = "poll" \/ (loop'.ch = loop.ch /\ loop.at # "poll")
        BY <1>4, LoopPlace DEF EnterDestroyed, Leave, Idle, Types, PlaceTypes
    <2>3. QED BY <2>1, <2>2
<1>5. CASE Accept
    <2>1. PICK new : /\ new \subseteq Clients
                     /\ accepted' = accepted \cup new
                     /\ listed' = listed \cup new
                     /\ registered' = registered \cup {Rr(c) : c \in new}
        BY <1>5 DEF Accept
    <2>2. batch' = batch /\ loop'.ch = loop.ch /\ loop.at # "poll"
        BY <1>5, LoopPlace DEF Accept, Entered, Types, PlaceTypes
    <2>3. ASSUME NEW c \in accepted' \ Tcp, Rr(c) \in registered' \cup batch' PROVE c \in listed'
        <3>1. CASE c \in new
            BY <2>1, <3>1
        <3>2. CASE c \notin new
            BY <2>1, <2>2, <2>3, <3>2, NamesTell
        <3>3. QED BY <3>1, <3>2
    <2>4. QED BY <2>2, <2>3
<1>6. ASSUME NEW c \in Clients, LoopClient(c) PROVE UdpInv'
    <2>1. /\ UNCHANGED <<accepted, batch, ip>> /\ loop'.ch = loop.ch /\ loop.at # "poll"
          /\ listed' = listed \/ ReadEof(c)
        BY <1>6, LoopClientFrame
           DEF LoopClient, ReadEof, ReadReset, ReadRequest, Answer, sChannelReadCb,
               onAsyncNewPacket, Entered, Write, socketCall, openCall, recvfromCall, closeCall,
               objectVars
    <2>2. RunningLeftBatch'
        BY <2>1
    <2>3. ASSUME ~ReadEof(c) PROVE UdpListed'
        <3>1. \A d \in Clients : Rr(d) \in registered' => Rr(d) \in registered
            <4>1. CASE socketCall(c)
                BY <4>1, NamesDiffer DEF socketCall
            <4>2. CASE Answer(c)
                <5>1. loop.answer \in {"wait", "final"}
                    BY <4>2 DEF Answer, Types, PlaceTypes, LoopType, LoopStates, NoAnswer
                <5>2. QED BY <4>2, <5>1, WriteEffect DEF Answer, Types
            <4>3. CASE onAsyncNewPacket(c)
                BY <4>3, WriteEffect DEF onAsyncNewPacket, Types
            <4>4. QED BY <1>6, <2>3, <4>1, <4>2, <4>3
                  DEF LoopClient, ReadReset, ReadRequest, sChannelReadCb, openCall, recvfromCall,
                      closeCall, objectVars
        <3>2. accepted \subseteq Clients
            BY DEF Types, ObjectTypes
        <3>3. QED BY <2>1, <2>3, <3>1, <3>2
    <2>4. ASSUME ReadEof(c) PROVE UdpListed'
        <3>1. /\ listed' = listed \ {c} /\ registered' = registered \cap LiveChannels'
              /\ loop.ch = Rr(c) /\ loop'.at = "leave"
            BY <2>4, LoopPlace
               DEF ReadEof, removeRRChannel, Destruct, Entered, Types, PlaceTypes
        <3>2. Rr(c) \notin batch'
            BY <2>1, <3>1
        <3>3. c \notin Tcp => Rr(c) \notin registered'
            <4>1. ~LoopHoldsRr(c)'
                BY <3>1 DEF LoopHoldsRr
            <4>2. c \notin Tcp => ~IpHoldsRr(c)'
                BY <2>1 DEF OwnInv, IpOnSocket, IpHoldsRr, IpHolds
            <4>3. c \notin Tcp => ~RrLives(c)'
                BY <3>1, <4>1, <4>2 DEF RrLives, CallbackHoldsRr
            <4>4. c \notin Tcp => Rr(c) \notin LiveChannels'
                BY <4>3, NamesDiffer, NamesTell DEF LiveChannels
            <4>5. QED BY <3>1, <4>4
        <3>4. QED BY <2>1, <3>1, <3>2, <3>3
    <2>5. QED BY <2>2, <2>3, <2>4
<1>7. CASE IpStep \/ \E c \in Clients : IpArrival(c)
    <2>1. UNCHANGED <<accepted, listed, batch, loop>>
        BY <1>7, IpFrame
    <2>2. registered' \subseteq registered
        <3>1. ip.c \in Clients
            BY DEF Types, PlaceTypes
        <3>2. ASSUME IpAnswer(ip.c) PROVE registered' \subseteq registered
            BY <3>1, <3>2, WriteEffect DEF IpAnswer, Types
        <3>3. QED BY <1>7, <3>2
              DEF IpStep, IpArrival, IpFind, IpLockSocket, IpPut, IpAck, IpEstablish, IpRelease,
                  Destruct, objectVars
    <2>3. QED BY <2>1, <2>2
<1>8. CASE UNCHANGED vars
    BY <1>8 DEF vars, objectVars
<1>9. QED BY <1>1, <1>2, <1>3, <1>4, <1>5, <1>6, <1>7, <1>8 DEF Next, EventLoop, LoopClient

\* No batch of the event loop holds a dangling pointer to the request channel
\* of a UDP socket, whoever closes, dies or is answered in the meantime.
THEOREM UdpChannelsOutliveBatch == Spec => []RequestChannelOutlivesBatch
<1>1. Types /\ UdpInv => RequestChannelOutlivesBatch
    BY DEF Types, ObjectTypes, UdpInv, UdpListed, RequestChannelOutlivesBatch, RrLives
<1>2. QED BY <1>1, UdpInit, UdpStep, Ownership, PTL DEF Spec

(***************************************************************************)
(* One debt.  A client that has not closed is in channel_recv exactly when *)
(* one thing that will end its call is on its way: its Request, a Reply, a *)
(* waiting recvfrom, a connection attempt, the callback of one, or the     *)
(* final Response; never two.  The invariant needs that only a client that *)
(* closed resets the connection (the empty Request is answered too), and   *)
(* that takeFromRecvQ runs for a Socket that waits.                        *)
(***************************************************************************)

Waits(q) == \A i \in DOMAIN q : q[i] = "wait"
OneFinal(q) == \E i \in DOMAIN q : /\ q[i] = "final"
                                   /\ \A j \in DOMAIN q : j # i => q[j] = "wait"

Requested(c) == req[c] # "none"
Replying(c) == loop.at = "reply" /\ loop.ch = Rr(c) /\ loop.answer = "final"
Connecting(c) == link[c] = "pending"
Answering(c) == ip.c = c /\ ip.at = "callback"

OneDebt(c) ==
    LET quiet == /\ ~Requested(c) /\ ~Replying(c) /\ ~waiting[c]
                 /\ ~Connecting(c) /\ ~Answering(c)
    IN  /\ Waits(resp[c]) \/ (quiet /\ OneFinal(resp[c]))
        /\ busy[c] <=> ~quiet \/ OneFinal(resp[c])
        /\ Requested(c) => ~Replying(c) /\ ~waiting[c] /\ ~Connecting(c) /\ ~Answering(c)
        /\ Replying(c) => ~waiting[c] /\ ~Connecting(c) /\ ~Answering(c)
        /\ waiting[c] => ~Connecting(c) /\ ~Answering(c)
        /\ Connecting(c) => ~Answering(c)

Debts == \A c \in Clients : conn[c] # "closed" => OneDebt(c)
ResetClosed == \A c \in Clients : reset[c] => conn[c] = "closed"
TakeWaits == \A c \in Clients : loop.at = "take" /\ loop.ch = Pipe(c) => waiting[c]

DebtInv == Debts /\ ResetClosed /\ TakeWaits

\* Responses appended and read.
LEMMA Appended ==
    ASSUME NEW q \in Seq({"wait", "final"}), NEW a \in {"wait", "final"}
    PROVE  /\ a = "wait" /\ Waits(q) => Waits(Append(q, a))
           /\ a = "wait" /\ OneFinal(q) => OneFinal(Append(q, a))
           /\ a = "final" /\ Waits(q) => OneFinal(Append(q, a))
<1> DEFINE p == Append(q, a)
<1>1. /\ Len(q) \in Nat /\ DOMAIN q = 1 .. Len(q)
      /\ DOMAIN p = 1 .. Len(q) + 1
      /\ \A i \in 1 .. Len(q) : p[i] = q[i]
      /\ p[Len(q) + 1] = a
    BY AppendProperties, LenProperties
<1> HIDE DEF p
<1>2. \A i \in DOMAIN p : i \in DOMAIN q \/ i = Len(q) + 1
    BY <1>1
<1>3. \A i \in DOMAIN q : i \in DOMAIN p /\ i # Len(q) + 1
    BY <1>1
<1>4. a = "wait" /\ Waits(q) => Waits(p)
    BY <1>1, <1>2 DEF Waits
<1>5. a = "wait" /\ OneFinal(q) => OneFinal(p)
    BY <1>1, <1>2, <1>3 DEF OneFinal
<1>6. a = "final" /\ Waits(q) => OneFinal(p)
    <2>1. Len(q) + 1 \in DOMAIN p
        BY <1>1
    <2>2. QED BY <1>1, <1>2, <2>1 DEF Waits, OneFinal
<1>7. QED BY <1>4, <1>5, <1>6 DEF p

LEMMA HeadRead ==
    ASSUME NEW q \in Seq({"wait", "final"}), q # <<>>
    PROVE  /\ Waits(q) => Head(q) = "wait" /\ Waits(Tail(q))
           /\ OneFinal(q) /\ Head(q) = "final" => Waits(Tail(q))
           /\ OneFinal(q) /\ Head(q) # "final" => OneFinal(Tail(q))
           /\ Tail(q) \in Seq({"wait", "final"})
<1> DEFINE p == Tail(q)
<1>1. /\ Len(q) \in Nat \ {0} /\ DOMAIN q = 1 .. Len(q)
      /\ p \in Seq({"wait", "final"}) /\ Len(p) = Len(q) - 1
      /\ \A i \in 1 .. Len(p) : p[i] = q[i + 1]
    BY HeadTailProperties, LenProperties, EmptySeq
<1>2. DOMAIN p = 1 .. Len(q) - 1 /\ Head(q) = q[1]
    BY <1>1, LenProperties
<1> HIDE DEF p
<1>3. \A i \in DOMAIN p : i + 1 \in DOMAIN q /\ i + 1 # 1 /\ p[i] = q[i + 1]
    BY <1>1, <1>2
<1>4. 1 \in DOMAIN q
    BY <1>1
<1>5. Waits(q) => Head(q) = "wait" /\ Waits(p)
    BY <1>2, <1>3, <1>4 DEF Waits
<1>6. OneFinal(q) /\ Head(q) = "final" => Waits(p)
    <2> SUFFICES ASSUME OneFinal(q), Head(q) = "final" PROVE Waits(p)
        OBVIOUS
    <2>1. PICK i \in DOMAIN q : q[i] = "final" /\ \A j \in DOMAIN q : j # i => q[j] = "wait"
        BY DEF OneFinal
    <2>2. i = 1
        BY <1>2, <1>4, <2>1
    <2>3. QED BY <1>3, <2>1, <2>2 DEF Waits
<1>7. OneFinal(q) /\ Head(q) # "final" => OneFinal(p)
    <2> SUFFICES ASSUME OneFinal(q), Head(q) # "final" PROVE OneFinal(p)
        OBVIOUS
    <2>1. PICK i \in DOMAIN q : q[i] = "final" /\ \A j \in DOMAIN q : j # i => q[j] = "wait"
        BY DEF OneFinal
    <2>2. i # 1
        BY <1>2, <2>1
    <2>3. i - 1 \in DOMAIN p /\ (i - 1) + 1 = i
        BY <1>1, <1>2, <2>1, <2>2
    <2>4. p[i - 1] = "final"
        BY <1>3, <2>1, <2>3
    <2>5. \A j \in DOMAIN p : j # i - 1 => j + 1 # i
        BY <1>2
    <2>6. \A j \in DOMAIN p : j # i - 1 => p[j] = "wait"
        BY <1>3, <2>1, <2>5
    <2>7. QED BY <2>3, <2>4, <2>6 DEF OneFinal
<1>8. QED BY <1>1, <1>5, <1>6, <1>7 DEF p

LEMMA NotBoth ==
    ASSUME NEW q
    PROVE  ~(Waits(q) /\ OneFinal(q))
BY DEF Waits, OneFinal

\* A client none of whose business a step changes.
Untouched(c) ==
    /\ conn'[c] = conn[c] /\ busy'[c] = busy[c] /\ req'[c] = req[c]
    /\ resp'[c] = resp[c] /\ waiting'[c] = waiting[c]
    /\ Connecting(c)' <=> Connecting(c)
    /\ Replying(c)' <=> Replying(c)
    /\ Answering(c)' <=> Answering(c)

LEMMA UntouchedKept ==
    ASSUME NEW c \in Clients, Untouched(c), conn[c] # "closed" => OneDebt(c)
    PROVE  conn'[c] # "closed" => OneDebt(c)'
BY DEF Untouched, OneDebt, Requested

LEMMA ApplicationDebt ==
    ASSUME Types, DebtInv, NEW c \in Clients, Application(c)
    PROVE  DebtInv'
<1>1. UNCHANGED <<loop, link, ip, waiting>>
    BY DEF Application, socketVars
<1>2. \A d \in Clients : Connecting(d)' = Connecting(d) /\ Replying(d)' = Replying(d)
                         /\ Answering(d)' = Answering(d)
    BY <1>1 DEF Connecting, Replying, Answering
<1>3. \A d \in Clients : d # c => Untouched(d)
    BY <1>1, <1>2 DEF Application, Connect, Call, Receive, Close, Types, ClientTypes, Untouched
<1>4. \A d \in Clients : d # c => (conn'[d] # "closed" => OneDebt(d)')
    BY <1>3, UntouchedKept DEF DebtInv, Debts
<1>5. ASSUME Connect(c) PROVE conn'[c] # "closed" => OneDebt(c)'
    BY <1>1, <1>2, <1>5 DEF Connect, DebtInv, Debts, OneDebt, Requested
<1>6. ASSUME Call(c) PROVE conn'[c] # "closed" => OneDebt(c)'
    <2>1. PICK k \in Legal(c) : req' = [req EXCEPT ![c] = k]
        BY <1>6 DEF Call
    <2>2. k # "none"
        BY DEF Legal
    <2>3. conn[c] = "open" /\ ~busy[c] /\ UNCHANGED <<conn, resp>> /\ busy'[c] /\ req'[c] = k
        BY <1>6, <2>1 DEF Call, Types, ClientTypes
    <2>4. OneDebt(c)
        BY <2>3 DEF DebtInv, Debts
    <2>5. Waits(resp[c]) /\ ~OneFinal(resp[c])
        BY <2>3, <2>4 DEF OneDebt
    <2>6. QED BY <1>1, <1>2, <2>2, <2>3, <2>4, <2>5 DEF OneDebt, Requested
<1>7. ASSUME Receive(c) PROVE conn'[c] # "closed" => OneDebt(c)'
    <2>1. /\ conn[c] = "open" /\ busy[c] /\ resp[c] # <<>> /\ UNCHANGED <<conn, req>>
          /\ resp'[c] = Tail(resp[c]) /\ busy'[c] = (Head(resp[c]) = "wait")
          /\ resp[c] \in Seq({"wait", "final"})
        BY <1>7 DEF Receive, Types, ClientTypes
    <2>2. OneDebt(c)
        BY <2>1 DEF DebtInv, Debts
    <2>3. Head(resp[c]) \in {"wait", "final"}
        BY <2>1
    <2>4. CASE Waits(resp[c])
        <3>1. Head(resp[c]) = "wait" /\ Waits(resp'[c]) /\ ~OneFinal(resp'[c]) /\ ~OneFinal(resp[c])
            BY <2>1, <2>4, HeadRead, NotBoth
        <3>2. QED BY <1>1, <1>2, <2>1, <2>2, <3>1 DEF OneDebt, Requested
    <2>5. CASE OneFinal(resp[c]) /\ Head(resp[c]) = "final"
        <3>1. Waits(resp'[c]) /\ ~OneFinal(resp'[c]) /\ ~Waits(resp[c])
            BY <2>1, <2>5, HeadRead, NotBoth
        <3>2. QED BY <1>1, <1>2, <2>1, <2>2, <2>5, <3>1 DEF OneDebt, Requested
    <2>6. CASE OneFinal(resp[c]) /\ Head(resp[c]) = "wait"
        <3>1. OneFinal(resp'[c]) /\ ~Waits(resp[c])
            BY <2>1, <2>6, HeadRead, NotBoth
        <3>2. QED BY <1>1, <1>2, <2>1, <2>2, <2>6, <3>1 DEF OneDebt, Requested
    <2>7. QED BY <2>2, <2>3, <2>4, <2>5, <2>6 DEF OneDebt
<1>8. ASSUME Close(c) PROVE conn'[c] # "closed" => OneDebt(c)'
    BY <1>8 DEF Close, Types, ClientTypes
<1>9. Debts'
    BY <1>4, <1>5, <1>6, <1>7, <1>8 DEF Application, Debts
<1>10. ResetClosed'
    BY DEF Application, Connect, Call, Receive, Close, Types, ClientTypes, DebtInv, ResetClosed
<1>11. TakeWaits'
    BY <1>1 DEF DebtInv, TakeWaits
<1>12. QED BY <1>9, <1>10, <1>11 DEF DebtInv

\* A step in which the event loop gets from one place to another, without an
\* answer in its hands.
LEMMA LoopMoves ==
    ASSUME DebtInv, UNCHANGED <<clientVars, waiting, link, ip>>,
           loop.at # "reply" \/ loop' = loop, loop'.at \notin {"reply", "take"} \/ loop' = loop
    PROVE  DebtInv'
<1>1. \A d \in Clients : Untouched(d)
    BY DEF Untouched, Connecting, Replying, Answering, clientVars
<1>2. Debts'
    BY <1>1, UntouchedKept DEF DebtInv, Debts
<1>3. ResetClosed' /\ TakeWaits'
    BY DEF DebtInv, ResetClosed, TakeWaits, clientVars
<1>4. QED BY <1>2, <1>3 DEF DebtInv

LEMMA LoopDebt ==
    ASSUME Types, DebtInv, Poll \/ Dispatch \/ EnterDestroyed \/ Leave \/ Accept
    PROVE  DebtInv'
<1>1. UNCHANGED <<clientVars, waiting, link, ip>>
    BY DEF Poll, Dispatch, EnterDestroyed, Leave, Accept, clientVars, socketVars
<1>2. loop.at # "reply"
    BY DEF Poll, Dispatch, EnterDestroyed, Leave, Accept, Entered
<1>3. loop'.at \in {"poll", "enter", "leave"} \/ loop' = loop
    BY DEF Types, PlaceTypes, LoopType, LoopStates, Poll, Dispatch, EnterDestroyed, Leave,
           Accept, Goto, Idle
<1>4. QED BY <1>1, <1>2, <1>3, LoopMoves

\* A step of the event loop for c leaves the others' business alone.
LEMMA LoopElsewhere ==
    ASSUME Types, DebtInv, NEW c \in Clients, LoopClient(c), NEW d \in Clients, d # c
    PROVE  conn'[d] # "closed" => OneDebt(d)'
<1>1. UNCHANGED <<conn, ip>> /\ loop'.ch = loop.ch
    BY LoopClientFrame
<1>2. loop.ch \in {Rr(c), Pipe(c)}
    BY DEF LoopClient, ReadEof, ReadReset, ReadRequest, Answer, sChannelReadCb, onAsyncNewPacket,
           Entered
<1>3. loop.ch # Rr(d)
    BY <1>2, NamesDiffer, NamesTell
<1>4. ~Replying(d) /\ ~Replying(d)' /\ (Answering(d)' <=> Answering(d))
    BY <1>1, <1>3 DEF Replying, Answering
<1>5. busy'[d] = busy[d] /\ req'[d] = req[d]
    BY DEF LoopClient, ReadEof, ReadReset, ReadRequest, Answer, sChannelReadCb, onAsyncNewPacket,
           clientVars, Types, ClientTypes
<1>6. resp'[d] = resp[d]
    BY DEF LoopClient, ReadEof, ReadReset, ReadRequest, Answer, sChannelReadCb, onAsyncNewPacket,
           clientVars, Types, ClientTypes, Write
<1>7. waiting'[d] = waiting[d] /\ link'[d] = link[d]
    BY DEF LoopClient, ReadEof, ReadReset, ReadRequest, socketCall, openCall, recvfromCall,
           closeCall, Answer, sChannelReadCb, onAsyncNewPacket, socketVars, Types, SocketTypes
<1>8. Untouched(d)
    BY <1>1, <1>4, <1>5, <1>6, <1>7 DEF Untouched, Connecting
<1>9. QED BY <1>8, UntouchedKept DEF DebtInv, Debts

\* What a write adds to what an open client has to read.
LEMMA WriteOpen ==
    ASSUME Types, NEW c \in Clients, NEW answer \in {"wait", "final"}, NEW chs,
           Write(c, answer, chs), conn[c] # "closed"
    PROVE  /\ resp'[c] = Append(resp[c], answer)
           /\ answer = "final" /\ Waits(resp[c]) => OneFinal(resp'[c])
           /\ answer = "wait" /\ Waits(resp[c]) => Waits(resp'[c])
           /\ answer = "wait" /\ OneFinal(resp[c]) => OneFinal(resp'[c])
<1>1. resp[c] \in Seq({"wait", "final"})
    BY DEF Types, ClientTypes
<1>2. resp'[c] = Append(resp[c], answer)
    BY DEF Write, Types, ClientTypes
<1>3. QED BY <1>1, <1>2, Appended

\* A client with a Socket that has not closed is listed, and its channel lives.
LEMMA OpenLives ==
    ASSUME Types, OwnInv, NEW c \in Clients, conn[c] # "closed", c \in accepted
    PROVE  RrLives(c)
<1>1. c \in listed
    BY DEF OwnInv, OpenListed
<1>2. QED BY <1>1, ListedLive

LEMMA ReadResetDebt ==
    ASSUME Types, DebtInv, NEW c \in Clients, ReadReset(c)
    PROVE  conn'[c] # "closed" => OneDebt(c)'
BY DEF ReadReset, DebtInv, ResetClosed

LEMMA ReadRequestDebt ==
    ASSUME Types, DebtInv, NEW c \in Clients, ReadRequest(c)
    PROVE  conn'[c] # "closed" => OneDebt(c)'
<1> SUFFICES ASSUME conn'[c] # "closed" PROVE OneDebt(c)'
    OBVIOUS
<1>1. /\ UNCHANGED <<conn, busy, resp, ip>> /\ Requested(c) /\ ~Requested(c)'
      /\ loop.at = "enter" /\ loop.ch = Rr(c)
    BY DEF ReadRequest, Entered, Requested, Types, ClientTypes
<1>2. OneDebt(c)
    BY <1>1 DEF DebtInv, Debts
<1>3. ~Replying(c) /\ ~waiting[c] /\ ~Connecting(c) /\ ~Answering(c) /\ ~OneFinal(resp[c])
      /\ Waits(resp[c]) /\ busy[c]
    BY <1>1, <1>2, NotBoth DEF OneDebt
<1>4. Answering(c)' <=> Answering(c)
    BY <1>1 DEF Answering
<1>5. CASE socketCall(c) \/ closeCall(c)
    <2>1. Replying(c)' /\ UNCHANGED <<waiting, link>>
        BY <1>1, <1>5 DEF socketCall, closeCall, Reply, Replying, socketVars, Types, PlaceTypes,
                          LoopType, LoopStates
    <2>2. QED BY <1>1, <1>3, <1>4, <2>1 DEF OneDebt, Connecting
<1>6. CASE openCall(c)
    <2>1. waiting' = waiting
        BY <1>6 DEF openCall
    <2>2. CASE c \in Tcp
        <3>1. ~Replying(c)' /\ link'[c] = "pending"
            BY <1>6, <2>2 DEF openCall, Reply, Replying, Types, PlaceTypes, LoopType, LoopStates,
                              SocketTypes
        <3>2. QED BY <1>1, <1>3, <1>4, <2>1, <3>1 DEF OneDebt, Connecting
    <2>3. CASE c \notin Tcp
        <3>1. Replying(c)' /\ link'[c] = "up"
            BY <1>1, <1>6, <2>3 DEF openCall, Reply, Replying, Types, PlaceTypes, LoopType, LoopStates,
                              SocketTypes
        <3>2. QED BY <1>1, <1>3, <1>4, <2>1, <3>1 DEF OneDebt, Connecting
    <2>4. QED BY <2>2, <2>3
<1>7. CASE recvfromCall(c)
    <2>1. link' = link
        BY <1>7 DEF recvfromCall
    <2>2. CASE Reply("final") /\ UNCHANGED waiting
        <3>1. Replying(c)'
            BY <1>1, <2>2 DEF Reply, Replying, Types, PlaceTypes, LoopType, LoopStates
        <3>2. QED BY <1>1, <1>3, <1>4, <2>1, <2>2, <3>1 DEF OneDebt, Connecting
    <2>3. CASE Reply("wait") /\ waiting' = [waiting EXCEPT ![c] = TRUE]
        <3>1. ~Replying(c)' /\ waiting'[c]
            BY <1>1, <2>3 DEF Reply, Replying, Types, PlaceTypes, LoopType, LoopStates, SocketTypes
        <3>2. QED BY <1>1, <1>3, <1>4, <2>1, <3>1 DEF OneDebt, Connecting
    <2>4. QED BY <1>7, <2>2, <2>3 DEF recvfromCall
<1>8. QED BY <1>5, <1>6, <1>7 DEF ReadRequest

LEMMA AnswerDebt ==
    ASSUME Types, DebtInv, NEW c \in Clients, Answer(c)
    PROVE  conn'[c] # "closed" => OneDebt(c)'
<1> SUFFICES ASSUME conn'[c] # "closed" PROVE OneDebt(c)'
    OBVIOUS
<1>1. /\ UNCHANGED <<conn, busy, req, ip, waiting, link>>
      /\ loop.at = "reply" /\ loop.ch = Rr(c) /\ loop.answer \in {"wait", "final"}
      /\ Write(c, loop.answer, registered)
    BY DEF Answer, socketVars, Types, PlaceTypes, LoopType, LoopStates, NoAnswer
<1>2. OneDebt(c)
    BY <1>1 DEF DebtInv, Debts
<1>3. ~Replying(c)' /\ (Answering(c)' <=> Answering(c)) /\ (Connecting(c)' <=> Connecting(c))
      /\ (Requested(c)' <=> Requested(c))
    BY <1>1 DEF Answer, Goto, Types, PlaceTypes, LoopType, LoopStates, Replying, Answering,
                Connecting, Requested
<1>4. CASE loop.answer = "final"
    <2>1. Replying(c)
        BY <1>1, <1>4 DEF Replying
    <2>2. Waits(resp[c]) /\ ~OneFinal(resp[c])
        BY <1>2, <2>1, NotBoth DEF OneDebt
    <2>3. OneFinal(resp'[c]) /\ ~Waits(resp'[c])
        BY <1>1, <1>4, <2>2, WriteOpen, NotBoth
    <2>4. QED BY <1>1, <1>2, <1>3, <2>1, <2>2, <2>3 DEF OneDebt
<1>5. CASE loop.answer = "wait"
    <2>1. ~Replying(c)
        BY <1>5 DEF Replying
    <2>2. Waits(resp[c]) => Waits(resp'[c])
        BY <1>1, <1>5, WriteOpen
    <2>3. OneFinal(resp[c]) => OneFinal(resp'[c])
        BY <1>1, <1>5, WriteOpen
    <2>4. ~(Waits(resp'[c]) /\ OneFinal(resp'[c])) /\ ~(Waits(resp[c]) /\ OneFinal(resp[c]))
        BY NotBoth
    <2>5. OneFinal(resp'[c]) <=> OneFinal(resp[c])
        BY <1>2, <2>2, <2>3, <2>4 DEF OneDebt
    <2>6. QED BY <1>1, <1>2, <1>3, <2>1, <2>2, <2>3, <2>5 DEF OneDebt
<1>6. QED BY <1>1, <1>4, <1>5

LEMMA PipeDebt ==
    ASSUME Types, OwnInv, DebtInv, NEW c \in Clients, sChannelReadCb(c)
    PROVE  conn'[c] # "closed" => OneDebt(c)'
<1> SUFFICES ASSUME conn'[c] # "closed" PROVE OneDebt(c)'
    OBVIOUS
<1>1. UNCHANGED <<conn, busy, req, resp, ip, link>> /\ loop.at = "enter" /\ loop.ch = Pipe(c)
    BY DEF sChannelReadCb, clientVars, Entered
<1>2. ~Replying(c) /\ ~Replying(c)'
    <2>1. loop'.ch = loop.ch
        BY LoopClientFrame DEF LoopClient
    <2>2. QED BY <1>1, <2>1, NamesDiffer DEF Replying
<1>3. c \in accepted
    <2>1. loop.ch \in LiveChannels
        BY <1>1 DEF sChannelReadCb, Entered
    <2>2. c \in sockets
        BY <1>1, <2>1, LiveKnown, NamesDiffer, NamesTell DEF KnownChannels
    <2>3. QED BY <2>2 DEF Types, ObjectTypes
<1>4. RrLives(c)
    BY <1>1, <1>3, OpenLives
<1>5. waiting'[c] = waiting[c]
    BY <1>4 DEF sChannelReadCb, Types, SocketTypes
<1>6. Untouched(c)
    BY <1>1, <1>2, <1>5 DEF Untouched, Answering, Connecting
<1>7. QED BY <1>1, <1>6, UntouchedKept DEF DebtInv, Debts

LEMMA TakeDebt ==
    ASSUME Types, DebtInv, NEW c \in Clients, onAsyncNewPacket(c)
    PROVE  conn'[c] # "closed" => OneDebt(c)'
<1> SUFFICES ASSUME conn'[c] # "closed" PROVE OneDebt(c)'
    OBVIOUS
<1>1. /\ UNCHANGED <<conn, busy, req, ip, link>> /\ loop.at = "take" /\ loop.ch = Pipe(c)
      /\ ~waiting'[c] /\ Write(c, "final", registered)
    BY DEF onAsyncNewPacket, Types, SocketTypes
<1>2. OneDebt(c) /\ waiting[c]
    BY <1>1 DEF DebtInv, Debts, TakeWaits
<1>3. ~Replying(c) /\ ~Replying(c)' /\ (Answering(c)' <=> Answering(c))
      /\ (Connecting(c)' <=> Connecting(c)) /\ (Requested(c)' <=> Requested(c))
    BY <1>1, NamesDiffer DEF onAsyncNewPacket, Goto, Replying, Answering, Connecting, Requested
<1>4. Waits(resp[c]) /\ ~OneFinal(resp[c])
    BY <1>2, NotBoth DEF OneDebt
<1>5. OneFinal(resp'[c]) /\ ~Waits(resp'[c])
    BY <1>1, <1>4, WriteOpen, NotBoth
<1>6. QED BY <1>1, <1>2, <1>3, <1>4, <1>5 DEF OneDebt

LEMMA LoopClientDebt ==
    ASSUME Types, OwnInv, DebtInv, NEW c \in Clients, LoopClient(c)
    PROVE  DebtInv'
<1>1. conn' = conn /\ loop'.ch = loop.ch
    BY LoopClientFrame
<1>2. ReadEof(c) => conn'[c] = "closed"
    BY <1>1 DEF ReadEof
<1>3. conn'[c] # "closed" => OneDebt(c)'
    BY <1>2, ReadResetDebt, ReadRequestDebt, AnswerDebt, PipeDebt, TakeDebt DEF LoopClient
<1>4. Debts'
    BY <1>3, LoopElsewhere DEF Debts
<1>5. ResetClosed'
    BY <1>1 DEF LoopClient, ReadEof, ReadReset, ReadRequest, Answer, sChannelReadCb,
                onAsyncNewPacket, clientVars, Types, ClientTypes, DebtInv, ResetClosed
<1>6. TakeWaits'
    <2> SUFFICES ASSUME NEW d \in Clients, loop'.at = "take", loop'.ch = Pipe(d) PROVE waiting'[d]
        BY DEF TakeWaits
    <2>1. sChannelReadCb(c)
        BY DEF LoopClient, ReadEof, ReadReset, ReadRequest, socketCall, openCall, recvfromCall,
               closeCall, Answer, onAsyncNewPacket, Goto, Reply, Types, PlaceTypes, LoopType,
               LoopStates
    <2>2. loop.ch = Pipe(c) /\ d = c
        <3>1. loop.ch = Pipe(c) /\ loop.ch = Pipe(d)
            BY <1>1, <2>1 DEF sChannelReadCb, Entered
        <3>2. QED BY <3>1, NamesTell
    <2>3. Goto("take") /\ waiting[c] /\ waiting' = waiting
        BY <2>1 DEF sChannelReadCb, Goto, Types, PlaceTypes, LoopType, LoopStates
    <2>4. QED BY <2>2, <2>3
<1>7. QED BY <1>4, <1>5, <1>6 DEF DebtInv

\* A step of the IP thread that neither establishes a connection nor answers.
LEMMA IpMoves ==
    ASSUME Types, DebtInv, UNCHANGED <<clientVars, waiting, link, loop>>,
           ip.at # "callback", ip'.at # "callback"
    PROVE  DebtInv'
<1>1. \A d \in Clients : Untouched(d)
    BY DEF Untouched, Connecting, Replying, Answering, clientVars
<1>2. Debts'
    BY <1>1, UntouchedKept DEF DebtInv, Debts
<1>3. ResetClosed' /\ TakeWaits'
    BY DEF DebtInv, ResetClosed, TakeWaits, clientVars
<1>4. QED BY <1>2, <1>3 DEF DebtInv

LEMMA EstablishDebt ==
    ASSUME Types, OwnInv, DebtInv, NEW c \in Clients, ip.c = c, IpEstablish(c),
           UNCHANGED <<conn, busy, req, reset, batch, loop>>
    PROVE  DebtInv'
<1>1. /\ UNCHANGED <<clientVars, waiting, loop>>
      /\ ip.at = "pcb" /\ link[c] = "pending" /\ link' = [link EXCEPT ![c] = "up"]
      /\ ip'.c = c /\ ip'.at = (IF RrLives(c) THEN "callback" ELSE "done")
    BY DEF IpEstablish, IpGoto, clientVars, Types, PlaceTypes
<1>2. \A d \in Clients : d # c => Untouched(d)
    BY <1>1 DEF Untouched, Connecting, Replying, Answering, clientVars, Types, SocketTypes
<1>3. ASSUME conn'[c] # "closed" PROVE OneDebt(c)'
    <2>1. c \in accepted
        BY <1>1 DEF OwnInv, IpOnSocket, Types, ObjectTypes
    <2>2. OneDebt(c) /\ Connecting(c)
        BY <1>1, <1>3 DEF DebtInv, Debts, clientVars, Connecting
    <2>3. Answering(c)' /\ ~Connecting(c)' /\ (Replying(c)' <=> Replying(c))
          /\ (Requested(c)' <=> Requested(c))
        BY <1>1, <1>3, <2>1, OpenLives
           DEF Answering, Connecting, Replying, Requested, clientVars, Types, SocketTypes
    <2>4. QED BY <1>1, <2>2, <2>3 DEF OneDebt, clientVars
<1>4. Debts'
    BY <1>2, <1>3, UntouchedKept DEF DebtInv, Debts
<1>5. ResetClosed' /\ TakeWaits'
    BY <1>1 DEF DebtInv, ResetClosed, TakeWaits, clientVars
<1>6. QED BY <1>4, <1>5 DEF DebtInv

LEMMA IpAnswerDebt ==
    ASSUME Types, DebtInv, NEW c \in Clients, ip.c = c, IpAnswer(c),
           UNCHANGED <<conn, busy, req, reset, batch, loop>>
    PROVE  DebtInv'
<1>1. /\ UNCHANGED <<conn, busy, req, reset, waiting, link, loop>>
      /\ ip.at = "callback" /\ ip'.at = "answered"
      /\ Write(c, "final", registered \ {Estab(c)})
    BY DEF IpAnswer, IpGoto, socketVars, Types, PlaceTypes
<1>2. \A d \in Clients : d # c => resp'[d] = resp[d]
    BY <1>1 DEF Write, Types, ClientTypes
<1>3. \A d \in Clients : d # c => Untouched(d)
    BY <1>1, <1>2 DEF Untouched, Connecting, Replying, Answering
<1>4. ASSUME conn'[c] # "closed" PROVE OneDebt(c)'
    <2>1. OneDebt(c) /\ Answering(c) /\ ~Answering(c)'
        BY <1>1, <1>4 DEF DebtInv, Debts, Answering
    <2>2. Waits(resp[c]) /\ ~OneFinal(resp[c])
        BY <2>1, NotBoth DEF OneDebt
    <2>3. OneFinal(resp'[c]) /\ ~Waits(resp'[c])
        BY <1>1, <1>4, <2>2, WriteOpen, NotBoth
    <2>4. /\ Connecting(c)' <=> Connecting(c)
          /\ Replying(c)' <=> Replying(c)
          /\ Requested(c)' <=> Requested(c)
        BY <1>1 DEF Connecting, Replying, Requested
    <2>5. QED BY <1>1, <2>1, <2>2, <2>3, <2>4 DEF OneDebt
<1>5. Debts'
    BY <1>3, <1>4, UntouchedKept DEF DebtInv, Debts
<1>6. ResetClosed' /\ TakeWaits'
    BY <1>1 DEF DebtInv, ResetClosed, TakeWaits
<1>7. QED BY <1>5, <1>6 DEF DebtInv

LEMMA IpDebt ==
    ASSUME Types, OwnInv, DebtInv, IpStep \/ \E c \in Clients : IpArrival(c)
    PROVE  DebtInv'
<1>1. ip.c \in Clients
    BY DEF Types, PlaceTypes
<1>2. ASSUME NEW c \in Clients, IpArrival(c) PROVE DebtInv'
    BY <1>2, IpMoves DEF IpArrival, IpFind, clientVars, socketVars
<1>3. ASSUME IpStep PROVE DebtInv'
    <2> DEFINE c == ip.c
    <2>1. UNCHANGED <<conn, busy, req, reset, batch, loop>>
        BY <1>3 DEF IpStep
    <2>2. CASE IpLockSocket(c) \/ IpPut(c) \/ IpAck(c)
        <3>1. UNCHANGED <<clientVars, waiting, link, loop>>
            BY <2>1, <2>2 DEF IpLockSocket, IpPut, IpAck, clientVars, socketVars
        <3>2. ip.at \in {"pcb", "socket"} /\ ip'.at # "callback"
            BY <2>2 DEF IpLockSocket, IpPut, IpAck, IpGoto, Types, PlaceTypes
        <3>3. QED BY <3>1, <3>2, IpMoves
    <2>3. CASE IpRelease(c)
        <3>1. UNCHANGED <<clientVars, waiting, link, loop>>
            BY <2>1, <2>3 DEF IpRelease, clientVars, socketVars
        <3>2. ip.at \in {"put", "answered", "done"} /\ ip'.at # "callback"
            BY <2>3 DEF IpRelease, IpGoto, IpIdle, Types, PlaceTypes
        <3>3. QED BY <3>1, <3>2, IpMoves
    <2>4. QED BY <1>1, <1>3, <2>1, <2>2, <2>3, EstablishDebt, IpAnswerDebt DEF IpStep
<1>4. QED BY <1>2, <1>3

LEMMA DebtInit == Init => DebtInv
<1> SUFFICES ASSUME Init, NEW c \in Clients PROVE OneDebt(c) /\ ~reset[c] /\ loop.at # "take"
    BY DEF DebtInv, Debts, ResetClosed, TakeWaits
<1>1. ~busy[c] /\ req[c] = "none" /\ resp[c] = <<>> /\ ~reset[c] /\ ~waiting[c] /\ link[c] = "down"
      /\ loop.at = "poll" /\ ip.at = "idle"
    BY DEF Init, Idle, IpIdle
<1>2. Waits(resp[c]) /\ ~OneFinal(resp[c])
    BY <1>1 DEF Waits, OneFinal
<1>3. QED BY <1>1, <1>2 DEF OneDebt, Requested, Replying, Connecting, Answering

LEMMA DebtStep == Types /\ OwnInv /\ DebtInv /\ [Next]_vars => DebtInv'
<1> SUFFICES ASSUME Types, OwnInv, DebtInv, [Next]_vars PROVE DebtInv'
    OBVIOUS
<1>1. CASE UNCHANGED vars
    BY <1>1, LoopMoves DEF vars, socketVars
<1>2. ASSUME NEW c \in Clients, Application(c) PROVE DebtInv'
    BY <1>2, ApplicationDebt
<1>3. ASSUME EventLoop PROVE DebtInv'
    BY <1>3, LoopDebt, LoopClientDebt DEF EventLoop, LoopClient
<1>4. QED BY <1>1, <1>2, <1>3, IpDebt DEF Next

\* For every set of clients, blocking TCP or UDP: a client outside a call has no
\* final Response left to read, although the event loop (ReqRespChannel::write)
\* and the IP thread (the callback of connect) both write to its channel, and a
\* WAIT_NEXT may arrive after the answer it announces.
THEOREM OneAnswerEach == Spec => []NoStrayAnswer
<1>1. DebtInv => NoStrayAnswer
    <2> SUFFICES ASSUME DebtInv, NEW c \in Clients, conn[c] = "open", ~busy[c]
                 PROVE  Waits(resp[c])
        BY DEF NoStrayAnswer, Waits
    <2>1. OneDebt(c)
        BY DEF DebtInv, Debts
    <2>2. QED BY <2>1 DEF OneDebt
<1>2. QED BY <1>1, DebtInit, DebtStep, Ownership, PTL DEF Spec
=============================================================================
