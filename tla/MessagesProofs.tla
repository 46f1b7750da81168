---------------------------- MODULE MessagesProofs ----------------------------
(***************************************************************************)
(* Theorems about a message on its way between interceptor and daemon, for *)
(* every set of integers and of data that may be put into it.              *)
(***************************************************************************)
EXTENDS Messages, ProtobufProofs, FiniteSetTheorems

-----------------------------------------------------------------------------
(* The inductive invariant: the sender's object has one call at most, and   *)
(* what is in the channel, and read from it, comes from that object.        *)

OneCall == way = "answer" => \A c, d \in Call(Response, obj) : c = d
KnownCall == way = "request" => obj.case \in {0} \cup {Request__CallingCase[c] : c \in Calls}
AnswerSent ==
  way = "answer" =>
    /\ pc # "compose" => wire = TopSerialize(Response, obj)
    /\ pc = "read" => TopUnpacks(Response__C, wire) /\ read = TopUnpack(Response__C, wire)
    /\ pc = "null" => ~ TopUnpacks(Response__C, wire)
RequestSent ==
  way = "request" =>
    /\ pc # "compose" => wire = TopPack(Request__C, obj)
    /\ pc \in {"read", "null"} => read = TopParse(Request, wire)
    /\ pc = "null" => ~ TopInitialized(Request, read)
Ways == way \in {"answer", "request"} /\ pc \in {"compose", "sent", "read", "null"}
Composed == pc = "compose" => wire = << >>

SentInv == Ways /\ Composed /\ OneCall /\ KnownCall /\ AnswerSent /\ RequestSent

\* The call of a message is the member of the oneof it has.
LEMMA CallOf ==
  ASSUME NEW o
  PROVE  Call(Response, o) = DOMAIN o \cap Calls /\ Call(Request, o) = DOMAIN o \cap Calls
BY ResponseDomains, RequestDomains DEF Call

\* mutable_<call>() leaves the chosen call alone in the oneof, or what there was.
LEMMA MutableOne ==
  ASSUME NEW o, \A c, d \in Call(Response, o) : c = d, NEW c \in Calls
  PROVE  \A d, e \in Call(Response, MutableCall(Response, o, c)) : d = e
<1> DEFINE p == MutableCall(Response, o, c)
           q == [m \in DOMAIN o \ DOMAIN Response.calls |-> o[m]]
<1>1. p = IF c \in DOMAIN o THEN o ELSE Set(q, c, Nothing)
  BY DEF MutableCall, Has
<1>2. CASE c \in DOMAIN o
  BY <1>1, <1>2
<1>3. CASE c \notin DOMAIN o
  <2>1. DOMAIN q = DOMAIN o \ Calls
    BY ResponseDomains
  <2> HIDE DEF q
  <2>2. DOMAIN p = (DOMAIN o \ Calls) \cup {c}
    <3>1. p = Set(q, c, Nothing)
      BY <1>1, <1>3
    <3> HIDE DEF p
    <3>2. QED BY <2>1, <3>1 DEF Set
  <2> HIDE DEF p
  <2>3. Call(Response, p) = DOMAIN p \cap Calls
    BY CallOf
  <2>4. \A d \in Call(Response, p) : d = c
    BY <2>2, <2>3
  <2>5. QED BY <2>4 DEF p
<1>4. QED BY <1>2, <1>3

\* Setting a member that is there, or none of the oneof, adds no call.
LEMMA SetOne ==
  ASSUME NEW o, \A c, d \in Call(Response, o) : c = d, NEW m, NEW v,
         m \in DOMAIN o \/ m \notin Calls
  PROVE  \A d, e \in Call(Response, Set(o, m, v)) : d = e
<1> DEFINE p == Set(o, m, v)
<1>1. DOMAIN p = DOMAIN o \cup {m}
  BY DEF Set
<1> HIDE DEF p
<1>2. Call(Response, p) = DOMAIN p \cap Calls /\ Call(Response, o) = DOMAIN o \cap Calls
  BY CallOf
<1>3. Call(Response, p) \subseteq Call(Response, o)
  BY <1>1, <1>2
<1>4. QED BY <1>3 DEF p

\* It holds at first,
LEMMA SentInit == Init => SentInv
<1> SUFFICES ASSUME Init PROVE SentInv
  OBVIOUS
<1>1. OneCall
  <2>1. DOMAIN Nothing = {}
    BY DEF Nothing
  <2>2. Call(Response, Nothing) = {}
    BY <2>1, CallOf
  <2>3. QED BY <2>2 DEF Init, OneCall
<1>2. KnownCall
  BY DEF Init, KnownCall, EmptyRequest
<1>3. QED BY <1>1, <1>2 DEF Init, SentInv, Ways, Composed, AnswerSent, RequestSent

\* and every step keeps it.
LEMMA SentNext == SentInv /\ [Next]_vars => SentInv'
<1> SUFFICES ASSUME SentInv, [Next]_vars PROVE SentInv'
  OBVIOUS
<1> USE DEF SentInv
<1>1. CASE ChooseAnswer
  <2>1. way = "answer" /\ pc = "compose" /\ UNCHANGED <<way, pc, wire, read>>
    BY <1>1 DEF ChooseAnswer, Composing
  <2>2. PICK c \in Calls : obj' = MutableCall(Response, obj, c)
    BY <1>1, ResponseDomains DEF ChooseAnswer
  <2>3. OneCall'
    BY <2>1, <2>2, MutableOne DEF OneCall
  <2>4. QED BY <2>1, <2>3 DEF KnownCall, AnswerSent, RequestSent, Ways, Composed
<1>2. CASE SetAnswer
  <2>1. way = "answer" /\ pc = "compose" /\ UNCHANGED <<way, pc, wire, read>>
    BY <1>2 DEF SetAnswer, Composing
  <2>2. PICK c \in Call(Response, obj) :
          \E f \in ToSet(response__calls[c].fields) : \E v \in Values(f.type) :
             obj' = Set(obj, c, Set(obj[c], f.member, v))
    BY <1>2 DEF SetAnswer
  <2>3. PICK v : obj' = Set(obj, c, v)
    BY <2>2
  <2>4. c \in DOMAIN obj
    BY CallOf
  <2>5. OneCall'
    BY <2>1, <2>3, <2>4, SetOne DEF OneCall
  <2>6. QED BY <2>1, <2>5 DEF KnownCall, AnswerSent, RequestSent, Ways, Composed
<1>3. CASE SetRetcode
  <2>1. way = "answer" /\ pc = "compose" /\ UNCHANGED <<way, pc, wire, read>>
    BY <1>3 DEF SetRetcode, Composing
  <2>2. PICK v : obj' = Set(obj, "retcode", v)
    BY <1>3 DEF SetRetcode
  <2>3. "retcode" \notin Calls
    BY DEF Calls
  <2>4. OneCall'
    BY <2>1, <2>2, <2>3, SetOne DEF OneCall
  <2>5. QED BY <2>1, <2>4 DEF KnownCall, AnswerSent, RequestSent, Ways, Composed
<1>4. CASE WriteAnswer
  BY <1>4 DEF WriteAnswer, OneCall, KnownCall, AnswerSent, RequestSent, Ways, Composed
<1>5. CASE ReadAnswer
  BY <1>5 DEF ReadAnswer, OneCall, KnownCall, AnswerSent, RequestSent, Ways, Composed
<1>6. CASE ChooseRequest
  <2>1. way = "request" /\ pc = "compose" /\ UNCHANGED <<way, pc, wire, read>>
    BY <1>6 DEF ChooseRequest, Composing
  <2>2. PICK c \in Calls : obj'.case = Request__CallingCase[c]
    BY <1>6, RequestDomains DEF ChooseRequest
  <2>3. KnownCall'
    BY <2>2 DEF KnownCall
  <2>4. QED BY <2>1, <2>3 DEF OneCall, AnswerSent, RequestSent, Ways, Composed
<1>7. CASE SetRequest
  <2>1. way = "request" /\ pc = "compose" /\ UNCHANGED <<way, pc, wire, read>>
    BY <1>7 DEF SetRequest, Composing
  <2>2. PICK c \in Calls :
          /\ obj.case = Request__CallingCase[c]
          /\ \E f \in ToSet(request__calls[c].fields) : \E v \in Values(f.type) :
               obj' = [obj EXCEPT !.union = [m \in DOMAIN @ |-> CASE m = f.member -> v
                                                                  [] m = f.quantifier -> TRUE
                                                                  [] OTHER -> @[m]]]
    BY <1>7, RequestDomains DEF SetRequest
  <2>3. PICK u : obj' = [obj EXCEPT !.union = u]
    BY <2>2
  <2>4. obj'.case = obj.case
    BY <2>3
  <2>5. KnownCall'
    BY <2>1, <2>4 DEF KnownCall
  <2>6. QED BY <2>1, <2>5 DEF OneCall, AnswerSent, RequestSent, Ways, Composed
<1>8. CASE WriteRequest
  BY <1>8 DEF WriteRequest, OneCall, KnownCall, AnswerSent, RequestSent, Ways, Composed
<1>9. CASE ReadRequest
  BY <1>9 DEF ReadRequest, OneCall, KnownCall, AnswerSent, RequestSent, Ways, Composed
<1>10. CASE UNCHANGED vars
  BY <1>10 DEF vars, OneCall, KnownCall, AnswerSent, RequestSent, Ways, Composed
<1>11. QED BY <1>1, <1>2, <1>3, <1>4, <1>5, <1>6, <1>7, <1>8, <1>9, <1>10 DEF Next

\* What is sent is what the object in hand writes, and what is read is what
\* the reader makes of it; an object never has two calls.
THEOREM Sent == Spec => []SentInv
BY SentInit, SentNext, PTL DEF Spec

-----------------------------------------------------------------------------
\* RequestHandler's answer reaches the interceptor as it was composed, or, if it
\* lacks a required field, response__unpack returns null and the call fails.
THEOREM AnswersArrive == Spec => []AnswerArrives
<1>1. SentInv => AnswerArrives
  <2> SUFFICES ASSUME SentInv, way = "answer", pc \in {"read", "null"} PROVE AnswerArrives
    BY DEF AnswerArrives
  <2>1. \A c, d \in Call(Response, obj) : c = d
    BY DEF SentInv, OneCall
  <2>2. /\ wire = TopSerialize(Response, obj)
        /\ pc = "read" => TopUnpacks(Response__C, wire) /\ read = TopUnpack(Response__C, wire)
        /\ pc = "null" => ~ TopUnpacks(Response__C, wire)
    BY DEF SentInv, AnswerSent
  <2>3. TopUnpacks(Response__C, wire) <=> TopInitialized(Response, obj)
    BY <2>1, <2>2, AnswerDelivered
  <2>4. CASE pc = "null"
    BY <2>2, <2>3, <2>4 DEF AnswerArrives
  <2>5. CASE pc = "read"
    <3>1. /\ TopInitialized(Response, obj) => read.plain["retcode"] = obj["retcode"]
          /\ Call(Response, obj) = {} => read.case = 0
          /\ \A c \in Call(Response, obj) :
               /\ read.case = Response__ReturningCase[c]
               /\ read.union = Unpack(response__calls[c], Serialize(Response.calls[c], obj[c]))
      BY <2>1, <2>2, <2>5, AnswerDelivered
    <3>2. TopInitialized(Response, obj)
      BY <2>2, <2>3, <2>5
    <3>3. ASSUME NEW c \in Call(Response, obj), NEW f \in ToSet(response__calls[c].fields)
          PROVE  /\ ~ f.required => read.union[f.quantifier] = Has(obj[c], f.member)
                 /\ read.union[f.member] =
                      IF Has(obj[c], f.member) THEN obj[c][f.member]
                      ELSE InitValue(response__calls[c].struct)[f.member]
      <4>1. c \in Calls
        BY CallOf
      <4>2. Agree(Response.calls[c], response__calls[c]) /\ GoodStruct(response__calls[c])
        BY <4>1, ResponseTables
      <4>3. read.union = Unpack(response__calls[c], Serialize(Response.calls[c], obj[c]))
        BY <3>1
      <4> DEFINE o == obj[c]
                 class == Response.calls[c]
                 msg == response__calls[c]
                 u == read.union
      <4>4. u = Unpack(msg, Serialize(class, o)) /\ Agree(class, msg) /\ GoodStruct(msg) /\ f \in ToSet(msg.fields)
        BY <4>2, <4>3
      <4> HIDE DEF o, class, msg, u
      <4>5. /\ u[f.member] = IF Has(o, f.member) THEN o[f.member] ELSE InitValue(msg.struct)[f.member]
            /\ ~ f.required => u[f.quantifier] = Has(o, f.member)
        BY <4>4, Delivered
      <4>6. QED BY <4>5 DEF o, msg, u
    <3>4. QED BY <2>5, <3>1, <3>2, <3>3 DEF AnswerArrives
  <2>6. QED BY <2>4, <2>5
<1>2. QED BY <1>1, Sent, PTL

\* The interceptor's request is parsed by the daemon as it was packed: the call
\* it is about, the pid, and each member of it that is set.
THEOREM RequestsArrive == Spec => []RequestArrives
<1>1. SentInv => RequestArrives
  <2> SUFFICES ASSUME SentInv, way = "request", pc \in {"read", "null"} PROVE RequestArrives
    BY DEF RequestArrives
  <2>1. /\ read = TopParse(Request, TopPack(Request__C, obj))
        /\ pc = "null" => ~ TopInitialized(Request, read)
    BY DEF SentInv, RequestSent
  <2>2. /\ TopInitialized(Request, read)
        /\ read["pid"] = obj.plain["pid"]
        /\ \A c : c \in Call(Request, read) <=> c \in Calls /\ obj.case = Request__CallingCase[c]
        /\ \A c \in Call(Request, read) :
             read[c] = MergePartial(Request.calls[c], Nothing, Pack(request__calls[c], obj.union))
    BY <2>1, RequestReceived
  <2>3. {Request__CallingCase[c] : c \in Call(Request, read)} = {obj.case} \ {0}
    <3>1. obj.case \in {0} \cup {Request__CallingCase[c] : c \in Calls}
      BY DEF SentInv, KnownCall
    <3>2. \A c \in Calls : Request__CallingCase[c] # 0
      BY RequestTop
    <3>3. QED BY <2>2, <3>1, <3>2
  <2>4. ASSUME NEW c \in Call(Request, read), NEW f \in ToSet(request__calls[c].fields)
        PROVE  /\ Has(read[c], f.member) <=> (f.required \/ obj.union[f.quantifier])
               /\ Has(read[c], f.member) => read[c][f.member] = obj.union[f.member]
    <3>1. Agree(Request.calls[c], request__calls[c])
      BY <2>2, RequestTables
    <3> DEFINE r == read[c]
               class == Request.calls[c]
               msg == request__calls[c]
               u == obj.union
    <3>2. r = MergePartial(class, Nothing, Pack(msg, u)) /\ Agree(class, msg) /\ f \in ToSet(msg.fields)
      BY <2>2, <3>1
    <3> HIDE DEF r, class, msg, u
    <3>3. /\ Has(r, f.member) <=> f.required \/ u[f.quantifier]
          /\ Has(r, f.member) => r[f.member] = u[f.member]
      BY <3>2, Received
    <3>4. QED BY <3>3 DEF r, u
  <2>5. QED BY <2>1, <2>2, <2>3, <2>4 DEF RequestArrives
<1>2. QED BY <1>1, Sent, PTL

-----------------------------------------------------------------------------
(* Types.                                                                   *)

\* A set whose elements are all the same.
LEMMA AtMostOne ==
  ASSUME NEW S, \A c, d \in S : c = d
  PROVE  Cardinality(S) <= 1
<1>1. CASE S = {}
  BY <1>1, FS_EmptySet
<1>2. CASE S # {}
  <2>1. PICK c : c \in S
    BY <1>2
  <2>2. S = {c}
    BY <2>1
  <2>3. Cardinality({c}) = 1
    BY FS_Singleton
  <2>4. Cardinality(S) = 1
    BY <2>2, <2>3
  <2>5. QED BY <2>4
<1>3. QED BY <1>1, <1>2

\* Whatever is sent has the tags of the table.
LEMMA KnownTags ==
  ASSUME NEW top, NEW class, Agree(class, top), NEW sent, NEW present, NEW value,
         IsWire(top, sent, present, value)
  PROVE  \A item \in ToSet(sent) : \E t \in ToSet(class.reads) : item[1] = t[1]
<1> SUFFICES ASSUME NEW item \in ToSet(sent)
             PROVE  \E t \in ToSet(class.reads) : item[1] = t[1]
  OBVIOUS
<1>1. PICK i \in 1 .. Len(sent) : item = sent[i]
  BY DEF ToSet, IsWire
<1>2. PICK f \in present : sent[i] = <<Tag(f), value[f]>>
  BY DEF IsWire
<1>3. f \in ToSet(top.fields)
  BY DEF IsWire
<1>4. <<Tag(f), f.member>> \in ToSet(class.reads)
  BY <1>3 DEF Agree, ReadsAgree
<1>5. item[1] = Tag(f)
  BY <1>1, <1>2
<1>6. QED BY <1>4, <1>5

LEMMA AnswerTags ==
  ASSUME NEW o
  PROVE  \A item \in ToSet(TopSerialize(Response, o)) : \E t \in ToSet(Response_reads) : item[1] = t[1]
<1>1. PICK p : TopSerialize(Response, o) = Serialize(Response, p)
  BY DEF TopSerialize
<1>2. Agree(Response, Response__C)
  BY ResponseTop
<1> DEFINE sent == Serialize(Response, p)
           F == ToSet(Response__C.fields)
           present == {f \in F : Has(p, f.member)}
           value == [f \in present |-> p[f.member]]
<1>3. IsWire(Response__C, sent, present, value)
  BY <1>2, SerializeWire DEF Agree
<1>4. Response.reads = Response_reads
  BY DEF Response
<1> HIDE DEF sent, present, value
<1>5. QED BY <1>1, <1>2, <1>3, <1>4, KnownTags DEF sent

LEMMA RequestTags ==
  ASSUME NEW o
  PROVE  \A item \in ToSet(TopPack(Request__C, o)) : \E t \in ToSet(Request_reads) : item[1] = t[1]
<1> DEFINE top == Request__C
           F == ToSet(top.fields)
           content(f) == IF f.member \in DOMAIN top.calls
                         THEN Pack(top.calls[f.member], o.union) ELSE o.plain[f.member]
           present == {f \in F : f.required \/ o.case = f.id}
           value == [f \in present |-> content(f)]
           sent == TopPack(top, o)
<1>1. Agree(Request, top) /\ GoodFields(top)
  BY RequestTop DEF Agree
<1>2. sent = Written(top.fields, [f \in present |-> <<Tag(f), value[f]>>])
  <2>1. [f \in present |-> <<Tag(f), value[f]>>] = [f \in present |-> <<Tag(f), content(f)>>]
    OBVIOUS
  <2>2. QED BY <2>1 DEF TopPack
<1>3. present \in SUBSET F
  OBVIOUS
<1>4. Request.reads = Request_reads
  BY DEF Request
<1> HIDE DEF present, value, sent, top
<1>5. IsWire(top, sent, present, value)
  BY <1>1, <1>2, <1>3, WrittenWire
<1>6. QED BY <1>1, <1>4, <1>5, KnownTags DEF sent, top

\* The objects, the wire and what is read have the types of the tables, for any
\* integers and data.
THEOREM TypeCorrect == Spec => []TypeOK
<1>1. SentInv => TypeOK
  <2> SUFFICES ASSUME SentInv PROVE TypeOK
    OBVIOUS
  <2>1. way \in {"answer", "request"} /\ pc \in {"compose", "sent", "read", "null"}
    BY DEF SentInv, Ways
  <2>2. way = "answer" => Cardinality(Call(Response, obj)) <= 1
    BY AtMostOne DEF SentInv, OneCall
  <2>3. LET tags == ToSet(IF way = "answer" THEN Response_reads ELSE Request_reads)
        IN  \A item \in ToSet(wire) : \E t \in tags : item[1] = t[1]
    <3>1. CASE pc = "compose"
      <4>1. ToSet(wire) = {}
        BY <3>1 DEF SentInv, Composed, ToSet
      <4>2. QED BY <4>1
    <3>2. CASE pc # "compose" /\ way = "answer"
      <4>1. wire = TopSerialize(Response, obj)
        BY <3>2 DEF SentInv, AnswerSent
      <4>2. QED BY <3>2, <4>1, AnswerTags
    <3>3. CASE pc # "compose" /\ way = "request"
      <4>1. wire = TopPack(Request__C, obj)
        BY <3>3 DEF SentInv, RequestSent
      <4>2. QED BY <3>3, <4>1, RequestTags
    <3>4. QED BY <2>1, <3>1, <3>2, <3>3
  <2>4. ASSUME pc = "read", way = "request" PROVE Cardinality(Call(Request, read)) <= 1
    <3>1. read = TopParse(Request, TopPack(Request__C, obj))
      BY <2>4 DEF SentInv, RequestSent
    <3>2. \A c : c \in Call(Request, read) <=> c \in Calls /\ obj.case = Request__CallingCase[c]
      BY <3>1, RequestReceived
    <3>3. \A c, d \in Calls : Request__CallingCase[c] = Request__CallingCase[d] => c = d
      BY DEF Calls, Request__CallingCase
    <3>4. \A c, d \in Call(Request, read) : c = d
      BY <3>2, <3>3
    <3>5. QED BY <3>4, AtMostOne
  <2>5. QED BY <2>1, <2>2, <2>3, <2>4 DEF TypeOK
<1>2. QED BY <1>1, Sent, PTL

-----------------------------------------------------------------------------
(* The pointers of the union.                                               *)

\* The interceptor reads some answers through a pointer to the struct of another
\* (Uses): it finds the members it means, and no others, at those offsets.
THEOREM PointersAlias == Spec => []AliasesHold
<1>1. AliasesHold
  <2> DEFINE stored(u) == response__calls[u[1]].struct
             used(u) == response__calls[u[2]].struct
  <2>1. /\ response__calls["sendtocall"].struct = Response__Sendto
        /\ response__calls["recvfromcall"].struct = Response__Recvfrom
        /\ response__calls["getpeernamecall"].struct = Response__Getpeername
        /\ response__calls["getsocknamecall"].struct = Response__Getsockname
    BY DEF response__calls, Message
  <2>2. ASSUME NEW u \in Uses
        PROVE  Aliases(response__calls[u[1]].struct, response__calls[u[2]].struct, u[3]) = {u[4]}
    <3>1. \/ u = <<"sendtocall", "recvfromcall", "ret", "ret">>
          \/ u = <<"getpeernamecall", "recvfromcall", "buf", "peername">>
          \/ u = <<"getsocknamecall", "recvfromcall", "buf", "sockanme">>
          \/ u = <<"getsocknamecall", "getpeernamecall", "ret", "ret">>
      BY DEF Uses
    <3>2. CASE u = <<"sendtocall", "recvfromcall", "ret", "ret">>
      <4>1. u[1] = "sendtocall" /\ u[2] = "recvfromcall" /\ u[3] = "ret" /\ u[4] = "ret"
        BY <3>2
      <4>2. QED BY <2>1, <4>1, SendtoAlias
    <3>3. CASE u = <<"getpeernamecall", "recvfromcall", "buf", "peername">>
      <4>1. u[1] = "getpeernamecall" /\ u[2] = "recvfromcall" /\ u[3] = "buf" /\ u[4] = "peername"
        BY <3>3
      <4>2. QED BY <2>1, <4>1, PeernameAlias
    <3>4. CASE u = <<"getsocknamecall", "recvfromcall", "buf", "sockanme">>
      <4>1. u[1] = "getsocknamecall" /\ u[2] = "recvfromcall" /\ u[3] = "buf" /\ u[4] = "sockanme"
        BY <3>4
      <4>2. QED BY <2>1, <4>1, SocknameAlias
    <3>5. CASE u = <<"getsocknamecall", "getpeernamecall", "ret", "ret">>
      <4>1. u[1] = "getsocknamecall" /\ u[2] = "getpeernamecall" /\ u[3] = "ret" /\ u[4] = "ret"
        BY <3>5
      <4>2. QED BY <2>1, <4>1, ResultAlias
    <3>6. QED BY <3>1, <3>2, <3>3, <3>4, <3>5
  <2>3. QED BY <2>2 DEF AliasesHold
<1>2. QED BY <1>1, PTL
=============================================================================
