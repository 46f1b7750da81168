--------------------------- MODULE RpcCallsProofs ---------------------------
(***************************************************************************)
(* Proofs about RpcCalls: the conversation between the interceptor and the *)
(* daemon over one channel.  What a handler is given, what the interceptor *)
(* makes of an answer, what each step does to the records of the model,    *)
(* and the invariant of the conversation built on them.                    *)
(***************************************************************************)
EXTENDS RpcCalls, ProtobufProofs

-----------------------------------------------------------------------------
(* What a handler is given.                                                 *)

\* The Request the daemon parses from a packed call.
Parsed(call, o) == TopParse(Request, packed(call, o))

\* No two calls have a case in common, in either direction.
LEMMA CaseIsCall ==
  ASSUME NEW c \in Calls, NEW d \in Calls
  PROVE  /\ Request__CallingCase[c] = Request__CallingCase[d] => c = d
         /\ Response__ReturningCase[c] = Response__ReturningCase[d] => c = d
<1>1. ASSUME Request__CallingCase[c] = Request__CallingCase[d] PROVE c = d
  <2>1. PICK f \in CallFields(Request__C) : f.member = c
    BY RequestTop
  <2>2. PICK g \in CallFields(Request__C) : g.member = d
    BY RequestTop
  <2>3. f.id = g.id
    BY <1>1, <2>1, <2>2, RequestTop
  <2>4. f \in ToSet(Request__C.fields) /\ g \in ToSet(Request__C.fields)
    BY DEF CallFields
  <2>5. GoodFields(Request__C)
    BY RequestTop DEF GoodTop
  <2>6. f = g
    BY <2>3, <2>4, <2>5 DEF GoodFields
  <2>7. QED BY <2>1, <2>2, <2>6
<1>2. ASSUME Response__ReturningCase[c] = Response__ReturningCase[d] PROVE c = d
  <2>1. PICK f \in CallFields(Response__C) : f.member = c
    BY ResponseTop
  <2>2. PICK g \in CallFields(Response__C) : g.member = d
    BY ResponseTop
  <2>3. f.id = g.id
    BY <1>2, <2>1, <2>2, ResponseTop
  <2>4. f \in ToSet(Response__C.fields) /\ g \in ToSet(Response__C.fields)
    BY DEF CallFields
  <2>5. GoodFields(Response__C)
    BY ResponseTop DEF GoodTop
  <2>6. f = g
    BY <2>3, <2>4, <2>5 DEF GoodFields
  <2>7. QED BY <2>1, <2>2, <2>6
<1>3. QED BY <1>1, <1>2

\* It is about the call that was packed, with the members that were set.
LEMMA ParsedCall ==
  ASSUME NEW call \in Calls, NEW o
  PROVE  /\ (CHOOSE m \in Call(Request, Parsed(call, o)) : TRUE) = call
         /\ Parsed(call, o)[call] = MergePartial(Request.calls[call], Nothing, Pack(request__calls[call], o))
<1> DEFINE obj == [plain |-> [pid |-> 1], union |-> o, case |-> Request__CallingCase[call]]
<1>1. Parsed(call, o) = TopParse(Request, TopPack(Request__C, obj))
  BY DEF Parsed, packed
<1>2. obj.union = o /\ obj.case = Request__CallingCase[call]
  OBVIOUS
<1> HIDE DEF obj
<1>3. /\ \A c : c \in Call(Request, Parsed(call, o)) <=> c \in Calls /\ obj.case = Request__CallingCase[c]
      /\ \A c \in Call(Request, Parsed(call, o)) :
           Parsed(call, o)[c] = MergePartial(Request.calls[c], Nothing, Pack(request__calls[c], obj.union))
  BY <1>1, RequestReceived
<1>4. \A c : c \in Call(Request, Parsed(call, o)) <=> c = call
  BY <1>2, <1>3, CaseIsCall
<1>5. QED BY <1>2, <1>3, <1>4

\* What a handler reads of the call.
Given(call, o) == Parsed(call, o)[call]

\* Each member of it, by the table of the call.
LEMMA GivenField ==
  ASSUME NEW call \in Calls, NEW o, NEW f \in ToSet(request__calls[call].fields)
  PROVE  /\ Has(Given(call, o), f.member) <=> f.required \/ o[f.quantifier]
         /\ Has(Given(call, o), f.member) => Given(call, o)[f.member] = o[f.member]
<1>1. Agree(Request.calls[call], request__calls[call])
  BY RequestTables
<1> DEFINE class == Request.calls[call]
           msg == request__calls[call]
<1>2. Given(call, o) = MergePartial(class, Nothing, Pack(msg, o))
  BY ParsedCall DEF Given
<1>3. Agree(class, msg) /\ f \in ToSet(msg.fields)
  BY <1>1
<1> HIDE DEF class, msg
<1>4. QED BY <1>2, <1>3, Received

\* The member addr of connect is required.
LEMMA GivenConnect ==
  ASSUME NEW o PROVE Given("connectcall", o)["addr"] = o["addr"]
<1> DEFINE fs == request__connect__fields
           f == fs[1]
<1>1. request__calls["connectcall"].fields = fs /\ "connectcall" \in Calls
  BY DEF request__calls, Message, Calls
<1>2. f.member = "addr" /\ f.required /\ f \in ToSet(fs)
  <2>1. f.member = "addr" /\ f.required
    BY DEF request__connect__fields, Required
  <2>2. 1 \in DOMAIN fs
    BY DEF request__connect__fields
  <2>3. f \in ToSet(fs)
    BY <2>2 DEF ToSet
  <2>4. QED BY <2>1, <2>3
<1> HIDE DEF fs, f
<1>3. f \in ToSet(request__calls["connectcall"].fields) /\ "connectcall" \in Calls
  BY <1>1, <1>2
<1>4. Has(Given("connectcall", o), f.member) => Given("connectcall", o)[f.member] = o[f.member]
  BY <1>3, GivenField
<1>5. Has(Given("connectcall", o), f.member)
  BY <1>2, <1>3, GivenField
<1>6. QED BY <1>2, <1>4, <1>5

\* The member requireaddr of recvfrom is required.
LEMMA GivenRecvfrom ==
  ASSUME NEW o PROVE Given("recvfromcall", o)["requireaddr"] = o["requireaddr"]
<1> DEFINE fs == request__recvfrom__fields
           f == fs[3]
<1>1. request__calls["recvfromcall"].fields = fs /\ "recvfromcall" \in Calls
  BY DEF request__calls, Message, Calls
<1>2. f.member = "requireaddr" /\ f.required /\ f \in ToSet(fs)
  <2>1. f.member = "requireaddr" /\ f.required
    BY DEF request__recvfrom__fields, Required
  <2>2. 3 \in DOMAIN fs
    BY DEF request__recvfrom__fields
  <2>3. f \in ToSet(fs)
    BY <2>2 DEF ToSet
  <2>4. QED BY <2>1, <2>3
<1> HIDE DEF fs, f
<1>3. f \in ToSet(request__calls["recvfromcall"].fields) /\ "recvfromcall" \in Calls
  BY <1>1, <1>2
<1>4. Has(Given("recvfromcall", o), f.member) => Given("recvfromcall", o)[f.member] = o[f.member]
  BY <1>3, GivenField
<1>5. Has(Given("recvfromcall", o), f.member)
  BY <1>2, <1>3, GivenField
<1>6. QED BY <1>2, <1>4, <1>5

\* Which handler it is handed to.
LEMMA Handled ==
  ASSUME NEW s, NEW c, NEW call \in Calls, NEW o
  PROVE  LET r == handleRequest(s, Parsed(call, o), c)
         IN  /\ call = "socketcall" => r = socketCall(s, Given(call, o))
             /\ call = "connectcall" => r = connectCall(s, Given(call, o), c)
             /\ call = "closecall" => r = After(s, Answer("OK", "closecall", 0))
             /\ call = "recvfromcall" => r = recvfromCall(s, Given(call, o))
             /\ call = "sendtocall" => r = sendtoCall(s, Given(call, o), c)
             /\ call = "getpeernamecall" => r = getpeernameCall(s)
             /\ call = "getsocknamecall" => r = getsocknameCall(s)
             /\ call = "atstartaction" => r = atstartAction(s)
<1> DEFINE chosen == CHOOSE m \in Call(Request, Parsed(call, o)) : TRUE
           req == Parsed(call, o)
<1>1. chosen = call
  BY ParsedCall
<1>2. handleRequest(s, req, c) =
        CASE chosen = "socketcall" -> socketCall(s, req[chosen])
          [] chosen = "connectcall" -> connectCall(s, req[chosen], c)
          [] chosen = "closecall" -> After(s, Answer("OK", "closecall", 0))
          [] chosen = "recvfromcall" -> recvfromCall(s, req[chosen])
          [] chosen = "sendtocall" -> sendtoCall(s, req[chosen], c)
          [] chosen = "getpeernamecall" -> getpeernameCall(s)
          [] chosen = "getsocknamecall" -> getsocknameCall(s)
          [] chosen = "atstartaction" -> atstartAction(s)
  BY DEF handleRequest
<1> HIDE DEF chosen
<1>3. req[call] = Given(call, o)
  BY DEF Given
<1> HIDE DEF req
<1>4. /\ call = "socketcall" => handleRequest(s, req, c) = socketCall(s, Given(call, o))
      /\ call = "connectcall" => handleRequest(s, req, c) = connectCall(s, Given(call, o), c)
      /\ call = "closecall" => handleRequest(s, req, c) = After(s, Answer("OK", "closecall", 0))
      /\ call = "recvfromcall" => handleRequest(s, req, c) = recvfromCall(s, Given(call, o))
  BY <1>1, <1>2, <1>3
<1>5. /\ call = "sendtocall" => handleRequest(s, req, c) = sendtoCall(s, Given(call, o), c)
      /\ call = "getpeernamecall" => handleRequest(s, req, c) = getpeernameCall(s)
      /\ call = "getsocknamecall" => handleRequest(s, req, c) = getsocknameCall(s)
      /\ call = "atstartaction" => handleRequest(s, req, c) = atstartAction(s)
  BY <1>1, <1>2, <1>3
<1>6. QED BY <1>4, <1>5 DEF req

-----------------------------------------------------------------------------
(* What the interceptor makes of an answer.                                 *)

\* A Response under way, and as the interceptor unpacks it.
Sent(r) == TopSerialize(Response, r)
Arrived(r) == TopUnpack(Response__C, Sent(r))

\* The Response that AnswerWith composes.
LEMMA AnswerHas ==
  ASSUME NEW code, NEW call \in Calls, NEW members
  PROVE  LET r == AnswerWith(code, call, members)
         IN  /\ \A m : m \in Call(Response, r) <=> m = call
             /\ r[call] = members /\ r["retcode"] = RetCode[code]
             /\ "retcode" \in DOMAIN r
<1> DEFINE r == AnswerWith(code, call, members)
           p == Set(Nothing, "retcode", RetCode[code])
<1>1. \A m : m \in DOMAIN p <=> m = "retcode"
  BY DEF Set, Nothing
<1>2. p["retcode"] = RetCode[code]
  BY DEF Set, Nothing
<1>3. r = Set(p, call, members)
  BY DEF AnswerWith
<1>4. call # "retcode"
  BY DEF Calls
<1> HIDE DEF p, r
<1>5. /\ \A m : m \in DOMAIN r <=> m \in {"retcode", call}
      /\ r[call] = members /\ r["retcode"] = p["retcode"]
  BY <1>1, <1>3, <1>4 DEF Set
<1>6. Call(Response, r) = DOMAIN r \cap Calls
  BY ResponseDomains DEF Call
<1>7. "retcode" \notin Calls
  BY DEF Calls
<1>8. \A m : m \in Call(Response, r) <=> m = call
  BY <1>5, <1>6, <1>7
<1>9. QED BY <1>2, <1>5, <1>8 DEF r

\* IsInitialized of the message of the call.
Complete(call, members) == IsInitialized(Response.calls[call], members)
\* The answer ans is one to call, with these members.
IsAnswer(ans, code, call, members) ==
  /\ ans.plain["retcode"] = RetCode[code]
  /\ ans.case = Response__ReturningCase[call]
  /\ \A f \in ToSet(response__calls[call].fields) :
       ans.union[f.member] = IF Has(members, f.member) THEN members[f.member]
                             ELSE InitValue(response__calls[call].struct)[f.member]
\* It is written, also by a Debug build, and read as something else than null.
Passes(r) == TopInitialized(Response, r) /\ TopUnpacks(Response__C, Sent(r))

\* A complete answer is read as what was set.
LEMMA AnswerRead ==
  ASSUME NEW code, NEW call, call \in Calls, NEW members, Complete(call, members)
  PROVE  /\ Passes(AnswerWith(code, call, members))
         /\ IsAnswer(Arrived(AnswerWith(code, call, members)), code, call, members)
<1> DEFINE r == AnswerWith(code, call, members)
<1>1. /\ \A m : m \in Call(Response, r) <=> m = call
      /\ r[call] = members /\ r["retcode"] = RetCode[code]
      /\ "retcode" \in DOMAIN r
  BY AnswerHas
<1> HIDE DEF r
<1>2. TopInitialized(Response, r)
  <2>1. IsInitialized(Response, r)
    <3>1. Response.mask = Response_mask /\ Response.bits = Response_bits
      BY DEF Response
    <3>2. \A b \in Response_mask : \E m \in DOMAIN r \cap DOMAIN Response_bits : b = Response_bits[m]
      BY <1>1 DEF Response_mask, Response_bits
    <3>3. QED BY <3>1, <3>2 DEF IsInitialized
  <2>2. \A m \in Call(Response, r) : IsInitialized(Response.calls[m], r[m])
    BY <1>1 DEF Complete
  <2>3. QED BY <2>1, <2>2 DEF TopInitialized
<1>3. \A c, d \in Call(Response, r) : c = d
  BY <1>1
<1>4. /\ TopUnpacks(Response__C, Sent(r))
      /\ Arrived(r).plain["retcode"] = RetCode[code]
      /\ Arrived(r).case = Response__ReturningCase[call]
      /\ Arrived(r).union = Unpack(response__calls[call], Serialize(Response.calls[call], members))
  BY <1>1, <1>2, <1>3, AnswerDelivered DEF Sent, Arrived
<1>5. \A f \in ToSet(response__calls[call].fields) :
        Arrived(r).union[f.member] = IF Has(members, f.member) THEN members[f.member]
                                     ELSE InitValue(response__calls[call].struct)[f.member]
  <2> DEFINE class == Response.calls[call]
             msg == response__calls[call]
  <2>1. Agree(class, msg) /\ GoodStruct(msg)
    BY ResponseTables, ResponseDomains
  <2> HIDE DEF class, msg
  <2>2. \A f \in ToSet(msg.fields) :
          Unpack(msg, Serialize(class, members))[f.member] =
            IF Has(members, f.member) THEN members[f.member] ELSE InitValue(msg.struct)[f.member]
    BY <2>1, Delivered
  <2>3. QED BY <1>4, <2>2 DEF class, msg
<1>6. IsAnswer(Arrived(r), code, call, members)
  BY <1>4, <1>5 DEF IsAnswer
<1>7. Passes(r)
  BY <1>2, <1>4 DEF Passes
<1>8. QED BY <1>6, <1>7 DEF r

\* WAIT_NEXT has no call in it.
LEMMA WaitNextRead ==
  /\ Passes(WaitNext)
  /\ Arrived(WaitNext).plain["retcode"] = RetCode.WAIT_NEXT
<1> DEFINE r == WaitNext
<1>1. (\A m : m \in DOMAIN r <=> m = "retcode") /\ r["retcode"] = RetCode.WAIT_NEXT
  BY DEF WaitNext, Set, Nothing
<1> HIDE DEF r
<1>2. Call(Response, r) = DOMAIN r \cap Calls
  BY ResponseDomains DEF Call
<1>3. \A m : m \notin Call(Response, r)
  BY <1>1, <1>2 DEF Calls
<1>4. TopInitialized(Response, r)
  <2>1. Response.mask = Response_mask /\ Response.bits = Response_bits
    BY DEF Response
  <2>2. \A b \in Response_mask : \E m \in DOMAIN r \cap DOMAIN Response_bits : b = Response_bits[m]
    BY <1>1 DEF Response_mask, Response_bits
  <2>3. QED BY <1>3, <2>1, <2>2 DEF IsInitialized, TopInitialized
<1>5. TopUnpacks(Response__C, Sent(r)) /\ Arrived(r).plain["retcode"] = r["retcode"]
  BY <1>3, <1>4, AnswerDelivered DEF Sent, Arrived
<1>6. QED BY <1>1, <1>4, <1>5 DEF r, Passes

\* The answer to a connect on a UDP socket lacks its return code.
NoCode == Set(Nothing, "connectcall", [ret |-> 0])

\* A Debug build asserts on it, and it is read as null.
LEMMA NoCodeRead ==
  ~ TopInitialized(Response, NoCode) /\ ~ TopUnpacks(Response__C, Sent(NoCode))
<1> DEFINE r == NoCode
<1>1. \A m : m \in DOMAIN r <=> m = "connectcall"
  BY DEF NoCode, Set, Nothing
<1> HIDE DEF r
<1>2. Call(Response, r) = DOMAIN r \cap Calls
  BY ResponseDomains DEF Call
<1>3. \A c, d \in Call(Response, r) : c = d
  BY <1>1, <1>2
<1>4. ~ TopInitialized(Response, r)
  <2>1. Response.mask = Response_mask /\ Response.bits = Response_bits
    BY DEF Response
  <2>2. \A m \in DOMAIN Response_bits : m # "connectcall"
    BY DEF Response_bits
  <2>3. \E b : b \in Response_mask
    BY DEF Response_mask
  <2>4. {Response_bits[m] : m \in DOMAIN r \cap DOMAIN Response_bits} = {}
    BY <1>1, <2>2
  <2>5. QED BY <2>1, <2>3, <2>4 DEF IsInitialized, TopInitialized
<1>5. QED BY <1>3, <1>4, AnswerDelivered DEF Sent, r

\* Every answer but that of atstart has a result.
Answering == {"socketcall", "connectcall", "closecall", "recvfromcall", "sendtocall",
              "getpeernamecall", "getsocknamecall"}

\* The members the handlers set are enough for IsInitialized.
LEMMA ResultsInitialized ==
  /\ Answering \subseteq Calls /\ "atstartaction" \in Calls
  /\ \A call \in Answering : \A members :
       "ret" \in DOMAIN members => Complete(call, members)
  /\ \A members : "startfd" \in DOMAIN members => Complete("atstartaction", members)
<1> DEFINE Needs(class, m) == class.mask = {0} /\ m \in DOMAIN class.bits /\ class.bits[m] = 0
<1>1. Response.calls = Response_calls
  BY DEF Response
<1>2. Needs(Response_calls["socketcall"], "ret")
  BY DEF Response_calls, Class, Response_Socket_mask, Response_Socket_bits
<1>3. Needs(Response_calls["connectcall"], "ret")
  BY DEF Response_calls, Class, Response_Connect_mask, Response_Connect_bits
<1>4. Needs(Response_calls["closecall"], "ret")
  BY DEF Response_calls, Class, Response_Close_mask, Response_Close_bits
<1>5. Needs(Response_calls["recvfromcall"], "ret")
  BY DEF Response_calls, Class, Response_Recvfrom_mask, Response_Recvfrom_bits
<1>6. Needs(Response_calls["sendtocall"], "ret")
  BY DEF Response_calls, Class, Response_Sendto_mask, Response_Sendto_bits
<1>7. Needs(Response_calls["getpeernamecall"], "ret")
  BY DEF Response_calls, Class, Response_Getpeername_mask, Response_Getpeername_bits
<1>8. Needs(Response_calls["getsocknamecall"], "ret")
  BY DEF Response_calls, Class, Response_Getsockname_mask, Response_Getsockname_bits
<1>9. Needs(Response_calls["atstartaction"], "startfd")
  BY DEF Response_calls, Class, Response_Atstart_mask, Response_Atstart_bits
<1>10. ASSUME NEW class, NEW m, Needs(class, m), NEW members, m \in DOMAIN members
      PROVE  IsInitialized(class, members)
  BY <1>10 DEF IsInitialized
<1> HIDE DEF Needs
<1>11. Answering \subseteq Calls /\ "atstartaction" \in Calls
  BY DEF Answering, Calls
<1>12. ASSUME NEW call \in Answering, NEW members, "ret" \in DOMAIN members
      PROVE  Complete(call, members)
  <2>1. Needs(Response_calls[call], "ret")
    BY <1>2, <1>3, <1>4, <1>5, <1>6, <1>7, <1>8 DEF Answering
  <2>2. QED BY <1>1, <1>10, <1>12, <2>1 DEF Complete
<1>13. QED BY <1>1, <1>9, <1>10, <1>11, <1>12 DEF Complete

-----------------------------------------------------------------------------
(* What the interceptor reads through its pointers into the union.          *)

\* The member of the oneof that is stored is the one the answer is about.
LEMMA Reading ==
  ASSUME NEW stored \in Calls, NEW used, NEW m, NEW ans,
         ans.case = Response__ReturningCase[stored]
  PROVE  Deref(ans, used, m) =
           {ans.union[a] : a \in Aliases(response__calls[stored].struct, response__calls[used].struct, m)}
<1> DEFINE found == CHOOSE c \in DOMAIN response__calls : Response__ReturningCase[c] = ans.case
<1>1. DOMAIN response__calls = Calls
  BY ResponseDomains
<1>2. found = stored
  BY <1>1, CaseIsCall
<1>3. Deref(ans, used, m) =
        {ans.union[a] : a \in Aliases(response__calls[found].struct, response__calls[used].struct, m)}
  BY DEF Deref
<1> HIDE DEF found
<1>4. QED BY <1>2, <1>3

\* The structs behind those pointers.
LEMMA Structs ==
  /\ response__calls["recvfromcall"].struct = Response__Recvfrom
  /\ response__calls["connectcall"].struct = Response__Sendto
  /\ response__calls["getpeernamecall"].struct = Response__Getpeername
  /\ response__calls["getsocknamecall"].struct = Response__Getsockname
<1>1. Response__Connect = Response__Sendto
  BY DEF Response__Connect, Response__Sendto
<1>2. QED BY <1>1 DEF response__calls, Message

\* RESPONSE__RECVFROM__INIT: no bytes and no address.
LEMMA NoBytes ==
  InitValue(Response__Recvfrom)["buf"] = << >> /\ InitValue(Response__Recvfrom)["addr"] = << >>
<1> DEFINE s == Response__Recvfrom
           S == ToSet(s)
           at(m) == CHOOSE f \in S : f[1] = m
<1>1. s[5] \in S /\ s[7] \in S
  BY LayoutRecvfrom
<1>2. /\ s[5] = <<"buf", "ProtobufCBinaryData">> /\ s[7] = <<"addr", "ProtobufCBinaryData">>
      /\ s[1][1] = "ret" /\ s[2][1] = "has_errno_" /\ s[3][1] = "errno_" /\ s[4][1] = "has_buf"
      /\ s[6][1] = "has_addr"
  BY LayoutRecvfrom
<1>3. S = {s[i] : i \in 1 .. 7}
  BY LayoutRecvfrom
<1> HIDE DEF s, S
<1>4. at("buf") = s[5] /\ at("addr") = s[7]
  BY <1>1, <1>2, <1>3
<1>5. InitValue(s) = [m \in {f[1] : f \in S} |-> Zero(at(m)[2])]
  BY DEF InitValue, S
<1>6. "buf" \in {f[1] : f \in S} /\ "addr" \in {f[1] : f \in S}
  BY <1>1, <1>2
<1>7. Zero("ProtobufCBinaryData") = << >>
  BY DEF Zero
<1> HIDE DEF at
<1>8. QED BY <1>2, <1>4, <1>5, <1>6, <1>7 DEF s

\* An answer of recvfrom, read as one of recvfrom or of connect.
LEMMA RecvfromRead ==
  ASSUME NEW code, NEW members, "ret" \in DOMAIN members
  PROVE  LET ans == Arrived(AnswerWith(code, "recvfromcall", members))
         IN  /\ Deref(ans, "recvfromcall", "ret") = {members["ret"]}
             /\ Deref(ans, "connectcall", "ret") = {members["ret"]}
             /\ Deref(ans, "recvfromcall", "buf") = {IF Has(members, "buf") THEN members["buf"] ELSE << >>}
             /\ Deref(ans, "recvfromcall", "addr") = {IF Has(members, "addr") THEN members["addr"] ELSE << >>}
<1> DEFINE ans == Arrived(AnswerWith(code, "recvfromcall", members))
<1>0. "recvfromcall" \in Calls /\ Complete("recvfromcall", members)
  BY ResultsInitialized DEF Answering
<1>1. /\ ans.case = Response__ReturningCase["recvfromcall"]
      /\ \A f \in ToSet(response__calls["recvfromcall"].fields) :
           ans.union[f.member] = IF Has(members, f.member) THEN members[f.member]
                                 ELSE InitValue(response__calls["recvfromcall"].struct)[f.member]
  <2>1. IsAnswer(ans, code, "recvfromcall", members)
    BY <1>0, AnswerRead
  <2>2. QED BY <2>1 DEF IsAnswer
<1> HIDE DEF ans
<1>2. ans.union["ret"] = IF Has(members, "ret") THEN members["ret"] ELSE InitValue(response__calls["recvfromcall"].struct)["ret"]
  <2> DEFINE fs == response__recvfrom__fields
             f == fs[1]
  <2>1. f.member = "ret"
    BY DEF response__recvfrom__fields, Required, Optional
  <2>2. 1 \in DOMAIN fs
    BY DEF response__recvfrom__fields
  <2>3. f \in ToSet(fs)
    BY <2>2 DEF ToSet
  <2>4. response__calls["recvfromcall"].fields = fs
    BY DEF response__calls, Message
  <2> HIDE DEF f, fs
  <2>5. QED BY <1>1, <2>1, <2>3, <2>4
<1>3. ans.union["buf"] = IF Has(members, "buf") THEN members["buf"] ELSE InitValue(response__calls["recvfromcall"].struct)["buf"]
  <2> DEFINE fs == response__recvfrom__fields
             f == fs[3]
  <2>1. f.member = "buf"
    BY DEF response__recvfrom__fields, Required, Optional
  <2>2. 3 \in DOMAIN fs
    BY DEF response__recvfrom__fields
  <2>3. f \in ToSet(fs)
    BY <2>2 DEF ToSet
  <2>4. response__calls["recvfromcall"].fields = fs
    BY DEF response__calls, Message
  <2> HIDE DEF f, fs
  <2>5. QED BY <1>1, <2>1, <2>3, <2>4
<1>4. ans.union["addr"] = IF Has(members, "addr") THEN members["addr"] ELSE InitValue(response__calls["recvfromcall"].struct)["addr"]
  <2> DEFINE fs == response__recvfrom__fields
             f == fs[4]
  <2>1. f.member = "addr"
    BY DEF response__recvfrom__fields, Required, Optional
  <2>2. 4 \in DOMAIN fs
    BY DEF response__recvfrom__fields
  <2>3. f \in ToSet(fs)
    BY <2>2 DEF ToSet
  <2>4. response__calls["recvfromcall"].fields = fs
    BY DEF response__calls, Message
  <2> HIDE DEF f, fs
  <2>5. QED BY <1>1, <2>1, <2>3, <2>4
<1>5. /\ ans.union["ret"] = members["ret"]
      /\ ans.union["buf"] = IF Has(members, "buf") THEN members["buf"] ELSE << >>
      /\ ans.union["addr"] = IF Has(members, "addr") THEN members["addr"] ELSE << >>
  BY <1>2, <1>3, <1>4, Structs, NoBytes DEF Has
<1>6. Deref(ans, "recvfromcall", "ret") = {ans.union["ret"]}
  BY <1>0, <1>1, Reading, Structs, ReceivedAlias
<1>7. Deref(ans, "connectcall", "ret") = {ans.union["ret"]}
  BY <1>0, <1>1, Reading, Structs, ProgressAlias
<1>8. Deref(ans, "recvfromcall", "buf") = {ans.union["buf"]}
  BY <1>0, <1>1, Reading, Structs, BufAlias
<1>9. Deref(ans, "recvfromcall", "addr") = {ans.union["addr"]}
  BY <1>0, <1>1, Reading, Structs, AddrAlias
<1>10. QED BY <1>5, <1>6, <1>7, <1>8, <1>9 DEF ans

\* An answer of connect.
LEMMA ConnectRead ==
  ASSUME NEW code, NEW members, "ret" \in DOMAIN members
  PROVE  LET ans == Arrived(AnswerWith(code, "connectcall", members))
         IN  Deref(ans, "connectcall", "ret") = {members["ret"]}
<1> DEFINE ans == Arrived(AnswerWith(code, "connectcall", members))
<1>0. "connectcall" \in Calls /\ Complete("connectcall", members)
  BY ResultsInitialized DEF Answering
<1>1. /\ ans.case = Response__ReturningCase["connectcall"]
      /\ \A f \in ToSet(response__calls["connectcall"].fields) :
           ans.union[f.member] = IF Has(members, f.member) THEN members[f.member]
                                 ELSE InitValue(response__calls["connectcall"].struct)[f.member]
  <2>1. IsAnswer(ans, code, "connectcall", members)
    BY <1>0, AnswerRead
  <2>2. QED BY <2>1 DEF IsAnswer
<1> HIDE DEF ans
<1>2. ans.union["ret"] = IF Has(members, "ret") THEN members["ret"] ELSE InitValue(response__calls["connectcall"].struct)["ret"]
  <2> DEFINE fs == response__connect__fields
             f == fs[1]
  <2>1. f.member = "ret"
    BY DEF response__connect__fields, Required, Optional
  <2>2. 1 \in DOMAIN fs
    BY DEF response__connect__fields
  <2>3. f \in ToSet(fs)
    BY <2>2 DEF ToSet
  <2>4. response__calls["connectcall"].fields = fs
    BY DEF response__calls, Message
  <2> HIDE DEF f, fs
  <2>5. QED BY <1>1, <2>1, <2>3, <2>4
<1>3. ans.union["ret"] = members["ret"]
  BY <1>2 DEF Has
<1>4. Deref(ans, "connectcall", "ret") = {ans.union["ret"]}
  BY <1>0, <1>1, Reading, Structs, SentAlias
<1>5. QED BY <1>3, <1>4 DEF ans

\* An answer of getpeername, whose address is read as the bytes of recvfrom.
LEMMA GetpeernameRead ==
  ASSUME NEW code, NEW members, "ret" \in DOMAIN members, "peername" \in DOMAIN members
  PROVE  LET ans == Arrived(AnswerWith(code, "getpeernamecall", members))
         IN  Deref(ans, "recvfromcall", "buf") = {members["peername"]}
<1> DEFINE ans == Arrived(AnswerWith(code, "getpeernamecall", members))
<1>0. "getpeernamecall" \in Calls /\ Complete("getpeernamecall", members)
  BY ResultsInitialized DEF Answering
<1>1. /\ ans.case = Response__ReturningCase["getpeernamecall"]
      /\ \A f \in ToSet(response__calls["getpeernamecall"].fields) :
           ans.union[f.member] = IF Has(members, f.member) THEN members[f.member]
                                 ELSE InitValue(response__calls["getpeernamecall"].struct)[f.member]
  <2>1. IsAnswer(ans, code, "getpeernamecall", members)
    BY <1>0, AnswerRead
  <2>2. QED BY <2>1 DEF IsAnswer
<1> HIDE DEF ans
<1>2. ans.union["peername"] = IF Has(members, "peername") THEN members["peername"] ELSE InitValue(response__calls["getpeernamecall"].struct)["peername"]
  <2> DEFINE fs == response__getpeername__fields
             f == fs[3]
  <2>1. f.member = "peername"
    BY DEF response__getpeername__fields, Required, Optional
  <2>2. 3 \in DOMAIN fs
    BY DEF response__getpeername__fields
  <2>3. f \in ToSet(fs)
    BY <2>2 DEF ToSet
  <2>4. response__calls["getpeernamecall"].fields = fs
    BY DEF response__calls, Message
  <2> HIDE DEF f, fs
  <2>5. QED BY <1>1, <2>1, <2>3, <2>4
<1>3. ans.union["peername"] = members["peername"]
  BY <1>2 DEF Has
<1>4. Deref(ans, "recvfromcall", "buf") = {ans.union["peername"]}
  BY <1>0, <1>1, Reading, Structs, PeernameAlias
<1>5. QED BY <1>3, <1>4 DEF ans

\* An answer of getsockname, whose address is read as the bytes of recvfrom.
LEMMA GetsocknameRead ==
  ASSUME NEW code, NEW members, "ret" \in DOMAIN members, "sockanme" \in DOMAIN members
  PROVE  LET ans == Arrived(AnswerWith(code, "getsocknamecall", members))
         IN  Deref(ans, "recvfromcall", "buf") = {members["sockanme"]}
<1> DEFINE ans == Arrived(AnswerWith(code, "getsocknamecall", members))
<1>0. "getsocknamecall" \in Calls /\ Complete("getsocknamecall", members)
  BY ResultsInitialized DEF Answering
<1>1. /\ ans.case = Response__ReturningCase["getsocknamecall"]
      /\ \A f \in ToSet(response__calls["getsocknamecall"].fields) :
           ans.union[f.member] = IF Has(members, f.member) THEN members[f.member]
                                 ELSE InitValue(response__calls["getsocknamecall"].struct)[f.member]
  <2>1. IsAnswer(ans, code, "getsocknamecall", members)
    BY <1>0, AnswerRead
  <2>2. QED BY <2>1 DEF IsAnswer
<1> HIDE DEF ans
<1>2. ans.union["sockanme"] = IF Has(members, "sockanme") THEN members["sockanme"] ELSE InitValue(response__calls["getsocknamecall"].struct)["sockanme"]
  <2> DEFINE fs == response__getsockname__fields
             f == fs[3]
  <2>1. f.member = "sockanme"
    BY DEF response__getsockname__fields, Required, Optional
  <2>2. 3 \in DOMAIN fs
    BY DEF response__getsockname__fields
  <2>3. f \in ToSet(fs)
    BY <2>2 DEF ToSet
  <2>4. response__calls["getsocknamecall"].fields = fs
    BY DEF response__calls, Message
  <2> HIDE DEF f, fs
  <2>5. QED BY <1>1, <2>1, <2>3, <2>4
<1>3. ans.union["sockanme"] = members["sockanme"]
  BY <1>2 DEF Has
<1>4. Deref(ans, "recvfromcall", "buf") = {ans.union["sockanme"]}
  BY <1>0, <1>1, Reading, Structs, SocknameAlias
<1>5. QED BY <1>3, <1>4 DEF ans

\* The answer to atstart.
LEMMA AtstartRead ==
  ASSUME NEW code, NEW members, "startfd" \in DOMAIN members
  PROVE  LET ans == Arrived(AnswerWith(code, "atstartaction", members))
         IN  ans.union["startfd"] = members["startfd"]
<1> DEFINE ans == Arrived(AnswerWith(code, "atstartaction", members))
<1>0. "atstartaction" \in Calls /\ Complete("atstartaction", members)
  BY ResultsInitialized DEF Answering
<1>1. /\ ans.case = Response__ReturningCase["atstartaction"]
      /\ \A f \in ToSet(response__calls["atstartaction"].fields) :
           ans.union[f.member] = IF Has(members, f.member) THEN members[f.member]
                                 ELSE InitValue(response__calls["atstartaction"].struct)[f.member]
  <2>1. IsAnswer(ans, code, "atstartaction", members)
    BY <1>0, AnswerRead
  <2>2. QED BY <2>1 DEF IsAnswer
<1> HIDE DEF ans
<1>2. ans.union["startfd"] = IF Has(members, "startfd") THEN members["startfd"] ELSE InitValue(response__calls["atstartaction"].struct)["startfd"]
  <2> DEFINE fs == response__atstart__fields
             f == fs[1]
  <2>1. f.member = "startfd"
    BY DEF response__atstart__fields, Required, Optional
  <2>2. 1 \in DOMAIN fs
    BY DEF response__atstart__fields
  <2>3. f \in ToSet(fs)
    BY <2>2 DEF ToSet
  <2>4. response__calls["atstartaction"].fields = fs
    BY DEF response__calls, Message
  <2> HIDE DEF f, fs
  <2>5. QED BY <1>1, <2>1, <2>3, <2>4
<1>3. QED BY <1>2 DEF Has, ans

-----------------------------------------------------------------------------
(* The inductive invariant.  Its parts are first what holds in any case,    *)
(* then, while no two sockets of the process were open at once, what the    *)
(* application and the daemon have said to each other.                      *)

\* The records of the model.
IsSock(s) ==
  s = [kind |-> s.kind, nonblocking |-> s.nonblocking, faddr |-> s.faddr, lport |-> s.lport,
       state |-> s.state, estabCB |-> s.estabCB, waiting |-> s.waiting, recvQ |-> s.recvQ]
IsSeq(s) == \E S : s \in Seq(S)
IsChan(ch) == ch = [open |-> ch.open, req |-> ch.req, resp |-> ch.resp, sock |-> ch.sock]
IsThread(th) ==
  th = [pc |-> th.pc, call |-> th.call, obj |-> th.obj, ch |-> th.ch, own |-> th.own,
        fd |-> th.fd, peer |-> th.peer, res |-> th.res]

AllChannels == Channels \cup {ProcChannel}
ShapeInv ==
  /\ DOMAIN chan = AllChannels /\ DOMAIN thread = Threads
  /\ DOMAIN table = 0 .. MaxSockets - 1
  /\ \A c \in AllChannels : /\ IsChan(chan[c]) /\ IsSock(chan[c].sock)
                            /\ IsSeq(chan[c].req) /\ IsSeq(chan[c].resp)
  /\ \A i \in 0 .. MaxSockets - 1 : table[i] \in 0 .. opened
  /\ \A t \in Threads :
       /\ IsThread(thread[t]) /\ thread[t].ch \in AllChannels
       /\ thread[t].own = 0 => thread[t] = Idle
       /\ thread[t].own # 0 => /\ thread[t].own \in Channels
                              /\ startfd # 0 /\ thread[t].fd = startfd
  /\ opened \in 0 .. MaxSockets /\ packets \in Nat /\ build \in {"Debug", "Release"}

\* A channel that was not made yet.
FreshInv == \A c \in Channels : c > opened => chan[c] = NoChannel

\* The channel of the process has nothing but atstart.
AtStartAnswer == AnswerWith("OK", "atstartaction", [startfd |-> 4096, count |-> 1024])
ProcInv ==
  /\ startfd \in {0, 4096}
  /\ chan[ProcChannel].sock = NoSocket
  /\ \A i \in DOMAIN chan[ProcChannel].req :
        chan[ProcChannel].req[i] = packed("atstartaction", initial("atstartaction"))
  /\ \A i \in DOMAIN chan[ProcChannel].resp : chan[ProcChannel].resp[i] = Sent(AtStartAnswer)

\* What an application may have asked.
Asks(call) ==
  IF call = "socketcall"
  THEN {[initial("socketcall") EXCEPT !.domain = AF_INET, !["type"] = type] : type \in SocketTypes}
  ELSE Objects(call)
Known(w) == \E call \in SocketCalls \cup {"socketcall"} : \E o \in Asks(call) : w = packed(call, o)
WireInv ==
  \A c \in Channels :
    /\ \A i \in DOMAIN chan[c].req : Known(chan[c].req[i])
    /\ build = "Debug" => \A i \in DOMAIN chan[c].resp : TopUnpacks(Response__C, chan[c].resp[i])

\* Each program ends only in the way of its build, the daemon by what it has to
\* answer.
DaemonInv ==
  /\ daemon \in {"up", "assert", "overread"}
  /\ daemon = "assert" => build = "Debug" /\ (UdpConnected \/ HugePacket)
  /\ daemon = "overread" => build = "Release" /\ HugePacket
ClientInv == /\ client = "assert" => build = "Debug"
             /\ client = "null" => build = "Release"
             /\ client = "exit" => daemon # "up"

\* The data of packets and of answers is no longer than the longest packet.
Queued(s, n) == IsSeq(s.recvQ) /\ \A i \in DOMAIN s.recvQ : Len(s.recvQ[i].data) \in 0 .. n
QueueInv == longest \in Nat /\ \A c \in AllChannels : Queued(chan[c].sock, longest)
Brief(r, n) ==
  Has(r, "recvfromcall") /\ Has(r["recvfromcall"], "buf") => Len(r["recvfromcall"]["buf"]) \in 0 .. n

\* Whoever has a socket has its channel, behind the only descriptor there is.
OwnInv ==
  /\ ~ overlap => \A t \in Threads : thread[t].own # 0 =>
       /\ thread[t].own <= opened /\ chan[thread[t].own].open /\ table[0] = thread[t].own
       /\ thread[t].pc \in {"idle", "sent", "reading", "closing"}
       /\ thread[t].pc \in {"reading", "closing"} => thread[t].ch = thread[t].own
       /\ \A u \in Threads : thread[u].own # 0 => u = t
  /\ ~ overlap => \A c \in Channels : chan[c].open => \E t \in Threads : thread[t].own = c

\* A socket that was made.
Packet(p, s) == /\ p = [from |-> p.from, data |-> p.data]
                /\ s.kind = "UDP" => p.from \in Peers
Made(s) ==
  /\ s.kind \in {"TCP", "UDP"} /\ s.state \in {"CLOSED", "SYN_SENT", "ESTABLISHED"}
  /\ s.kind = "UDP" => s.state = "CLOSED"
  /\ IsSeq(s.recvQ) /\ \A i \in DOMAIN s.recvQ : Packet(s.recvQ[i], s)
\* One on which no connect is in progress.
Settled(s) ==
  /\ Made(s)
  /\ s.state = "ESTABLISHED" <=> s.faddr # NoAddr
  /\ s.faddr = NoAddr \/ (s.faddr \in Peers /\ s.kind = "TCP" /\ ~ s.nonblocking)
  /\ s.state # "ESTABLISHED" => ~ s.estabCB

\* As the application sees it: getpeername would tell where connect led.
Rest(th, s) == Settled(s) /\ th.peer = SockAddr(s.faddr)

\* What it can be answered, and the Socket that is left.
FinalConnect(th, s, r) ==
  /\ Made(s)
  /\ \/ /\ r = Answer("OK", "connectcall", 0)
        /\ s.kind = "TCP" /\ ~ s.nonblocking
        /\ s.faddr = th.obj["addr"] /\ s.faddr \in Peers /\ s.state = "ESTABLISHED"
     \/ /\ r = Answer("OK", "recvfromcall", EINPROGRESS)
        /\ Rest(th, s) /\ s.kind = "TCP" /\ s.nonblocking
     \/ r = NoCode /\ s.kind = "UDP" /\ s.faddr # NoAddr
FinalRecvfrom(th, s, r) ==
  /\ Rest(th, s)
  /\ \/ \E p : \E w \in BOOLEAN :
          /\ r = PacketAnswer(p, w)
          /\ s.kind = "UDP" => p.from \in Peers /\ w = th.obj["requireaddr"]
     \/ r = Answer("OK", "recvfromcall", EAGAIN) /\ s.nonblocking
Final(th, s, r) ==
  \/ /\ th.call \in {"socketcall", "closecall"}
     /\ Rest(th, s) /\ r = Answer("OK", th.call, 0)
  \/ /\ th.call = "sendtocall"
     /\ Rest(th, s) /\ \E n : r = Answer("OK", "sendtocall", n)
  \/ th.call = "connectcall" /\ FinalConnect(th, s, r)
  \/ th.call = "recvfromcall" /\ FinalRecvfrom(th, s, r)
  \/ /\ th.call = "getpeernamecall" /\ Rest(th, s)
     /\ r = AnswerWith("OK", "getpeernamecall", [ret |-> 0, peername |-> th.peer])
  \/ /\ th.call = "getsocknamecall" /\ Rest(th, s)
     /\ r = AnswerWith("OK", "getsocknamecall", [ret |-> 0, sockanme |-> LocalAddr(s)])

\* A call in which the application waits for the daemon.
InCall(th) == th.pc \in {"sent", "reading"} /\ th.res.call = "none"

\* The result of the last call still holds.
Holds(th, s) ==
  /\ th.res.call = "connectcall" =>
       \/ th.res.ret = 0 /\ s.faddr = th.obj["addr"] /\ s.state = "ESTABLISHED"
       \/ th.res.ret = EINPROGRESS /\ s.nonblocking /\ s.faddr = NoAddr
  /\ th.res.call = "recvfromcall" =>
       /\ th.res.ret = Len(th.res.buf) \/ (s.nonblocking /\ th.res.ret = EAGAIN)
       /\ s.kind = "UDP" /\ th.obj["requireaddr"] => th.res.addr \in Peers
  /\ th.res.call = "getpeernamecall" => th.res.addr = th.peer
  /\ th.res.call = "getsocknamecall" => th.res.addr = LocalAddr(s)

\* The states of a conversation: nothing asked; a Request under way; the last
\* answer under way; the daemon waits for a packet or for the peer.
Quiet(th, ch) ==
  /\ th.pc \in {"idle", "closing"} /\ ch.req = << >> /\ ch.resp = << >>
  /\ Rest(th, ch.sock) /\ ch.sock.waiting = "no" /\ Holds(th, ch.sock)
Asked(th, ch) ==
  /\ InCall(th) /\ ch.req = <<packed(th.call, th.obj)>> /\ ch.resp = << >>
  /\ th.obj \in Asks(th.call)
  /\ \/ th.call = "socketcall" /\ ch.sock = NoSocket /\ th.peer = <<0, 0>>
     \/ th.call \in SocketCalls /\ Rest(th, ch.sock) /\ ch.sock.waiting = "no"
Answered(th, ch, n) ==
  /\ InCall(th) /\ ch.req = << >> /\ ch.sock.waiting = "no"
  /\ th.obj \in Asks(th.call)
  /\ \E r : /\ Final(th, ch.sock, r) /\ Brief(r, n)
            /\ ch.resp \in {<<Sent(r)>>, <<Sent(WaitNext), Sent(r)>>}
Awaits(th, s) ==
  \/ /\ th.call = "recvfromcall" /\ Rest(th, s)
     /\ s.waiting = IF s.kind = "UDP" /\ th.obj["requireaddr"] THEN "addr" ELSE "plain"
  \/ /\ th.call = "connectcall" /\ Made(s) /\ s.waiting = "no"
     /\ s.kind = "TCP" /\ ~ s.nonblocking /\ s.estabCB
     /\ s.faddr = th.obj["addr"] /\ th.obj["addr"] \in Peers
     /\ \/ s.state = "SYN_SENT"
        \/ s.state = "ESTABLISHED" /\ th.peer # <<0, 0>>
Awaited(th, ch) ==
  /\ InCall(th) /\ th.obj \in Asks(th.call)
  /\ ch.req = << >> /\ ch.resp \in {<< >>, <<Sent(WaitNext)>>}
  /\ Awaits(th, ch.sock)
\* One of the programs, the daemon d or the application cl, has ended.
Over(th, ch, d, cl) ==
  /\ d # "up" \/ cl # "up"
  /\ InCall(th) /\ (cl = "up" => ch.resp \in {<< >>, <<Sent(WaitNext)>>})
\* The longest packet so far had n bytes.
Talk(th, ch, d, cl, n) ==
  \/ d = "up" /\ cl = "up"
     /\ (Quiet(th, ch) \/ Asked(th, ch) \/ Answered(th, ch, n) \/ Awaited(th, ch))
  \/ Over(th, ch, d, cl)
TalkInv ==
  ~ overlap => \A t \in Threads : thread[t].own # 0 =>
    Talk(thread[t], chan[thread[t].own], daemon, client, longest)

\* Why the application may end: what it cannot read of an answer, on the socket
\* s, or a call that is too long.
Unreadable(th, s, cl, n) ==
  \/ /\ th.call = "recvfromcall" /\ th.obj["requireaddr"]
     /\ s.nonblocking \/ s.kind = "TCP"
     /\ cl \in {"assert", "null"}
  \/ /\ th.call = "connectcall" /\ s.nonblocking /\ s.kind = "TCP"
     /\ cl = "assert"
  \/ s.kind = "UDP" /\ s.faddr # NoAddr /\ cl = "null"
  \/ th.call = "recvfromcall" /\ th.obj["len"] < n /\ cl = "overrun"
Excuse(th, s, cl, n, b) ==
  \/ th.pc = "reading" /\ Unreadable(th, s, cl, n)
  \/ /\ th.pc = "sent" /\ ~ RequestFits(th.call, th.obj)
     /\ cl = IF b = "Debug" THEN "assert" ELSE "overrun"
\* ... or that the daemon ended first.
Stranded(d, cl) == d # "up" /\ cl # "overrun" /\ (cl = "garbage" => d = "overread")
EndInv ==
  ~ overlap /\ client # "up" =>
    \/ Stranded(daemon, client)
    \/ \E t \in Threads :
         thread[t].own # 0 /\ Excuse(thread[t], chan[thread[t].own].sock, client, longest, build)

-----------------------------------------------------------------------------
(* What the steps of the daemon do.                                         *)

\* The elements of a longer sequence.
LEMMA Appended ==
  ASSUME NEW s, IsSeq(s), NEW x
  PROVE  /\ IsSeq(Append(s, x))
         /\ \A i \in DOMAIN Append(s, x) : Append(s, x)[i] = x \/ \E j \in DOMAIN s : Append(s, x)[i] = s[j]
<1>1. PICK S : s \in Seq(S)
  BY DEF IsSeq
<1>2. s \in Seq(S \cup {x}) /\ x \in S \cup {x}
  BY <1>1
<1>3. Append(s, x) \in Seq(S \cup {x})
  BY <1>2
<1>4. \A i \in DOMAIN Append(s, x) : Append(s, x)[i] = x \/ \E j \in DOMAIN s : Append(s, x)[i] = s[j]
  BY <1>1
<1>5. QED BY <1>3, <1>4 DEF IsSeq

\* The elements of a shorter one.
LEMMA Dropped ==
  ASSUME NEW s, IsSeq(s), s # << >>
  PROVE  /\ IsSeq(Tail(s)) /\ 1 \in DOMAIN s /\ Head(s) = s[1]
         /\ \A i \in DOMAIN Tail(s) : \E j \in DOMAIN s : Tail(s)[i] = s[j]
<1>1. PICK S : s \in Seq(S)
  BY DEF IsSeq
<1>2. Tail(s) \in Seq(S) /\ 1 \in DOMAIN s /\ Head(s) = s[1]
  BY <1>1
<1>3. ASSUME NEW i \in DOMAIN Tail(s) PROVE \E j \in DOMAIN s : Tail(s)[i] = s[j]
  <2>1. i + 1 \in DOMAIN s /\ Tail(s)[i] = s[i + 1]
    BY <1>1, <1>3
  <2>2. QED BY <2>1
<1>4. QED BY <1>2, <1>3 DEF IsSeq

\* One channel becomes this, and the others stay.
Becomes(c, o, q, p, s) ==
  /\ DOMAIN chan' = AllChannels
  /\ \A d \in AllChannels : d # c => chan'[d] = chan[d]
  /\ chan'[c] = [open |-> o, req |-> q, resp |-> p, sock |-> s]

\* The Response passes the assertions of write.
Writable(r) == ResponseFits(r) /\ (build = "Debug" => TopInitialized(Response, r))
\* The daemon leaves a channel with these Requests and this Socket, and writes r or stops.
Writes(c, q, s, r) ==
  \/ /\ daemon' = "up" /\ Writable(r)
     /\ Becomes(c, chan[c].open, q, Append(chan[c].resp, Sent(r)), s)
  \/ /\ daemon' = Failing("overread") /\ ~ Writable(r)
     /\ Becomes(c, chan[c].open, q, chan[c].resp, s)

\* An address of a peer is not the address a socket has before connect.
LEMMA PeersNotEmpty == \A x \in Peers : x # << >>
BY PeersAssumption

\* What no step of the daemon changes.
DaemonFrame ==
  /\ daemon = "up" /\ client = "up"
  /\ UNCHANGED <<build, client, startfd, count, table, thread, opened, calls, overlap>>

\* What write does.
LEMMA Wrote ==
  ASSUME ShapeInv, daemon = "up", NEW c \in AllChannels, NEW q, NEW s, NEW r, NEW ch,
         ch = [open |-> chan[c].open, req |-> q, resp |-> chan[c].resp, sock |-> s],
         write(c, ch, r)
  PROVE  Writes(c, q, s, r)
<1>1. DOMAIN chan = AllChannels
  BY DEF ShapeInv
<1>2. CASE ~ Writable(r)
  <2>1. daemon' = Failing("overread") /\ chan' = [chan EXCEPT ![c] = ch]
    BY <1>2 DEF write, Writable
  <2>2. Becomes(c, chan[c].open, q, chan[c].resp, s)
    BY <1>1, <2>1 DEF Becomes
  <2>3. QED BY <1>2, <2>1, <2>2 DEF Writes
<1>3. CASE Writable(r)
  <2> DEFINE w == [ch EXCEPT !.resp = Append(@, TopSerialize(Response, r))]
  <2>1. daemon' = "up" /\ chan' = [chan EXCEPT ![c] = w]
    BY <1>3 DEF write, Writable
  <2>2. w = [open |-> chan[c].open, req |-> q, resp |-> Append(chan[c].resp, Sent(r)), sock |-> s]
    <3> DEFINE more == Append(chan[c].resp, Sent(r))
    <3>1. w = [ch EXCEPT !.resp = more]
      BY DEF Sent
    <3> HIDE DEF w, more
    <3>2. QED BY <3>1 DEF more
  <2> HIDE DEF w
  <2>3. Becomes(c, chan[c].open, q, Append(chan[c].resp, Sent(r)), s)
    BY <1>1, <2>1, <2>2 DEF Becomes
  <2>4. QED BY <1>3, <2>1, <2>3 DEF Writes
<1>4. QED BY <1>2, <1>3

\* A Request is read and handled.
LEMMA ReadReady ==
  ASSUME ShapeInv, NEW c \in AllChannels, onReadReady(c)
  PROVE  /\ DaemonFrame /\ UNCHANGED <<packets, longest>>
         /\ chan[c].open /\ chan[c].req # << >>
         /\ LET r == handleRequest(chan[c].sock, TopParse(Request, Head(chan[c].req)), c)
            IN  Writes(c, Tail(chan[c].req), r.sock, r.resp)
<1> DEFINE r == handleRequest(chan[c].sock, TopParse(Request, Head(chan[c].req)), c)
           ch == [chan[c] EXCEPT !.req = Tail(@), !.sock = r.sock]
<1>1. /\ DaemonFrame /\ UNCHANGED <<packets, longest>>
      /\ chan[c].open /\ chan[c].req # << >>
  BY DEF onReadReady, Daemon, DaemonFrame, clientVars
<1>2. write(c, ch, r.resp)
  BY DEF onReadReady
<1> HIDE DEF r
<1>3. IsChan(chan[c])
  BY DEF ShapeInv
<1>4. ch = [open |-> chan[c].open, req |-> Tail(chan[c].req), resp |-> chan[c].resp, sock |-> r.sock]
  <2> DEFINE q == Tail(chan[c].req)
             s == r.sock
  <2>1. ch = [chan[c] EXCEPT !.req = q, !.sock = s]
    OBVIOUS
  <2> HIDE DEF ch, q, s
  <2>2. ch = [open |-> chan[c].open, req |-> q, resp |-> chan[c].resp, sock |-> s]
    BY <1>3, <2>1 DEF IsChan
  <2>3. QED BY <2>2 DEF q, s
<1> HIDE DEF ch
<1>5. Writes(c, Tail(chan[c].req), r.sock, r.resp)
  BY <1>1, <1>2, <1>4, Wrote DEF DaemonFrame
<1>6. QED BY <1>1, <1>5 DEF r

\* A packet is read for a socket that waits.
LEMMA AsyncNewPacket ==
  ASSUME ShapeInv, NEW c \in AllChannels, onAsyncNewPacket(c)
  PROVE  /\ DaemonFrame /\ UNCHANGED <<packets, longest>>
         /\ chan[c].open /\ chan[c].sock.waiting # "no" /\ chan[c].sock.recvQ # << >>
         /\ Writes(c, chan[c].req, [chan[c].sock EXCEPT !.waiting = "no", !.recvQ = Tail(@)],
                   PacketAnswer(Head(chan[c].sock.recvQ), chan[c].sock.waiting = "addr"))
<1> DEFINE r == PacketAnswer(Head(chan[c].sock.recvQ), chan[c].sock.waiting = "addr")
           s == [chan[c].sock EXCEPT !.waiting = "no", !.recvQ = Tail(@)]
           ch == [chan[c] EXCEPT !.sock.waiting = "no", !.sock.recvQ = Tail(@)]
<1>1. /\ DaemonFrame /\ UNCHANGED <<packets, longest>>
      /\ chan[c].open /\ chan[c].sock.waiting # "no" /\ chan[c].sock.recvQ # << >>
  BY DEF onAsyncNewPacket, Daemon, DaemonFrame, clientVars
<1>2. write(c, ch, r)
  BY DEF onAsyncNewPacket
<1> HIDE DEF r
<1>3. IsChan(chan[c]) /\ IsSock(chan[c].sock)
  BY DEF ShapeInv
<1>4. ch = [open |-> chan[c].open, req |-> chan[c].req, resp |-> chan[c].resp, sock |-> s]
  <2> DEFINE q == Tail(chan[c].sock.recvQ)
  <2>1. s = [chan[c].sock EXCEPT !.waiting = "no", !.recvQ = q]
    OBVIOUS
  <2>2. ch = [chan[c] EXCEPT !.sock.waiting = "no", !.sock.recvQ = q]
    BY <1>3 DEF IsChan, IsSock
  <2> HIDE DEF ch, q, s
  <2>3. ch = [open |-> chan[c].open, req |-> chan[c].req, resp |-> chan[c].resp, sock |-> s]
    BY <1>3, <2>1, <2>2 DEF IsChan, IsSock
  <2>4. QED BY <2>3
<1> HIDE DEF ch, s
<1>5. Writes(c, chan[c].req, s, r)
  BY <1>1, <1>2, <1>4, Wrote DEF DaemonFrame
<1>6. QED BY <1>1, <1>5 DEF r, s

\* The connection of a TCP socket is established.
LEMMA Established ==
  ASSUME ShapeInv, NEW c \in AllChannels, ConnEstab(c)
  PROVE  /\ DaemonFrame /\ UNCHANGED <<packets, longest>>
         /\ chan[c].open /\ chan[c].sock.state = "SYN_SENT" /\ chan[c].sock.faddr # NoAddr
         /\ LET s == [chan[c].sock EXCEPT !.state = "ESTABLISHED"]
            IN  \/ /\ chan[c].sock.estabCB
                   /\ Writes(c, chan[c].req, s, Answer("OK", "connectcall", 0))
                \/ /\ ~ chan[c].sock.estabCB /\ daemon' = daemon
                   /\ Becomes(c, chan[c].open, chan[c].req, chan[c].resp, s)
<1> DEFINE s == [chan[c].sock EXCEPT !.state = "ESTABLISHED"]
           ch == [chan[c] EXCEPT !.sock.state = "ESTABLISHED"]
<1>1. /\ DaemonFrame /\ UNCHANGED <<packets, longest>>
      /\ chan[c].open /\ chan[c].sock.state = "SYN_SENT" /\ chan[c].sock.faddr # NoAddr
  BY DEF ConnEstab, Daemon, DaemonFrame, clientVars
<1>2. IF chan[c].sock.estabCB THEN write(c, ch, Answer("OK", "connectcall", 0))
      ELSE chan' = [chan EXCEPT ![c] = ch] /\ UNCHANGED daemon
  BY DEF ConnEstab
<1>3. IsChan(chan[c]) /\ IsSock(chan[c].sock) /\ DOMAIN chan = AllChannels
  BY DEF ShapeInv
<1>4. ch = [open |-> chan[c].open, req |-> chan[c].req, resp |-> chan[c].resp, sock |-> s]
  BY <1>3 DEF IsChan, IsSock
<1> HIDE DEF ch, s
<1>5. CASE chan[c].sock.estabCB
  <2>1. Writes(c, chan[c].req, s, Answer("OK", "connectcall", 0))
    BY <1>1, <1>2, <1>4, <1>5, Wrote DEF DaemonFrame
  <2>2. QED BY <1>1, <1>5, <2>1 DEF s
<1>6. CASE ~ chan[c].sock.estabCB
  <2>1. Becomes(c, chan[c].open, chan[c].req, chan[c].resp, s) /\ daemon' = daemon
    BY <1>2, <1>3, <1>4, <1>6 DEF Becomes
  <2>2. QED BY <1>1, <1>6, <2>1 DEF s
<1>7. QED BY <1>5, <1>6

\* A packet that suits the socket.
Suits(p, s) ==
  /\ p = [from |-> p.from, data |-> p.data]
  /\ \/ s.kind = "UDP" /\ s.lport # 0 /\ p.from \in Peers
     \/ s.kind = "TCP" /\ s.state = "ESTABLISHED"

\* A packet comes into the queue, and may be the longest so far.
LEMMA Arrival ==
  ASSUME ShapeInv, QueueInv, NEW c \in AllChannels, PacketArrives(c)
  PROVE  /\ DaemonFrame /\ daemon' = daemon /\ packets' = packets + 1
         /\ longest' \in Nat /\ longest' >= longest
         /\ \E p : /\ Suits(p, chan[c].sock) /\ Len(p.data) \in 0 .. longest'
                   /\ Becomes(c, chan[c].open, chan[c].req, chan[c].resp,
                              [chan[c].sock EXCEPT !.recvQ = Append(@, p)])
<1>1. DaemonFrame /\ daemon' = daemon /\ packets' = packets + 1
  BY DEF PacketArrives, Daemon, DaemonFrame, clientVars
<1>2. IsChan(chan[c]) /\ IsSock(chan[c].sock) /\ DOMAIN chan = AllChannels
  BY DEF ShapeInv
<1> DEFINE q(from, n) == [from |-> from, data |-> [i \in 1 .. n |-> packets]]
           s == chan[c].sock
<1>n. PICK n \in PacketLengths :
        /\ longest' = IF n > longest THEN n ELSE longest
        /\ \/ /\ s.kind = "UDP" /\ s.lport # 0
              /\ \E p \in Peers : putToRecvQ(c, p, n)
           \/ /\ s.kind = "TCP" /\ s.state = "ESTABLISHED"
              /\ putToRecvQ(c, Unwritten, n)
  BY DEF PacketArrives
<1>l. n \in Nat /\ longest \in Nat
  BY SizesAssumption DEF QueueInv
<1>m. longest' \in Nat /\ longest' >= longest /\ n <= longest'
  BY <1>n, <1>l
<1>b. ASSUME NEW x PROVE Len(q(x, n).data) = n
  <2> DEFINE d == [i \in 1 .. n |-> packets]
  <2>1. d \in Seq({packets}) /\ Len(d) = n
    BY <1>l
  <2>2. QED BY <2>1
<1>3. PICK p : /\ Suits(p, s) /\ Len(p.data) \in 0 .. longest'
               /\ chan' = [chan EXCEPT ![c].sock.recvQ = Append(@, p)]
  <2>0. ASSUME NEW x PROVE Len(q(x, n).data) \in 0 .. longest'
    BY <1>b, <1>l, <1>m
  <2>1. CASE s.kind = "UDP" /\ s.lport # 0 /\ \E p \in Peers : putToRecvQ(c, p, n)
    <3>1. PICK p \in Peers : chan' = [chan EXCEPT ![c].sock.recvQ = Append(@, q(p, n))]
      BY <2>1 DEF putToRecvQ
    <3>2. Suits(q(p, n), s)
      BY <2>1 DEF Suits
    <3> HIDE DEF q
    <3>3. QED BY <2>0, <3>1, <3>2
  <2>2. CASE s.kind = "TCP" /\ s.state = "ESTABLISHED" /\ putToRecvQ(c, Unwritten, n)
    <3>1. Suits(q(Unwritten, n), s)
      BY <2>2 DEF Suits
    <3>2. chan' = [chan EXCEPT ![c].sock.recvQ = Append(@, q(Unwritten, n))]
      BY <2>2 DEF putToRecvQ
    <3> HIDE DEF q
    <3>3. QED BY <2>0, <3>1, <3>2
  <2>3. QED BY <1>n, <2>1, <2>2
<1> HIDE DEF q, s
<1> DEFINE x == [chan[c].sock EXCEPT !.recvQ = Append(@, p)]
<1>4. [chan[c] EXCEPT !.sock.recvQ = Append(@, p)]
        = [open |-> chan[c].open, req |-> chan[c].req, resp |-> chan[c].resp, sock |-> x]
  BY <1>2 DEF IsChan, IsSock
<1>5. chan' = [chan EXCEPT ![c] = [chan[c] EXCEPT !.sock.recvQ = Append(@, p)]]
  BY <1>2, <1>3
<1> HIDE DEF x
<1>6. Becomes(c, chan[c].open, chan[c].req, chan[c].resp, x)
  BY <1>2, <1>4, <1>5 DEF Becomes
<1>7. QED BY <1>1, <1>m, <1>3, <1>6 DEF s, x

-----------------------------------------------------------------------------
(* What the steps of the application do.                                    *)

Frame == UNCHANGED <<build, daemon, packets, longest>>
ClientFrame(t) ==
  /\ client = "up" /\ startfd # 0
  /\ Frame /\ UNCHANGED <<startfd, count>>

\* One thread becomes this, and the others stay.
ThreadTo(t, th) ==
  /\ DOMAIN thread' = Threads
  /\ \A u \in Threads : u # t => thread'[u] = thread[u]
  /\ thread'[t] = th

\* A call ends the program, or returns.
Ended(how) == client' = how /\ UNCHANGED <<table, thread>>
Returned(t, res) ==
  LET th == thread[t]
  IN  /\ UNCHANGED <<client, table>>
      /\ ThreadTo(t, [pc |-> IF th.call = "closecall" THEN "closing" ELSE "idle",
                      call |-> th.call, obj |-> th.obj, ch |-> table[0], own |-> th.own,
                      fd |-> th.fd,
                      peer |-> IF th.call = "connectcall" /\ res.ret = 0 THEN th.obj["addr"]
                               ELSE th.peer,
                      res |-> res])

\* Every descriptor is the first.
LEMMA Descriptor ==
  ASSUME ShapeInv, ProcInv, NEW t \in Threads, thread[t].own # 0
  PROVE  /\ thread[t].fd - startfd = 0 /\ fd2channel(thread[t].fd) = table[0]
         /\ 0 \in 0 .. MaxSockets - 1 /\ table[0] \in 0 .. opened /\ table[0] \in AllChannels
<1>1. thread[t].fd = startfd /\ startfd \in Nat
  BY DEF ShapeInv, ProcInv
<1>2. thread[t].fd - startfd = 0
  BY <1>1
<1>3. 0 \in 0 .. MaxSockets - 1
  BY SocketsAssumption
<1>4. table[0] \in 0 .. opened /\ opened \in 0 .. MaxSockets
  BY <1>3 DEF ShapeInv
<1>5. table[0] \in AllChannels
  BY <1>4, SocketsAssumption DEF AllChannels, Channels, ProcChannel
<1>6. QED BY <1>2, <1>3, <1>4, <1>5 DEF fd2channel

\* Only a thread with a socket is in a call.
LEMMA Busy ==
  ASSUME ShapeInv, NEW t \in Threads, thread[t].pc # "idle"
  PROVE  thread[t].own # 0
BY DEF ShapeInv, Idle

\* The answer to atstart is read.
LEMMA Starting ==
  ASSUME ShapeInv, ProcInv, AtStart
  PROVE  /\ Frame /\ UNCHANGED <<client, table, thread, opened, calls, overlap>>
         /\ client = "up" /\ startfd = 0 /\ startfd' = 4096
         /\ chan[ProcChannel].resp # << >>
         /\ LET ch == chan[ProcChannel]
            IN  Becomes(ProcChannel, ch.open, ch.req, Tail(ch.resp), ch.sock)
<1> DEFINE ch == chan[ProcChannel]
           members == [startfd |-> 4096, count |-> 1024]
<1>1. ProcChannel \in AllChannels /\ DOMAIN chan = AllChannels
  BY DEF AllChannels, ShapeInv
<1>2. IsChan(ch) /\ IsSeq(ch.resp)
  BY <1>1 DEF ShapeInv
<1>3. ch.resp # << >> /\ chan' = [chan EXCEPT ![ProcChannel].resp = Tail(@)]
  BY DEF AtStart
<1>4. Head(ch.resp) = Sent(AtStartAnswer)
  BY <1>2, <1>3, Dropped DEF ProcInv
<1>5. startfd' = Arrived(AtStartAnswer).union["startfd"]
  BY <1>4 DEF AtStart, Arrived
<1>6. "startfd" \in DOMAIN members /\ members["startfd"] = 4096
  OBVIOUS
<1> HIDE DEF members
<1>7. startfd' = 4096
  BY <1>5, <1>6, AtstartRead DEF AtStartAnswer, members
<1>8. Becomes(ProcChannel, ch.open, ch.req, Tail(ch.resp), ch.sock)
  <2> DEFINE q == Tail(ch.resp)
             x == [ch EXCEPT !.resp = q]
  <2>1. chan' = [chan EXCEPT ![ProcChannel] = x]
    BY <1>1, <1>3
  <2> HIDE DEF q, ch
  <2>2. x = [open |-> ch.open, req |-> ch.req, resp |-> q, sock |-> ch.sock]
    BY <1>2 DEF IsChan
  <2> HIDE DEF x
  <2>3. Becomes(ProcChannel, ch.open, ch.req, q, ch.sock)
    BY <1>1, <2>1, <2>2 DEF Becomes
  <2>4. QED BY <2>3 DEF q, ch
<1>9. QED BY <1>3, <1>7, <1>8 DEF AtStart, Frame, bounds, history

\* A socket is asked for, on a channel that was not made yet.
LEMMA NewSocket ==
  ASSUME ShapeInv, ProcInv, FreshInv, NEW t \in Threads, NEW type \in SocketTypes, Socket(t, type)
  PROVE  /\ ClientFrame(t) /\ UNCHANGED <<client, calls>>
         /\ thread[t].pc = "idle" /\ daemon = "up"
         /\ opened' = opened + 1 /\ opened' \in Channels
         /\ DOMAIN table' = 0 .. MaxSockets - 1 /\ table'[0] = opened'
         /\ \A i \in 0 .. MaxSockets - 1 : i # 0 => table'[i] = table[i]
         /\ overlap' = (overlap \/ \E c \in Channels : chan[c].open)
         /\ \E obj \in Asks("socketcall") :
              /\ Becomes(opened', TRUE, <<packed("socketcall", obj)>>, << >>, NoSocket)
              /\ ThreadTo(t, [pc |-> "reading", call |-> "socketcall", obj |-> obj, ch |-> opened',
                              own |-> opened', fd |-> startfd, peer |-> <<0, 0>>, res |-> NoResult])
<1> DEFINE c == opened + 1
           obj == [initial("socketcall") EXCEPT !.domain = AF_INET, !["type"] = type]
           w == packed("socketcall", obj)
<1>1. /\ ClientFrame(t) /\ UNCHANGED <<client, calls>>
      /\ thread[t].pc = "idle" /\ daemon = "up" /\ opened' = c /\ opened < MaxSockets
      /\ overlap' = (overlap \/ \E d \in Channels : chan[d].open)
  BY DEF Socket, Client, ClientFrame, Frame
<1>2. opened \in Nat /\ startfd \in Nat /\ DOMAIN chan = AllChannels /\ DOMAIN thread = Threads
      /\ DOMAIN table = 0 .. MaxSockets - 1
  BY SocketsAssumption DEF ShapeInv, ProcInv
<1>3. c \in Channels /\ c \in AllChannels /\ c > opened
  BY <1>1, <1>2, SocketsAssumption DEF Channels, AllChannels
<1>4. next_avail_fd = startfd /\ startfd - startfd = 0
  BY <1>2 DEF next_avail_fd, last_fd_assigned
<1>5. table' = [table EXCEPT ![0] = c]
  BY <1>4 DEF Socket
<1>6. chan[c] = NoChannel
  BY <1>3 DEF FreshInv
<1>7. obj \in Asks("socketcall")
  BY DEF Asks
<1> HIDE DEF obj, c
<1>8. chan' = [chan EXCEPT ![c].open = TRUE, ![c].req = <<w>>]
  BY <1>4 DEF Socket, c, obj
<1> HIDE DEF w
<1>9. Becomes(c, TRUE, <<w>>, << >>, NoSocket)
  <2> DEFINE q == <<w>>
             x == [[chan[c] EXCEPT !.open = TRUE] EXCEPT !.req = q]
  <2>1. chan' = [chan EXCEPT ![c] = x]
    BY <1>2, <1>3, <1>8
  <2> HIDE DEF q
  <2>2. /\ DOMAIN x = {"open", "req", "resp", "sock"}
        /\ x.req = q /\ x.resp = << >> /\ x.sock = NoSocket
    BY <1>6 DEF NoChannel
  <2>3. x.open = TRUE
    BY <1>6 DEF NoChannel
  <2>4. x = [open |-> TRUE, req |-> q, resp |-> << >>, sock |-> NoSocket]
    <3>1. x = [m \in {"open", "req", "resp", "sock"} |-> x[m]]
      BY <1>6 DEF NoChannel
    <3> HIDE DEF x
    <3>2. QED BY <2>2, <2>3, <3>1
  <2> HIDE DEF x
  <2>5. Becomes(c, TRUE, q, << >>, NoSocket)
    BY <1>2, <1>3, <2>1, <2>4 DEF Becomes
  <2>6. QED BY <2>5 DEF q
<1>10. thread' = [thread EXCEPT ![t] = [Idle EXCEPT !.pc = "reading", !.call = "socketcall",
                                          !.obj = obj, !.ch = c, !.own = c, !.fd = startfd]]
  BY <1>4 DEF Socket, c, obj
<1>11. ThreadTo(t, [pc |-> "reading", call |-> "socketcall", obj |-> obj, ch |-> c,
                    own |-> c, fd |-> startfd, peer |-> <<0, 0>>, res |-> NoResult])
  BY <1>2, <1>10 DEF ThreadTo, Idle
<1>12. DOMAIN table' = 0 .. MaxSockets - 1 /\ table'[0] = c
       /\ \A i \in 0 .. MaxSockets - 1 : i # 0 => table'[i] = table[i]
  BY <1>2, <1>5, SocketsAssumption
<1>13. opened' = c /\ opened' = opened + 1 /\ opened' \in Channels
  BY <1>1, <1>3 DEF c
<1>14. QED BY <1>1, <1>7, <1>9, <1>11, <1>12, <1>13 DEF w

\* A socket is asked of a daemon that is gone.
LEMMA Refused ==
  ASSUME NEW t \in Threads, SocketRefused(t)
  PROVE  /\ ClientFrame(t) /\ daemon # "up" /\ client' = "exit"
         /\ UNCHANGED <<table, chan, thread, opened, overlap>>
BY DEF SocketRefused, Client, ClientFrame, Frame

\* A Request is in the channel, or the call did not get that far.
Sends(call, obj) ==
  LET ch == table[0]
  IN  \/ /\ RequestFits(call, obj) /\ daemon = "up" /\ ch # 0 /\ client' = client
         /\ Becomes(ch, chan[ch].open, Append(chan[ch].req, packed(call, obj)),
                    chan[ch].resp, chan[ch].sock)
      \/ chan' = chan /\ ~ RequestFits(call, obj) /\ client' = Failing("overrun")
      \/ chan' = chan /\ ch = 0 /\ client' \in {"up", Failing("up")}
      \/ chan' = chan /\ daemon # "up" /\ client' = Failing("up")

\* A Request is sent on the channel behind the descriptor, if there is one.
LEMMA Sending ==
  ASSUME ShapeInv, ProcInv, NEW t \in Threads, NEW call \in SocketCalls, Send(t, call)
  PROVE  LET th == thread[t]
             ch == table[0]
         IN  /\ ClientFrame(t) /\ UNCHANGED <<table, opened, overlap>>
             /\ th.pc = "idle" /\ th.own # 0
             /\ \E obj \in Objects(call) :
                  /\ Sends(call, obj)
                  /\ ThreadTo(t, [pc |-> IF ch = 0 THEN "stray" ELSE "sent", call |-> call,
                                  obj |-> obj, ch |-> th.ch, own |-> th.own, fd |-> th.fd,
                                  peer |-> th.peer, res |-> NoResult])
<1> DEFINE th == thread[t]
           ch == table[0]
<1>1. /\ ClientFrame(t) /\ UNCHANGED <<table, opened, overlap>>
      /\ th.pc = "idle" /\ th.own # 0
  BY DEF Send, Client, ClientFrame, Frame
<1>2. fd2channel(th.fd) = ch /\ ch \in AllChannels
  BY <1>1, Descriptor
<1>3. DOMAIN chan = AllChannels /\ DOMAIN thread = Threads /\ IsThread(th) /\ IsChan(chan[ch])
  BY <1>2 DEF ShapeInv
<1> HIDE DEF ch
<1>4. PICK obj \in Objects(call) :
        /\ channel_send(ch, call, obj)
        /\ thread' = [thread EXCEPT ![t].pc = IF ch = 0 THEN "stray" ELSE "sent",
                                    ![t].call = call, ![t].obj = obj, ![t].res = NoResult]
  BY <1>2 DEF Send
<1>5. ThreadTo(t, [pc |-> IF ch = 0 THEN "stray" ELSE "sent", call |-> call,
                   obj |-> obj, ch |-> th.ch, own |-> th.own, fd |-> th.fd,
                   peer |-> th.peer, res |-> NoResult])
  BY <1>3, <1>4 DEF ThreadTo, IsThread
<1>6. ASSUME RequestFits(call, obj), daemon = "up", ch # 0
      PROVE  Becomes(ch, chan[ch].open, Append(chan[ch].req, packed(call, obj)),
                     chan[ch].resp, chan[ch].sock)
  <2> DEFINE q == Append(chan[ch].req, packed(call, obj))
             x == [chan[ch] EXCEPT !.req = q]
  <2>1. chan' = [chan EXCEPT ![ch] = x]
    BY <1>2, <1>3, <1>4, <1>6 DEF channel_send
  <2> HIDE DEF q
  <2>2. x = [open |-> chan[ch].open, req |-> q, resp |-> chan[ch].resp, sock |-> chan[ch].sock]
    BY <1>3 DEF IsChan
  <2> HIDE DEF x
  <2>3. Becomes(ch, chan[ch].open, q, chan[ch].resp, chan[ch].sock)
    BY <1>2, <1>3, <2>1, <2>2 DEF Becomes
  <2>4. QED BY <2>3 DEF q
<1>7. Sends(call, obj)
  <2>1. CASE RequestFits(call, obj) /\ daemon = "up" /\ ch # 0
    <3>1. client' = client
      BY <1>4, <2>1 DEF channel_send
    <3>2. QED BY <1>6, <2>1, <3>1 DEF Sends, ch
  <2>2. CASE ~ RequestFits(call, obj)
    <3>1. chan' = chan /\ client' = Failing("overrun")
      BY <1>4, <2>2 DEF channel_send
    <3>2. QED BY <2>2, <3>1 DEF Sends
  <2>3. CASE RequestFits(call, obj) /\ ch = 0
    <3>1. chan' = chan /\ client' \in {"up", Failing("up")}
      BY <1>4, <2>3 DEF channel_send
    <3>2. QED BY <2>3, <3>1 DEF Sends, ch
  <2>4. CASE RequestFits(call, obj) /\ ch # 0 /\ daemon # "up"
    <3>1. chan' = chan /\ client' = Failing("up")
      BY <1>4, <2>4 DEF channel_send
    <3>2. QED BY <2>4, <3>1 DEF Sends
  <2>5. QED BY <2>1, <2>2, <2>3, <2>4
<1>8. QED BY <1>1, <1>5, <1>7 DEF ch

\* The channel to read from is looked up.
LEMMA LookedUp ==
  ASSUME ShapeInv, ProcInv, NEW t \in Threads, Lookup(t)
  PROVE  LET th == thread[t]
             ch == table[0]
         IN  /\ ClientFrame(t) /\ UNCHANGED <<client, table, chan, opened, overlap>>
             /\ th.pc = "sent" /\ th.own # 0 /\ ch \in AllChannels
             /\ ThreadTo(t, [pc |-> IF ch = 0 THEN "stray" ELSE "reading", call |-> th.call,
                             obj |-> th.obj, ch |-> ch, own |-> th.own, fd |-> th.fd,
                             peer |-> th.peer, res |-> th.res])
<1> DEFINE th == thread[t]
           ch == table[0]
<1>1. /\ ClientFrame(t) /\ UNCHANGED <<client, table, chan, opened, overlap>>
      /\ th.pc = "sent"
  BY DEF Lookup, Client, ClientFrame, Frame
<1>2. th.own # 0
  BY <1>1, Busy
<1>3. fd2channel(th.fd) = ch /\ ch \in AllChannels
  BY <1>2, Descriptor
<1>4. DOMAIN thread = Threads /\ IsThread(th)
  BY DEF ShapeInv
<1> HIDE DEF ch
<1>5. thread' = [thread EXCEPT ![t].pc = IF ch = 0 THEN "stray" ELSE "reading", ![t].ch = ch]
  BY <1>3 DEF Lookup
<1>6. ThreadTo(t, [pc |-> IF ch = 0 THEN "stray" ELSE "reading", call |-> th.call,
                   obj |-> th.obj, ch |-> ch, own |-> th.own, fd |-> th.fd,
                   peer |-> th.peer, res |-> th.res])
  BY <1>4, <1>5 DEF ThreadTo, IsThread
<1>7. QED BY <1>1, <1>2, <1>3, <1>6 DEF ch

\* The descriptor and the channel d are closed.
Closes(t, d) ==
  /\ ClientFrame(t) /\ UNCHANGED <<client, opened, overlap>>
  /\ thread[t].pc = "closing" /\ thread[t].own # 0
  /\ DOMAIN table' = 0 .. MaxSockets - 1 /\ table'[0] = 0
  /\ \A i \in 0 .. MaxSockets - 1 : i # 0 => table'[i] = table[i]
  /\ d = 0 => chan' = chan
  /\ d # 0 => Becomes(d, FALSE, chan[d].req, chan[d].resp, chan[d].sock)
  /\ ThreadTo(t, Idle)
\* The channel closed is the one that was looked up.
LEMMA Closed ==
  ASSUME ShapeInv, ProcInv, NEW t \in Threads, CloseChannel(t)
  PROVE  Closes(t, thread[t].ch)
<1> DEFINE th == thread[t]
           ch == chan[th.ch]
<1>1. /\ ClientFrame(t) /\ UNCHANGED <<client, opened, overlap>>
      /\ th.pc = "closing"
  BY DEF CloseChannel, Client, ClientFrame, Frame
<1>2. th.own # 0
  BY <1>1, Busy
<1>3. th.fd - startfd = 0 /\ 0 \in 0 .. MaxSockets - 1
  BY <1>2, Descriptor
<1>4. DOMAIN thread = Threads /\ th.ch \in AllChannels /\ DOMAIN chan = AllChannels
      /\ DOMAIN table = 0 .. MaxSockets - 1 /\ IsChan(ch)
  BY DEF ShapeInv
<1>5. table' = [table EXCEPT ![0] = 0]
  BY <1>3 DEF CloseChannel
<1>6. DOMAIN table' = 0 .. MaxSockets - 1 /\ table'[0] = 0
      /\ \A i \in 0 .. MaxSockets - 1 : i # 0 => table'[i] = table[i]
  BY <1>3, <1>4, <1>5
<1>7. ThreadTo(t, Idle)
  BY <1>4 DEF CloseChannel, ThreadTo
<1>8. ASSUME th.ch # 0 PROVE Becomes(th.ch, FALSE, ch.req, ch.resp, ch.sock)
  <2>1. chan' = [chan EXCEPT ![th.ch] = [ch EXCEPT !.open = FALSE]]
    BY <1>4, <1>8 DEF CloseChannel
  <2> DEFINE x == [ch EXCEPT !.open = FALSE]
  <2> HIDE DEF ch
  <2>2. x = [open |-> FALSE, req |-> ch.req, resp |-> ch.resp, sock |-> ch.sock]
    <3>1. x.req = ch.req /\ x.resp = ch.resp /\ x.sock = ch.sock
      BY <1>4 DEF IsChan
    <3>2. x.open = FALSE
      BY <1>4 DEF IsChan
    <3>3. x = [m \in {"open", "req", "resp", "sock"} |-> x[m]]
      BY <1>4 DEF IsChan
    <3> HIDE DEF x
    <3>4. QED BY <3>1, <3>2, <3>3
  <2> HIDE DEF x
  <2>3. QED BY <1>4, <2>1, <2>2 DEF Becomes, x, ch
<1>9. ASSUME th.ch = 0 PROVE chan' = chan
  BY <1>9 DEF CloseChannel
<1>10. QED BY <1>1, <1>2, <1>6, <1>7, <1>8, <1>9 DEF Closes

\* A call returns.
LEMMA Returning ==
  ASSUME ShapeInv, ProcInv, NEW t \in Threads, thread[t].own # 0, NEW res, Returns(t, res)
  PROVE  Returned(t, res)
<1> DEFINE th == thread[t]
           pc == IF th.call = "closecall" THEN "closing" ELSE "idle"
           peer == IF th.call = "connectcall" /\ res.ret = 0 THEN th.obj["addr"] ELSE th.peer
           ch == table[0]
           x == [th EXCEPT !.pc = pc, !.ch = ch, !.res = res, !.peer = peer]
<1>1. fd2channel(th.fd) = ch
  BY Descriptor
<1>2. DOMAIN thread = Threads /\ IsThread(th)
  BY DEF ShapeInv
<1>3. UNCHANGED <<client, table>>
  BY DEF Returns
<1>4. thread' = [thread EXCEPT ![t] = x]
  BY <1>1, <1>2 DEF Returns
<1> HIDE DEF th, pc, peer, ch
<1>5. x = [pc |-> pc, call |-> th.call, obj |-> th.obj, ch |-> ch, own |-> th.own,
           fd |-> th.fd, peer |-> peer, res |-> res]
  <2>1. /\ x.pc = pc /\ x.call = th.call /\ x.obj = th.obj /\ x.ch = ch
        /\ x.own = th.own /\ x.fd = th.fd /\ x.peer = peer /\ x.res = res
    BY <1>2 DEF IsThread
  <2>2. x = [m \in {"pc", "call", "obj", "ch", "own", "fd", "peer", "res"} |-> x[m]]
    BY <1>2 DEF IsThread
  <2> HIDE DEF x
  <2>3. QED BY <2>1, <2>2
<1> HIDE DEF x
<1>6. ThreadTo(t, x)
  BY <1>2, <1>4 DEF ThreadTo
<1>7. QED BY <1>3, <1>5, <1>6 DEF Returned, th, pc, peer, ch

\* A Response is read.
LEMMA Receiving ==
  ASSUME ShapeInv, ProcInv, NEW t \in Threads, Recv(t)
  PROVE  LET ch == chan[thread[t].ch]
             wire == Head(ch.resp)
             o == TopUnpack(Response__C, wire)
         IN  /\ ClientFrame(t) /\ UNCHANGED <<opened, overlap>>
             /\ thread[t].pc = "reading" /\ thread[t].own # 0
             /\ ch.resp # << >>
             /\ Becomes(thread[t].ch, ch.open, ch.req, Tail(ch.resp), ch.sock)
             /\ \/ ~ TopUnpacks(Response__C, wire) /\ Ended("null")
                \/ /\ TopUnpacks(Response__C, wire) /\ o.plain["retcode"] = RetCode.WAIT_NEXT
                   /\ UNCHANGED <<client, table, thread>>
                \/ /\ TopUnpacks(Response__C, wire) /\ o.plain["retcode"] # RetCode.WAIT_NEXT
                   /\ Deliver(t, o)
<1> DEFINE ch == chan[thread[t].ch]
           wire == Head(ch.resp)
           o == TopUnpack(Response__C, wire)
<1>1. /\ ClientFrame(t) /\ UNCHANGED <<opened, overlap>>
      /\ thread[t].pc = "reading" /\ ch.resp # << >>
  BY DEF Recv, Client, ClientFrame, Frame
<1>2. thread[t].own # 0
  BY <1>1, Busy
<1>4. DOMAIN chan = AllChannels /\ thread[t].ch \in AllChannels /\ IsChan(ch)
  BY DEF ShapeInv
<1>5. Becomes(thread[t].ch, ch.open, ch.req, Tail(ch.resp), ch.sock)
  <2> DEFINE q == Tail(ch.resp)
             x == [ch EXCEPT !.resp = q]
  <2>1. chan' = [chan EXCEPT ![thread[t].ch] = x]
    BY <1>4 DEF Recv
  <2> HIDE DEF q, ch
  <2>2. x = [open |-> ch.open, req |-> ch.req, resp |-> q, sock |-> ch.sock]
    BY <1>4 DEF IsChan
  <2> HIDE DEF x
  <2>3. Becomes(thread[t].ch, ch.open, ch.req, q, ch.sock)
    BY <1>4, <2>1, <2>2, SMTT(30) DEF Becomes
  <2>4. QED BY <2>3 DEF q, ch
<1>6. \/ ~ TopUnpacks(Response__C, wire) /\ Ended("null")
      \/ /\ TopUnpacks(Response__C, wire) /\ o.plain["retcode"] = RetCode.WAIT_NEXT
         /\ UNCHANGED <<client, table, thread>>
      \/ /\ TopUnpacks(Response__C, wire) /\ o.plain["retcode"] # RetCode.WAIT_NEXT
         /\ Deliver(t, o)
  <2> DEFINE P == TopUnpacks(Response__C, wire)
             W == o.plain["retcode"] = RetCode.WAIT_NEXT
  <2>1. (CASE ~ P -> Ends("null")
           [] P /\ W -> UNCHANGED <<client, table, thread>>
           [] OTHER -> Deliver(t, o))
    BY Zenon DEF Recv
  <2>2. Ends("null") => Ended("null")
    BY DEF Ends, Ended
  <2> HIDE DEF P, W, o
  <2>3. \/ ~ P /\ Ended("null")
        \/ P /\ W /\ UNCHANGED <<client, table, thread>>
        \/ P /\ ~ W /\ Deliver(t, o)
    BY <2>1, <2>2
  <2>4. QED BY <2>3, Zenon DEF P, W, o
<1>7. QED BY <1>1, <1>2, <1>5, <1>6, Zenon

\* The daemon has died.
LEMMA ReadingEof ==
  ASSUME ShapeInv, NEW t \in Threads, RecvEof(t)
  PROVE  /\ ClientFrame(t) /\ UNCHANGED <<chan, opened, overlap>>
         /\ thread[t].pc = "reading" /\ thread[t].own # 0
         /\ daemon # "up"
         /\ Ended(Failing("null")) \/ (daemon = "overread" /\ Ended("garbage"))
<1>1. /\ ClientFrame(t) /\ UNCHANGED <<chan, opened, overlap>>
      /\ thread[t].pc = "reading"
      /\ daemon # "up"
      /\ Ended(Failing("null")) \/ (daemon = "overread" /\ Ended("garbage"))
  BY DEF RecvEof, Client, ClientFrame, Frame, Ends, Ended
<1>2. QED BY <1>1, Busy

\* How a call may end.
Outcome(t) ==
  \/ \E how : /\ Ended(how) /\ how # "exit"
              /\ how = "assert" => build = "Debug"
              /\ how = "null" => build # "Debug"
  \/ \E res : Returned(t, res)

\* Whatever the answer, it ends the program as the build says, or the call returns.
LEMMA Delivering ==
  ASSUME ShapeInv, ProcInv, NEW t \in Threads, thread[t].own # 0, NEW o, Deliver(t, o)
  PROVE  Outcome(t)
<1> DEFINE call == thread[t].call
           rets == Deref(o, RetThrough(call), "ret")
           bufs == Deref(o, "recvfromcall", "buf")
           addrs == Deref(o, "recvfromcall", "addr")
           result == [NoResult EXCEPT !.call = call, !.ret = CHOOSE r \in rets : TRUE]
           named == call \in {"getpeernamecall", "getsocknamecall"}
           other == o.case = Response__ReturningCase["recvfromcall"]
<1>1. IF build = "Debug" /\ o.case # Response__ReturningCase[call] THEN Ends("assert")
      ELSE CASE named ->
                  IF bufs = {} THEN Ends("garbage")
                  ELSE \/ \E b \in bufs : Returns(t, [result EXCEPT !.addr = b])
                       \/ other /\ Ends("overrun")
             [] call = "recvfromcall" -> CopyOut(t, result, bufs, addrs)
             [] OTHER -> Returns(t, result)
  BY DEF Deliver
<1>2. ASSUME Ends("assert"), build = "Debug" PROVE Outcome(t)
  BY <1>2 DEF Outcome, Ends, Ended
<1>3. ASSUME Ends("garbage") \/ Ends("overrun") PROVE Outcome(t)
  BY <1>3 DEF Outcome, Ends, Ended
<1>4. ASSUME Ends(Failing("null")) PROVE Outcome(t)
  BY <1>4 DEF Outcome, Ends, Ended, Failing
<1>5. ASSUME NEW res, Returns(t, res) PROVE Outcome(t)
  BY <1>5, Returning DEF Outcome
<1>6. named => call # "recvfromcall"
  OBVIOUS
<1> HIDE DEF call, rets, bufs, addrs, result, named, other
<1>7. CASE named
  BY <1>1, <1>2, <1>3, <1>5, <1>6, <1>7
<1>8. ASSUME CopyOut(t, result, bufs, addrs) PROVE Outcome(t)
  <2> DEFINE asked == thread[t].obj.requireaddr
             copied == IF result.ret > 0 THEN bufs ELSE {<< >>}
             none == copied = {} \/ (asked /\ addrs = {})
             long == \E b \in copied : Len(b) > thread[t].obj.len
             missing == asked /\ addrs = {<< >>}
             found == IF asked THEN addrs ELSE {<< >>}
  <2>1. IF none THEN Ends("garbage")
        ELSE IF long THEN Ends("overrun")
        ELSE IF missing THEN Ends(Failing("null"))
        ELSE \E b \in copied, a \in found : Returns(t, [result EXCEPT !.buf = b, !.addr = a])
    BY <1>8 DEF CopyOut
  <2> HIDE DEF none, long, missing, copied, found
  <2>2. QED BY <1>3, <1>4, <1>5, <2>1
<1>9. CASE ~ named
  BY <1>1, <1>2, <1>5, <1>8, <1>9
<1>10. QED BY <1>7, <1>9, SMTT(30)

-----------------------------------------------------------------------------
(* What the handlers leave.                                                 *)

\* Bind changes at most the port.
LEMMA Bound ==
  ASSUME NEW s, IsSock(s), NEW c
  PROVE  LET b == Bind(s, c)
         IN  /\ IsSock(b) /\ b.kind = s.kind /\ b.nonblocking = s.nonblocking
             /\ b.faddr = s.faddr /\ b.state = s.state /\ b.estabCB = s.estabCB
             /\ b.waiting = s.waiting /\ b.recvQ = s.recvQ
<1>1. CASE s.lport = 0
  <2> DEFINE n == 1024 + c
             b == [s EXCEPT !.lport = n]
  <2>1. Bind(s, c) = b
    BY <1>1 DEF Bind
  <2> HIDE DEF n
  <2>2. /\ b.kind = s.kind /\ b.nonblocking = s.nonblocking
        /\ b.faddr = s.faddr /\ b.state = s.state /\ b.estabCB = s.estabCB
        /\ b.waiting = s.waiting /\ b.recvQ = s.recvQ
    BY DEF IsSock
  <2>3. IsSock(b)
    BY DEF IsSock
  <2> HIDE DEF b
  <2>4. QED BY <2>1, <2>2, <2>3
<1>2. CASE s.lport # 0
  BY <1>2 DEF Bind
<1>3. QED BY <1>1, <1>2

\* send changes at most the state.
LEMMA SynSent ==
  ASSUME NEW s, IsSock(s)
  PROVE  LET b == TcpSend(s)
         IN  /\ IsSock(b) /\ b.kind = s.kind /\ b.nonblocking = s.nonblocking
             /\ b.faddr = s.faddr /\ b.estabCB = s.estabCB
             /\ b.waiting = s.waiting /\ b.recvQ = s.recvQ
             /\ b.state = IF s.state = "CLOSED" THEN "SYN_SENT" ELSE s.state
<1>1. CASE s.state = "CLOSED"
  <2> DEFINE b == [s EXCEPT !.state = "SYN_SENT"]
  <2>1. TcpSend(s) = b
    BY <1>1 DEF TcpSend
  <2>2. /\ b.kind = s.kind /\ b.nonblocking = s.nonblocking
        /\ b.faddr = s.faddr /\ b.state = "SYN_SENT" /\ b.estabCB = s.estabCB
        /\ b.waiting = s.waiting /\ b.recvQ = s.recvQ
    BY DEF IsSock
  <2>3. IsSock(b)
    BY DEF IsSock
  <2> HIDE DEF b
  <2>4. QED BY <1>1, <2>1, <2>2, <2>3
<1>2. CASE s.state # "CLOSED"
  BY <1>2 DEF TcpSend
<1>3. QED BY <1>1, <1>2

\* What the handlers answer is complete.
LEMMA AnswersPass ==
  /\ \A code, ret : \A call \in Answering : Passes(Answer(code, call, ret))
  /\ \A p, w : Passes(PacketAnswer(p, w))
  /\ \A a : /\ Passes(AnswerWith("OK", "getpeernamecall", [ret |-> 0, peername |-> a]))
            /\ Passes(AnswerWith("OK", "getsocknamecall", [ret |-> 0, sockanme |-> a]))
  /\ Passes(WaitNext) /\ Passes(AtStartAnswer)
<1>1. ASSUME NEW code, NEW call \in Answering, NEW members, "ret" \in DOMAIN members
      PROVE  Passes(AnswerWith(code, call, members))
  <2>1. call \in Calls /\ Complete(call, members)
    BY <1>1, ResultsInitialized
  <2>2. QED BY <2>1, AnswerRead
<1>2. ASSUME NEW code, NEW call \in Answering, NEW ret PROVE Passes(Answer(code, call, ret))
  <2> DEFINE members == [ret |-> ret]
  <2>1. "ret" \in DOMAIN members
    OBVIOUS
  <2> HIDE DEF members
  <2>2. Passes(AnswerWith(code, call, members))
    BY <1>1, <2>1
  <2>3. QED BY <2>2 DEF Answer, members
<1>3. ASSUME NEW p, NEW w PROVE Passes(PacketAnswer(p, w))
  <2> DEFINE members == IF w THEN [ret |-> Len(p.data), buf |-> p.data, addr |-> p.from]
                        ELSE [ret |-> Len(p.data), buf |-> p.data]
  <2>1. "ret" \in DOMAIN members
    OBVIOUS
  <2> HIDE DEF members
  <2>2. Passes(AnswerWith("OK", "recvfromcall", members))
    BY <1>1, <2>1 DEF Answering
  <2>3. QED BY <2>2 DEF PacketAnswer, members
<1>4. ASSUME NEW a PROVE Passes(AnswerWith("OK", "getpeernamecall", [ret |-> 0, peername |-> a]))
  <2> DEFINE members == [ret |-> 0, peername |-> a]
  <2>1. "ret" \in DOMAIN members
    OBVIOUS
  <2> HIDE DEF members
  <2>2. Passes(AnswerWith("OK", "getpeernamecall", members))
    BY <1>1, <2>1 DEF Answering
  <2>3. QED BY <2>2 DEF members
<1>5. ASSUME NEW a PROVE Passes(AnswerWith("OK", "getsocknamecall", [ret |-> 0, sockanme |-> a]))
  <2> DEFINE members == [ret |-> 0, sockanme |-> a]
  <2>1. "ret" \in DOMAIN members
    OBVIOUS
  <2> HIDE DEF members
  <2>2. Passes(AnswerWith("OK", "getsocknamecall", members))
    BY <1>1, <2>1 DEF Answering
  <2>3. QED BY <2>2 DEF members
<1>6. Passes(AtStartAnswer)
  <2> DEFINE members == [startfd |-> 4096, count |-> 1024]
  <2>1. "startfd" \in DOMAIN members
    OBVIOUS
  <2> HIDE DEF members
  <2>2. "atstartaction" \in Calls /\ Complete("atstartaction", members)
    BY <2>1, ResultsInitialized
  <2>3. Passes(AnswerWith("OK", "atstartaction", members))
    BY <2>2, AnswerRead
  <2>4. QED BY <2>3 DEF AtStartAnswer, members
<1>7. QED BY <1>2, <1>3, <1>4, <1>5, <1>6, WaitNextRead

\* Only the answers of recvfrom have data.
LEMMA BriefAnswer ==
  ASSUME NEW code, NEW call \in Calls, NEW members, NEW n
  PROVE  Brief(AnswerWith(code, call, members), n) <=>
           (call = "recvfromcall" /\ "buf" \in DOMAIN members => Len(members["buf"]) \in 0 .. n)
<1> DEFINE r == AnswerWith(code, call, members)
<1>h. /\ \A m : m \in Call(Response, r) <=> m = call
      /\ r[call] = members /\ r["retcode"] = RetCode[code]
      /\ "retcode" \in DOMAIN r
  BY AnswerHas, Zenon
<1> HIDE DEF r
<1>1. \A m : m \in Call(Response, r) <=> m = call
  BY <1>h
<1>s. r[call] = members
  BY <1>h
<1>2. Call(Response, r) = DOMAIN r \cap Calls /\ "recvfromcall" \in Calls
  BY ResponseDomains DEF Call, Calls
<1>3. Has(r, "recvfromcall") <=> call = "recvfromcall"
  BY <1>1, <1>2 DEF Has
<1>4. CASE call # "recvfromcall"
  BY <1>3, <1>4 DEF Brief, r
<1>5. CASE call = "recvfromcall"
  BY <1>s, <1>3, <1>5 DEF Brief, Has, r
<1>6. QED BY <1>4, <1>5

\* What the handlers answer without a packet has none.
LEMMA AnswersBrief ==
  ASSUME NEW n
  PROVE  /\ \A code, ret : \A call \in Answering : Brief(Answer(code, call, ret), n)
         /\ \A p, w : Brief(PacketAnswer(p, w), n) <=> Len(p.data) \in 0 .. n
         /\ \A a : /\ Brief(AnswerWith("OK", "getpeernamecall", [ret |-> 0, peername |-> a]), n)
                   /\ Brief(AnswerWith("OK", "getsocknamecall", [ret |-> 0, sockanme |-> a]), n)
         /\ Brief(WaitNext, n) /\ Brief(NoCode, n) /\ Brief(AtStartAnswer, n)
<1>0. Answering \subseteq Calls /\ "atstartaction" \in Calls
  BY ResultsInitialized
<1>1. ASSUME NEW code, NEW call \in Answering, NEW ret PROVE Brief(Answer(code, call, ret), n)
  <2> DEFINE members == [ret |-> ret]
  <2>1. "buf" \notin DOMAIN members
    OBVIOUS
  <2> HIDE DEF members
  <2>2. Brief(AnswerWith(code, call, members), n)
    BY <1>0, <2>1, BriefAnswer
  <2>3. QED BY <2>2 DEF Answer, members
<1>2. ASSUME NEW p, NEW w PROVE Brief(PacketAnswer(p, w), n) <=> Len(p.data) \in 0 .. n
  <2> DEFINE members == IF w THEN [ret |-> Len(p.data), buf |-> p.data, addr |-> p.from]
                        ELSE [ret |-> Len(p.data), buf |-> p.data]
  <2>1. "buf" \in DOMAIN members /\ members["buf"] = p.data
    OBVIOUS
  <2> HIDE DEF members
  <2>2. Brief(AnswerWith("OK", "recvfromcall", members), n) <=> Len(p.data) \in 0 .. n
    BY <1>0, <2>1, BriefAnswer DEF Answering
  <2>3. QED BY <2>2 DEF PacketAnswer, members
<1>3. ASSUME NEW call \in {"getpeernamecall", "getsocknamecall", "atstartaction"}, NEW members
      PROVE  Brief(AnswerWith("OK", call, members), n)
  <2>1. call \in Calls /\ call # "recvfromcall"
    BY <1>0 DEF Answering
  <2>2. QED BY <2>1, BriefAnswer
<1>4. Brief(WaitNext, n) /\ Brief(NoCode, n)
  BY DEF WaitNext, NoCode, Set, Nothing, Brief, Has
<1>5. QED BY <1>1, <1>2, <1>3, <1>4 DEF AtStartAnswer

\* A Response that does not fit carries a packet that does not.
LEMMA BriefFits ==
  ASSUME NEW n \in Nat, NEW r, Brief(r, n), ~ ResponseFits(r)
  PROVE  n > MaxData
<1>1. /\ Has(r, "recvfromcall") /\ Has(r["recvfromcall"], "buf")
      /\ ~ (Len(r["recvfromcall"]["buf"]) <= MaxData)
  BY DEF ResponseFits, FitsMessage
<1>2. Len(r["recvfromcall"]["buf"]) \in 0 .. n
  BY <1>1 DEF Brief
<1>3. QED BY <1>1, <1>2, SizesAssumption

\* What connect leaves of a socket of either kind, and its Response.
ConnectLeaves(s, o, r) ==
  LET b == r.sock
  IN  /\ IsSock(b) /\ b.kind = s.kind /\ b.nonblocking = s.nonblocking
      /\ b.waiting = s.waiting /\ b.recvQ = s.recvQ
      /\ s.kind = "UDP" => /\ b.faddr = o["addr"] /\ b.state = s.state
                           /\ r.resp = NoCode
      /\ s.kind = "TCP" /\ s.nonblocking =>
           b = s /\ r.resp = Answer("OK", "recvfromcall", EINPROGRESS)
      /\ s.kind # "UDP" /\ ~ (s.kind = "TCP" /\ s.nonblocking) =>
           /\ b.faddr = o["addr"] /\ b.estabCB = TRUE /\ r.resp = WaitNext
           /\ b.state = IF s.state = "CLOSED" THEN "SYN_SENT" ELSE s.state

\* connectCall.
LEMMA ConnectHandled ==
  ASSUME NEW s, IsSock(s), NEW c, NEW o
  PROVE  ConnectLeaves(s, o, handleRequest(s, Parsed("connectcall", o), c))
<1> USE DEF ConnectLeaves
<1> DEFINE r == handleRequest(s, Parsed("connectcall", o), c)
           b == r.sock
           a == o["addr"]
<1>1. "connectcall" \in Calls
  BY DEF Calls
<1>2. r = connectCall(s, Given("connectcall", o), c) /\ Given("connectcall", o)["addr"] = a
  BY <1>1, Handled, GivenConnect
<1> HIDE DEF a
<1>3. CASE s.kind = "UDP"
  <2> DEFINE u == [s EXCEPT !.faddr = a]
  <2>1. r = After(Bind(u, c), NoCode)
    BY <1>2, <1>3 DEF connectCall, NoCode
  <2> HIDE DEF r
  <2>2. b = Bind(u, c) /\ r.resp = NoCode
    BY <2>1 DEF After
  <2>3. /\ u.kind = s.kind /\ u.nonblocking = s.nonblocking
        /\ u.faddr = a /\ u.state = s.state /\ u.estabCB = s.estabCB
        /\ u.waiting = s.waiting /\ u.recvQ = s.recvQ
    BY DEF IsSock
  <2>4. IsSock(u)
    BY DEF IsSock
  <2> HIDE DEF u, b
  <2>5. /\ IsSock(b) /\ b.kind = s.kind /\ b.nonblocking = s.nonblocking
        /\ b.waiting = s.waiting /\ b.recvQ = s.recvQ /\ b.faddr = a /\ b.state = s.state
    BY <2>2, <2>3, <2>4, Bound
  <2>6. QED BY <1>3, <2>2, <2>5 DEF r, a, b
<1>4. CASE s.kind = "TCP" /\ s.nonblocking
  <2>1. r = After(s, Answer("OK", "recvfromcall", EINPROGRESS))
    BY <1>2, <1>4 DEF connectCall
  <2> HIDE DEF r
  <2>2. b = s /\ r.resp = Answer("OK", "recvfromcall", EINPROGRESS)
    BY <2>1 DEF After
  <2>3. QED BY <1>4, <2>2 DEF r
<1>5. CASE s.kind # "UDP" /\ ~ (s.kind = "TCP" /\ s.nonblocking)
  <2> DEFINE u == [s EXCEPT !.faddr = a, !.estabCB = TRUE]
             v == Bind(u, c)
  <2>1. r = After(TcpSend(v), WaitNext)
    BY <1>2, <1>5 DEF connectCall
  <2> HIDE DEF r
  <2>2. b = TcpSend(v) /\ r.resp = WaitNext
    BY <2>1 DEF After
  <2>3. /\ u.kind = s.kind /\ u.nonblocking = s.nonblocking
        /\ u.faddr = a /\ u.state = s.state
        /\ u.waiting = s.waiting /\ u.recvQ = s.recvQ
    BY DEF IsSock
  <2>4. u.estabCB = TRUE
    BY DEF IsSock
  <2>5. IsSock(u)
    <3>1. u = [m \in {"kind", "nonblocking", "faddr", "lport", "state", "estabCB", "waiting", "recvQ"}
                 |-> u[m]]
      BY DEF IsSock
    <3> HIDE DEF u
    <3>2. QED BY <3>1 DEF IsSock
  <2> HIDE DEF u, b
  <2>6. /\ IsSock(v) /\ v.kind = s.kind /\ v.nonblocking = s.nonblocking
        /\ v.waiting = s.waiting /\ v.recvQ = s.recvQ /\ v.faddr = a /\ v.state = s.state
        /\ v.estabCB = u.estabCB
    BY <2>3, <2>5, Bound
  <2> HIDE DEF v
  <2>7. /\ IsSock(b) /\ b.kind = s.kind /\ b.nonblocking = s.nonblocking
        /\ b.waiting = s.waiting /\ b.recvQ = s.recvQ /\ b.faddr = a /\ b.estabCB = u.estabCB
        /\ b.state = IF s.state = "CLOSED" THEN "SYN_SENT" ELSE s.state
    BY <2>2, <2>6, SynSent
  <2>8. b.estabCB = TRUE
    BY <2>4, <2>7
  <2>9. QED BY <1>5, <2>2, <2>7, <2>8 DEF r, a, b
<1>6. QED BY <1>3, <1>4, <1>5

\* What socket leaves: a fresh Socket of the kind that was asked for.
SocketLeaves(r) ==
  LET b == r.sock
  IN  /\ IsSock(b) /\ b.kind \in {"TCP", "UDP"} /\ b.faddr = NoAddr /\ b.state = "CLOSED"
      /\ b.waiting = "no" /\ b.recvQ = << >> /\ b.estabCB = FALSE
      /\ r.resp = Answer("OK", "socketcall", 0)

\* socketCall makes a Socket that is neither bound nor connected.
LEMMA SocketHandled ==
  ASSUME NEW s, NEW c, NEW o
  PROVE  SocketLeaves(handleRequest(s, Parsed("socketcall", o), c))
<1> USE DEF SocketLeaves
<1> DEFINE r == handleRequest(s, Parsed("socketcall", o), c)
           g == Given("socketcall", o)
           k == IF IsStream(g["type"]) THEN "TCP" ELSE "UDP"
           n == IsNonblocking(g["type"])
           b == [NoSocket EXCEPT !.kind = k, !.nonblocking = n]
<1>1. "socketcall" \in Calls
  BY DEF Calls
<1>2. r = socketCall(s, g)
  BY <1>1, Handled
<1>3. r = After(b, Answer("OK", "socketcall", 0))
  BY <1>2 DEF socketCall
<1>4. k \in {"TCP", "UDP"}
  OBVIOUS
<1> HIDE DEF k, n, r, g
<1>5. /\ b.kind = k /\ b.faddr = NoAddr /\ b.state = "CLOSED"
      /\ b.waiting = "no" /\ b.recvQ = << >> /\ b.estabCB = FALSE
  BY DEF NoSocket
<1>6. IsSock(b)
  <2>1. b = [m \in {"kind", "nonblocking", "faddr", "lport", "state", "estabCB", "waiting", "recvQ"}
               |-> b[m]]
    BY DEF NoSocket
  <2> HIDE DEF b
  <2>2. QED BY <2>1 DEF IsSock
<1> HIDE DEF b
<1>7. r.sock = b /\ r.resp = Answer("OK", "socketcall", 0)
  BY <1>3 DEF After
<1>8. QED BY <1>4, <1>5, <1>6, <1>7 DEF r

\* What sendto leaves: with an address, UDP forgets the peer it was connected to.
SendtoLeaves(s, r) ==
  LET b == r.sock
  IN  /\ IsSock(b) /\ b.kind = s.kind /\ b.nonblocking = s.nonblocking
      /\ b.estabCB = s.estabCB /\ b.waiting = s.waiting /\ b.recvQ = s.recvQ
      /\ s.kind = "UDP" => b.state = s.state /\ b.faddr \in {s.faddr, NoAddr}
      /\ s.kind # "UDP" => /\ b.faddr = s.faddr
                           /\ b.state = IF s.state = "CLOSED" THEN "SYN_SENT" ELSE s.state
      /\ \E n : r.resp = Answer("OK", "sendtocall", n)

\* sendtoCall on a socket of either kind.
LEMMA SendtoHandled ==
  ASSUME NEW s, IsSock(s), NEW c, NEW o
  PROVE  SendtoLeaves(s, handleRequest(s, Parsed("sendtocall", o), c))
<1> USE DEF SendtoLeaves
<1> DEFINE r == handleRequest(s, Parsed("sendtocall", o), c)
           g == Given("sendtocall", o)
           u == Bind(s, c)
           len == Len(g["buf"])
<1>1. "sendtocall" \in Calls
  BY DEF Calls
<1>2. r = sendtoCall(s, g, c)
  BY <1>1, Handled
<1>3. r = CASE s.kind = "UDP" /\ Has(g, "addr") ->
                 After([u EXCEPT !.faddr = NoAddr], Answer("OK", "sendtocall", len))
            [] s.kind = "UDP" /\ ~ Has(g, "addr") -> After(u, Answer("OK", "sendtocall", len))
            [] OTHER -> After(TcpSend(u),
                              Answer("OK", "sendtocall", IF s.state = "SYN_SENT" THEN 0 ELSE len))
  BY <1>2 DEF sendtoCall
<1>4. /\ IsSock(u) /\ u.kind = s.kind /\ u.nonblocking = s.nonblocking
      /\ u.faddr = s.faddr /\ u.state = s.state /\ u.estabCB = s.estabCB
      /\ u.waiting = s.waiting /\ u.recvQ = s.recvQ
  BY Bound
<1>has. Has(g, "addr") \in BOOLEAN
  BY DEF Has
<1> HIDE DEF r, u, len, g
<1>5. CASE s.kind = "UDP" /\ Has(g, "addr")
  <2> DEFINE b == [u EXCEPT !.faddr = NoAddr]
  <2>1. r.sock = b /\ r.resp = Answer("OK", "sendtocall", len)
    <3>1. r = After(b, Answer("OK", "sendtocall", len))
      <4> DEFINE x == After(b, Answer("OK", "sendtocall", len))
                 y == After(u, Answer("OK", "sendtocall", len))
                 z == After(TcpSend(u), Answer("OK", "sendtocall", IF s.state = "SYN_SENT" THEN 0 ELSE len))
                 has == Has(g, "addr")
      <4>1. r = CASE s.kind = "UDP" /\ has -> x [] s.kind = "UDP" /\ ~ has -> y [] OTHER -> z
        BY <1>3
      <4>2. s.kind = "UDP" /\ has
        BY <1>5
      <4> HIDE DEF x, y, z, has
      <4>3. r = x
        BY <4>1, <4>2
      <4>4. QED BY <4>3 DEF x
    <3> HIDE DEF b
    <3>2. QED BY <3>1 DEF After
  <2>2. /\ IsSock(b) /\ b.kind = u.kind /\ b.nonblocking = u.nonblocking
        /\ b.estabCB = u.estabCB /\ b.waiting = u.waiting /\ b.recvQ = u.recvQ
        /\ b.state = u.state /\ b.faddr = NoAddr
    BY <1>4 DEF IsSock
  <2> HIDE DEF b
  <2>3. QED BY <1>4, <1>5, <2>1, <2>2 DEF r
<1>6. CASE s.kind = "UDP" /\ ~ Has(g, "addr")
  <2>1. r.sock = u /\ r.resp = Answer("OK", "sendtocall", len)
    BY <1>3, <1>6 DEF After
  <2>2. QED BY <1>4, <1>6, <2>1 DEF r
<1>7. CASE s.kind # "UDP"
  <2> DEFINE n == IF s.state = "SYN_SENT" THEN 0 ELSE len
             b == TcpSend(u)
  <2>1. r.sock = b /\ r.resp = Answer("OK", "sendtocall", n)
    BY <1>3, <1>7 DEF After
  <2>2. /\ IsSock(b) /\ b.kind = u.kind /\ b.nonblocking = u.nonblocking
        /\ b.faddr = u.faddr /\ b.estabCB = u.estabCB
        /\ b.waiting = u.waiting /\ b.recvQ = u.recvQ
        /\ b.state = IF u.state = "CLOSED" THEN "SYN_SENT" ELSE u.state
    BY <1>4, SynSent
  <2> HIDE DEF b, n
  <2>3. QED BY <1>4, <1>7, <2>1, <2>2 DEF r
<1>8. QED BY <1>5, <1>6, <1>7

\* What recvfrom leaves: the first packet is answered, or nothing is, or the socket waits.
RecvfromLeaves(s, o, r) ==
  LET b == r.sock
  IN  /\ IsSock(b) /\ b.kind = s.kind /\ b.nonblocking = s.nonblocking
      /\ b.estabCB = s.estabCB /\ b.faddr = s.faddr /\ b.state = s.state
      /\ \/ /\ s.recvQ # << >> /\ b.recvQ = Tail(s.recvQ) /\ b.waiting = s.waiting
            /\ r.resp = PacketAnswer(Head(s.recvQ), o["requireaddr"])
         \/ /\ s.recvQ = << >> /\ s.nonblocking /\ b = s
            /\ r.resp = Answer("OK", "recvfromcall", EAGAIN)
         \/ /\ s.recvQ = << >> /\ b.recvQ = s.recvQ
            /\ b.waiting = IF s.kind = "UDP" /\ o["requireaddr"] THEN "addr" ELSE "plain"
            /\ r.resp = WaitNext

\* recvfromCall on a socket of either kind.
LEMMA RecvfromHandled ==
  ASSUME NEW s, IsSock(s), NEW c, NEW o
  PROVE  RecvfromLeaves(s, o, handleRequest(s, Parsed("recvfromcall", o), c))
<1> USE DEF RecvfromLeaves
<1> DEFINE r == handleRequest(s, Parsed("recvfromcall", o), c)
           w == o["requireaddr"]
<1>1. "recvfromcall" \in Calls
  BY DEF Calls
<1>2. r = recvfromCall(s, Given("recvfromcall", o)) /\ Given("recvfromcall", o)["requireaddr"] = w
  BY <1>1, Handled, GivenRecvfrom
<1> HIDE DEF w
<1>3. CASE s.recvQ # << >>
  <2> DEFINE q == Tail(s.recvQ)
             b == [s EXCEPT !.recvQ = q]
             p == PacketAnswer(Head(s.recvQ), w)
  <2>1. r = After(b, p)
    BY <1>2, <1>3 DEF recvfromCall
  <2> HIDE DEF q, p, r
  <2>2. /\ IsSock(b) /\ b.kind = s.kind /\ b.nonblocking = s.nonblocking
        /\ b.estabCB = s.estabCB /\ b.faddr = s.faddr /\ b.state = s.state
        /\ b.recvQ = q /\ b.waiting = s.waiting
    BY DEF IsSock
  <2> HIDE DEF b
  <2>3. r.sock = b /\ r.resp = p
    BY <2>1 DEF After
  <2>4. QED BY <1>3, <2>2, <2>3 DEF p, q, w, r
<1>4. CASE s.recvQ = << >> /\ s.nonblocking
  <2>1. r = After(s, Answer("OK", "recvfromcall", EAGAIN))
    BY <1>2, <1>4 DEF recvfromCall
  <2> HIDE DEF r
  <2>2. r.sock = s /\ r.resp = Answer("OK", "recvfromcall", EAGAIN)
    BY <2>1 DEF After
  <2>3. QED BY <1>4, <2>2 DEF r
<1>5. CASE s.recvQ = << >> /\ ~ s.nonblocking
  <2> DEFINE a == IF s.kind = "UDP" /\ w THEN "addr" ELSE "plain"
             b == [s EXCEPT !.waiting = a]
  <2>1. r = After(b, WaitNext)
    BY <1>2, <1>5 DEF recvfromCall
  <2> HIDE DEF a, r
  <2>2. /\ IsSock(b) /\ b.kind = s.kind /\ b.nonblocking = s.nonblocking
        /\ b.estabCB = s.estabCB /\ b.faddr = s.faddr /\ b.state = s.state
        /\ b.recvQ = s.recvQ /\ b.waiting = a
    BY DEF IsSock
  <2> HIDE DEF b
  <2>3. r.sock = b /\ r.resp = WaitNext
    BY <2>1 DEF After
  <2>4. QED BY <1>5, <2>2, <2>3 DEF a, w, r
<1>6. QED BY <1>3, <1>4, <1>5

\* The other calls change nothing.
Leaves(s, resp, r) == r.sock = s /\ r.resp = resp
OtherAnswer(s, call) ==
  CASE call = "closecall" -> Answer("OK", "closecall", 0)
    [] call = "getpeernamecall" ->
         AnswerWith("OK", "getpeernamecall", [ret |-> 0, peername |-> SockAddr(s.faddr)])
    [] call = "getsocknamecall" ->
         AnswerWith("OK", "getsocknamecall", [ret |-> 0, sockanme |-> LocalAddr(s)])
    [] OTHER -> AtStartAnswer

\* close, getpeername, getsockname and atstart only answer.
LEMMA OthersHandled ==
  ASSUME NEW s, NEW c, NEW o,
         NEW call \in {"closecall", "getpeernamecall", "getsocknamecall", "atstartaction"}
  PROVE  Leaves(s, OtherAnswer(s, call), handleRequest(s, Parsed(call, o), c))
<1>1. {"closecall", "getpeernamecall", "getsocknamecall", "atstartaction"} \subseteq Calls
  BY DEF Calls
<1>2. handleRequest(s, Parsed("closecall", o), c) = After(s, Answer("OK", "closecall", 0))
  BY <1>1, Handled
<1>3. handleRequest(s, Parsed("getpeernamecall", o), c) = getpeernameCall(s)
  BY <1>1, Handled
<1>4. handleRequest(s, Parsed("getsocknamecall", o), c) = getsocknameCall(s)
  BY <1>1, Handled
<1>5. handleRequest(s, Parsed("atstartaction", o), c) = atstartAction(s)
  BY <1>1, Handled
<1>6. CASE call = "closecall"
  BY <1>2, <1>6 DEF After, Leaves, OtherAnswer
<1>7. CASE call = "getpeernamecall"
  BY <1>3, <1>7 DEF After, Leaves, OtherAnswer, getpeernameCall
<1>8. CASE call = "getsocknamecall"
  BY <1>4, <1>8 DEF After, Leaves, OtherAnswer, getsocknameCall
<1>9. CASE call = "atstartaction"
  BY <1>5, <1>9 DEF After, Leaves, OtherAnswer, atstartAction, AtStartAnswer
<1>10. QED BY <1>6, <1>7, <1>8, <1>9

\* Whatever was asked, the Response is complete, except that to connect on UDP.
LEMMA Handling ==
  ASSUME NEW s, IsSock(s), NEW c, NEW call \in Answering, NEW o, NEW n \in Nat, Queued(s, n)
  PROVE  LET r == handleRequest(s, Parsed(call, o), c)
         IN  /\ IsSock(r.sock) /\ Queued(r.sock, n) /\ Brief(r.resp, n)
             /\ \/ Passes(r.resp)
                \/ /\ call = "connectcall" /\ r.resp = NoCode
                   /\ r.sock.kind = "UDP" /\ r.sock.faddr = o["addr"]
<1> DEFINE r == handleRequest(s, Parsed(call, o), c)
<1>1. CASE call = "socketcall"
  <2>1. SocketLeaves(r)
    BY <1>1, SocketHandled
  <2> HIDE DEF r
  <2>2. IsSock(r.sock) /\ r.sock.recvQ = << >> /\ r.resp = Answer("OK", "socketcall", 0)
    BY <2>1 DEF SocketLeaves
  <2>3. Queued(r.sock, n)
    <3>1. << >> \in Seq({n})
      OBVIOUS
    <3>2. QED BY <2>2, <3>1 DEF Queued, IsSeq
  <2>4. QED BY <2>2, <2>3, AnswersPass, AnswersBrief DEF Answering, r
<1>2. CASE call = "connectcall"
  <2>1. ConnectLeaves(s, o, r)
    BY <1>2, ConnectHandled
  <2> HIDE DEF r
  <2>2. Passes(Answer("OK", "recvfromcall", EINPROGRESS)) /\ Passes(WaitNext)
    BY AnswersPass DEF Answering
  <2>3. /\ IsSock(r.sock)
        /\ Passes(r.resp) \/ (r.resp = NoCode /\ r.sock.kind = "UDP" /\ r.sock.faddr = o["addr"])
    BY <2>1, <2>2 DEF ConnectLeaves
  <2>4. /\ r.sock.recvQ = s.recvQ
        /\ r.resp \in {NoCode, Answer("OK", "recvfromcall", EINPROGRESS), WaitNext}
    BY <2>1 DEF ConnectLeaves
  <2>5. Queued(r.sock, n)
    BY <2>4 DEF Queued
  <2>6. Brief(r.resp, n)
    BY <2>4, AnswersBrief DEF Answering
  <2>7. QED BY <1>2, <2>3, <2>5, <2>6 DEF r
<1>3. CASE call = "recvfromcall"
  <2>1. RecvfromLeaves(s, o, r)
    BY <1>3, RecvfromHandled
  <2> HIDE DEF r
  <2>2. /\ IsSock(r.sock)
        /\ \/ r.resp = PacketAnswer(Head(s.recvQ), o["requireaddr"])
           \/ r.resp = Answer("OK", "recvfromcall", EAGAIN)
           \/ r.resp = WaitNext
    BY <2>1 DEF RecvfromLeaves
  <2>3. Passes(r.resp)
    BY <2>2, AnswersPass DEF Answering
  <2>4. \/ s.recvQ # << >> /\ r.sock.recvQ = Tail(s.recvQ)
        \/ r.sock.recvQ = s.recvQ
    BY <2>1 DEF RecvfromLeaves
  <2>5. Queued(r.sock, n)
    <3>1. CASE r.sock.recvQ = s.recvQ
      BY <3>1 DEF Queued
    <3>2. CASE s.recvQ # << >> /\ r.sock.recvQ = Tail(s.recvQ)
      <4> DEFINE q == s.recvQ
      <4>1. IsSeq(q) /\ q # << >>
        BY <3>2 DEF Queued
      <4>2. IsSeq(Tail(q)) /\ \A i \in DOMAIN Tail(q) : \E j \in DOMAIN q : Tail(q)[i] = q[j]
        BY <4>1, Dropped
      <4>3. \A j \in DOMAIN q : Len(q[j].data) \in 0 .. n
        BY DEF Queued
      <4> HIDE DEF q
      <4>4. \A i \in DOMAIN Tail(q) : Len(Tail(q)[i].data) \in 0 .. n
        BY <4>2, <4>3
      <4>5. QED BY <3>2, <4>2, <4>4 DEF Queued, q
    <3>3. QED BY <2>4, <3>1, <3>2
  <2>6. Brief(r.resp, n)
    <3>1. CASE s.recvQ # << >> /\ r.resp = PacketAnswer(Head(s.recvQ), o["requireaddr"])
      <4>1. Len(Head(s.recvQ).data) \in 0 .. n
        BY <3>1, Dropped DEF Queued
      <4>2. QED BY <3>1, <4>1, AnswersBrief
    <3>2. CASE r.resp \in {Answer("OK", "recvfromcall", EAGAIN), WaitNext}
      BY <3>2, AnswersBrief DEF Answering
    <3>3. QED BY <2>1, <3>1, <3>2 DEF RecvfromLeaves
  <2>7. QED BY <2>2, <2>3, <2>5, <2>6 DEF r
<1>4. CASE call = "sendtocall"
  <2>1. SendtoLeaves(s, r)
    BY <1>4, SendtoHandled
  <2> HIDE DEF r
  <2>2. IsSock(r.sock) /\ r.sock.recvQ = s.recvQ /\ \E m : r.resp = Answer("OK", "sendtocall", m)
    BY <2>1 DEF SendtoLeaves
  <2>3. Passes(r.resp)
    BY <2>2, AnswersPass DEF Answering
  <2>4. Queued(r.sock, n)
    BY <2>2 DEF Queued
  <2>5. Brief(r.resp, n)
    BY <2>2, AnswersBrief DEF Answering
  <2>6. QED BY <2>2, <2>3, <2>4, <2>5 DEF r
<1>5. CASE call \in {"closecall", "getpeernamecall", "getsocknamecall"}
  <2>1. Leaves(s, OtherAnswer(s, call), r)
    BY <1>5, OthersHandled
  <2> HIDE DEF r
  <2>2. Passes(OtherAnswer(s, call))
    BY <1>5, AnswersPass DEF OtherAnswer, Answering
  <2>b. Brief(OtherAnswer(s, call), n)
    BY <1>5, AnswersBrief DEF OtherAnswer, Answering
  <2>3. IsSock(r.sock) /\ Passes(r.resp) /\ Queued(r.sock, n) /\ Brief(r.resp, n)
    BY <2>1, <2>2, <2>b DEF Leaves
  <2>4. QED BY <2>3 DEF r
<1>6. QED BY <1>1, <1>2, <1>3, <1>4, <1>5 DEF Answering

-----------------------------------------------------------------------------
(* The records keep their shape, and what was never made stays so.          *)

ChanShape ==
  /\ DOMAIN chan = AllChannels
  /\ \A c \in AllChannels : /\ IsChan(chan[c]) /\ IsSock(chan[c].sock)
                            /\ IsSeq(chan[c].req) /\ IsSeq(chan[c].resp)
TableShape ==
  /\ DOMAIN table = 0 .. MaxSockets - 1
  /\ \A i \in 0 .. MaxSockets - 1 : table[i] \in 0 .. opened
ThreadIs(th) ==
  /\ IsThread(th) /\ th.ch \in AllChannels
  /\ th.own = 0 => th = Idle
  /\ th.own # 0 => /\ th.own \in Channels
                   /\ startfd # 0 /\ th.fd = startfd
ThreadShape == DOMAIN thread = Threads /\ \A t \in Threads : ThreadIs(thread[t])
CountShape == opened \in 0 .. MaxSockets /\ packets \in Nat /\ build \in {"Debug", "Release"}

\* The shape of the state, in its parts.
LEMMA Shapes == ShapeInv <=> ChanShape /\ TableShape /\ ThreadShape /\ CountShape
BY DEF ShapeInv, ChanShape, TableShape, ThreadShape, ThreadIs, CountShape

\* A step on one channel keeps the shape of all.
LEMMA BecomesShape ==
  ASSUME ChanShape, NEW c \in AllChannels, NEW o, NEW q, NEW p, NEW s,
         Becomes(c, o, q, p, s), IsSeq(q), IsSeq(p), IsSock(s)
  PROVE  ChanShape'
<1>1. SUFFICES ASSUME NEW d \in AllChannels
               PROVE  /\ IsChan(chan'[d]) /\ IsSock(chan'[d].sock)
                      /\ IsSeq(chan'[d].req) /\ IsSeq(chan'[d].resp)
  BY DEF ChanShape, Becomes, AllChannels, IsChan, IsSock, IsSeq
<1>2. CASE d # c
  BY <1>2 DEF ChanShape, Becomes
<1>3. CASE d = c
  <2>1. /\ chan'[c] = [open |-> o, req |-> q, resp |-> p, sock |-> s]
    BY DEF Becomes
  <2>2. IsChan(chan'[c])
    BY <2>1 DEF IsChan
  <2>3. chan'[c].sock = s /\ chan'[c].req = q /\ chan'[c].resp = p
    BY <2>1
  <2>4. QED BY <1>3, <2>2, <2>3
<1>4. QED BY <1>2, <1>3

\* So does a step of one thread.
LEMMA ThreadToShape ==
  ASSUME ThreadShape, NEW t \in Threads, NEW th, ThreadTo(t, th), ThreadIs(th), startfd' = startfd
  PROVE  ThreadShape'
<1>1. SUFFICES ASSUME NEW u \in Threads
               PROVE  /\ IsThread(thread'[u]) /\ thread'[u].ch \in AllChannels
                      /\ thread'[u].own = 0 => thread'[u] = Idle
                      /\ thread'[u].own # 0 => /\ thread'[u].own \in Channels
                                               /\ startfd' # 0 /\ thread'[u].fd = startfd'
  BY DEF ThreadShape, ThreadTo, ThreadIs, IsThread, AllChannels, Channels, ProcChannel, Idle, NoResult
<1>2. CASE u # t
  <2>1. thread'[u] = thread[u] /\ ThreadIs(thread[u])
    BY <1>2 DEF ThreadShape, ThreadTo
  <2>2. QED BY <2>1 DEF ThreadIs
<1>3. CASE u = t
  <2>1. thread'[u] = th
    BY <1>3 DEF ThreadTo
  <2>2. QED BY <2>1 DEF ThreadIs
<1>4. QED BY <1>2, <1>3

BaseInv == ShapeInv /\ ProcInv /\ FreshInv

\* The process starts with the channel of the process only, and atstart in it.
LEMMA BaseInit == Init => BaseInv
<1> SUFFICES ASSUME Init PROVE BaseInv
  OBVIOUS
<1> DEFINE w == packed("atstartaction", initial("atstartaction"))
           first == [NoChannel EXCEPT !.open = TRUE, !.req = <<w>>]
<1>1. /\ build \in Builds /\ startfd = 0 /\ opened = 0 /\ packets = 0
      /\ table = [i \in 0 .. MaxSockets - 1 |-> 0] /\ thread = [t \in Threads |-> Idle]
      /\ chan = [c \in Channels \cup {ProcChannel} |-> IF c = ProcChannel THEN first ELSE NoChannel]
  BY DEF Init
<1>2. IsSeq(<< >>) /\ IsSeq(<<w>>)
  <2>1. << >> \in Seq({w}) /\ <<w>> \in Seq({w})
    OBVIOUS
  <2>2. QED BY <2>1 DEF IsSeq
<1>3. IsSock(NoSocket) /\ IsChan(NoChannel)
  BY DEF IsSock, IsChan, NoSocket, NoChannel
<1>4. NoChannel.req = << >> /\ NoChannel.resp = << >> /\ NoChannel.sock = NoSocket
  BY DEF NoChannel
<1>5. /\ IsChan(first) /\ first.req = <<w>> /\ first.resp = << >> /\ first.sock = NoSocket
  <2>1. first.req = <<w>> /\ first.resp = << >> /\ first.sock = NoSocket
    BY DEF NoChannel
  <2>2. first = [m \in {"open", "req", "resp", "sock"} |-> first[m]]
    BY DEF NoChannel
  <2> HIDE DEF first
  <2>3. IsChan(first)
    BY <2>2 DEF IsChan
  <2>4. QED BY <2>1, <2>3
<1> HIDE DEF first
<1>6. ProcChannel \in AllChannels /\ ProcChannel \notin Channels /\ 0 \in AllChannels
  BY SocketsAssumption DEF AllChannels, Channels, ProcChannel
<1>7. ChanShape
  BY <1>1, <1>2, <1>3, <1>4, <1>5 DEF ChanShape, AllChannels
<1>8. TableShape
  BY <1>1 DEF TableShape
<1>9. ThreadShape
  <2>1. IsThread(Idle) /\ Idle.ch = 0 /\ Idle.own = 0
    BY DEF IsThread, Idle
  <2>2. ThreadIs(Idle)
    BY <1>6, <2>1 DEF ThreadIs
  <2>3. QED BY <1>1, <2>2 DEF ThreadShape
<1>10. CountShape
  BY <1>1, SocketsAssumption, BuildsAssumption DEF CountShape
<1>11. ShapeInv
  BY <1>7, <1>8, <1>9, <1>10, Shapes
<1>12. FreshInv
  BY <1>1, <1>6 DEF FreshInv
<1>13. ProcInv
  <2>1. chan[ProcChannel] = first
    BY <1>1, <1>6
  <2>2. \A i \in DOMAIN <<w>> : <<w>>[i] = w
    OBVIOUS
  <2> HIDE DEF w
  <2>3. QED BY <1>1, <1>5, <2>1, <2>2 DEF ProcInv, w
<1>14. QED BY <1>11, <1>12, <1>13 DEF BaseInv

\* Each element of one sequence is one of the other.
From(q, p) == \A i \in DOMAIN q : \E j \in DOMAIN p : q[i] = p[j]

\* A step of the daemon on the channel c.
LEMMA DaemonBase ==
  ASSUME BaseInv, NEW c \in AllChannels, DaemonFrame, chan[c].open, packets' \in Nat,
         NEW q, NEW p, NEW s, Becomes(c, chan[c].open, q, p, s),
         IsSeq(q), IsSeq(p), IsSock(s), From(q, chan[c].req),
         c = ProcChannel => s = NoSocket /\ \A i \in DOMAIN p : p[i] = Sent(AtStartAnswer)
  PROVE  BaseInv'
<1>1. ChanShape /\ TableShape /\ ThreadShape /\ CountShape
  BY Shapes DEF BaseInv
<1>2. UNCHANGED <<build, startfd, table, thread, opened>>
  BY DEF DaemonFrame
<1>3. ChanShape'
  BY <1>1, BecomesShape
<1>4. TableShape' /\ ThreadShape' /\ CountShape'
  <2>1. TableShape'
    BY <1>1, <1>2 DEF TableShape
  <2>2. ThreadShape'
    BY <1>1, <1>2 DEF ThreadShape, ThreadIs, IsThread, AllChannels, Channels, Idle, NoResult
  <2>3. CountShape'
    BY <1>1, <1>2 DEF CountShape
  <2>4. QED BY <2>1, <2>2, <2>3
<1>5. ShapeInv'
  BY <1>3, <1>4, Shapes, PTL
<1>6. FreshInv'
  <2>1. SUFFICES ASSUME NEW d \in Channels, d > opened' PROVE chan'[d] = NoChannel
    BY DEF FreshInv, Channels, NoChannel, NoSocket
  <2>2. d > opened /\ chan[d] = NoChannel /\ d \in AllChannels
    BY <1>2, <2>1 DEF FreshInv, BaseInv, AllChannels
  <2>3. d # c
    BY <2>2 DEF NoChannel
  <2>4. QED BY <2>2, <2>3 DEF Becomes
<1>7. ProcInv'
  <2>1. ProcInv /\ ProcChannel \in AllChannels
    BY DEF BaseInv, AllChannels
  <2>2. CASE c # ProcChannel
    <3>1. chan'[ProcChannel] = chan[ProcChannel]
      BY <2>1, <2>2 DEF Becomes
    <3>2. QED BY <1>2, <2>1, <3>1 DEF ProcInv, ProcChannel
  <2>3. CASE c = ProcChannel
    <3>1. chan'[ProcChannel].sock = s /\ chan'[ProcChannel].req = q /\ chan'[ProcChannel].resp = p
      BY <2>3 DEF Becomes
    <3>2. \A i \in DOMAIN q : q[i] = packed("atstartaction", initial("atstartaction"))
      BY <2>1, <2>3 DEF ProcInv, From
    <3>3. QED BY <1>2, <2>1, <2>3, <3>1, <3>2 DEF ProcInv, ProcChannel
  <2>4. QED BY <2>2, <2>3
<1>8. QED BY <1>5, <1>6, <1>7 DEF BaseInv

\* A Response the daemon may write: one that passes, or that to connect on UDP.
Fate(c, s, r) ==
  /\ \/ Passes(r)
     \/ r = NoCode /\ c \in Channels /\ s.kind = "UDP" /\ s.faddr # NoAddr
  /\ Brief(r, longest)

WiresInv == WireInv /\ DaemonInv /\ QueueInv

\* A step on one channel leaves the packets of the others.
LEMMA QueueBecomes ==
  ASSUME QueueInv, NEW c \in AllChannels, NEW o, NEW q, NEW p, NEW s, Becomes(c, o, q, p, s),
         longest' \in Nat, longest' >= longest, Queued(s, longest')
  PROVE  QueueInv'
<1>1. SUFFICES ASSUME NEW d \in AllChannels PROVE Queued(chan'[d].sock, longest')
  BY DEF QueueInv, AllChannels, Channels, Queued, IsSeq
<1>2. CASE d # c
  <2>1. chan'[d] = chan[d] /\ Queued(chan[d].sock, longest)
    BY <1>2 DEF Becomes, QueueInv
  <2>2. QED BY <2>1 DEF Queued, QueueInv
<1>3. CASE d = c
  BY <1>3 DEF Becomes
<1>4. QED BY <1>2, <1>3

\* A step of the daemon on one channel that writes nothing unreadable in a Debug build.
LEMMA SafeBecomes ==
  ASSUME BaseInv, WireInv, NEW c \in AllChannels, DaemonFrame, chan[c].open, packets' \in Nat,
         NEW q, NEW p, NEW s, Becomes(c, chan[c].open, q, p, s),
         IsSeq(q), IsSeq(p), IsSock(s), From(q, chan[c].req),
         c = ProcChannel => s = NoSocket /\ \A i \in DOMAIN p : p[i] = Sent(AtStartAnswer),
         build = "Debug" => \A i \in DOMAIN p : TopUnpacks(Response__C, p[i]) \/ p[i] \in ToSet(chan[c].resp)
  PROVE  BaseInv' /\ WireInv'
<1>1. BaseInv'
  BY DaemonBase
<1>2. WireInv'
  <2>1. SUFFICES ASSUME NEW d \in Channels
                 PROVE  /\ \A i \in DOMAIN chan'[d].req : Known(chan'[d].req[i])
                        /\ build' = "Debug" =>
                             \A i \in DOMAIN chan'[d].resp : TopUnpacks(Response__C, chan'[d].resp[i])
    BY DEF WireInv, Known
  <2>2. /\ \A i \in DOMAIN chan[d].req : Known(chan[d].req[i])
        /\ build = "Debug" => \A i \in DOMAIN chan[d].resp : TopUnpacks(Response__C, chan[d].resp[i])
    BY DEF WireInv
  <2>3. build' = build /\ d \in AllChannels
    BY DEF DaemonFrame, AllChannels
  <2>4. CASE d # c
    <3>1. chan'[d] = chan[d]
      BY <2>3, <2>4 DEF Becomes
    <3>2. QED BY <2>2, <2>3, <3>1
  <2>5. CASE d = c
    <3>1. chan'[d].req = q /\ chan'[d].resp = p
      BY <2>5 DEF Becomes
    <3>2. \A i \in DOMAIN q : Known(q[i])
      BY <2>2, <2>5 DEF From
    <3>3. ASSUME build = "Debug", NEW i \in DOMAIN p PROVE TopUnpacks(Response__C, p[i])
      <4>1. CASE p[i] \in ToSet(chan[c].resp)
        <5>1. PICK j \in DOMAIN chan[c].resp : p[i] = chan[c].resp[j]
          <6>1. IsSeq(chan[c].resp)
            BY DEF BaseInv, ShapeInv
          <6>2. QED BY <4>1, <6>1 DEF ToSet, IsSeq
        <5>2. QED BY <2>2, <2>5, <3>3, <5>1
      <4>2. QED BY <3>3, <4>1
    <3>4. QED BY <2>3, <3>1, <3>2, <3>3
  <2>6. QED BY <2>4, <2>5
<1>3. QED BY <1>1, <1>2

\* A step that writes, or asserts on the answer to connect on UDP.
LEMMA SafeWrites ==
  ASSUME BaseInv, WireInv, NEW c \in AllChannels, DaemonFrame, chan[c].open, packets' \in Nat,
         NEW q, NEW s, NEW r, Writes(c, q, s, r),
         IsSeq(q), IsSock(s), From(q, chan[c].req),
         c = ProcChannel => s = NoSocket /\ r = AtStartAnswer,
         Fate(c, s, r), QueueInv, Queued(s, longest), longest' = longest
  PROVE  BaseInv' /\ WiresInv'
<1>0. longest \in Nat /\ longest' >= longest /\ build \in {"Debug", "Release"}
  BY DEF QueueInv, BaseInv, ShapeInv
<1>1. IsSeq(chan[c].resp) /\ build' = build
  BY DEF BaseInv, ShapeInv, DaemonFrame
<1>2. \A i \in DOMAIN chan[c].resp : chan[c].resp[i] \in ToSet(chan[c].resp)
  BY <1>1 DEF ToSet, IsSeq
<1>3. ASSUME c = ProcChannel, NEW i \in DOMAIN chan[c].resp
      PROVE  chan[c].resp[i] = Sent(AtStartAnswer)
  BY <1>3 DEF BaseInv, ProcInv
<1>4. CASE /\ daemon' = "up" /\ Writable(r)
           /\ Becomes(c, chan[c].open, q, Append(chan[c].resp, Sent(r)), s)
  <2> DEFINE p == Append(chan[c].resp, Sent(r))
  <2>1. IsSeq(p) /\ \A i \in DOMAIN p : p[i] = Sent(r) \/ \E j \in DOMAIN chan[c].resp : p[i] = chan[c].resp[j]
    BY <1>1, Appended
  <2>2. Becomes(c, chan[c].open, q, p, s)
    BY <1>4
  <2> HIDE DEF p
  <2>3. build = "Debug" => TopUnpacks(Response__C, Sent(r))
    BY <1>4, NoCodeRead DEF Fate, Passes, Writable
  <2>4. build = "Debug" => \A i \in DOMAIN p : TopUnpacks(Response__C, p[i]) \/ p[i] \in ToSet(chan[c].resp)
    BY <1>2, <2>1, <2>3
  <2>5. c = ProcChannel => s = NoSocket /\ \A i \in DOMAIN p : p[i] = Sent(AtStartAnswer)
    BY <1>3, <2>1
  <2>6. BaseInv' /\ WireInv'
    BY <2>1, <2>2, <2>4, <2>5, SafeBecomes
  <2>7. DaemonInv'
    BY <1>4 DEF DaemonInv
  <2>q. QueueInv'
    BY <1>0, <2>2, QueueBecomes
  <2>8. QED BY <2>6, <2>7, <2>q DEF WiresInv
<1>5. CASE /\ daemon' = Failing("overread") /\ ~ Writable(r)
           /\ Becomes(c, chan[c].open, q, chan[c].resp, s)
  <2> DEFINE p == chan[c].resp
  <2>1. BaseInv' /\ WireInv'
    BY <1>1, <1>2, <1>3, <1>5, SafeBecomes
  <2>2. ResponseFits(r) => c \in Channels /\ s.kind = "UDP" /\ s.faddr # NoAddr /\ build = "Debug"
    BY <1>5 DEF Fate, Passes, Writable
  <2>3. chan'[c].sock = s
    BY <1>5 DEF Becomes
  <2>h. ~ ResponseFits(r) => HugePacket'
    BY <1>0, BriefFits DEF Fate, HugePacket
  <2>u. ResponseFits(r) => UdpConnected' /\ build = "Debug"
    BY <2>2, <2>3 DEF UdpConnected, NoAddr, Channels
  <2>4. DaemonInv'
    BY <1>0, <1>1, <1>5, <2>h, <2>u DEF DaemonInv, Failing
  <2>q. QueueInv'
    BY <1>0, <1>5, QueueBecomes
  <2>5. QED BY <2>1, <2>4, <2>q DEF WiresInv
<1>6. QED BY <1>4, <1>5 DEF Writes

-----------------------------------------------------------------------------
(* What an application may ask for.                                         *)

\* connect is asked for with the address of a peer.
LEMMA AskedConnect ==
  ASSUME NEW o \in Asks("connectcall")
  PROVE  o["addr"] \in Peers /\ o["addr"] # NoAddr /\ o["addr"] # <<0, 0>>
<1>1. PICK a \in Peers : o = [initial("connectcall") EXCEPT !.addr = a]
  BY DEF Asks, Objects
<1>2. "addr" \in DOMAIN initial("connectcall")
  <2> DEFINE s == Request__Connect
             S == ToSet(s)
             at(m) == CHOOSE f \in S : f[1] = m
  <2>1. request__calls["connectcall"].struct = s
    BY DEF request__calls, Message
  <2>2. s[1] \in S /\ s[1][1] = "addr"
    BY DEF Request__Connect, ToSet
  <2> HIDE DEF s, S
  <2>3. DOMAIN InitValue(s) = {f[1] : f \in S}
    <3>1. InitValue(s) = [m \in {f[1] : f \in S} |-> Zero(at(m)[2])]
      BY DEF InitValue, S
    <3> HIDE DEF at
    <3>2. QED BY <3>1
  <2>4. QED BY <2>1, <2>2, <2>3 DEF initial
<1>3. o["addr"] = a
  BY <1>1, <1>2
<1>4. \A x \in Peers : x # << >> /\ x # <<0, 0>>
  BY PeersAssumption
<1>5. QED BY <1>3, <1>4 DEF NoAddr

\* recvfrom says whether it wants the address and what room it has.
LEMMA AskedRecvfrom ==
  ASSUME NEW o \in Asks("recvfromcall")
  PROVE  o["requireaddr"] \in BOOLEAN /\ o["len"] \in Nat
<1>1. PICK n \in BufferLengths : \E w \in BOOLEAN :
        o = [initial("recvfromcall") EXCEPT !.len = n, !.requireaddr = w]
  <2> DEFINE of(n, w) == [initial("recvfromcall") EXCEPT !.len = n, !.requireaddr = w]
  <2>1. Objects("recvfromcall") = {of(n, w) : n \in BufferLengths, w \in BOOLEAN}
    BY DEF Objects
  <2>2. Asks("recvfromcall") = Objects("recvfromcall")
    BY DEF Asks
  <2> HIDE DEF of
  <2>3. PICK n \in BufferLengths, w \in BOOLEAN : o = of(n, w)
    BY <2>1, <2>2
  <2>4. QED BY <2>3 DEF of
<1>w. PICK w \in BOOLEAN : o = [initial("recvfromcall") EXCEPT !.len = n, !.requireaddr = w]
  BY <1>1
<1>2. "requireaddr" \in DOMAIN initial("recvfromcall") /\ "len" \in DOMAIN initial("recvfromcall")
  <2> DEFINE s == Request__Recvfrom
             S == ToSet(s)
             at(m) == CHOOSE f \in S : f[1] = m
  <2>1. request__calls["recvfromcall"].struct = s
    BY DEF request__calls, Message
  <2>2. s[3] \in S /\ s[3][1] = "requireaddr" /\ s[1] \in S /\ s[1][1] = "len"
    BY DEF Request__Recvfrom, ToSet
  <2> HIDE DEF s, S
  <2>3. DOMAIN InitValue(s) = {f[1] : f \in S}
    <3>1. InitValue(s) = [m \in {f[1] : f \in S} |-> Zero(at(m)[2])]
      BY DEF InitValue, S
    <3> HIDE DEF at
    <3>2. QED BY <3>1
  <2>4. QED BY <2>1, <2>2, <2>3 DEF initial
<1>3. o["requireaddr"] = w /\ o["len"] = n
  BY <1>w, <1>2
<1>4. QED BY <1>3, SizesAssumption

-----------------------------------------------------------------------------
(* The steps of the daemon keep the first parts.                            *)

\* A Request is handled.
LEMMA ReadReadySafe ==
  ASSUME BaseInv, WiresInv, NEW c \in AllChannels, onReadReady(c)
  PROVE  BaseInv' /\ WiresInv'
<1> DEFINE w == Head(chan[c].req)
           r == handleRequest(chan[c].sock, TopParse(Request, w), c)
           q == Tail(chan[c].req)
<1>1. /\ DaemonFrame /\ UNCHANGED <<packets, longest>>
      /\ chan[c].open /\ chan[c].req # << >>
      /\ Writes(c, q, r.sock, r.resp)
  BY ReadReady DEF BaseInv
<1>2. IsSeq(chan[c].req) /\ IsSock(chan[c].sock) /\ packets' \in Nat
  BY <1>1 DEF BaseInv, ShapeInv
<1>k. longest \in Nat /\ Queued(chan[c].sock, longest) /\ longest' = longest
  BY <1>1 DEF WiresInv, QueueInv
<1>3. IsSeq(q) /\ From(q, chan[c].req) /\ 1 \in DOMAIN chan[c].req /\ w = chan[c].req[1]
  BY <1>1, <1>2, Dropped DEF From
<1>4. IsSock(r.sock) /\ Fate(c, r.sock, r.resp) /\ Queued(r.sock, longest) /\ (c = ProcChannel => r.sock = NoSocket /\ r.resp = AtStartAnswer)
  <2>1. CASE c = ProcChannel
    <3>1. w = packed("atstartaction", initial("atstartaction")) /\ chan[c].sock = NoSocket
      BY <1>3, <2>1 DEF BaseInv, ProcInv
    <3>2. Leaves(chan[c].sock, OtherAnswer(chan[c].sock, "atstartaction"), r)
      BY <3>1, OthersHandled DEF Parsed
    <3> HIDE DEF r
    <3>3. r.sock = NoSocket /\ r.resp = AtStartAnswer
      BY <3>1, <3>2 DEF Leaves, OtherAnswer
    <3>4. QED BY <1>2, <1>k, <3>1, <3>3, AnswersPass, AnswersBrief DEF Fate
  <2>2. CASE c # ProcChannel
    <3>1. c \in Channels
      BY <2>2 DEF AllChannels
    <3>2. Known(w)
      BY <1>3, <3>1 DEF WiresInv, WireInv
    <3>3. PICK call \in SocketCalls \cup {"socketcall"} : \E o \in Asks(call) : w = packed(call, o)
      BY <3>2 DEF Known
    <3>4. PICK o \in Asks(call) : w = packed(call, o)
      BY <3>3
    <3>5. call \in Answering
      BY DEF SocketCalls, Answering
    <3>6. r = handleRequest(chan[c].sock, Parsed(call, o), c)
      BY <3>4 DEF Parsed
    <3>7. /\ IsSock(r.sock) /\ Queued(r.sock, longest) /\ Brief(r.resp, longest)
          /\ \/ Passes(r.resp)
             \/ /\ call = "connectcall" /\ r.resp = NoCode
                /\ r.sock.kind = "UDP" /\ r.sock.faddr = o["addr"]
      BY <1>2, <1>k, <3>5, <3>6, Handling
    <3> HIDE DEF r
    <3>8. call = "connectcall" => o["addr"] # NoAddr
      BY AskedConnect
    <3>9. QED BY <2>2, <3>1, <3>7, <3>8 DEF Fate
  <2>3. QED BY <2>1, <2>2
<1> HIDE DEF r, q
<1>5. QED BY <1>1, <1>2, <1>k, <1>3, <1>4, SafeWrites DEF WiresInv

\* A packet is answered to a socket that waited.
LEMMA AsyncNewPacketSafe ==
  ASSUME BaseInv, WiresInv, NEW c \in AllChannels, onAsyncNewPacket(c)
  PROVE  BaseInv' /\ WiresInv'
<1> DEFINE s == [chan[c].sock EXCEPT !.waiting = "no", !.recvQ = Tail(@)]
           r == PacketAnswer(Head(chan[c].sock.recvQ), chan[c].sock.waiting = "addr")
<1>1. /\ DaemonFrame /\ UNCHANGED <<packets, longest>>
      /\ chan[c].open /\ chan[c].sock.waiting # "no" /\ chan[c].sock.recvQ # << >>
      /\ Writes(c, chan[c].req, s, r)
  BY AsyncNewPacket DEF BaseInv
<1>2. IsSeq(chan[c].req) /\ IsSock(chan[c].sock) /\ packets' \in Nat
  BY <1>1 DEF BaseInv, ShapeInv
<1>3. From(chan[c].req, chan[c].req)
  BY DEF From
<1>4. c # ProcChannel
  BY <1>1 DEF BaseInv, ProcInv, NoSocket
<1>5. IsSock(s)
  <2> DEFINE k == Tail(chan[c].sock.recvQ)
             x == [chan[c].sock EXCEPT !.waiting = "no", !.recvQ = k]
             names == {"kind", "nonblocking", "faddr", "lport", "state", "estabCB", "waiting", "recvQ"}
  <2>1. s = x
    OBVIOUS
  <2>2. x = [m \in names |-> x[m]]
    BY <1>2 DEF IsSock
  <2> HIDE DEF x
  <2>3. IsSock(x)
    BY <2>2 DEF IsSock
  <2> HIDE DEF s
  <2>4. QED BY <2>1, <2>3
<1>k. longest \in Nat /\ Queued(chan[c].sock, longest) /\ longest' = longest
  BY <1>1 DEF WiresInv, QueueInv
<1>q. Queued(s, longest)
  <2> DEFINE k == Tail(chan[c].sock.recvQ)
             x == [chan[c].sock EXCEPT !.waiting = "no", !.recvQ = k]
  <2>1. s = x /\ x.recvQ = k
    BY <1>2 DEF IsSock
  <2>2. IsSeq(k) /\ \A i \in DOMAIN k : Len(k[i].data) \in 0 .. longest
    BY <1>1, <1>k, Dropped DEF Queued
  <2> HIDE DEF s, k, x
  <2>3. QED BY <2>1, <2>2 DEF Queued
<1>6. Fate(c, s, r)
  <2>1. Len(Head(chan[c].sock.recvQ).data) \in 0 .. longest
    BY <1>1, <1>k, Dropped DEF Queued
  <2>2. QED BY <2>1, AnswersPass, AnswersBrief DEF Fate
<1> HIDE DEF s, r
<1>7. QED BY <1>1, <1>2, <1>3, <1>4, <1>5, <1>6, <1>k, <1>q, SafeWrites DEF WiresInv

\* A connection is established.
LEMMA ConnEstabSafe ==
  ASSUME BaseInv, WiresInv, NEW c \in AllChannels, ConnEstab(c)
  PROVE  BaseInv' /\ WiresInv'
<1> DEFINE s == [chan[c].sock EXCEPT !.state = "ESTABLISHED"]
           r == Answer("OK", "connectcall", 0)
<1>1. /\ DaemonFrame /\ UNCHANGED <<packets, longest>>
      /\ chan[c].open /\ chan[c].sock.state = "SYN_SENT"
      /\ \/ Writes(c, chan[c].req, s, r)
         \/ daemon' = daemon /\ Becomes(c, chan[c].open, chan[c].req, chan[c].resp, s)
  BY Established DEF BaseInv
<1>2. /\ IsSeq(chan[c].req) /\ IsSeq(chan[c].resp) /\ IsSock(chan[c].sock) /\ packets' \in Nat
  BY <1>1 DEF BaseInv, ShapeInv
<1>3. From(chan[c].req, chan[c].req)
  BY DEF From
<1>4. c # ProcChannel
  BY <1>1 DEF BaseInv, ProcInv, NoSocket
<1>5. IsSock(s) /\ s.recvQ = chan[c].sock.recvQ
  BY <1>2 DEF IsSock
<1>k. longest \in Nat /\ Queued(s, longest) /\ longest' = longest
  BY <1>1, <1>5 DEF WiresInv, QueueInv, Queued
<1>6. Fate(c, s, r)
  BY AnswersPass, AnswersBrief DEF Fate, Answering
<1> HIDE DEF s, r
<1>7. CASE Writes(c, chan[c].req, s, r)
  BY <1>1, <1>2, <1>3, <1>4, <1>5, <1>6, <1>7, <1>k, SafeWrites DEF WiresInv
<1>8. CASE daemon' = daemon /\ Becomes(c, chan[c].open, chan[c].req, chan[c].resp, s)
  <2>1. \A i \in DOMAIN chan[c].resp : chan[c].resp[i] \in ToSet(chan[c].resp)
    BY <1>2 DEF ToSet, IsSeq
  <2>2. BaseInv' /\ WireInv'
    BY <1>1, <1>2, <1>3, <1>4, <1>5, <1>8, <2>1, SafeBecomes DEF WiresInv
  <2>3. DaemonInv'
    BY <1>1, <1>8 DEF DaemonInv, DaemonFrame
  <2>q. QueueInv'
    BY <1>8, <1>k, QueueBecomes DEF WiresInv
  <2>4. QED BY <2>2, <2>3, <2>q DEF WiresInv
<1>9. QED BY <1>1, <1>7, <1>8

\* A packet arrives.
LEMMA PacketArrivesSafe ==
  ASSUME BaseInv, WiresInv, NEW c \in AllChannels, PacketArrives(c)
  PROVE  BaseInv' /\ WiresInv'
<1>1. PICK p : /\ DaemonFrame /\ daemon' = daemon /\ packets' = packets + 1
               /\ longest' \in Nat /\ longest' >= longest
               /\ Suits(p, chan[c].sock) /\ Len(p.data) \in 0 .. longest'
               /\ Becomes(c, chan[c].open, chan[c].req, chan[c].resp,
                          [chan[c].sock EXCEPT !.recvQ = Append(@, p)])
  BY Arrival DEF BaseInv, WiresInv
<1> DEFINE k == Append(chan[c].sock.recvQ, p)
           s == [chan[c].sock EXCEPT !.recvQ = k]
<1>2. /\ IsSeq(chan[c].req) /\ IsSeq(chan[c].resp) /\ IsSock(chan[c].sock) /\ packets' \in Nat
  BY <1>1 DEF BaseInv, ShapeInv
<1>3. From(chan[c].req, chan[c].req)
  BY DEF From
<1>4. c # ProcChannel
  BY <1>1 DEF BaseInv, ProcInv, NoSocket, Suits
<1>5. Becomes(c, chan[c].open, chan[c].req, chan[c].resp, s) /\ chan[c].open
  BY <1>1 DEF PacketArrives, Daemon
<1>k. IsSeq(k) /\ \A i \in DOMAIN k : Len(k[i].data) \in 0 .. longest'
  <2> DEFINE old == chan[c].sock.recvQ
  <2>1. /\ IsSeq(old) /\ \A i \in DOMAIN old : Len(old[i].data) \in 0 .. longest
        /\ longest \in Nat
    BY DEF WiresInv, QueueInv, Queued
  <2>2. \A i \in DOMAIN old : Len(old[i].data) \in 0 .. longest'
    BY <1>1, <2>1
  <2> HIDE DEF old
  <2>3. IsSeq(Append(old, p)) /\ \A i \in DOMAIN Append(old, p) :
          Append(old, p)[i] = p \/ \E j \in DOMAIN old : Append(old, p)[i] = old[j]
    BY <2>1, Appended
  <2>4. \A i \in DOMAIN Append(old, p) : Len(Append(old, p)[i].data) \in 0 .. longest'
    BY <1>1, <2>2, <2>3
  <2>5. QED BY <2>3, <2>4 DEF old
<1> HIDE DEF k
<1>6. IsSock(s) /\ s.recvQ = k
  BY <1>2 DEF IsSock
<1> HIDE DEF s
<1>q. Queued(s, longest')
  BY <1>6, <1>k DEF Queued
<1>7. \A i \in DOMAIN chan[c].resp : chan[c].resp[i] \in ToSet(chan[c].resp)
  BY <1>2 DEF ToSet, IsSeq
<1>8. BaseInv' /\ WireInv'
  BY <1>1, <1>2, <1>3, <1>4, <1>5, <1>6, <1>7, SafeBecomes DEF WiresInv
<1>9. DaemonInv'
  BY <1>1 DEF DaemonInv, DaemonFrame
<1>r. QueueInv'
  BY <1>1, <1>5, <1>q, QueueBecomes DEF WiresInv
<1>10. QED BY <1>8, <1>9, <1>r DEF WiresInv

-----------------------------------------------------------------------------
(* The steps of the application keep them.                                  *)

\* The Requests q in the channel c, where only sockets have known ones.
Asking(c, q) ==
  \/ From(q, chan[c].req)
  \/ c \in Channels /\ \A i \in DOMAIN q : Known(q[i]) \/ \E j \in DOMAIN chan[c].req : q[i] = chan[c].req[j]

\* A step of the application on the channel c.
LEMMA ClientChan ==
  ASSUME BaseInv, WiresInv, NEW c \in AllChannels, UNCHANGED <<build, daemon, longest>>,
         startfd' \in {0, 4096}, opened' \in Nat, opened' >= opened,
         NEW o, NEW q, NEW p, Becomes(c, o, q, p, chan[c].sock),
         IsSeq(q), IsSeq(p), From(p, chan[c].resp),
         Asking(c, q), c > opened' => chan'[c] = chan[c]
  PROVE  ChanShape' /\ FreshInv' /\ ProcInv' /\ WiresInv'
<1>1. ChanShape /\ FreshInv /\ ProcInv /\ opened \in Nat
  BY Shapes, SocketsAssumption DEF BaseInv, CountShape
<1>2. ChanShape'
  <2>1. IsSock(chan[c].sock)
    BY <1>1 DEF ChanShape
  <2>2. QED BY <1>1, <2>1, BecomesShape
<1>3. FreshInv'
  <2>1. SUFFICES ASSUME NEW d \in Channels, d > opened' PROVE chan'[d] = NoChannel
    BY DEF FreshInv, Channels, NoChannel, NoSocket, NoAddr
  <2>2. d > opened
    BY <1>1, <2>1 DEF Channels
  <2>3. chan[d] = NoChannel /\ d \in AllChannels
    BY <1>1, <2>2 DEF FreshInv, AllChannels
  <2>4. QED BY <2>1, <2>3 DEF Becomes
<1>4. ProcInv'
  <2>1. ProcChannel \in AllChannels /\ ProcChannel \notin Channels
    BY DEF AllChannels, Channels, ProcChannel
  <2>2. CASE c # ProcChannel
    <3>1. chan'[ProcChannel] = chan[ProcChannel]
      BY <2>1, <2>2 DEF Becomes
    <3>2. QED BY <1>1, <2>1, <3>1 DEF ProcInv, ProcChannel
  <2>3. CASE c = ProcChannel
    <3>1. chan'[ProcChannel].sock = chan[c].sock /\ chan'[ProcChannel].req = q /\ chan'[ProcChannel].resp = p
      BY <2>3 DEF Becomes
    <3>2. From(q, chan[c].req)
      BY <2>1, <2>3 DEF Asking
    <3>3. \A i \in DOMAIN q : q[i] = packed("atstartaction", initial("atstartaction"))
      BY <1>1, <2>3, <3>2 DEF ProcInv, From
    <3>4. \A i \in DOMAIN p : p[i] = Sent(AtStartAnswer)
      BY <1>1, <2>3 DEF ProcInv, From
    <3>5. QED BY <1>1, <2>3, <3>1, <3>3, <3>4 DEF ProcInv, ProcChannel
  <2>4. QED BY <2>2, <2>3
<1>5. WireInv'
  <2>1. SUFFICES ASSUME NEW d \in Channels
                 PROVE  /\ \A i \in DOMAIN chan'[d].req : Known(chan'[d].req[i])
                        /\ build' = "Debug" =>
                             \A i \in DOMAIN chan'[d].resp : TopUnpacks(Response__C, chan'[d].resp[i])
    BY DEF WireInv, Known
  <2>2. /\ \A i \in DOMAIN chan[d].req : Known(chan[d].req[i])
        /\ build = "Debug" => \A i \in DOMAIN chan[d].resp : TopUnpacks(Response__C, chan[d].resp[i])
    BY DEF WireInv, WiresInv
  <2>3. CASE d # c
    <3>1. chan'[d] = chan[d]
      BY <2>3 DEF Becomes, AllChannels
    <3>2. QED BY <2>2, <3>1
  <2>4. CASE d = c
    <3>1. chan'[d].req = q /\ chan'[d].resp = p
      BY <2>4 DEF Becomes
    <3>2. \A i \in DOMAIN q : Known(q[i])
      BY <2>2, <2>4 DEF From, Asking
    <3>3. build = "Debug" => \A i \in DOMAIN p : TopUnpacks(Response__C, p[i])
      BY <2>2, <2>4 DEF From
    <3>4. QED BY <3>1, <3>2, <3>3
  <2>5. QED BY <2>3, <2>4
<1>6. DaemonInv'
  <2>1. \A d \in AllChannels : chan'[d].sock = chan[d].sock
    BY DEF Becomes
  <2>2. UdpConnected => UdpConnected'
    BY <2>1 DEF UdpConnected, AllChannels, Channels, NoAddr
  <2>3. QED BY <2>2 DEF DaemonInv, WiresInv, HugePacket
<1>q. QueueInv'
  <2>1. QueueInv /\ longest' \in Nat /\ longest' >= longest /\ Queued(chan[c].sock, longest')
    BY DEF WiresInv, QueueInv
  <2>2. QED BY <2>1, QueueBecomes
<1>7. QED BY <1>2, <1>3, <1>4, <1>5, <1>6, <1>q DEF WiresInv

\* ... and one that leaves the channels alone.
LEMMA NoChan ==
  ASSUME BaseInv, WiresInv, UNCHANGED <<build, daemon, longest, chan, opened, startfd>>
  PROVE  ChanShape' /\ FreshInv' /\ ProcInv' /\ WiresInv'
<1>1. ChanShape /\ FreshInv /\ ProcInv
  BY Shapes DEF BaseInv
<1>2. ChanShape' /\ FreshInv' /\ ProcInv'
  BY <1>1 DEF ChanShape, FreshInv, ProcInv, IsSeq, IsChan, IsSock, AllChannels, Channels
<1>3. WireInv' /\ DaemonInv' /\ QueueInv'
  BY DEF WiresInv, WireInv, DaemonInv, Known, UdpConnected, Channels, HugePacket, QueueInv,
         AllChannels, Queued, IsSeq
<1>4. QED BY <1>2, <1>3 DEF WiresInv

SafeInv == BaseInv /\ WiresInv /\ ClientInv

\* Each step of the daemon keeps the first parts.
LEMMA SafeDaemon ==
  ASSUME SafeInv, NEW c \in AllChannels,
         onReadReady(c) \/ onAsyncNewPacket(c) \/ PacketArrives(c) \/ ConnEstab(c)
  PROVE  SafeInv'
<1>1. BaseInv' /\ WiresInv'
  BY ReadReadySafe, AsyncNewPacketSafe, PacketArrivesSafe, ConnEstabSafe DEF SafeInv
<1>2. UNCHANGED <<build, client>> /\ client = "up"
  BY DEF onReadReady, onAsyncNewPacket, PacketArrives, ConnEstab, Daemon, clientVars
<1>3. ClientInv'
  BY <1>2 DEF ClientInv, SafeInv
<1>4. QED BY <1>1, <1>3 DEF SafeInv

\* The answer to atstart is read.
LEMMA AtStartSafe ==
  ASSUME SafeInv, AtStart
  PROVE  SafeInv'
<1> DEFINE ch == chan[ProcChannel]
<1>1. BaseInv /\ WiresInv /\ ShapeInv /\ ProcInv
  BY DEF SafeInv, BaseInv
<1>2. /\ Frame /\ UNCHANGED <<client, table, thread, opened, calls, overlap>>
      /\ startfd = 0 /\ startfd' = 4096 /\ ch.resp # << >>
      /\ Becomes(ProcChannel, ch.open, ch.req, Tail(ch.resp), ch.sock)
  BY <1>1, Starting
<1>3. ProcChannel \in AllChannels /\ IsSeq(ch.req) /\ IsSeq(ch.resp) /\ opened \in Nat
  BY <1>1 DEF AllChannels, ShapeInv
<1>4. IsSeq(Tail(ch.resp)) /\ From(Tail(ch.resp), ch.resp) /\ From(ch.req, ch.req)
  BY <1>2, <1>3, Dropped DEF From
<1>5. opened' \in Nat /\ opened' >= opened /\ ~ (ProcChannel > opened')
  BY <1>2, <1>3 DEF ProcChannel
<1>6. ChanShape' /\ FreshInv' /\ ProcInv' /\ WiresInv'
  <2> DEFINE q == ch.req
             p == Tail(ch.resp)
  <2>1. /\ Becomes(ProcChannel, ch.open, q, p, chan[ProcChannel].sock)
        /\ IsSeq(q) /\ IsSeq(p) /\ From(p, chan[ProcChannel].resp)
        /\ UNCHANGED <<build, daemon, longest>> /\ startfd' \in {0, 4096}
    BY <1>2, <1>3, <1>4 DEF Frame
  <2>2. Asking(ProcChannel, q)
    BY <1>4 DEF Asking
  <2> HIDE DEF q, p, ch
  <2>3. QED BY <1>1, <1>3, <1>5, <2>1, <2>2, ClientChan
<1>7. TableShape /\ ThreadShape /\ CountShape
  BY <1>1, Shapes
<1>8. TableShape' /\ CountShape'
  BY <1>2, <1>7 DEF TableShape, CountShape, Frame
<1>9. ThreadShape'
  <2>1. \A t \in Threads : thread[t] = Idle
    BY <1>2, <1>7 DEF ThreadShape, ThreadIs
  <2>2. Idle.own = 0 /\ Idle.ch = 0 /\ IsThread(Idle)
    BY DEF Idle, IsThread
  <2>3. SUFFICES ASSUME NEW u \in Threads
                 PROVE  /\ IsThread(thread'[u]) /\ thread'[u].ch \in AllChannels
                        /\ thread'[u].own = 0 => thread'[u] = Idle
                        /\ thread'[u].own # 0 => /\ thread'[u].own \in Channels
                                                 /\ startfd' # 0 /\ thread'[u].fd = startfd'
    BY <1>2, <1>7 DEF ThreadShape, ThreadIs, IsThread, AllChannels, Channels, ProcChannel, Idle, NoResult
  <2>4. thread'[u] = Idle
    BY <1>2, <2>1
  <2>5. QED BY <1>3, <2>2, <2>4 DEF ProcChannel
<1>10. ShapeInv'
  BY <1>6, <1>8, <1>9, Shapes, PTL
<1>11. ClientInv'
  BY <1>2 DEF SafeInv, ClientInv, Frame
<1>12. QED BY <1>6, <1>10, <1>11 DEF SafeInv, BaseInv

\* A socket is made.
LEMMA SocketSafe ==
  ASSUME SafeInv, NEW t \in Threads, NEW type \in SocketTypes, Socket(t, type)
  PROVE  SafeInv'
<1>1. BaseInv /\ WiresInv /\ ShapeInv /\ ProcInv /\ FreshInv
  BY DEF SafeInv, BaseInv
<1>0. PICK c \in Channels : c = opened'
  BY <1>1, NewSocket
<1>2. PICK obj \in Asks("socketcall") :
        /\ ClientFrame(t) /\ UNCHANGED <<client, calls>>
        /\ c = opened + 1 /\ c \in Channels
        /\ DOMAIN table' = 0 .. MaxSockets - 1 /\ table'[0] = c
        /\ \A i \in 0 .. MaxSockets - 1 : i # 0 => table'[i] = table[i]
        /\ Becomes(c, TRUE, <<packed("socketcall", obj)>>, << >>, NoSocket)
        /\ ThreadTo(t, [pc |-> "reading", call |-> "socketcall", obj |-> obj, ch |-> c,
                        own |-> c, fd |-> startfd, peer |-> <<0, 0>>, res |-> NoResult])
  BY <1>0, <1>1, NewSocket
<1> DEFINE w == packed("socketcall", obj)
           th == [pc |-> "reading", call |-> "socketcall", obj |-> obj, ch |-> c,
                  own |-> c, fd |-> startfd, peer |-> <<0, 0>>, res |-> NoResult]
<1>3. opened \in Nat /\ c \in Nat /\ c >= opened /\ c > opened /\ c \in AllChannels /\ c # 0
  BY <1>0, <1>1, <1>2 DEF ShapeInv, AllChannels, Channels
<1>4. chan[c] = NoChannel
  BY <1>1, <1>2, <1>3 DEF FreshInv
<1>5. Known(w)
  BY DEF Known
<1>6. /\ IsSeq(<<w>>) /\ IsSeq(<< >>) /\ From(<< >>, chan[c].resp)
      /\ \A i \in DOMAIN <<w>> : Known(<<w>>[i])
  <2>1. << >> \in Seq({w}) /\ <<w>> \in Seq({w})
    OBVIOUS
  <2>2. DOMAIN << >> = {} /\ \A i \in DOMAIN <<w>> : <<w>>[i] = w
    OBVIOUS
  <2> HIDE DEF w
  <2>3. QED BY <1>5, <2>1, <2>2 DEF IsSeq, From
<1>7. chan[c].sock = NoSocket
  BY <1>4 DEF NoChannel
<1>8. startfd' \in {0, 4096} /\ startfd # 0 /\ startfd' = startfd /\ ~ (c > opened')
  BY <1>0, <1>1, <1>2, <1>3 DEF ClientFrame, ProcInv
<1>9. ChanShape' /\ FreshInv' /\ ProcInv' /\ WiresInv'
  <2> DEFINE q == <<w>>
             o == TRUE
             p == << >>
  <2>1. Becomes(c, o, q, p, chan[c].sock)
    BY <1>2, <1>7
  <2>2. Asking(c, q)
    BY <1>2, <1>6 DEF Asking
  <2>3. IsSeq(q) /\ UNCHANGED <<build, daemon, longest>> /\ opened' \in Nat /\ opened' >= opened
    BY <1>0, <1>2, <1>3, <1>6 DEF ClientFrame, Frame
  <2>4. IsSeq(p) /\ From(p, chan[c].resp)
    BY <1>6
  <2> HIDE DEF q, w, o, p
  <2>5. c \in AllChannels /\ ~ (c > opened')
    BY <1>3, <1>8
  <2>6. startfd' \in {0, 4096}
    BY <1>8
  <2>7. QED BY <1>1, <2>1, <2>2, <2>3, <2>4, <2>5, <2>6, ClientChan
<1>10. TableShape /\ ThreadShape /\ CountShape
  BY <1>1, Shapes
<1>11. TableShape'
  <2>1. SUFFICES ASSUME NEW i \in 0 .. MaxSockets - 1 PROVE table'[i] \in 0 .. opened'
    BY <1>2 DEF TableShape
  <2>2. CASE i = 0
    BY <1>0, <1>2, <1>3, <2>2
  <2>3. CASE i # 0
    BY <1>0, <1>2, <1>3, <1>10, <2>3 DEF TableShape
  <2>4. QED BY <2>2, <2>3
<1>12. CountShape'
  BY <1>0, <1>2, <1>10 DEF CountShape, ClientFrame, Frame, Channels
<1>13. ThreadShape'
  <2>1. ThreadIs(th)
    BY <1>2, <1>3, <1>8 DEF ThreadIs, IsThread
  <2>2. ThreadTo(t, th)
    BY <1>2
  <2> HIDE DEF th
  <2>3. QED BY <1>8, <1>10, <2>1, <2>2, ThreadToShape
<1>14. ShapeInv'
  BY <1>9, <1>11, <1>12, <1>13, Shapes, PTL
<1>15. ClientInv'
  BY <1>2 DEF SafeInv, ClientInv, ClientFrame, Frame
<1>16. QED BY <1>9, <1>14, <1>15 DEF SafeInv, BaseInv

\* A step that opens nothing: what is left to show of the shape.
LEMMA SameCounts ==
  ASSUME SafeInv, NEW t \in Threads, ClientFrame(t), opened' = opened,
         ChanShape', FreshInv', ProcInv', WiresInv', ClientInv',
         TableShape', ThreadShape'
  PROVE  SafeInv'
<1>1. CountShape
  BY Shapes DEF SafeInv, BaseInv
<1>2. CountShape'
  BY <1>1 DEF CountShape, ClientFrame, Frame
<1>3. ShapeInv'
  BY <1>2, Shapes, PTL
<1>4. QED BY <1>3 DEF SafeInv, BaseInv

\* The parts, by name.
LEMMA ShapesOf ==
  ASSUME SafeInv
  PROVE  /\ BaseInv /\ WiresInv /\ ShapeInv /\ ProcInv /\ FreshInv /\ ClientInv
         /\ ChanShape /\ TableShape /\ ThreadShape /\ CountShape
         /\ opened \in Nat /\ startfd \in {0, 4096}
BY Shapes, SocketsAssumption DEF SafeInv, BaseInv, CountShape, ProcInv

\* A Request is sent.
LEMMA SendSafe ==
  ASSUME SafeInv, NEW t \in Threads, NEW call \in SocketCalls, Send(t, call)
  PROVE  SafeInv'
<1>1. /\ BaseInv /\ WiresInv /\ ShapeInv /\ ProcInv /\ ClientInv
      /\ ChanShape /\ TableShape /\ ThreadShape /\ CountShape
      /\ opened \in Nat /\ startfd \in {0, 4096}
  BY ShapesOf
<1>2. PICK ch \in AllChannels : ch = table[0] /\ ch \in 0 .. opened
  BY <1>1, Sending, Descriptor
<1> DEFINE th == thread[t]
<1>3. /\ ClientFrame(t) /\ UNCHANGED <<table, opened, overlap>>
      /\ th.pc = "idle" /\ th.own # 0
  BY <1>1, Sending
<1>4. PICK obj \in Objects(call) :
        /\ Sends(call, obj)
        /\ ThreadTo(t, [pc |-> IF ch = 0 THEN "stray" ELSE "sent", call |-> call,
                        obj |-> obj, ch |-> th.ch, own |-> th.own, fd |-> th.fd,
                        peer |-> th.peer, res |-> NoResult])
  BY <1>1, <1>2, Sending
<1>5. ChanShape' /\ FreshInv' /\ ProcInv' /\ WiresInv'
  <2>1. CASE chan' = chan
    BY <1>1, <1>3, <2>1, NoChan DEF ClientFrame, Frame
  <2>2. CASE /\ ch # 0
             /\ Becomes(ch, chan[ch].open, Append(chan[ch].req, packed(call, obj)),
                        chan[ch].resp, chan[ch].sock)
    <3> DEFINE w == packed(call, obj)
               q == Append(chan[ch].req, w)
               p == chan[ch].resp
               o == chan[ch].open
    <3>1. Known(w)
      <4>1. obj \in Asks(call)
        BY DEF Asks, SocketCalls
      <4>2. QED BY <4>1 DEF Known
    <3>2. Becomes(ch, o, q, p, chan[ch].sock)
      BY <2>2
    <3> HIDE DEF w
    <3>3. IsSeq(q) /\ \A i \in DOMAIN q : q[i] = w \/ \E j \in DOMAIN chan[ch].req : q[i] = chan[ch].req[j]
      <4>1. IsSeq(chan[ch].req)
        BY <1>1 DEF ChanShape
      <4>2. QED BY <4>1, Appended
    <3>4. IsSeq(p) /\ From(p, chan[ch].resp)
      BY <1>1 DEF ChanShape, From
    <3> HIDE DEF q, p, o
    <3>5. ch \in Channels
      BY <1>2, <2>2, <1>1 DEF AllChannels, CountShape, Channels, ProcChannel
    <3>6. Asking(ch, q)
      BY <3>1, <3>3, <3>5 DEF Asking
    <3>7. /\ opened' \in Nat /\ opened' >= opened /\ ~ (ch > opened')
          /\ startfd' \in {0, 4096} /\ UNCHANGED <<build, daemon, longest>>
      BY <1>1, <1>2, <1>3 DEF ClientFrame, Frame
    <3>8. QED BY <1>1, <3>2, <3>3, <3>4, <3>6, <3>7, ClientChan
  <2>3. QED BY <1>2, <1>4, <2>1, <2>2 DEF Sends
<1>6. ThreadShape'
  <2> DEFINE pc == IF ch = 0 THEN "stray" ELSE "sent"
             x == [pc |-> pc, call |-> call, obj |-> obj, ch |-> th.ch, own |-> th.own,
                   fd |-> th.fd, peer |-> th.peer, res |-> NoResult]
  <2>1. ThreadTo(t, x)
    BY <1>4
  <2>2. ThreadIs(th) /\ startfd' = startfd
    BY <1>1, <1>3 DEF ThreadShape, ClientFrame
  <2> HIDE DEF th, pc
  <2>3. ThreadIs(x)
    BY <1>3, <2>2 DEF ThreadIs, IsThread
  <2> HIDE DEF x
  <2>4. QED BY <1>1, <2>1, <2>2, <2>3, ThreadToShape
<1>7. TableShape'
  BY <1>1, <1>3 DEF TableShape
<1>c. ClientInv'
  <2>1. \/ client' = "up"
        \/ client' \in {Failing("overrun"), Failing("up")}
    BY <1>3, <1>4 DEF Sends, ClientFrame
  <2>2. QED BY <1>3, <2>1 DEF ClientInv, Failing, ClientFrame, Frame
<1>8. QED BY <1>3, <1>5, <1>6, <1>7, <1>c, SameCounts

\* The daemon is gone when a socket is asked for.
LEMMA RefusedSafe ==
  ASSUME SafeInv, NEW t \in Threads, SocketRefused(t)
  PROVE  SafeInv'
<1>1. /\ BaseInv /\ WiresInv /\ ShapeInv /\ ProcInv /\ ClientInv
      /\ ChanShape /\ TableShape /\ ThreadShape /\ CountShape
  BY ShapesOf
<1>2. /\ ClientFrame(t) /\ daemon # "up" /\ client' = "exit"
      /\ UNCHANGED <<table, chan, thread, opened, overlap>>
  BY Refused
<1>3. ChanShape' /\ FreshInv' /\ ProcInv' /\ WiresInv'
  BY <1>1, <1>2, NoChan DEF ClientFrame, Frame
<1>4. TableShape' /\ ThreadShape' /\ ClientInv'
  BY <1>1, <1>2 DEF TableShape, ThreadShape, ThreadIs, IsThread, AllChannels, Channels, Idle,
                    NoResult, ClientInv, ClientFrame, Frame
<1>5. QED BY <1>2, <1>3, <1>4, SameCounts

\* The channel is looked up.
LEMMA LookupSafe ==
  ASSUME SafeInv, NEW t \in Threads, Lookup(t)
  PROVE  SafeInv'
<1>1. /\ BaseInv /\ WiresInv /\ ShapeInv /\ ProcInv /\ ClientInv
      /\ ChanShape /\ TableShape /\ ThreadShape /\ CountShape
  BY ShapesOf
<1> DEFINE th == thread[t]
           ch == table[0]
           pc == IF ch = 0 THEN "stray" ELSE "reading"
           x == [pc |-> pc, call |-> th.call, obj |-> th.obj, ch |-> ch, own |-> th.own,
                 fd |-> th.fd, peer |-> th.peer, res |-> th.res]
<1>2. /\ ClientFrame(t) /\ UNCHANGED <<client, table, chan, opened, overlap>>
      /\ th.own # 0 /\ ch \in AllChannels /\ ThreadTo(t, x)
  BY <1>1, LookedUp
<1>3. ChanShape' /\ FreshInv' /\ ProcInv' /\ WiresInv'
  BY <1>1, <1>2, NoChan DEF ClientFrame, Frame
<1>4. ThreadShape'
  <2>1. ThreadIs(th) /\ startfd' = startfd
    BY <1>1, <1>2 DEF ThreadShape, ClientFrame
  <2> HIDE DEF th, pc, ch
  <2>2. ThreadIs(x)
    BY <1>2, <2>1 DEF ThreadIs, IsThread
  <2> HIDE DEF x
  <2>3. QED BY <1>1, <1>2, <2>1, <2>2, ThreadToShape
<1>5. TableShape' /\ ClientInv'
  BY <1>1, <1>2 DEF TableShape, ClientInv, ClientFrame, Frame
<1>6. QED BY <1>2, <1>3, <1>4, <1>5, SameCounts

\* A call that returns keeps the shape of the threads ...
LEMMA ReturnedShape ==
  ASSUME SafeInv, NEW t \in Threads, thread[t].own # 0, NEW res, Returned(t, res),
         startfd' = startfd, opened' = opened, build' = build, daemon' = daemon
  PROVE  TableShape' /\ ThreadShape' /\ ClientInv'
<1>1. ShapeInv /\ ProcInv /\ TableShape /\ ThreadShape /\ ClientInv
  BY ShapesOf
<1> DEFINE th == thread[t]
           pc == IF th.call = "closecall" THEN "closing" ELSE "idle"
           peer == IF th.call = "connectcall" /\ res.ret = 0 THEN th.obj["addr"] ELSE th.peer
           ch == table[0]
           x == [pc |-> pc, call |-> th.call, obj |-> th.obj, ch |-> ch, own |-> th.own,
                 fd |-> th.fd, peer |-> peer, res |-> res]
<1>2. UNCHANGED <<client, table>> /\ ThreadTo(t, x)
  BY DEF Returned
<1>3. ch \in AllChannels
  BY <1>1, Descriptor
<1>4. ThreadShape'
  <2>1. ThreadIs(th)
    BY <1>1 DEF ThreadShape
  <2> HIDE DEF pc, ch, peer
  <2>2. ThreadIs(x)
    <3> HIDE DEF th
    <3>1. th.own # 0
      BY DEF th
    <3>2. QED BY <1>3, <2>1, <3>1 DEF ThreadIs, IsThread
  <2> HIDE DEF x
  <2>3. QED BY <1>1, <1>2, <2>2, ThreadToShape
<1>5. TableShape' /\ ClientInv'
  BY <1>1, <1>2 DEF TableShape, ClientInv
<1>6. QED BY <1>4, <1>5

\* ... and so does one that ends the program.
LEMMA EndedShape ==
  ASSUME SafeInv, NEW how, Ended(how), startfd' = startfd, opened' = opened, build' = build,
         daemon' = daemon, how # "exit",
         how = "assert" => build = "Debug", how = "null" => build # "Debug"
  PROVE  TableShape' /\ ThreadShape' /\ ClientInv'
<1>1. TableShape /\ ThreadShape /\ CountShape
  BY ShapesOf
<1>2. UNCHANGED <<table, thread>> /\ client' = how
  BY DEF Ended
<1>3. TableShape'
  BY <1>1, <1>2 DEF TableShape
<1>4. ThreadShape'
  BY <1>1, <1>2 DEF ThreadShape, ThreadIs, IsThread, AllChannels, Channels, Idle, NoResult
<1>5. ClientInv'
  BY <1>1, <1>2 DEF ClientInv, CountShape
<1>6. QED BY <1>3, <1>4, <1>5

\* A Response is read, as null only in a Release build.
LEMMA RecvSafe ==
  ASSUME SafeInv, NEW t \in Threads, Recv(t)
  PROVE  SafeInv'
<1>1. /\ BaseInv /\ WiresInv /\ ShapeInv /\ ProcInv /\ FreshInv /\ ClientInv
      /\ ChanShape /\ TableShape /\ ThreadShape /\ CountShape
      /\ opened \in Nat /\ startfd \in {0, 4096}
  BY ShapesOf
<1>2. PICK c \in AllChannels : c = thread[t].ch
  BY <1>1 DEF ThreadShape, ThreadIs
<1> DEFINE ch == chan[c]
           wire == Head(ch.resp)
           ans == TopUnpack(Response__C, wire)
<1>3. /\ ClientFrame(t) /\ UNCHANGED <<opened, overlap>>
      /\ thread[t].own # 0 /\ ch.resp # << >>
      /\ Becomes(c, ch.open, ch.req, Tail(ch.resp), ch.sock)
      /\ \/ ~ TopUnpacks(Response__C, wire) /\ Ended("null")
         \/ UNCHANGED <<client, table, thread>>
         \/ Deliver(t, ans)
  BY <1>1, <1>2, Receiving
<1>4. IsSeq(ch.req) /\ IsSeq(ch.resp) /\ UNCHANGED <<build, daemon, longest, startfd>>
  BY <1>1, <1>3 DEF ChanShape, ClientFrame, Frame
<1>5. IsSeq(Tail(ch.resp)) /\ From(Tail(ch.resp), ch.resp) /\ 1 \in DOMAIN ch.resp /\ wire = ch.resp[1]
  BY <1>3, <1>4, Dropped DEF From
<1>6. ChanShape' /\ FreshInv' /\ ProcInv' /\ WiresInv'
  <2> DEFINE q == ch.req
             p == Tail(ch.resp)
             b == ch.open
  <2>1. Becomes(c, b, q, p, chan[c].sock) /\ IsSeq(q) /\ IsSeq(p) /\ From(p, chan[c].resp)
    BY <1>3, <1>4, <1>5
  <2>2. Asking(c, q)
    BY DEF Asking, From
  <2>3. ~ (c > opened')
    <3>1. c > opened => chan[c].resp = << >>
      <4>1. CASE c \in Channels
        BY <1>1, <4>1 DEF FreshInv, NoChannel
      <4>2. CASE c = ProcChannel
        BY <1>1, <4>2 DEF ProcChannel
      <4>3. QED BY <4>1, <4>2 DEF AllChannels
    <3>2. QED BY <1>3, <3>1
  <2> HIDE DEF q, p, b, ch
  <2>4. /\ opened' \in Nat /\ opened' >= opened /\ startfd' \in {0, 4096}
        /\ UNCHANGED <<build, daemon, longest>>
    BY <1>1, <1>3, <1>4
  <2>5. QED BY <1>1, <2>1, <2>2, <2>3, <2>4, ClientChan
<1>7. TableShape' /\ ThreadShape' /\ ClientInv'
  <2>1. CASE ~ TopUnpacks(Response__C, wire) /\ Ended("null")
    <3>1. build # "Debug"
      <4>1. CASE c = ProcChannel
        <5>1. wire = Sent(AtStartAnswer)
          BY <1>1, <1>5, <4>1 DEF ProcInv
        <5>2. QED BY <2>1, <5>1, AnswersPass DEF Passes
      <4>2. CASE c \in Channels
        BY <1>1, <1>5, <2>1, <4>2 DEF WiresInv, WireInv
      <4>3. QED BY <4>1, <4>2 DEF AllChannels
    <3>2. QED BY <1>3, <1>4, <2>1, <3>1, EndedShape
  <2>2. CASE UNCHANGED <<client, table, thread>>
    <3>1. TableShape' /\ ClientInv'
      BY <1>1, <1>3, <1>4, <2>2 DEF TableShape, ClientInv
    <3>2. ThreadShape'
      BY <1>1, <1>4, <2>2 DEF ThreadShape, ThreadIs, IsThread, AllChannels, Channels, Idle, NoResult
    <3>3. QED BY <3>1, <3>2
  <2>3. CASE Deliver(t, ans)
    <3>1. Outcome(t)
      BY <1>1, <1>3, <2>3, Delivering
    <3>2. CASE \E how : /\ Ended(how) /\ how # "exit"
                        /\ how = "assert" => build = "Debug"
                        /\ how = "null" => build # "Debug"
      BY <1>3, <1>4, <3>2, EndedShape
    <3>3. CASE \E res : Returned(t, res)
      BY <1>3, <1>4, <3>3, ReturnedShape
    <3>4. QED BY <3>1, <3>2, <3>3 DEF Outcome
  <2>4. QED BY <1>3, <2>1, <2>2, <2>3
<1>8. QED BY <1>3, <1>6, <1>7, SameCounts

\* The daemon is gone.
LEMMA RecvEofSafe ==
  ASSUME SafeInv, NEW t \in Threads, RecvEof(t)
  PROVE  SafeInv'
<1>1. BaseInv /\ WiresInv /\ ShapeInv
  BY ShapesOf
<1>2. PICK how \in {Failing("null"), "garbage"} :
        ClientFrame(t) /\ UNCHANGED <<chan, opened, overlap>> /\ Ended(how)
  BY <1>1, ReadingEof
<1>3. /\ how # "exit"
      /\ how = "assert" => build = "Debug"
      /\ how = "null" => build # "Debug"
  BY DEF Failing
<1>4. UNCHANGED <<build, daemon, longest, startfd>>
  BY <1>2 DEF ClientFrame, Frame
<1>5. ChanShape' /\ FreshInv' /\ ProcInv' /\ WiresInv'
  BY <1>1, <1>2, <1>4, NoChan
<1>6. TableShape' /\ ThreadShape' /\ ClientInv'
  BY <1>2, <1>3, <1>4, EndedShape
<1>7. QED BY <1>2, <1>5, <1>6, SameCounts

\* The channel is closed.
LEMMA CloseChannelSafe ==
  ASSUME SafeInv, NEW t \in Threads, CloseChannel(t)
  PROVE  SafeInv'
<1>1. /\ BaseInv /\ WiresInv /\ ShapeInv /\ ProcInv /\ FreshInv /\ ClientInv
      /\ ChanShape /\ TableShape /\ ThreadShape /\ CountShape
      /\ opened \in Nat /\ startfd \in {0, 4096}
  BY ShapesOf
<1>2. PICK c \in AllChannels : c = thread[t].ch
  BY <1>1 DEF ThreadShape, ThreadIs
<1> DEFINE ch == chan[c]
<1>3. /\ ClientFrame(t) /\ UNCHANGED <<client, opened, overlap>>
      /\ DOMAIN table' = 0 .. MaxSockets - 1 /\ table'[0] = 0
      /\ \A i \in 0 .. MaxSockets - 1 : i # 0 => table'[i] = table[i]
      /\ IF c = 0 THEN chan' = chan ELSE Becomes(c, FALSE, ch.req, ch.resp, ch.sock)
      /\ ThreadTo(t, Idle)
  <2>1. Closes(t, c)
    BY <1>1, <1>2, Closed
  <2>2. QED BY <2>1 DEF Closes
<1>4. UNCHANGED <<build, daemon, longest, startfd>>
  BY <1>3 DEF ClientFrame, Frame
<1>5. ChanShape' /\ FreshInv' /\ ProcInv' /\ WiresInv'
  <2>1. CASE c = 0
    BY <1>1, <1>3, <1>4, <2>1, NoChan
  <2>2. CASE c # 0
    <3> DEFINE q == ch.req
               p == ch.resp
               b == FALSE
    <3>0. Becomes(c, b, q, p, chan[c].sock)
      BY <1>3, <2>2
    <3>1. IsSeq(q) /\ IsSeq(p) /\ From(p, chan[c].resp) /\ Asking(c, q)
      BY <1>1 DEF ChanShape, From, Asking
    <3>2. c > opened' => chan'[c] = chan[c]
      <4>1. c > opened => chan[c] = NoChannel
        BY <1>1, <2>2 DEF FreshInv, AllChannels, ProcChannel
      <4>2. chan[c] = NoChannel => chan'[c] = NoChannel
        BY <1>3, <2>2 DEF Becomes, NoChannel
      <4>3. QED BY <1>3, <4>1, <4>2
    <3> HIDE DEF q, p, b, ch
    <3>3. /\ opened' \in Nat /\ opened' >= opened /\ startfd' \in {0, 4096}
          /\ UNCHANGED <<build, daemon, longest>>
      BY <1>1, <1>3, <1>4
    <3>4. QED BY <1>1, <3>0, <3>1, <3>2, <3>3, ClientChan
  <2>3. QED BY <2>1, <2>2
<1>6. ThreadShape'
  <2>1. ThreadIs(Idle)
    <3>1. 0 \in AllChannels
      BY <1>1, <1>3 DEF AllChannels, ProcChannel
    <3>2. Idle.own = 0 /\ Idle.ch = 0 /\ IsThread(Idle)
      BY DEF Idle, IsThread
    <3>3. QED BY <3>1, <3>2 DEF ThreadIs
  <2>2. QED BY <1>1, <1>3, <1>4, <2>1, ThreadToShape
<1>7. TableShape'
  <2>1. SUFFICES ASSUME NEW i \in 0 .. MaxSockets - 1 PROVE table'[i] \in 0 .. opened'
    BY <1>3 DEF TableShape
  <2>2. CASE i = 0
    BY <1>1, <1>3, <2>2
  <2>3. CASE i # 0
    BY <1>1, <1>3, <2>3 DEF TableShape
  <2>4. QED BY <2>2, <2>3
<1>8. ClientInv'
  BY <1>1, <1>3, <1>4 DEF ClientInv
<1>9. QED BY <1>3, <1>5, <1>6, <1>7, <1>8, SameCounts

\* The first parts hold in every state: at first ...
LEMMA SafeInit == Init => SafeInv
<1> SUFFICES ASSUME Init PROVE SafeInv
  OBVIOUS
<1>1. BaseInv
  BY BaseInit
<1>2. daemon = "up" /\ client = "up" /\ longest = 0
  BY DEF Init
<1>3. WireInv
  <2>1. \A c \in Channels : chan[c] = NoChannel
    BY DEF Init, Channels, ProcChannel
  <2>2. NoChannel.req = << >> /\ NoChannel.resp = << >>
    BY DEF NoChannel
  <2>3. QED BY <2>1, <2>2 DEF WireInv
<1>4. DaemonInv /\ ClientInv
  BY <1>2 DEF DaemonInv, ClientInv
<1>5. QueueInv
  <2>1. SUFFICES ASSUME NEW c \in AllChannels PROVE Queued(chan[c].sock, longest)
    BY <1>2 DEF QueueInv
  <2>2. chan[c].sock = NoSocket
    <3>1. CASE c = ProcChannel
      BY <1>1, <3>1 DEF BaseInv, ProcInv
    <3>2. CASE c \in Channels
      BY <3>2 DEF Init, Channels, ProcChannel, NoChannel
    <3>3. QED BY <3>1, <3>2 DEF AllChannels
  <2>3. NoSocket.recvQ = << >> /\ << >> \in Seq({0})
    BY DEF NoSocket
  <2>4. QED BY <2>2, <2>3 DEF Queued, IsSeq
<1>6. QED BY <1>1, <1>3, <1>4, <1>5 DEF SafeInv, WiresInv

\* ... and after each step.
LEMMA SafeStep == SafeInv /\ [Next]_vars => SafeInv'
<1> SUFFICES ASSUME SafeInv, [Next]_vars PROVE SafeInv'
  OBVIOUS
<1>1. CASE AtStart
  BY <1>1, AtStartSafe
<1>2. ASSUME NEW t \in Threads,
             \/ \E type \in SocketTypes : Socket(t, type)
             \/ SocketRefused(t)
             \/ \E call \in SocketCalls : Send(t, call)
             \/ Lookup(t) \/ Recv(t) \/ RecvEof(t) \/ CloseChannel(t)
      PROVE  SafeInv'
  BY <1>2, SocketSafe, RefusedSafe, SendSafe, LookupSafe, RecvSafe, RecvEofSafe, CloseChannelSafe
<1>3. ASSUME NEW c \in Channels \cup {ProcChannel},
             onReadReady(c) \/ onAsyncNewPacket(c) \/ PacketArrives(c) \/ ConnEstab(c)
      PROVE  SafeInv'
  BY <1>3, SafeDaemon DEF AllChannels
<1>4. CASE UNCHANGED vars
  <2>1. UNCHANGED <<build, client, daemon, startfd, table, chan, thread, opened, packets, longest>>
    BY <1>4 DEF vars
  <2>2. BaseInv /\ WiresInv /\ TableShape /\ ThreadShape /\ CountShape /\ ClientInv
    BY ShapesOf
  <2>3. ChanShape' /\ FreshInv' /\ ProcInv' /\ WiresInv'
    BY <2>1, <2>2, NoChan
  <2>4. TableShape' /\ CountShape' /\ ClientInv'
    BY <2>1, <2>2 DEF TableShape, CountShape, ClientInv
  <2>5. ThreadShape'
    BY <2>1, <2>2 DEF ThreadShape, ThreadIs, IsThread, AllChannels, Channels, Idle, NoResult
  <2>6. ShapeInv'
    BY <2>3, <2>4, <2>5, Shapes, PTL
  <2>7. QED BY <2>3, <2>4, <2>6 DEF SafeInv, BaseInv
<1>5. QED BY <1>1, <1>2, <1>3, <1>4 DEF Next

-----------------------------------------------------------------------------
(* While no two sockets were open at once, one thread has the one channel.  *)

\* What OwnInv says of the thread t.
Owns(t) ==
  /\ thread[t].own \in Channels /\ thread[t].own <= opened
  /\ chan[thread[t].own].open /\ table[0] = thread[t].own
  /\ thread[t].pc \in {"idle", "sent", "reading", "closing"}
  /\ thread[t].pc \in {"reading", "closing"} => thread[t].ch = thread[t].own
  /\ \A u \in Threads : u # t => thread[u].own = 0
  /\ \A d \in Channels : d # thread[t].own => ~ chan[d].open

\* A thread with a socket has it alone.
LEMMA Owner ==
  ASSUME ShapeInv, OwnInv, ~ overlap, NEW t \in Threads, thread[t].own # 0
  PROVE  Owns(t)
<1>1. thread[t].own \in Channels
  BY DEF ShapeInv
<1>2. \A u \in Threads : u # t => thread[u].own = 0
  BY DEF OwnInv
<1>3. ASSUME NEW d \in Channels, chan[d].open PROVE d = thread[t].own
  <2>1. PICK u \in Threads : thread[u].own = d
    BY <1>3 DEF OwnInv
  <2>2. d # 0
    BY DEF Channels
  <2>3. QED BY <1>2, <2>1, <2>2
<1>4. QED BY <1>1, <1>2, <1>3 DEF OwnInv, Owns

\* Nobody has a socket, and no channel is open.
LEMMA OwnNone ==
  ASSUME \A t \in Threads : thread'[t].own = 0, \A c \in Channels : ~ chan'[c].open
  PROVE  OwnInv'
BY DEF OwnInv, Channels

\* A step that leaves the threads, the table and what is open.
LEMMA OwnKept ==
  ASSUME OwnInv, overlap' = overlap, thread' = thread, table' = table, opened' = opened,
         \A c \in Channels : chan'[c].open = chan[c].open, ShapeInv
  PROVE  OwnInv'
<1>1. SUFFICES ASSUME ~ overlap
               PROVE  /\ \A t \in Threads : thread'[t].own # 0 =>
                           /\ thread'[t].own <= opened' /\ chan'[thread'[t].own].open
                           /\ table'[0] = thread'[t].own
                           /\ thread'[t].pc \in {"idle", "sent", "reading", "closing"}
                           /\ thread'[t].pc \in {"reading", "closing"} => thread'[t].ch = thread'[t].own
                           /\ \A u \in Threads : thread'[u].own # 0 => u = t
                      /\ \A c \in Channels : chan'[c].open => \E t \in Threads : thread'[t].own = c
  BY DEF OwnInv, Channels
<1>2. ASSUME NEW t \in Threads, thread[t].own # 0
      PROVE  thread[t].own \in Channels
  BY <1>2 DEF ShapeInv
<1>3. QED BY <1>1, <1>2 DEF OwnInv

\* One thread has the one open channel.
OneOwner(t, c) ==
  /\ thread'[t].own = c /\ c <= opened' /\ chan'[c].open /\ table'[0] = c
  /\ thread'[t].pc \in {"idle", "sent", "reading", "closing"}
  /\ thread'[t].pc \in {"reading", "closing"} => thread'[t].ch = c
  /\ \A u \in Threads : u # t => thread'[u].own = 0
  /\ \A d \in Channels : d # c => ~ chan'[d].open

\* This is the invariant, after a step.
LEMMA OwnOne ==
  ASSUME NEW t \in Threads, NEW c \in Channels, OneOwner(t, c)
  PROVE  OwnInv'
<1>1. SUFFICES /\ \A u \in Threads : thread'[u].own # 0 =>
                    /\ thread'[u].own <= opened' /\ chan'[thread'[u].own].open
                    /\ table'[0] = thread'[u].own
                    /\ thread'[u].pc \in {"idle", "sent", "reading", "closing"}
                    /\ thread'[u].pc \in {"reading", "closing"} => thread'[u].ch = thread'[u].own
                    /\ \A v \in Threads : thread'[v].own # 0 => v = u
               /\ \A d \in Channels : chan'[d].open => \E u \in Threads : thread'[u].own = d
  BY DEF OwnInv, Channels
<1>2. ASSUME NEW u \in Threads, thread'[u].own # 0 PROVE u = t
  BY <1>2 DEF OneOwner
<1>3. ASSUME NEW d \in Channels, chan'[d].open PROVE d = c
  BY <1>3 DEF OneOwner
<1>4. QED BY <1>2, <1>3 DEF OneOwner

\* A step of the thread that has it: the channel stays open.
LEMMA OwnThread ==
  ASSUME ShapeInv, OwnInv, ~ overlap, NEW t \in Threads, thread[t].own # 0,
         NEW th, ThreadTo(t, th), th.own = thread[t].own,
         th.pc \in {"idle", "sent", "reading", "closing"},
         th.pc \in {"reading", "closing"} => th.ch = table[0],
         table' = table, opened' = opened,
         \A c \in Channels : chan'[c].open = chan[c].open
  PROVE  OwnInv'
<1>1. PICK c \in Channels : c = thread[t].own
  BY DEF ShapeInv
<1>2. Owns(t)
  BY Owner
<1>3. thread'[t] = th /\ \A u \in Threads : u # t => thread'[u] = thread[u]
  BY DEF ThreadTo
<1>4. OneOwner(t, c)
  BY <1>1, <1>2, <1>3 DEF Owns, OneOwner
<1>5. QED BY <1>4, OwnOne

\* Each step of the daemon leaves the threads and what is open.
LEMMA DaemonOpens ==
  ASSUME ShapeInv, QueueInv, NEW c \in AllChannels,
         onReadReady(c) \/ onAsyncNewPacket(c) \/ PacketArrives(c) \/ ConnEstab(c)
  PROVE  /\ DaemonFrame
         /\ \A d \in Channels : chan'[d].open = chan[d].open
<1>1. ASSUME NEW b, NEW q, NEW p, NEW s, Becomes(c, b, q, p, s), b = chan[c].open
      PROVE  \A d \in Channels : chan'[d].open = chan[d].open
  BY <1>1 DEF Becomes, AllChannels
<1>2. ASSUME NEW q, NEW s, NEW r, Writes(c, q, s, r)
      PROVE  \A d \in Channels : chan'[d].open = chan[d].open
  <2> DEFINE b == chan[c].open
  <2>1. \E p : Becomes(c, b, q, p, s)
    BY <1>2 DEF Writes
  <2> HIDE DEF b
  <2>2. QED BY <1>1, <2>1 DEF b
<1>3. CASE onReadReady(c)
  BY <1>2, <1>3, ReadReady
<1>4. CASE onAsyncNewPacket(c)
  <2> DEFINE s == [chan[c].sock EXCEPT !.waiting = "no", !.recvQ = Tail(@)]
             r == PacketAnswer(Head(chan[c].sock.recvQ), chan[c].sock.waiting = "addr")
  <2>1. DaemonFrame /\ Writes(c, chan[c].req, s, r)
    BY <1>4, AsyncNewPacket
  <2> HIDE DEF s, r
  <2>2. QED BY <1>2, <2>1
<1>5. CASE PacketArrives(c)
  <2>1. PICK p : /\ DaemonFrame
                 /\ Becomes(c, chan[c].open, chan[c].req, chan[c].resp,
                            [chan[c].sock EXCEPT !.recvQ = Append(@, p)])
    BY <1>5, Arrival
  <2> DEFINE b == chan[c].open
             s == [chan[c].sock EXCEPT !.recvQ = Append(@, p)]
  <2>2. Becomes(c, b, chan[c].req, chan[c].resp, s)
    BY <2>1
  <2> HIDE DEF b, s
  <2>3. QED BY <1>1, <2>1, <2>2 DEF b
<1>6. CASE ConnEstab(c)
  <2> DEFINE b == chan[c].open
             s == [chan[c].sock EXCEPT !.state = "ESTABLISHED"]
             r == Answer("OK", "connectcall", 0)
  <2>1. /\ DaemonFrame
        /\ Writes(c, chan[c].req, s, r) \/ Becomes(c, b, chan[c].req, chan[c].resp, s)
    BY <1>6, Established
  <2> HIDE DEF b, s, r
  <2>2. QED BY <1>1, <1>2, <2>1 DEF b
<1>7. QED BY <1>3, <1>4, <1>5, <1>6

\* A step of the application, and what is left of the owners of a channel.
SafeOwn == SafeInv /\ OwnInv

\* A socket is made: there was none, or two are open from now on.
LEMMA SocketOwn ==
  ASSUME SafeOwn, NEW t \in Threads, NEW type \in SocketTypes, Socket(t, type)
  PROVE  OwnInv'
<1>1. ShapeInv /\ ProcInv /\ FreshInv /\ OwnInv
  BY ShapesOf DEF SafeOwn
<1>2. PICK c \in Channels : c = opened'
  BY <1>1, NewSocket
<1>3. PICK obj :
        /\ DOMAIN table' = 0 .. MaxSockets - 1 /\ table'[0] = c
        /\ overlap' = (overlap \/ \E d \in Channels : chan[d].open)
        /\ Becomes(c, TRUE, <<packed("socketcall", obj)>>, << >>, NoSocket)
        /\ ThreadTo(t, [pc |-> "reading", call |-> "socketcall", obj |-> obj, ch |-> c,
                        own |-> c, fd |-> startfd, peer |-> <<0, 0>>, res |-> NoResult])
  BY <1>1, <1>2, NewSocket
<1>4. CASE overlap'
  BY <1>4 DEF OwnInv
<1>5. CASE ~ overlap'
  <2>1. ~ overlap /\ \A d \in Channels : ~ chan[d].open
    BY <1>3, <1>5
  <2>2. \A u \in Threads : thread[u].own = 0
    BY <1>1, <2>1, Owner DEF Owns
  <2>3. OneOwner(t, c)
    <3>1. /\ thread'[t].own = c /\ thread'[t].pc = "reading" /\ thread'[t].ch = c
          /\ \A u \in Threads : u # t => thread'[u].own = 0
      BY <1>3, <2>2 DEF ThreadTo
    <3>2. chan'[c].open /\ \A d \in Channels : d # c => ~ chan'[d].open
      BY <1>3, <2>1 DEF Becomes, AllChannels
    <3>3. c <= opened'
      BY <1>2 DEF Channels
    <3>4. QED BY <1>3, <3>1, <3>2, <3>3 DEF OneOwner
  <2>4. QED BY <2>3, OwnOne
<1>6. QED BY <1>4, <1>5

\* A Request is sent, on the channel of the thread.
LEMMA SendOwn ==
  ASSUME SafeOwn, NEW t \in Threads, NEW call \in SocketCalls, Send(t, call)
  PROVE  OwnInv'
<1>1. ShapeInv /\ ProcInv /\ OwnInv
  BY ShapesOf DEF SafeOwn
<1> DEFINE th == thread[t]
           ch == table[0]
<1>2. /\ UNCHANGED <<table, opened, overlap>> /\ th.own # 0
  BY <1>1, Sending
<1>3. PICK obj :
        /\ Sends(call, obj)
        /\ ThreadTo(t, [pc |-> IF ch = 0 THEN "stray" ELSE "sent", call |-> call,
                        obj |-> obj, ch |-> th.ch, own |-> th.own, fd |-> th.fd,
                        peer |-> th.peer, res |-> NoResult])
  BY <1>1, Sending
<1>4. CASE overlap
  BY <1>2, <1>4 DEF OwnInv
<1>5. CASE ~ overlap
  <2>1. ch = th.own /\ th.own \in Channels
    BY <1>1, <1>2, <1>5, Owner DEF Owns
  <2>2. \A d \in Channels : chan'[d].open = chan[d].open
    <3> DEFINE b == chan[ch].open
               q == Append(chan[ch].req, packed(call, obj))
    <3>1. chan' = chan \/ Becomes(ch, b, q, chan[ch].resp, chan[ch].sock)
      BY <1>3 DEF Sends
    <3> HIDE DEF b, q, ch
    <3>2. QED BY <3>1 DEF Becomes, AllChannels, b
  <2> DEFINE x == [pc |-> "sent", call |-> call, obj |-> obj, ch |-> th.ch, own |-> th.own,
                   fd |-> th.fd, peer |-> th.peer, res |-> NoResult]
  <2>3. ThreadTo(t, x)
    BY <1>2, <1>3, <2>1
  <2>4. x.own = thread[t].own /\ x.pc = "sent"
    OBVIOUS
  <2> HIDE DEF x
  <2>5. QED BY <1>1, <1>2, <1>5, <2>2, <2>3, <2>4, OwnThread
<1>6. QED BY <1>4, <1>5

\* The channel looked up is that of the thread.
LEMMA LookupOwn ==
  ASSUME SafeOwn, NEW t \in Threads, Lookup(t)
  PROVE  OwnInv'
<1>1. ShapeInv /\ ProcInv /\ OwnInv
  BY ShapesOf DEF SafeOwn
<1> DEFINE th == thread[t]
           ch == table[0]
           x == [pc |-> IF ch = 0 THEN "stray" ELSE "reading", call |-> th.call,
                 obj |-> th.obj, ch |-> ch, own |-> th.own, fd |-> th.fd,
                 peer |-> th.peer, res |-> th.res]
<1>2. /\ UNCHANGED <<client, table, chan, opened, overlap>> /\ th.own # 0 /\ ThreadTo(t, x)
  BY <1>1, LookedUp
<1>3. CASE overlap
  BY <1>2, <1>3 DEF OwnInv
<1>4. CASE ~ overlap
  <2>1. ch = th.own /\ th.own # 0
    BY <1>1, <1>2, <1>4, Owner DEF Owns
  <2>2. x.own = thread[t].own /\ x.pc = "reading" /\ x.ch = table[0]
    BY <2>1
  <2> HIDE DEF x, ch
  <2>3. QED BY <1>1, <1>2, <1>4, <2>2, OwnThread
<1>5. QED BY <1>3, <1>4

\* A call that returns looks the channel up once more.
LEMMA ReturnedOwn ==
  ASSUME SafeOwn, NEW t \in Threads, thread[t].own # 0, NEW res, Returned(t, res),
         opened' = opened, overlap' = overlap,
         \A c \in Channels : chan'[c].open = chan[c].open
  PROVE  OwnInv'
<1>1. ShapeInv /\ OwnInv
  BY ShapesOf DEF SafeOwn
<1> DEFINE th == thread[t]
           pc == IF th.call = "closecall" THEN "closing" ELSE "idle"
           peer == IF th.call = "connectcall" /\ res.ret = 0 THEN th.obj["addr"] ELSE th.peer
           ch == table[0]
           x == [pc |-> pc, call |-> th.call, obj |-> th.obj, ch |-> ch, own |-> th.own,
                 fd |-> th.fd, peer |-> peer, res |-> res]
<1>2. UNCHANGED <<client, table>> /\ ThreadTo(t, x)
  BY DEF Returned
<1>3. x.own = thread[t].own /\ x.pc \in {"idle", "closing"} /\ x.ch = table[0]
  OBVIOUS
<1> HIDE DEF x
<1>4. CASE overlap
  BY <1>4 DEF OwnInv
<1>5. CASE ~ overlap
  BY <1>1, <1>2, <1>3, <1>5, OwnThread
<1>6. QED BY <1>4, <1>5

\* A Response is read.
LEMMA RecvOwn ==
  ASSUME SafeOwn, NEW t \in Threads, Recv(t)
  PROVE  OwnInv'
<1>1. ShapeInv /\ ProcInv /\ OwnInv
  BY ShapesOf DEF SafeOwn
<1>2. PICK c \in AllChannels : c = thread[t].ch
  BY <1>1 DEF ShapeInv
<1> DEFINE ch == chan[c]
           ans == TopUnpack(Response__C, Head(ch.resp))
<1>3. /\ UNCHANGED <<opened, overlap>> /\ thread[t].own # 0
      /\ Becomes(c, ch.open, ch.req, Tail(ch.resp), ch.sock)
      /\ Ended("null") \/ UNCHANGED <<client, table, thread>> \/ Deliver(t, ans)
  BY <1>1, <1>2, Receiving
<1>4. \A d \in Channels : chan'[d].open = chan[d].open
  <2> DEFINE b == chan[c].open
             p == Tail(ch.resp)
  <2>1. Becomes(c, b, ch.req, p, ch.sock)
    BY <1>3
  <2> HIDE DEF b, p, ch
  <2>2. QED BY <2>1 DEF Becomes, AllChannels, b
<1>5. CASE thread' = thread /\ table' = table
  BY <1>1, <1>3, <1>4, <1>5, OwnKept
<1>6. CASE Deliver(t, ans)
  <2>1. Outcome(t)
    BY <1>1, <1>3, <1>6, Delivering
  <2>2. CASE \E how : Ended(how)
    BY <1>5, <2>2 DEF Ended
  <2>3. CASE \E res : Returned(t, res)
    BY <1>3, <1>4, <2>3, ReturnedOwn
  <2>4. QED BY <2>1, <2>2, <2>3 DEF Outcome
<1>7. QED BY <1>3, <1>5, <1>6 DEF Ended

\* The channel that is closed is that of the thread.
LEMMA CloseChannelOwn ==
  ASSUME SafeOwn, NEW t \in Threads, CloseChannel(t)
  PROVE  OwnInv'
<1>1. ShapeInv /\ ProcInv /\ OwnInv
  BY ShapesOf DEF SafeOwn
<1>2. PICK c \in AllChannels : c = thread[t].ch
  BY <1>1 DEF ShapeInv
<1>3. Closes(t, c)
  BY <1>1, <1>2, Closed
<1>4. CASE overlap
  BY <1>3, <1>4 DEF OwnInv, Closes
<1>5. CASE ~ overlap
  <2>1. Owns(t)
    BY <1>1, <1>3, <1>5, Owner DEF Closes
  <2>2. c = thread[t].own /\ c \in Channels /\ c # 0
    BY <1>2, <1>3, <2>1 DEF Closes, Owns
  <2>3. \A u \in Threads : thread'[u].own = 0
    BY <1>3, <2>1 DEF Closes, Owns, ThreadTo, Idle
  <2>4. \A d \in Channels : ~ chan'[d].open
    <3>1. Becomes(c, FALSE, chan[c].req, chan[c].resp, chan[c].sock)
      BY <1>3, <2>2 DEF Closes
    <3>2. QED BY <2>1, <2>2, <3>1 DEF Owns, Becomes, AllChannels
  <2>5. QED BY <2>3, <2>4, OwnNone
<1>6. QED BY <1>4, <1>5

\* Each step keeps what is said of the owners.
LEMMA OwnStep == SafeOwn /\ [Next]_vars => OwnInv'
<1> SUFFICES ASSUME SafeOwn, [Next]_vars PROVE OwnInv'
  OBVIOUS
<1>0. ShapeInv /\ ProcInv /\ OwnInv /\ QueueInv
  BY ShapesOf DEF SafeOwn, WiresInv
<1>1. CASE AtStart
  <2> DEFINE ch == chan[ProcChannel]
             b == ch.open
             p == Tail(ch.resp)
  <2>1. /\ UNCHANGED <<client, table, thread, opened, overlap>>
        /\ Becomes(ProcChannel, b, ch.req, p, ch.sock)
    BY <1>0, <1>1, Starting
  <2> HIDE DEF b, p, ch
  <2>2. \A d \in Channels : chan'[d] = chan[d]
    BY <2>1 DEF Becomes, AllChannels, Channels, ProcChannel
  <2>3. QED BY <1>0, <2>1, <2>2, OwnKept
<1>2. ASSUME NEW t \in Threads,
             \/ \E type \in SocketTypes : Socket(t, type)
             \/ \E call \in SocketCalls : Send(t, call)
             \/ Lookup(t) \/ Recv(t) \/ CloseChannel(t)
      PROVE  OwnInv'
  BY <1>2, SocketOwn, SendOwn, LookupOwn, RecvOwn, CloseChannelOwn
<1>3. ASSUME NEW t \in Threads, RecvEof(t) \/ SocketRefused(t)
      PROVE  OwnInv'
  <2>1. thread' = thread /\ table' = table /\ UNCHANGED <<chan, opened, overlap>>
    BY <1>0, <1>3, ReadingEof, Refused DEF Ended
  <2>2. QED BY <1>0, <2>1, OwnKept
<1>4. ASSUME NEW c \in Channels \cup {ProcChannel},
             onReadReady(c) \/ onAsyncNewPacket(c) \/ PacketArrives(c) \/ ConnEstab(c)
      PROVE  OwnInv'
  <2>1. c \in AllChannels
    BY DEF AllChannels
  <2>2. /\ DaemonFrame
        /\ \A d \in Channels : chan'[d].open = chan[d].open
    BY <1>0, <1>4, <2>1, DaemonOpens
  <2>3. QED BY <1>0, <2>2, OwnKept DEF DaemonFrame
<1>5. CASE UNCHANGED vars
  <2>1. UNCHANGED <<table, chan, thread, opened, overlap>>
    BY <1>5 DEF vars, clientVars, bounds
  <2>2. QED BY <1>0, <2>1, OwnKept
<1>6. QED BY <1>1, <1>2, <1>3, <1>4, <1>5 DEF Next

\* It holds at first, when no thread has a socket.
LEMMA OwnInit == Init => OwnInv
<1> SUFFICES ASSUME Init PROVE OwnInv
  OBVIOUS
<1>1. \A t \in Threads : thread[t].own = 0
  BY DEF Init, Idle
<1>2. \A c \in Channels : ~ chan[c].open
  <2>1. \A c \in Channels : chan[c] = NoChannel
    BY DEF Init, Channels, ProcChannel
  <2>2. QED BY <2>1 DEF NoChannel
<1>3. QED BY <1>1, <1>2 DEF OwnInv

\* A descriptor denotes the channel it was returned for, in each of the lookups of
\* a call, unless two sockets of the process were open at once.
THEOREM DescriptorsDenote == Spec => []FdDenotesSocket
<1>1. Init => SafeOwn
  BY SafeInit, OwnInit DEF SafeOwn
<1>2. SafeOwn /\ [Next]_vars => SafeOwn'
  BY SafeStep, OwnStep DEF SafeOwn
<1>3. SafeOwn => FdDenotesSocket
  <2> SUFFICES ASSUME SafeOwn, ~ overlap, NEW t \in Threads, thread[t].own # 0
               PROVE  /\ thread[t].pc # "stray"
                      /\ fd2channel(thread[t].fd) = thread[t].own
                      /\ thread[t].pc \in {"reading", "closing"} => thread[t].ch = thread[t].own
    BY DEF FdDenotesSocket
  <2>1. ShapeInv /\ ProcInv /\ OwnInv
    BY ShapesOf DEF SafeOwn
  <2>2. Owns(t)
    BY <2>1, Owner
  <2>3. fd2channel(thread[t].fd) = table[0]
    BY <2>1, Descriptor
  <2>4. QED BY <2>2, <2>3 DEF Owns
<1>4. QED BY <1>1, <1>2, <1>3, PTL DEF Spec

-----------------------------------------------------------------------------
(* What a Request leads to.                                                 *)

\* A Socket that differs in nothing that Made looks at, but for its packets.
\* Its queue holds some of the packets of s.
SameMake(b, s) ==
  /\ b.kind = s.kind /\ b.state = s.state
  /\ b.recvQ = s.recvQ \/ (IsSeq(b.recvQ) /\ From(b.recvQ, s.recvQ))

\* Such a Socket is made as s was.
LEMMA MadeKept ==
  ASSUME NEW s, NEW b, Made(s), SameMake(b, s)
  PROVE  Made(b)
<1>1. CASE b.recvQ = s.recvQ
  BY <1>1 DEF Made, SameMake, Packet
<1>2. CASE IsSeq(b.recvQ) /\ From(b.recvQ, s.recvQ)
  <2>1. \A i \in DOMAIN b.recvQ : Packet(b.recvQ[i], b)
    <3> SUFFICES ASSUME NEW i \in DOMAIN b.recvQ
                 PROVE  Packet(b.recvQ[i], b)
      OBVIOUS
    <3>1. PICK j \in DOMAIN s.recvQ : b.recvQ[i] = s.recvQ[j]
      BY <1>2 DEF From
    <3>2. Packet(s.recvQ[j], s)
      BY DEF Made
    <3>3. QED BY <3>1, <3>2 DEF Packet, SameMake
  <2>2. /\ b.kind \in {"TCP", "UDP"} /\ b.state \in {"CLOSED", "SYN_SENT", "ESTABLISHED"}
        /\ b.kind = "UDP" => b.state = "CLOSED"
    BY DEF Made, SameMake
  <2>3. QED BY <1>2, <2>1, <2>2 DEF Made
<1>3. QED BY <1>1, <1>2 DEF SameMake

\* A Socket on which a call changed nothing that the application sees.
SameRest(b, s) ==
  /\ SameMake(b, s) /\ b.nonblocking = s.nonblocking /\ b.faddr = s.faddr
  /\ b.estabCB = s.estabCB

\* It is settled as s is.
LEMMA RestKept ==
  ASSUME NEW th, NEW s, NEW b, Rest(th, s), SameRest(b, s)
  PROVE  Rest(th, b)
<1>1. Made(s) /\ SameMake(b, s)
  BY DEF Rest, Settled, SameRest
<1>2. Made(b)
  BY <1>1, MadeKept
<1>3. QED BY <1>2 DEF Rest, Settled, SameRest, SameMake

\* A Request that was handled: the last answer, or the daemon waits.
Served(th, r) ==
  \/ Final(th, r.sock, r.resp) /\ r.sock.waiting = "no"
  \/ r.resp = WaitNext /\ Awaits(th, r.sock)

\* A socket is made.
LEMMA SocketServed ==
  ASSUME NEW th, th.call = "socketcall", th.peer = <<0, 0>>, NEW r, SocketLeaves(r)
  PROVE  Served(th, r)
<1> DEFINE b == r.sock
<1> HIDE DEF b
<1>1. /\ b.kind \in {"TCP", "UDP"} /\ b.faddr = NoAddr /\ b.state = "CLOSED"
      /\ b.waiting = "no" /\ b.recvQ = << >> /\ b.estabCB = FALSE
      /\ r.resp = Answer("OK", "socketcall", 0)
  BY DEF SocketLeaves, b
<1>2. IsSeq(b.recvQ) /\ DOMAIN b.recvQ = {}
  BY <1>1 DEF IsSeq
<1>3. Made(b)
  BY <1>1, <1>2 DEF Made
<1>4. Settled(b)
  BY <1>1, <1>3 DEF Settled
<1>5. Rest(th, b)
  BY <1>1, <1>4 DEF Rest, SockAddr
<1>6. Final(th, b, r.resp)
  BY <1>1, <1>5 DEF Final
<1>7. QED BY <1>1, <1>6 DEF Served, b

\* A connect on a socket: answered, or left to the peer.
LEMMA ConnectServed ==
  ASSUME NEW th, th.call = "connectcall", th.obj \in Asks("connectcall"),
         NEW s, Rest(th, s), s.waiting = "no", NEW r, ConnectLeaves(s, th.obj, r)
  PROVE  Served(th, r)
<1> DEFINE b == r.sock
<1> HIDE DEF b
<1>1. th.obj["addr"] \in Peers /\ th.obj["addr"] # NoAddr
  BY AskedConnect
<1>2. /\ b.kind = s.kind /\ b.nonblocking = s.nonblocking
      /\ b.waiting = "no" /\ b.recvQ = s.recvQ /\ Made(s) /\ s.kind \in {"TCP", "UDP"}
  BY DEF ConnectLeaves, b, Rest, Settled, Made
<1>3. CASE s.kind = "UDP"
  <2>1. b.faddr = th.obj["addr"] /\ b.state = s.state /\ r.resp = NoCode
    BY <1>3 DEF ConnectLeaves, b
  <2>2. SameMake(b, s)
    BY <1>2, <2>1 DEF SameMake
  <2>3. Made(b)
    BY <1>2, <2>2, MadeKept
  <2>4. FinalConnect(th, b, r.resp)
    BY <1>1, <1>2, <1>3, <2>1, <2>3 DEF FinalConnect
  <2>5. QED BY <1>2, <2>4 DEF Final, Served, b
<1>4. CASE s.kind = "TCP" /\ s.nonblocking
  <2>1. b = s /\ r.resp = Answer("OK", "recvfromcall", EINPROGRESS)
    BY <1>4 DEF ConnectLeaves, b
  <2>2. FinalConnect(th, b, r.resp)
    BY <1>2, <1>4, <2>1 DEF FinalConnect
  <2>3. QED BY <1>2, <2>2 DEF Final, Served, b
<1>5. CASE s.kind = "TCP" /\ ~ s.nonblocking
  <2>1. /\ b.faddr = th.obj["addr"] /\ b.estabCB = TRUE /\ r.resp = WaitNext
        /\ b.state = IF s.state = "CLOSED" THEN "SYN_SENT" ELSE s.state
    BY <1>5 DEF ConnectLeaves, b
  <2>2. Made(b)
    BY <1>2, <1>5, <2>1 DEF Made, Packet
  <2>3. \/ b.state = "SYN_SENT"
        \/ b.state = "ESTABLISHED" /\ s.faddr \in Peers
    BY <1>2, <2>1 DEF Rest, Settled, Made
  <2>4. s.faddr \in Peers => th.peer # <<0, 0>>
    <3> SUFFICES ASSUME s.faddr \in Peers
                 PROVE  th.peer # <<0, 0>>
      OBVIOUS
    <3>1. \A x \in Peers : x # << >> /\ x # <<0, 0>>
      BY PeersAssumption
    <3>2. s.faddr # NoAddr /\ s.faddr # <<0, 0>>
      BY <3>1 DEF NoAddr
    <3>3. QED BY <3>2 DEF Rest, SockAddr
  <2>5. Awaits(th, b)
    BY <1>1, <1>2, <1>5, <2>1, <2>2, <2>3, <2>4 DEF Awaits
  <2>6. QED BY <2>1, <2>5 DEF Served, b
<1>6. QED BY <1>2, <1>3, <1>4, <1>5

\* A sendto, which is answered at once.
LEMMA SendtoServed ==
  ASSUME NEW th, th.call = "sendtocall",
         NEW s, Rest(th, s), s.waiting = "no", NEW r, SendtoLeaves(s, r)
  PROVE  Served(th, r)
<1> DEFINE b == r.sock
<1> HIDE DEF b
<1>1. /\ b.kind = s.kind /\ b.nonblocking = s.nonblocking
      /\ b.estabCB = s.estabCB /\ b.waiting = "no" /\ b.recvQ = s.recvQ
      /\ s.kind = "UDP" => b.state = s.state /\ b.faddr \in {s.faddr, NoAddr}
      /\ s.kind # "UDP" => /\ b.faddr = s.faddr
                           /\ b.state = IF s.state = "CLOSED" THEN "SYN_SENT" ELSE s.state
      /\ \E n : r.resp = Answer("OK", "sendtocall", n)
  BY DEF SendtoLeaves, b
<1>2. Settled(s) /\ th.peer = SockAddr(s.faddr)
  BY DEF Rest
<1>3. b.faddr = s.faddr
  BY <1>1, <1>2 DEF Settled
<1>4. Made(b)
  BY <1>1, <1>2 DEF Made, Packet, Settled
<1>5. b.state = "ESTABLISHED" <=> s.state = "ESTABLISHED"
  BY <1>1
<1>6. Rest(th, b)
  BY <1>1, <1>2, <1>3, <1>4, <1>5 DEF Settled, Rest
<1>7. QED BY <1>1, <1>6 DEF Final, Served, b

\* A recvfrom: the first packet, or nothing, or it waits.
LEMMA RecvfromServed ==
  ASSUME NEW th, th.call = "recvfromcall", th.obj \in Asks("recvfromcall"),
         NEW s, Rest(th, s), s.waiting = "no", NEW r, RecvfromLeaves(s, th.obj, r)
  PROVE  Served(th, r)
<1> DEFINE b == r.sock
           w == th.obj["requireaddr"]
           p == Head(s.recvQ)
<1> HIDE DEF b, w, p
<1>1. w \in BOOLEAN
  BY AskedRecvfrom DEF w
<1>2. Made(s)
  BY DEF Rest, Settled
<1>3. /\ b.kind = s.kind /\ b.nonblocking = s.nonblocking
      /\ b.estabCB = s.estabCB /\ b.faddr = s.faddr /\ b.state = s.state
  BY DEF RecvfromLeaves, b
<1>4. CASE /\ s.recvQ # << >> /\ b.recvQ = Tail(s.recvQ) /\ b.waiting = s.waiting
           /\ r.resp = PacketAnswer(p, w)
  <2>1. /\ IsSeq(Tail(s.recvQ)) /\ 1 \in DOMAIN s.recvQ /\ p = s.recvQ[1]
        /\ \A i \in DOMAIN Tail(s.recvQ) : \E j \in DOMAIN s.recvQ : Tail(s.recvQ)[i] = s.recvQ[j]
    BY <1>2, <1>4, Dropped DEF Made, p
  <2>2. From(b.recvQ, s.recvQ)
    BY <1>4, <2>1 DEF From
  <2>3. SameRest(b, s)
    BY <1>3, <1>4, <2>1, <2>2 DEF SameRest, SameMake
  <2>4. Rest(th, b)
    BY <2>3, RestKept
  <2>5. b.kind = "UDP" => p.from \in Peers
    BY <1>2, <1>3, <2>1 DEF Made, Packet
  <2>6. FinalRecvfrom(th, b, r.resp)
    BY <1>1, <1>4, <2>4, <2>5 DEF FinalRecvfrom, w
  <2>7. QED BY <1>4, <2>6 DEF Final, Served, b
<1>5. CASE /\ s.recvQ = << >> /\ s.nonblocking /\ b = s
           /\ r.resp = Answer("OK", "recvfromcall", EAGAIN)
  <2>1. FinalRecvfrom(th, b, r.resp)
    BY <1>5 DEF FinalRecvfrom
  <2>2. QED BY <1>5, <2>1 DEF Final, Served, b
<1>6. CASE /\ s.recvQ = << >> /\ b.recvQ = s.recvQ
           /\ b.waiting = IF s.kind = "UDP" /\ w THEN "addr" ELSE "plain"
           /\ r.resp = WaitNext
  <2>1. SameRest(b, s)
    BY <1>3, <1>6 DEF SameRest, SameMake
  <2>2. Rest(th, b)
    BY <2>1, RestKept
  <2>3. Awaits(th, b)
    BY <1>3, <1>6, <2>2 DEF Awaits, w
  <2>4. QED BY <1>6, <2>3 DEF Served, b
<1>7. QED BY <1>4, <1>5, <1>6 DEF RecvfromLeaves, b, w, p

\* A Request that an application made, whatever it asks for.
LEMMA Serving ==
  ASSUME NEW th, NEW ch, IsSock(ch.sock), Asked(th, ch), NEW c
  PROVE  Served(th, handleRequest(ch.sock, Parsed(th.call, th.obj), c))
<1> DEFINE s == ch.sock
           r == handleRequest(s, Parsed(th.call, th.obj), c)
<1>1. \/ th.call = "socketcall" /\ th.peer = <<0, 0>>
      \/ th.call \in SocketCalls /\ Rest(th, s) /\ s.waiting = "no"
  BY DEF Asked
<1>2. th.obj \in Asks(th.call)
  BY DEF Asked
<1>3. CASE th.call = "socketcall"
  <2>1. SocketLeaves(r)
    BY <1>3, SocketHandled
  <2> HIDE DEF r
  <2>2. th.peer = <<0, 0>>
    BY <1>1, <1>3 DEF SocketCalls
  <2>3. Served(th, r)
    BY <1>3, <2>1, <2>2, SocketServed
  <2>4. QED BY <2>3 DEF r
<1>4. CASE th.call = "connectcall"
  <2>1. ConnectLeaves(s, th.obj, r)
    BY <1>4, ConnectHandled
  <2> HIDE DEF r, s
  <2>2. Served(th, r)
    BY <1>1, <1>2, <1>4, <2>1, ConnectServed
  <2>3. QED BY <2>2 DEF r, s
<1>5. CASE th.call = "sendtocall"
  <2>1. SendtoLeaves(s, r)
    BY <1>5, SendtoHandled
  <2> HIDE DEF r, s
  <2>2. Served(th, r)
    BY <1>1, <1>5, <2>1, SendtoServed
  <2>3. QED BY <2>2 DEF r, s
<1>6. CASE th.call = "recvfromcall"
  <2>1. RecvfromLeaves(s, th.obj, r)
    BY <1>6, RecvfromHandled
  <2> HIDE DEF r, s
  <2>2. Served(th, r)
    BY <1>1, <1>2, <1>6, <2>1, RecvfromServed
  <2>3. QED BY <2>2 DEF r, s
<1>7. CASE th.call \in {"closecall", "getpeernamecall", "getsocknamecall"}
  <2>1. Leaves(s, OtherAnswer(s, th.call), r)
    BY <1>7, OthersHandled
  <2> HIDE DEF r, s
  <2>2. Rest(th, s) /\ s.waiting = "no"
    BY <1>1, <1>7
  <2>3. r.sock = s /\ r.resp = OtherAnswer(s, th.call) /\ th.peer = SockAddr(s.faddr)
    BY <2>1, <2>2 DEF Leaves, Rest
  <2>4. Final(th, s, r.resp)
    BY <1>7, <2>2, <2>3 DEF Final, OtherAnswer
  <2>5. QED BY <2>2, <2>3, <2>4 DEF Served, r, s
<1>8. QED BY <1>1, <1>3, <1>4, <1>5, <1>6, <1>7 DEF SocketCalls

-----------------------------------------------------------------------------
(* What the daemon makes of the conversation.                               *)

\* The conversation of the thread t over the channel c, before a step of the daemon.
Talking(t, c) == Talk(thread[t], chan[c], daemon, client, longest)
\* The same after it.
Left(t, c) == Talk(thread[t], chan'[c], daemon', client, longest')

\* What the parts of the channel are after a step on it.
ChanIs(c, q, p, s) == chan'[c].req = q /\ chan'[c].resp = p /\ chan'[c].sock = s

\* The last answer may follow WAIT_NEXT.
LEMMA AfterWaitNext ==
  ASSUME NEW x, NEW y, NEW p \in {<< >>, <<y>>}
  PROVE  Append(p, x) \in {<<x>>, <<y, x>>}
<1>1. Append(<< >>, x) = <<x>>
  OBVIOUS
<1>2. Append(<<y>>, x) = <<y, x>>
  <2> DEFINE a == Append(<<y>>, x)
             b == <<y, x>>
  <2>1. <<y>> \in Seq({x, y}) /\ Len(<<y>>) = 1 /\ <<y>>[1] = y
    OBVIOUS
  <2>2. b \in Seq({x, y}) /\ Len(b) = 2 /\ b[1] = y /\ b[2] = x
    OBVIOUS
  <2>3. a \in Seq({x, y}) /\ Len(a) = 2 /\ a[1] = y /\ a[2] = x
    BY <2>1
  <2> HIDE DEF a, b
  <2>4. \A i \in 1 .. 2 : a[i] = b[i]
    BY <2>2, <2>3
  <2>5. a = b
    BY <2>2, <2>3, <2>4, SeqEqual
  <2>6. QED BY <2>5 DEF a, b
<1>3. QED BY <1>1, <1>2

\* A call is answered, or the daemon stops over the answer.
LEMMA AnswerTalk ==
  ASSUME NEW c, NEW s, NEW r, Writes(c, << >>, s, r), client = "up", NEW t, InCall(thread[t]),
         thread[t].obj \in Asks(thread[t].call), chan[c].resp \in {<< >>, <<Sent(WaitNext)>>},
         Final(thread[t], s, r), s.waiting = "no", Brief(r, longest')
  PROVE  Left(t, c)
<1>1. CASE daemon' = "up" /\ Becomes(c, chan[c].open, << >>, Append(chan[c].resp, Sent(r)), s)
  <2>1. ChanIs(c, << >>, Append(chan[c].resp, Sent(r)), s)
    BY <1>1 DEF Becomes, ChanIs
  <2>2. Append(chan[c].resp, Sent(r)) \in {<<Sent(r)>>, <<Sent(WaitNext), Sent(r)>>}
    BY AfterWaitNext
  <2>3. Answered(thread[t], chan'[c], longest')
    BY <2>1, <2>2 DEF Answered, ChanIs
  <2>4. QED BY <1>1, <2>3 DEF Left, Talk
<1>2. CASE daemon' = Failing("overread") /\ Becomes(c, chan[c].open, << >>, chan[c].resp, s)
  <2>1. daemon' # "up" /\ chan'[c].resp = chan[c].resp
    BY <1>2 DEF Failing, Becomes
  <2>2. Over(thread[t], chan'[c], daemon', client)
    BY <2>1 DEF Over
  <2>3. QED BY <2>2 DEF Left, Talk
<1>3. QED BY <1>1, <1>2 DEF Writes

\* A Request is handled.
LEMMA ReadReadyTalk ==
  ASSUME ShapeInv, QueueInv, NEW c \in Channels, onReadReady(c), NEW t, Talking(t, c)
  PROVE  Left(t, c)
<1> DEFINE th == thread[t]
           ch == chan[c]
           r == handleRequest(ch.sock, Parsed(th.call, th.obj), c)
<1>1. c \in AllChannels
  BY DEF AllChannels
<1>2. /\ daemon = "up" /\ client = "up" /\ longest' = longest /\ ch.req # << >>
      /\ LET h == handleRequest(ch.sock, TopParse(Request, Head(ch.req)), c)
         IN  Writes(c, Tail(ch.req), h.sock, h.resp)
  BY <1>1, ReadReady DEF DaemonFrame
<1>3. Asked(th, ch)
  BY <1>2 DEF Talking, Talk, Over, Quiet, Answered, Awaited
<1>4. /\ InCall(th) /\ ch.req = <<packed(th.call, th.obj)>> /\ ch.resp = << >>
      /\ th.obj \in Asks(th.call)
  BY <1>3 DEF Asked
<1>5. IsSock(ch.sock) /\ longest \in Nat /\ Queued(ch.sock, longest)
  BY <1>1 DEF ShapeInv, QueueInv
<1>6. Served(th, r)
  BY <1>3, <1>5, Serving
<1>7. Brief(r.resp, longest')
  <2>1. th.call \in Answering
    BY <1>3 DEF Asked, Answering, SocketCalls
  <2> HIDE DEF th, ch
  <2>2. Brief(r.resp, longest)
    BY <1>5, <2>1, Handling
  <2>3. QED BY <1>2, <2>2
<1>8. Head(ch.req) = packed(th.call, th.obj) /\ Tail(ch.req) = << >>
  BY <1>4
<1>9. Writes(c, << >>, r.sock, r.resp)
  BY <1>2, <1>8 DEF Parsed
<1> HIDE DEF r
<1>10. CASE Final(th, r.sock, r.resp) /\ r.sock.waiting = "no"
  BY <1>2, <1>4, <1>7, <1>9, <1>10, AnswerTalk
<1>11. CASE r.resp = WaitNext /\ Awaits(th, r.sock)
  <2>1. CASE daemon' = "up" /\ Becomes(c, ch.open, << >>, Append(ch.resp, Sent(r.resp)), r.sock)
    <3>1. ChanIs(c, << >>, <<Sent(WaitNext)>>, r.sock)
      BY <1>4, <1>11, <2>1 DEF Becomes, ChanIs
    <3>2. Awaited(th, chan'[c])
      BY <1>4, <1>11, <3>1 DEF Awaited, ChanIs
    <3>3. QED BY <1>2, <2>1, <3>2 DEF Left, Talk
  <2>2. CASE daemon' = Failing("overread") /\ Becomes(c, ch.open, << >>, ch.resp, r.sock)
    <3>1. daemon' # "up" /\ chan'[c].resp = << >>
      BY <1>4, <2>2 DEF Failing, Becomes
    <3>2. Over(th, chan'[c], daemon', client)
      BY <1>4, <3>1 DEF Over
    <3>3. QED BY <3>2 DEF Left, Talk
  <2>3. QED BY <1>9, <2>1, <2>2 DEF Writes
<1>12. QED BY <1>6, <1>10, <1>11 DEF Served

\* A packet is answered to a recvfrom that waits, and to no other call.
LEMMA AsyncNewPacketTalk ==
  ASSUME ShapeInv, QueueInv, NEW c \in Channels, onAsyncNewPacket(c), NEW t, Talking(t, c)
  PROVE  Left(t, c)
<1> DEFINE th == thread[t]
           ch == chan[c]
           s == ch.sock
           b == [s EXCEPT !.waiting = "no", !.recvQ = Tail(@)]
           w == (s.waiting = "addr")
           r == PacketAnswer(Head(s.recvQ), w)
<1>1. c \in AllChannels
  BY DEF AllChannels
<1>2. /\ daemon = "up" /\ client = "up" /\ longest' = longest
      /\ s.waiting # "no" /\ s.recvQ # << >>
      /\ Writes(c, ch.req, b, r)
  BY <1>1, AsyncNewPacket DEF DaemonFrame
<1>3. IsSock(s) /\ longest \in Nat /\ Queued(s, longest)
  BY <1>1 DEF ShapeInv, QueueInv
<1>4. /\ b.kind = s.kind /\ b.nonblocking = s.nonblocking /\ b.faddr = s.faddr
      /\ b.state = s.state /\ b.estabCB = s.estabCB /\ b.lport = s.lport
      /\ b.waiting = "no" /\ b.recvQ = Tail(s.recvQ)
  BY <1>3 DEF IsSock
<1>5. w \in BOOLEAN
  OBVIOUS
<1> HIDE DEF r, b, w
<1>6. NoSocket.waiting = "no"
  BY DEF NoSocket
<1>7. Awaited(th, ch)
  BY <1>2, <1>6 DEF Talking, Talk, Over, Quiet, Asked, Answered
<1>8. /\ th.call = "recvfromcall" /\ Rest(th, s) /\ InCall(th) /\ th.obj \in Asks(th.call)
      /\ s.waiting = IF s.kind = "UDP" /\ th.obj["requireaddr"] THEN "addr" ELSE "plain"
      /\ ch.req = << >> /\ ch.resp \in {<< >>, <<Sent(WaitNext)>>}
  BY <1>2, <1>7 DEF Awaited, Awaits
<1>9. th.obj["requireaddr"] \in BOOLEAN
  BY <1>8, AskedRecvfrom
<1>10. Made(s)
  BY <1>8 DEF Rest, Settled
<1>11. /\ IsSeq(Tail(s.recvQ)) /\ 1 \in DOMAIN s.recvQ /\ Head(s.recvQ) = s.recvQ[1]
       /\ \A i \in DOMAIN Tail(s.recvQ) : \E j \in DOMAIN s.recvQ : Tail(s.recvQ)[i] = s.recvQ[j]
  BY <1>2, <1>10, Dropped DEF Made
<1>12. SameRest(b, s)
  BY <1>4, <1>11 DEF SameRest, SameMake, From
<1>13. Rest(th, b)
  BY <1>8, <1>12, RestKept
<1>14. s.kind = "UDP" => Head(s.recvQ).from \in Peers
  BY <1>10, <1>11 DEF Made, Packet
<1>15. s.kind = "UDP" => w = th.obj["requireaddr"]
  BY <1>8, <1>9 DEF w
<1>16. FinalRecvfrom(th, b, r)
  BY <1>4, <1>5, <1>13, <1>14, <1>15 DEF FinalRecvfrom, r
<1>17. Final(th, b, r)
  BY <1>8, <1>16 DEF Final
<1>18. Brief(r, longest')
  <2>1. Len(Head(s.recvQ).data) \in 0 .. longest
    BY <1>3, <1>11 DEF Queued
  <2>2. QED BY <1>2, <2>1, AnswersBrief DEF r
<1>19. QED BY <1>2, <1>4, <1>8, <1>17, <1>18, AnswerTalk

\* The connection is established: only a connect can be waiting for it.
LEMMA ConnEstabTalk ==
  ASSUME ShapeInv, NEW c \in Channels, ConnEstab(c), NEW t, Talking(t, c)
  PROVE  Left(t, c)
<1> DEFINE th == thread[t]
           ch == chan[c]
           s == ch.sock
           b == [s EXCEPT !.state = "ESTABLISHED"]
           r == Answer("OK", "connectcall", 0)
<1>1. c \in AllChannels
  BY DEF AllChannels
<1>2. /\ daemon = "up" /\ client = "up" /\ longest' = longest
      /\ s.state = "SYN_SENT" /\ s.faddr # NoAddr
      /\ \/ s.estabCB /\ Writes(c, ch.req, b, r)
         \/ ~ s.estabCB /\ daemon' = daemon /\ Becomes(c, ch.open, ch.req, ch.resp, b)
  BY <1>1, Established DEF DaemonFrame
<1>3. Brief(r, longest')
  BY AnswersBrief DEF Answering
<1>4. IsSock(s)
  BY <1>1 DEF ShapeInv
<1>5. /\ b.kind = s.kind /\ b.nonblocking = s.nonblocking /\ b.faddr = s.faddr
      /\ b.state = "ESTABLISHED" /\ b.estabCB = s.estabCB /\ b.waiting = s.waiting
      /\ b.recvQ = s.recvQ
  BY <1>4 DEF IsSock
<1> HIDE DEF r, b
<1>6. ~ Rest(th, s)
  BY <1>2 DEF Rest, Settled
<1>7. NoSocket.state = "CLOSED"
  BY DEF NoSocket
<1>8. ~ Asked(th, ch) /\ ~ Quiet(th, ch)
  BY <1>2, <1>6, <1>7 DEF Asked, Quiet
<1>9. ~ Answered(th, ch, longest)
  <2>1. \A x : ~ Final(th, s, x)
    BY <1>2, <1>6 DEF Final, FinalConnect, FinalRecvfrom, Made
  <2>2. QED BY <2>1 DEF Answered
<1>10. Awaited(th, ch)
  BY <1>2, <1>8, <1>9 DEF Talking, Talk, Over
<1>11. /\ th.call = "connectcall" /\ Made(s) /\ s.waiting = "no" /\ InCall(th)
       /\ s.kind = "TCP" /\ ~ s.nonblocking /\ s.estabCB
       /\ s.faddr = th.obj["addr"] /\ th.obj["addr"] \in Peers /\ th.obj \in Asks(th.call)
       /\ ch.req = << >> /\ ch.resp \in {<< >>, <<Sent(WaitNext)>>}
  BY <1>6, <1>10 DEF Awaited, Awaits
<1>12. Made(b)
  BY <1>5, <1>11 DEF Made, Packet
<1>13. FinalConnect(th, b, r)
  BY <1>5, <1>11, <1>12 DEF FinalConnect, r
<1>14. Final(th, b, r)
  BY <1>11, <1>13 DEF Final
<1>15. QED BY <1>2, <1>3, <1>5, <1>11, <1>14, AnswerTalk

\* A Socket that got another packet.
MorePackets(b, s) ==
  /\ b.kind = s.kind /\ b.nonblocking = s.nonblocking /\ b.faddr = s.faddr /\ b.lport = s.lport
  /\ b.state = s.state /\ b.estabCB = s.estabCB /\ b.waiting = s.waiting
  /\ Made(s) => Made(b)

\* What was said about it can still be said.
LEMMA MoreRest ==
  ASSUME NEW th, NEW s, NEW b, MorePackets(b, s), Rest(th, s)
  PROVE  Rest(th, b)
BY DEF MorePackets, Rest, Settled

\* Its answer is as true as before.
LEMMA MoreFinal ==
  ASSUME NEW th, NEW s, NEW b, MorePackets(b, s), NEW r, Final(th, s, r)
  PROVE  Final(th, b, r)
<1>1. Rest(th, s) => Rest(th, b)
  BY MoreRest
<1>2. LocalAddr(b) = LocalAddr(s)
  BY DEF LocalAddr, MorePackets
<1>3. ASSUME FinalConnect(th, s, r)
      PROVE  FinalConnect(th, b, r)
  BY <1>1, <1>3 DEF FinalConnect, MorePackets
<1>4. ASSUME FinalRecvfrom(th, s, r)
      PROVE  FinalRecvfrom(th, b, r)
  BY <1>1, <1>4 DEF FinalRecvfrom, MorePackets
<1>5. QED BY <1>1, <1>2, <1>3, <1>4 DEF Final

\* A packet changes nothing that was said.
LEMMA PacketArrivesTalk ==
  ASSUME ShapeInv, QueueInv, NEW c \in Channels, PacketArrives(c), NEW t, Talking(t, c)
  PROVE  Left(t, c)
<1> DEFINE th == thread[t]
           ch == chan[c]
           s == ch.sock
<1>1. c \in AllChannels
  BY DEF AllChannels
<1>2. /\ daemon = "up" /\ client = "up" /\ daemon' = daemon
      /\ longest \in Nat /\ longest' \in Nat /\ longest' >= longest
  BY <1>1, Arrival DEF DaemonFrame, QueueInv
<1>3. PICK p : /\ Suits(p, s)
               /\ Becomes(c, ch.open, ch.req, ch.resp, [s EXCEPT !.recvQ = Append(@, p)])
  BY <1>1, Arrival
<1> DEFINE b == [s EXCEPT !.recvQ = Append(@, p)]
<1>4. IsSock(s)
  BY <1>1 DEF ShapeInv
<1>5. /\ b.kind = s.kind /\ b.nonblocking = s.nonblocking /\ b.faddr = s.faddr
      /\ b.state = s.state /\ b.estabCB = s.estabCB /\ b.lport = s.lport
      /\ b.waiting = s.waiting /\ b.recvQ = Append(s.recvQ, p)
  BY <1>4 DEF IsSock
<1>6. Becomes(c, ch.open, ch.req, ch.resp, b)
  BY <1>3
<1> HIDE DEF b
<1>7. ChanIs(c, ch.req, ch.resp, b)
  BY <1>6 DEF ChanIs, Becomes
<1>8. ASSUME Made(s)
      PROVE  Made(b)
  <2>1. IsSeq(s.recvQ) /\ \A i \in DOMAIN s.recvQ : Packet(s.recvQ[i], s)
    BY <1>8 DEF Made
  <2>2. /\ IsSeq(b.recvQ)
        /\ \A i \in DOMAIN b.recvQ : b.recvQ[i] = p \/ \E j \in DOMAIN s.recvQ : b.recvQ[i] = s.recvQ[j]
    BY <1>5, <2>1, Appended
  <2>3. Packet(p, b)
    BY <1>3, <1>5 DEF Packet, Suits
  <2>4. \A i \in DOMAIN b.recvQ : Packet(b.recvQ[i], b)
    BY <1>5, <2>1, <2>2, <2>3 DEF Packet
  <2>5. QED BY <1>5, <1>8, <2>2, <2>4 DEF Made
<1>9. MorePackets(b, s)
  BY <1>5, <1>8 DEF MorePackets
<1>10. Rest(th, s) => Rest(th, b)
  BY <1>9, MoreRest
<1>11. CASE Quiet(th, ch)
  <2>1. Holds(th, b)
    BY <1>5, <1>11 DEF Quiet, Holds, LocalAddr
  <2>2. Quiet(th, chan'[c])
    BY <1>5, <1>7, <1>10, <1>11, <2>1 DEF Quiet, ChanIs
  <2>3. QED BY <1>2, <2>2 DEF Left, Talk
<1>12. CASE Asked(th, ch)
  <2>1. s # NoSocket
    BY <1>3 DEF Suits, NoSocket
  <2>2. Asked(th, chan'[c])
    BY <1>5, <1>7, <1>10, <1>12, <2>1 DEF Asked, ChanIs
  <2>3. QED BY <1>2, <2>2 DEF Left, Talk
<1>13. CASE Answered(th, ch, longest)
  <2>1. PICK r : /\ Final(th, s, r) /\ Brief(r, longest)
                 /\ ch.resp \in {<<Sent(r)>>, <<Sent(WaitNext), Sent(r)>>}
    BY <1>13 DEF Answered
  <2>2. Final(th, b, r)
    BY <1>9, <2>1, MoreFinal
  <2>3. Brief(r, longest')
    BY <1>2, <2>1 DEF Brief
  <2> HIDE DEF th, ch, s
  <2>4. ch.req = << >> /\ s.waiting = "no" /\ InCall(th) /\ th.obj \in Asks(th.call)
    BY <1>13 DEF Answered, s
  <2>5. Answered(th, chan'[c], longest')
    BY <1>5, <1>7, <2>1, <2>2, <2>3, <2>4 DEF Answered, ChanIs
  <2>6. QED BY <1>2, <2>5 DEF Left, Talk, th
<1>14. CASE Awaited(th, ch)
  <2>1. Awaits(th, b)
    BY <1>5, <1>8, <1>10, <1>14 DEF Awaited, Awaits
  <2>2. Awaited(th, chan'[c])
    BY <1>7, <1>14, <2>1 DEF Awaited, ChanIs
  <2>3. QED BY <1>2, <2>2 DEF Left, Talk
<1>15. QED BY <1>2, <1>11, <1>12, <1>13, <1>14 DEF Talking, Talk, Over

\* What is said of the conversation, and of the end of the application.
ConvInv == TalkInv /\ EndInv

\* One thread has a socket, and this is its conversation after a step.
TalkTo(t, c) ==
  /\ thread'[t].own = c /\ \A u \in Threads : u # t => thread'[u].own = 0
  /\ Talk(thread'[t], chan'[c], daemon', client', longest')
  /\ client' # "up" => \/ Stranded(daemon', client')
                       \/ Excuse(thread'[t], chan'[c].sock, client', longest', build')

\* This is the invariant, after the step.
LEMMA ConvOne ==
  ASSUME NEW t \in Threads, NEW c \in Channels, TalkTo(t, c)
  PROVE  ConvInv'
<1>1. thread'[t].own = c /\ c # 0
  BY DEF TalkTo, Channels
<1>2. \A u \in Threads : thread'[u].own # 0 => u = t
  BY DEF TalkTo
<1>3. TalkInv'
  <2> SUFFICES \A u \in Threads : thread'[u].own # 0 =>
                  Talk(thread'[u], chan'[thread'[u].own], daemon', client', longest')
    BY DEF TalkInv
  <2>1. Talk(thread'[t], chan'[thread'[t].own], daemon', client', longest')
    BY <1>1 DEF TalkTo
  <2>2. QED BY <1>2, <2>1
<1>4. EndInv'
  <2> SUFFICES ASSUME client' # "up", ~ Stranded(daemon', client')
               PROVE  \E u \in Threads :
                        /\ thread'[u].own # 0
                        /\ Excuse(thread'[u], chan'[thread'[u].own].sock, client', longest', build')
    BY DEF EndInv
  <2>1. Excuse(thread'[t], chan'[thread'[t].own].sock, client', longest', build')
    BY <1>1 DEF TalkTo
  <2>2. QED BY <1>1, <2>1
<1>5. QED BY <1>3, <1>4 DEF ConvInv

\* Nobody has a socket: the application runs, or found no daemon.
LEMMA ConvNone ==
  ASSUME \A t \in Threads : thread'[t].own = 0, client' = "up" \/ Stranded(daemon', client')
  PROVE  ConvInv'
BY DEF ConvInv, TalkInv, EndInv

\* Once two sockets were open at once, nothing is said.
LEMMA ConvOverlap ==
  ASSUME overlap' = TRUE
  PROVE  ConvInv'
BY DEF ConvInv, TalkInv, EndInv

\* A step that leaves the conversation alone.
LEMMA ConvSame ==
  ASSUME ShapeInv, ConvInv, thread' = thread, overlap' = overlap, client' = client,
         daemon' = daemon, longest' = longest, build' = build,
         \A d \in Channels : chan'[d] = chan[d]
  PROVE  ConvInv'
<1>1. \A t \in Threads : thread[t].own # 0 => chan'[thread'[t].own] = chan[thread[t].own]
  BY DEF ShapeInv
<1>2. TalkInv'
  <2> SUFFICES ASSUME ~ overlap, NEW t \in Threads, thread[t].own # 0
               PROVE  Talk(thread[t], chan'[thread'[t].own], daemon, client, longest)
    BY DEF TalkInv
  <2>1. Talk(thread[t], chan[thread[t].own], daemon, client, longest)
    BY DEF ConvInv, TalkInv
  <2>2. QED BY <1>1, <2>1
<1>3. EndInv'
  <2> SUFFICES ASSUME ~ overlap, client # "up", ~ Stranded(daemon, client)
               PROVE  \E t \in Threads :
                        /\ thread[t].own # 0
                        /\ Excuse(thread[t], chan'[thread'[t].own].sock, client, longest, build)
    BY DEF EndInv
  <2>1. PICK t \in Threads : /\ thread[t].own # 0
                             /\ Excuse(thread[t], chan[thread[t].own].sock, client, longest, build)
    BY DEF ConvInv, EndInv
  <2>2. QED BY <1>1, <2>1
<1>4. QED BY <1>2, <1>3 DEF ConvInv

\* Each step of the daemon keeps the conversation.
LEMMA DaemonConv ==
  ASSUME SafeOwn, ConvInv, NEW c \in AllChannels,
         onReadReady(c) \/ onAsyncNewPacket(c) \/ PacketArrives(c) \/ ConnEstab(c)
  PROVE  ConvInv'
<1>1. ShapeInv /\ ProcInv /\ OwnInv /\ QueueInv
  BY ShapesOf DEF SafeOwn, WiresInv
<1>2. DaemonFrame
  BY <1>1, DaemonOpens
<1>3. chan[c].open
  BY DEF onReadReady, onAsyncNewPacket, PacketArrives, ConnEstab, Daemon
<1>4. CASE overlap
  BY <1>2, <1>4, ConvOverlap DEF DaemonFrame
<1>5. CASE ~ overlap /\ c = ProcChannel
  <2>1. chan[c].sock = NoSocket
    BY <1>1, <1>5 DEF ProcInv
  <2>2. onReadReady(c)
    <3>1. NoSocket.waiting = "no" /\ NoSocket.state = "CLOSED" /\ NoSocket.kind = "none"
      BY DEF NoSocket
    <3>2. ~ onAsyncNewPacket(c)
      BY <1>1, <2>1, <3>1, AsyncNewPacket
    <3>3. ~ ConnEstab(c)
      BY <1>1, <2>1, <3>1, Established
    <3>4. ~ PacketArrives(c)
      BY <2>1, <3>1 DEF PacketArrives
    <3>5. QED BY <3>2, <3>3, <3>4
  <2> DEFINE q == chan[c].req
             r == handleRequest(chan[c].sock, TopParse(Request, Head(q)), c)
  <2>3. q # << >> /\ Writes(c, Tail(q), r.sock, r.resp) /\ longest' = longest
    BY <1>1, <2>2, ReadReady
  <2>4. Head(q) = packed("atstartaction", initial("atstartaction"))
    <3>1. IsSeq(q)
      BY <1>1 DEF ShapeInv
    <3>2. 1 \in DOMAIN q /\ Head(q) = q[1]
      BY <2>3, <3>1, Dropped
    <3>3. QED BY <1>1, <1>5, <3>2 DEF ProcInv
  <2>5. Leaves(NoSocket, OtherAnswer(NoSocket, "atstartaction"), r)
    BY <2>1, <2>4, OthersHandled DEF Parsed
  <2> HIDE DEF r
  <2>6. r.resp = AtStartAnswer
    BY <2>5 DEF Leaves, OtherAnswer
  <2>7. Writable(r.resp)
    <3>1. TopInitialized(Response, AtStartAnswer) /\ Brief(AtStartAnswer, MaxData)
      BY AnswersPass, AnswersBrief DEF Passes
    <3>2. ResponseFits(AtStartAnswer)
      BY <3>1, BriefFits, SizesAssumption
    <3>3. QED BY <2>6, <3>1, <3>2 DEF Writable
  <2> DEFINE e == Tail(q)
             s == r.sock
             p == r.resp
  <2>8. Writes(c, e, s, p) /\ Writable(p)
    BY <2>3, <2>7
  <2> HIDE DEF e, s, p
  <2>9. daemon' = "up"
    BY <2>8 DEF Writes
  <2>10. \A d \in Channels : chan'[d] = chan[d]
    <3>1. \A d \in AllChannels : d # c => chan'[d] = chan[d]
      BY <2>8 DEF Writes, Becomes
    <3>2. QED BY <1>5, <3>1 DEF AllChannels, Channels, ProcChannel
  <2>11. /\ thread' = thread /\ client' = client /\ overlap' = overlap /\ daemon' = daemon
         /\ longest' = longest /\ build' = build
    BY <1>2, <2>3, <2>9 DEF DaemonFrame
  <2>12. QED BY <1>1, <2>10, <2>11, ConvSame
<1>6. CASE ~ overlap /\ c \in Channels
  <2>1. PICK t \in Threads : thread[t].own = c
    BY <1>1, <1>3, <1>6 DEF OwnInv
  <2>2. c # 0
    BY <1>6 DEF Channels
  <2>3. Owns(t)
    BY <1>1, <1>6, <2>1, <2>2, Owner
  <2>4. Talking(t, c)
    BY <1>6, <2>1, <2>2 DEF ConvInv, TalkInv, Talking
  <2>5. Left(t, c)
    BY <1>1, <1>6, <2>4, ReadReadyTalk, AsyncNewPacketTalk, PacketArrivesTalk, ConnEstabTalk
  <2>6. thread' = thread /\ client = "up" /\ client' = client
    BY <1>2 DEF DaemonFrame
  <2>7. TalkTo(t, c)
    BY <2>1, <2>3, <2>5, <2>6 DEF TalkTo, Left, Owns
  <2>8. QED BY <1>6, <2>7, ConvOne
<1>7. QED BY <1>4, <1>5, <1>6 DEF AllChannels

-----------------------------------------------------------------------------
(* What the application makes of an answer.                                 *)

\* What a call returns.
Result(call, ret, buf, addr) == [call |-> call, ret |-> ret, buf |-> buf, addr |-> addr]

\* ... by its members.
LEMMA ResultSet ==
  ASSUME NEW r, r = [m \in {"call", "ret", "buf", "addr"} |-> r[m]],
         NEW call, r["call"] = call, NEW ret, r["ret"] = ret,
         NEW buf, r["buf"] = buf, NEW addr, r["addr"] = addr
  PROVE  r = Result(call, ret, buf, addr)
BY DEF Result

\* The members of NoResult.
LEMMA NoResultHas ==
  /\ NoResult = [m \in {"call", "ret", "buf", "addr"} |-> NoResult[m]]
  /\ NoResult["buf"] = << >> /\ NoResult["addr"] = << >>
<1> DEFINE e == << >>
<1>1. NoResult = [call |-> "none", ret |-> 0, buf |-> e, addr |-> e]
  BY DEF NoResult
<1> HIDE DEF e
<1>2. /\ NoResult = [m \in {"call", "ret", "buf", "addr"} |-> NoResult[m]]
      /\ NoResult["buf"] = e /\ NoResult["addr"] = e
  BY <1>1
<1>3. QED BY <1>2 DEF e

\* A call that reads nothing but ret.
LEMMA DeliverRet ==
  ASSUME ShapeInv, ProcInv, NEW t \in Threads, thread[t].own # 0, NEW o, Deliver(t, o),
         thread[t].call \notin {"getpeernamecall", "getsocknamecall", "recvfromcall"}
  PROVE  IF build = "Debug" /\ o.case # Response__ReturningCase[thread[t].call]
         THEN Ended("assert")
         ELSE \E ret : /\ ret = CHOOSE r \in Deref(o, RetThrough(thread[t].call), "ret") : TRUE
                       /\ Returned(t, Result(thread[t].call, ret, << >>, << >>))
<1> DEFINE call == thread[t].call
           ret == CHOOSE r \in Deref(o, RetThrough(call), "ret") : TRUE
           result == [NoResult EXCEPT !.call = call, !.ret = ret]
           wrong == build = "Debug" /\ o.case # Response__ReturningCase[call]
<1>1. CASE wrong
  BY <1>1 DEF Deliver, Ends, Ended
<1>2. CASE ~ wrong
  <2>1. Returns(t, result)
    BY <1>2 DEF Deliver
  <2>2. result = Result(call, ret, << >>, << >>)
    <3> HIDE DEF ret, call
    <3>1. /\ result = [m \in {"call", "ret", "buf", "addr"} |-> result[m]]
          /\ result["call"] = call /\ result["ret"] = ret
          /\ result["buf"] = << >> /\ result["addr"] = << >>
      BY NoResultHas
    <3> HIDE DEF result
    <3>2. QED BY <3>1, ResultSet
  <2> HIDE DEF result, ret, call
  <2>3. Returned(t, result)
    BY <2>1, Returning
  <2>4. Returned(t, Result(call, ret, << >>, << >>))
    BY <2>2, <2>3
  <2>5. QED BY <1>2, <2>4 DEF ret, call
<1>3. QED BY <1>1, <1>2

\* getpeername and getsockname read an address through the bytes of recvfrom.
LEMMA DeliverName ==
  ASSUME ShapeInv, ProcInv, NEW t \in Threads, thread[t].own # 0, NEW o, Deliver(t, o),
         thread[t].call \in {"getpeernamecall", "getsocknamecall"},
         o.case = Response__ReturningCase[thread[t].call],
         NEW b, Deref(o, "recvfromcall", "buf") = {b}
  PROVE  \E ret : Returned(t, Result(thread[t].call, ret, << >>, b))
<1> DEFINE call == thread[t].call
           ret == CHOOSE r \in Deref(o, RetThrough(call), "ret") : TRUE
           result == [NoResult EXCEPT !.call = call, !.ret = ret]
           res == [result EXCEPT !.addr = b]
<1>0. call \in {"getpeernamecall", "getsocknamecall"} /\ o.case = Response__ReturningCase[call]
  OBVIOUS
<1>n. o.case # Response__ReturningCase["recvfromcall"]
  BY <1>0 DEF Response__ReturningCase
<1>1. Returns(t, res)
  <2>1. \E c \in {b} : Returns(t, [result EXCEPT !.addr = c])
    <3> HIDE DEF res
    <3>1. QED BY <1>0, <1>n DEF Deliver
  <2>2. QED BY <2>1
<1>2. res = Result(call, ret, << >>, b)
  <2> HIDE DEF ret, call
  <2>1. /\ res = [m \in {"call", "ret", "buf", "addr"} |-> res[m]]
        /\ res["call"] = call /\ res["ret"] = ret
        /\ res["buf"] = << >> /\ res["addr"] = b
    BY NoResultHas
  <2> HIDE DEF res
  <2>2. QED BY <2>1, ResultSet
<1> HIDE DEF res, result, ret, call
<1>3. Returned(t, res)
  BY <1>1, Returning
<1>4. Returned(t, Result(call, ret, << >>, b))
  BY <1>2, <1>3
<1>5. QED BY <1>4 DEF call

\* recvfrom reads the bytes, and the address where it asked for one.
LEMMA DeliverRecvfrom ==
  ASSUME ShapeInv, ProcInv, NEW t \in Threads, thread[t].own # 0, NEW o, Deliver(t, o),
         thread[t].call = "recvfromcall",
         o.case = Response__ReturningCase["recvfromcall"],
         NEW ret, Deref(o, "recvfromcall", "ret") = {ret},
         NEW b, Deref(o, "recvfromcall", "buf") = {b},
         NEW a, Deref(o, "recvfromcall", "addr") = {a},
         NEW k, k = IF ret > 0 THEN b ELSE << >>
  PROVE  \/ Len(k) > thread[t].obj["len"] /\ Ended("overrun")
         \/ /\ thread[t].obj["requireaddr"] /\ a = << >>
            /\ \E how \in {"assert", "null"} : Ended(how)
         \/ /\ ~ (thread[t].obj["requireaddr"] /\ a = << >>)
            /\ Returned(t, Result("recvfromcall", ret, k,
                                  IF thread[t].obj["requireaddr"] THEN a ELSE << >>))
<1> DEFINE wants == thread[t].obj["requireaddr"]
           result == [NoResult EXCEPT !.call = "recvfromcall", !.ret = ret]
           addr == IF wants THEN a ELSE << >>
           res == [result EXCEPT !.buf = k, !.addr = addr]
<1>1. CopyOut(t, result, {b}, {a})
  <2>1. RetThrough("recvfromcall") = "recvfromcall"
    BY DEF RetThrough
  <2>2. (CHOOSE r \in {ret} : TRUE) = ret
    OBVIOUS
  <2>3. QED BY <2>1, <2>2 DEF Deliver
<1>2. result.ret = ret
  BY NoResultHas
<1>3. IF \E x \in {k} : Len(x) > thread[t].obj["len"] THEN Ends("overrun")
      ELSE IF wants /\ {a} = {<< >>} THEN Ends(Failing("null"))
      ELSE \E x \in {k}, y \in (IF wants THEN {a} ELSE {<< >>}) :
             Returns(t, [result EXCEPT !.buf = x, !.addr = y])
  <2>1. (IF result.ret > 0 THEN {b} ELSE {<< >>}) = {k} /\ {k} # {} /\ {a} # {}
    BY <1>2
  <2> HIDE DEF result
  <2>2. QED BY <1>1, <2>1 DEF CopyOut
<1>4. CASE Len(k) > thread[t].obj["len"]
  BY <1>3, <1>4 DEF Ends, Ended
<1>5. CASE ~ (Len(k) > thread[t].obj["len"]) /\ wants /\ a = << >>
  BY <1>3, <1>5 DEF Ends, Ended, Failing
<1>6. CASE ~ (Len(k) > thread[t].obj["len"]) /\ ~ (wants /\ a = << >>)
  <2>1. Returns(t, res)
    BY <1>3, <1>6
  <2>2. res = Result("recvfromcall", ret, k, addr)
    <3> HIDE DEF addr
    <3>1. /\ res = [m \in {"call", "ret", "buf", "addr"} |-> res[m]]
          /\ res["call"] = "recvfromcall" /\ res["ret"] = ret
          /\ res["buf"] = k /\ res["addr"] = addr
      BY NoResultHas
    <3> HIDE DEF res
    <3>2. QED BY <3>1, ResultSet
  <2> HIDE DEF res, result, addr
  <2>3. Returned(t, res)
    BY <2>1, Returning
  <2>4. Returned(t, Result("recvfromcall", ret, k, addr))
    BY <2>2, <2>3
  <2>5. QED BY <1>6, <2>4 DEF addr
<1>7. QED BY <1>4, <1>5, <1>6

\* What a call that returns res tells of the socket s: the truth.
Told(th, s, res) ==
  /\ res.call = th.call /\ Settled(s)
  /\ SockAddr(s.faddr) = IF th.call = "connectcall" /\ res.ret = 0 THEN th.obj["addr"] ELSE th.peer
  /\ th.call = "connectcall" =>
       \/ res.ret = 0 /\ s.faddr = th.obj["addr"] /\ s.state = "ESTABLISHED"
       \/ res.ret = EINPROGRESS /\ s.nonblocking /\ s.faddr = NoAddr
  /\ th.call = "recvfromcall" =>
       /\ res.ret = Len(res.buf) \/ (s.nonblocking /\ res.ret = EAGAIN)
       /\ s.kind = "UDP" /\ th.obj["requireaddr"] => res.addr \in Peers
  /\ th.call = "getpeernamecall" => res.addr = th.peer
  /\ th.call = "getsocknamecall" => res.addr = LocalAddr(s)

\* The end of a call on the socket s: it returns what is true, or ends the program with a cause.
Met(t, s, n) ==
  \/ \E res : Returned(t, res) /\ Told(thread[t], s, res)
  \/ \E how : Ended(how) /\ Unreadable(thread[t], s, how, n)

\* An answer with a result is written and read, for what it is.
LEMMA ReadAnswer ==
  ASSUME NEW call \in Answering, NEW members, "ret" \in DOMAIN members
  PROVE  LET r == AnswerWith("OK", call, members)
         IN  /\ Passes(r) /\ Arrived(r).plain["retcode"] # RetCode.WAIT_NEXT
             /\ Arrived(r).case = Response__ReturningCase[call]
<1> DEFINE r == AnswerWith("OK", call, members)
<1>1. call \in Calls /\ Complete(call, members)
  BY ResultsInitialized
<1>2. Passes(r) /\ IsAnswer(Arrived(r), "OK", call, members)
  BY <1>1, AnswerRead
<1>3. RetCode["OK"] # RetCode.WAIT_NEXT
  BY DEF RetCode
<1> HIDE DEF r
<1>4. QED BY <1>2, <1>3 DEF IsAnswer, r

\* The end of a connect.
LEMMA ConnectMet ==
  ASSUME ShapeInv, ProcInv, NEW t \in Threads, thread[t].own # 0, NEW r, Deliver(t, Arrived(r)),
         NEW s, thread[t].call = "connectcall", FinalConnect(thread[t], s, r), r # NoCode, NEW n
  PROVE  Met(t, s, n)
<1> DEFINE th == thread[t]
           call == "connectcall"
           o == Arrived(r)
<1>1. IF build = "Debug" /\ o.case # Response__ReturningCase[call]
      THEN Ended("assert")
      ELSE \E ret : /\ ret = CHOOSE x \in Deref(o, call, "ret") : TRUE
                    /\ Returned(t, Result(call, ret, << >>, << >>))
  <2>1. RetThrough(call) = call
    BY DEF RetThrough
  <2> HIDE DEF o
  <2>2. th.call \notin {"getpeernamecall", "getsocknamecall", "recvfromcall"}
    OBVIOUS
  <2>3. QED BY <2>1, <2>2, DeliverRet DEF o
<1> HIDE DEF o
<1>2. CASE /\ r = Answer("OK", "connectcall", 0)
           /\ s.kind = "TCP" /\ ~ s.nonblocking
           /\ s.faddr = th.obj["addr"] /\ s.faddr \in Peers /\ s.state = "ESTABLISHED"
  <2> DEFINE members == [ret |-> 0]
  <2>1. "ret" \in DOMAIN members /\ members["ret"] = 0
    OBVIOUS
  <2>2. r = AnswerWith("OK", "connectcall", members)
    BY <1>2 DEF Answer
  <2> HIDE DEF members
  <2>3. o.case = Response__ReturningCase[call]
    BY <2>1, <2>2, ReadAnswer DEF Answering, o
  <2>4. Deref(o, call, "ret") = {0}
    BY <2>1, <2>2, ConnectRead DEF o
  <2>5. (CHOOSE x \in {0} : TRUE) = 0
    OBVIOUS
  <2>6. Returned(t, Result(call, 0, << >>, << >>))
    BY <1>1, <2>3, <2>4, <2>5
  <2>7. Result(call, 0, << >>, << >>).ret = 0 /\ Result(call, 0, << >>, << >>).call = call
    BY DEF Result
  <2>8. s.faddr # NoAddr
    <3>1. \A x \in Peers : x # << >>
      BY PeersNotEmpty
    <3>2. QED BY <1>2, <3>1 DEF NoAddr
  <2>9. Settled(s) /\ SockAddr(s.faddr) = th.obj["addr"]
    BY <1>2, <2>8 DEF FinalConnect, Settled, SockAddr
  <2> DEFINE res == Result(call, 0, << >>, << >>)
  <2>10. res.ret = 0 /\ res.call = call
    BY <2>7
  <2> HIDE DEF res
  <2>11. Told(th, s, res)
    BY <1>2, <2>9, <2>10 DEF Told
  <2>12. QED BY <2>6, <2>11 DEF Met, res
<1>3. CASE /\ r = Answer("OK", "recvfromcall", EINPROGRESS)
           /\ Rest(th, s) /\ s.kind = "TCP" /\ s.nonblocking
  <2> DEFINE members == [ret |-> EINPROGRESS]
  <2>1. "ret" \in DOMAIN members /\ members["ret"] = EINPROGRESS
    OBVIOUS
  <2>2. r = AnswerWith("OK", "recvfromcall", members)
    BY <1>3 DEF Answer
  <2> HIDE DEF members
  <2>3. Deref(o, call, "ret") = {EINPROGRESS}
    BY <2>1, <2>2, RecvfromRead DEF o
  <2>4. CASE build = "Debug" /\ o.case # Response__ReturningCase[call]
    <3>1. Ended("assert")
      BY <1>1, <2>4
    <3>2. Unreadable(th, s, "assert", n)
      BY <1>3 DEF Unreadable
    <3>3. QED BY <3>1, <3>2 DEF Met
  <2>5. CASE ~ (build = "Debug" /\ o.case # Response__ReturningCase[call])
    <3>1. (CHOOSE x \in {EINPROGRESS} : TRUE) = EINPROGRESS
      OBVIOUS
    <3> DEFINE res == Result(call, EINPROGRESS, << >>, << >>)
    <3>2. Returned(t, res)
      BY <1>1, <2>3, <2>5, <3>1
    <3>3. res.ret = EINPROGRESS /\ res.call = call
      BY DEF Result
    <3> HIDE DEF res
    <3>4. EINPROGRESS # 0
      BY DEF EINPROGRESS
    <3>5. Settled(s) /\ s.faddr = NoAddr /\ th.peer = SockAddr(s.faddr)
      BY <1>3 DEF Rest, Settled
    <3>6. Told(th, s, res)
      BY <1>3, <3>3, <3>4, <3>5 DEF Told
    <3>7. QED BY <3>2, <3>6 DEF Met
  <2>6. QED BY <2>4, <2>5
<1>4. QED BY <1>2, <1>3 DEF FinalConnect

\* The end of a recvfrom.
LEMMA RecvfromMet ==
  ASSUME ShapeInv, ProcInv, NEW t \in Threads, thread[t].own # 0, NEW r, Deliver(t, Arrived(r)),
         NEW s, thread[t].call = "recvfromcall", FinalRecvfrom(thread[t], s, r),
         thread[t].obj \in Asks("recvfromcall"), NEW n \in Nat, Brief(r, n)
  PROVE  Met(t, s, n)
<1> DEFINE th == thread[t]
           call == "recvfromcall"
           o == Arrived(r)
           wants == th.obj["requireaddr"]
<1>1. Rest(th, s)
  BY DEF FinalRecvfrom
<1>2. ASSUME NEW members, "ret" \in DOMAIN members, r = AnswerWith("OK", "recvfromcall", members),
             NEW b, b = IF Has(members, "buf") THEN members["buf"] ELSE << >>,
             NEW a, a = IF Has(members, "addr") THEN members["addr"] ELSE << >>,
             \/ members["ret"] = Len(b) /\ Len(b) \in 0 .. n
             \/ s.nonblocking /\ members["ret"] = EAGAIN /\ b = << >>,
             s.kind = "UDP" /\ wants => a \in Peers \/ (a = << >> /\ s.nonblocking)
      PROVE  Met(t, s, n)
  <2>1. /\ Deref(o, call, "ret") = {members["ret"]}
        /\ Deref(o, call, "buf") = {b} /\ Deref(o, call, "addr") = {a}
    BY <1>2, RecvfromRead
  <2>2. o.case = Response__ReturningCase[call]
    BY <1>2, ReadAnswer DEF Answering
  <2> DEFINE ret == members["ret"]
  <2> DEFINE k == IF ret > 0 THEN b ELSE << >>
  <2>3. Deref(o, call, "ret") = {ret}
    BY <2>1
  <2>4. /\ ret = Len(k) \/ (s.nonblocking /\ ret = EAGAIN)
        /\ Len(k) \in 0 .. n
    <3>1. Len(<< >>) = 0
      OBVIOUS
    <3>2. CASE ret = Len(b) /\ Len(b) \in 0 .. n
      BY <3>1, <3>2
    <3>3. CASE s.nonblocking /\ ret = EAGAIN /\ b = << >>
      BY <3>1, <3>3
    <3>4. QED BY <1>2, <3>2, <3>3
  <2> HIDE DEF o, ret, k
  <2>5. \/ Len(k) > th.obj["len"] /\ Ended("overrun")
        \/ wants /\ a = << >> /\ \E how \in {"assert", "null"} : Ended(how)
        \/ /\ ~ (wants /\ a = << >>)
           /\ Returned(t, Result(call, ret, k, IF wants THEN a ELSE << >>))
    BY <2>1, <2>2, <2>3, DeliverRecvfrom DEF o, k
  <2>6. CASE Len(k) > th.obj["len"] /\ Ended("overrun")
    <3>1. th.obj["len"] \in Nat
      BY AskedRecvfrom
    <3>2. th.obj["len"] < n
      BY <2>4, <2>6, <3>1
    <3>3. Unreadable(th, s, "overrun", n)
      BY <3>2 DEF Unreadable
    <3>4. QED BY <2>6, <3>3 DEF Met
  <2>7. CASE wants /\ a = << >> /\ \E how \in {"assert", "null"} : Ended(how)
    <3>1. PICK how \in {"assert", "null"} : Ended(how)
      BY <2>7
    <3>2. a \notin Peers
      <4>1. \A x \in Peers : x # << >>
        BY PeersNotEmpty
      <4>2. QED BY <2>7, <4>1
    <3>3. s.kind = "TCP" \/ s.nonblocking
      BY <1>1, <1>2, <2>7, <3>2 DEF Rest, Settled, Made
    <3>4. Unreadable(th, s, how, n)
      BY <2>7, <3>3 DEF Unreadable
    <3>5. QED BY <3>1, <3>4 DEF Met
  <2>8. CASE /\ ~ (wants /\ a = << >>)
             /\ Returned(t, Result(call, ret, k, IF wants THEN a ELSE << >>))
    <3> DEFINE d == IF wants THEN a ELSE << >>
               res == Result(call, ret, k, d)
    <3>1. Returned(t, res)
      BY <2>8
    <3>2. s.kind = "UDP" /\ wants => d \in Peers
      BY <1>2, <2>8
    <3> HIDE DEF d
    <3>3. res.call = call /\ res.ret = ret /\ res.buf = k /\ res.addr = d
      BY DEF Result
    <3> HIDE DEF res
    <3>4. Settled(s) /\ SockAddr(s.faddr) = th.peer
      BY <1>1 DEF Rest
    <3>5. Told(th, s, res)
      BY <2>4, <3>2, <3>3, <3>4 DEF Told
    <3>6. QED BY <3>1, <3>5 DEF Met
  <2>9. QED BY <2>5, <2>6, <2>7, <2>8
<1>3. CASE r = Answer("OK", "recvfromcall", EAGAIN) /\ s.nonblocking
  <2> DEFINE members == [ret |-> EAGAIN]
             e == << >>
  <2>1. /\ "ret" \in DOMAIN members /\ members["ret"] = EAGAIN
        /\ ~ Has(members, "buf") /\ ~ Has(members, "addr")
    BY DEF Has
  <2>2. r = AnswerWith("OK", "recvfromcall", members)
    BY <1>3 DEF Answer
  <2> HIDE DEF members
  <2>3. /\ e = IF Has(members, "buf") THEN members["buf"] ELSE << >>
        /\ e = IF Has(members, "addr") THEN members["addr"] ELSE << >>
    BY <2>1
  <2>4. QED BY <1>2, <1>3, <2>1, <2>2, <2>3
<1>4. ASSUME NEW p, NEW w \in BOOLEAN, r = PacketAnswer(p, w),
             s.kind = "UDP" => p.from \in Peers /\ w = th.obj["requireaddr"]
      PROVE  Met(t, s, n)
  <2> DEFINE members == IF w THEN [ret |-> Len(p.data), buf |-> p.data, addr |-> p.from]
                        ELSE [ret |-> Len(p.data), buf |-> p.data]
             b == p.data
             a == IF w THEN p.from ELSE << >>
  <2>1. r = AnswerWith("OK", "recvfromcall", members)
    BY <1>4 DEF PacketAnswer
  <2>2. /\ "ret" \in DOMAIN members /\ members["ret"] = Len(b)
        /\ Has(members, "buf") /\ members["buf"] = b
        /\ Has(members, "addr") <=> w
        /\ w => members["addr"] = p.from
    <3>1. CASE w
      BY <3>1 DEF Has
    <3>2. CASE ~ w
      BY <3>2 DEF Has
    <3>3. QED BY <3>1, <3>2
  <2>l. Len(b) \in 0 .. n
    BY <1>4, AnswersBrief
  <2> HIDE DEF members, b
  <2>3. a = IF Has(members, "addr") THEN members["addr"] ELSE << >>
    BY <2>2
  <2>4. s.kind = "UDP" /\ wants => a \in Peers
    BY <1>4
  <2> HIDE DEF a, wants
  <2>5. b = IF Has(members, "buf") THEN members["buf"] ELSE << >>
    BY <2>2
  <2>6. QED BY <1>2, <2>l, <2>1, <2>2, <2>3, <2>4, <2>5 DEF wants
<1>5. QED BY <1>3, <1>4 DEF FinalRecvfrom

\* The end of a call that only asked for a socket, or changed nothing the application sees.
LEMMA PlainMet ==
  ASSUME ShapeInv, ProcInv, NEW t \in Threads, thread[t].own # 0, NEW r, Deliver(t, Arrived(r)),
         NEW s, thread[t].call \in {"socketcall", "closecall", "sendtocall"}, Rest(thread[t], s),
         NEW v, r = Answer("OK", thread[t].call, v), NEW n
  PROVE  Met(t, s, n)
<1> DEFINE th == thread[t]
           call == th.call
           o == Arrived(r)
           members == [ret |-> v]
<1>1. "ret" \in DOMAIN members /\ r = AnswerWith("OK", call, members)
  BY DEF Answer
<1> HIDE DEF members
<1>2. o.case = Response__ReturningCase[call]
  BY <1>1, ReadAnswer DEF Answering
<1> HIDE DEF o
<1>3. th.call \notin {"getpeernamecall", "getsocknamecall", "recvfromcall"}
  OBVIOUS
<1>4. PICK ret : Returned(t, Result(call, ret, << >>, << >>))
  BY <1>2, <1>3, DeliverRet DEF o
<1> DEFINE res == Result(call, ret, << >>, << >>)
<1>5. Returned(t, res) /\ res.call = call
  BY <1>4 DEF Result
<1> HIDE DEF res
<1>6. Settled(s) /\ SockAddr(s.faddr) = th.peer
  BY DEF Rest
<1>7. Told(th, s, res)
  BY <1>5, <1>6 DEF Told
<1>8. QED BY <1>5, <1>7 DEF Met

\* The end of getpeername and of getsockname, which were answered a.
LEMMA NameMet ==
  ASSUME ShapeInv, ProcInv, NEW t \in Threads, thread[t].own # 0, NEW r, Deliver(t, Arrived(r)),
         NEW s, Rest(thread[t], s), NEW a, NEW n,
         \/ /\ thread[t].call = "getpeernamecall" /\ a = thread[t].peer
            /\ r = AnswerWith("OK", "getpeernamecall", [ret |-> 0, peername |-> a])
         \/ /\ thread[t].call = "getsocknamecall" /\ a = LocalAddr(s)
            /\ r = AnswerWith("OK", "getsocknamecall", [ret |-> 0, sockanme |-> a])
  PROVE  Met(t, s, n)
<1> DEFINE th == thread[t]
           call == th.call
           o == Arrived(r)
<1>1. /\ o.case = Response__ReturningCase[call] /\ Deref(o, "recvfromcall", "buf") = {a}
      /\ call \in {"getpeernamecall", "getsocknamecall"}
  <2>1. CASE /\ call = "getpeernamecall"
             /\ r = AnswerWith("OK", "getpeernamecall", [ret |-> 0, peername |-> a])
    <3> DEFINE members == [ret |-> 0, peername |-> a]
    <3>1. "ret" \in DOMAIN members /\ "peername" \in DOMAIN members /\ members["peername"] = a
      OBVIOUS
    <3>2. r = AnswerWith("OK", "getpeernamecall", members)
      BY <2>1
    <3> HIDE DEF members
    <3>3. QED BY <2>1, <3>1, <3>2, ReadAnswer, GetpeernameRead DEF Answering
  <2>2. CASE /\ call = "getsocknamecall"
             /\ r = AnswerWith("OK", "getsocknamecall", [ret |-> 0, sockanme |-> a])
    <3> DEFINE members == [ret |-> 0, sockanme |-> a]
    <3>1. "ret" \in DOMAIN members /\ "sockanme" \in DOMAIN members /\ members["sockanme"] = a
      OBVIOUS
    <3>2. r = AnswerWith("OK", "getsocknamecall", members)
      BY <2>2
    <3> HIDE DEF members
    <3>3. QED BY <2>2, <3>1, <3>2, ReadAnswer, GetsocknameRead DEF Answering
  <2>3. QED BY <2>1, <2>2
<1> HIDE DEF o
<1>2. PICK ret : Returned(t, Result(call, ret, << >>, a))
  BY <1>1, DeliverName DEF o
<1> DEFINE res == Result(call, ret, << >>, a)
<1>3. Returned(t, res) /\ res.call = call /\ res.addr = a
  BY <1>2 DEF Result
<1> HIDE DEF res
<1>4. Settled(s) /\ SockAddr(s.faddr) = th.peer
  BY DEF Rest
<1>5. Told(th, s, res)
  BY <1>1, <1>3, <1>4 DEF Told
<1>6. QED BY <1>3, <1>5 DEF Met

\* The end of a call that is delivered its last answer.
LEMMA FinalMet ==
  ASSUME ShapeInv, ProcInv, NEW t \in Threads, thread[t].own # 0, NEW r, Deliver(t, Arrived(r)),
         NEW s, Final(thread[t], s, r), r # NoCode, thread[t].obj \in Asks(thread[t].call),
         NEW n \in Nat, Brief(r, n)
  PROVE  Met(t, s, n)
<1> DEFINE th == thread[t]
<1>1. CASE th.call = "connectcall"
  <2>1. FinalConnect(th, s, r)
    BY <1>1 DEF Final
  <2>2. QED BY <1>1, <2>1, ConnectMet
<1>2. CASE th.call = "recvfromcall"
  <2>1. FinalRecvfrom(th, s, r)
    BY <1>2 DEF Final
  <2>2. QED BY <1>2, <2>1, RecvfromMet
<1>3. CASE th.call \in {"socketcall", "closecall", "sendtocall"}
  <2>1. Rest(th, s) /\ \E v : r = Answer("OK", th.call, v)
    BY <1>3 DEF Final
  <2>2. QED BY <1>3, <2>1, PlainMet
<1>4. CASE th.call = "getpeernamecall"
  <2> DEFINE a == th.peer
  <2>1. Rest(th, s) /\ r = AnswerWith("OK", "getpeernamecall", [ret |-> 0, peername |-> a])
    BY <1>4 DEF Final
  <2>2. a = th.peer
    OBVIOUS
  <2> HIDE DEF a
  <2>3. QED BY <1>4, <2>1, <2>2, NameMet
<1>5. CASE th.call = "getsocknamecall"
  <2> DEFINE a == LocalAddr(s)
  <2>1. Rest(th, s) /\ r = AnswerWith("OK", "getsocknamecall", [ret |-> 0, sockanme |-> a])
    BY <1>5 DEF Final
  <2>2. a = LocalAddr(s)
    OBVIOUS
  <2> HIDE DEF a
  <2>3. QED BY <1>5, <2>1, <2>2, NameMet
<1>6. QED BY <1>1, <1>2, <1>3, <1>4, <1>5 DEF Final

\* A last answer is not WAIT_NEXT, and can be read, but for that to connect on UDP.
LEMMA FinalReads ==
  ASSUME NEW th, NEW s, NEW r, Final(th, s, r), NEW n
  PROVE  IF r = NoCode THEN Unreadable(th, s, "null", n)
         ELSE Passes(r) /\ Arrived(r).plain["retcode"] # RetCode.WAIT_NEXT
<1>1. ASSUME NEW call \in Answering, NEW members, "ret" \in DOMAIN members,
             r = AnswerWith("OK", call, members)
      PROVE  r # NoCode /\ Passes(r) /\ Arrived(r).plain["retcode"] # RetCode.WAIT_NEXT
  <2>1. Passes(r) /\ Arrived(r).plain["retcode"] # RetCode.WAIT_NEXT
    BY <1>1, ReadAnswer
  <2>2. QED BY <2>1, NoCodeRead DEF Passes
<1>2. ASSUME NEW call \in Answering, NEW v, r = Answer("OK", call, v)
      PROVE  r # NoCode /\ Passes(r) /\ Arrived(r).plain["retcode"] # RetCode.WAIT_NEXT
  <2> DEFINE members == [ret |-> v]
  <2>1. "ret" \in DOMAIN members /\ r = AnswerWith("OK", call, members)
    BY <1>2 DEF Answer
  <2> HIDE DEF members
  <2>2. QED BY <1>1, <2>1
<1>3. CASE th.call = "connectcall"
  <2>1. FinalConnect(th, s, r)
    BY <1>3 DEF Final
  <2>2. CASE r = NoCode /\ s.kind = "UDP" /\ s.faddr # NoAddr
    BY <2>2 DEF Unreadable
  <2>3. CASE r = Answer("OK", "connectcall", 0) \/ r = Answer("OK", "recvfromcall", EINPROGRESS)
    BY <1>2, <2>3 DEF Answering
  <2>4. QED BY <2>1, <2>2, <2>3 DEF FinalConnect
<1>4. CASE th.call = "recvfromcall"
  <2>1. FinalRecvfrom(th, s, r)
    BY <1>4 DEF Final
  <2>2. CASE r = Answer("OK", "recvfromcall", EAGAIN)
    BY <1>2, <2>2 DEF Answering
  <2>3. ASSUME NEW p, NEW w, r = PacketAnswer(p, w)
        PROVE  r # NoCode /\ Passes(r) /\ Arrived(r).plain["retcode"] # RetCode.WAIT_NEXT
    <3> DEFINE members == IF w THEN [ret |-> Len(p.data), buf |-> p.data, addr |-> p.from]
                          ELSE [ret |-> Len(p.data), buf |-> p.data]
    <3>1. "ret" \in DOMAIN members /\ r = AnswerWith("OK", "recvfromcall", members)
      BY <2>3 DEF PacketAnswer
    <3> HIDE DEF members
    <3>2. QED BY <1>1, <3>1 DEF Answering
  <2>4. QED BY <2>1, <2>2, <2>3 DEF FinalRecvfrom
<1>5. CASE th.call \in {"socketcall", "closecall", "sendtocall"}
  BY <1>2, <1>5 DEF Final, Answering
<1>6. CASE th.call = "getpeernamecall"
  <2> DEFINE members == [ret |-> 0, peername |-> th.peer]
  <2>1. "ret" \in DOMAIN members /\ r = AnswerWith("OK", "getpeernamecall", members)
    BY <1>6 DEF Final
  <2> HIDE DEF members
  <2>2. QED BY <1>1, <2>1 DEF Answering
<1>7. CASE th.call = "getsocknamecall"
  <2> DEFINE members == [ret |-> 0, sockanme |-> LocalAddr(s)]
  <2>1. "ret" \in DOMAIN members /\ r = AnswerWith("OK", "getsocknamecall", members)
    BY <1>7 DEF Final
  <2> HIDE DEF members
  <2>2. QED BY <1>1, <2>1 DEF Answering
<1>8. QED BY <1>3, <1>4, <1>5, <1>6, <1>7 DEF Final

-----------------------------------------------------------------------------
(* The steps of the application keep the conversation.                      *)

\* A step of the thread that has the socket.
LEMMA ConvThread ==
  ASSUME SafeOwn, ~ overlap, NEW t \in Threads, thread[t].own # 0,
         NEW x, ThreadTo(t, x), x.own = thread[t].own, NEW c, c = thread[t].own,
         Talk(x, chan'[c], daemon', client', longest'),
         client' # "up" => \/ Stranded(daemon', client')
                           \/ Excuse(x, chan'[c].sock, client', longest', build')
  PROVE  ConvInv'
<1>1. Owns(t)
  BY Owner, ShapesOf DEF SafeOwn
<1>2. c \in Channels
  BY <1>1 DEF Owns
<1>3. TalkTo(t, c)
  BY <1>1 DEF TalkTo, ThreadTo, Owns
<1>4. QED BY <1>2, <1>3, ConvOne

\* The conversation of a thread that has a socket.
LEMMA ConvOf ==
  ASSUME SafeOwn, ConvInv, ~ overlap, NEW t \in Threads, thread[t].own # 0, NEW c, c = thread[t].own
  PROVE  /\ Owns(t) /\ c \in Channels /\ c \in AllChannels /\ c # 0
         /\ Talk(thread[t], chan[c], daemon, client, longest)
<1>1. Owns(t)
  BY Owner, ShapesOf DEF SafeOwn
<1>2. c \in Channels /\ c \in AllChannels
  BY <1>1 DEF Owns, AllChannels
<1>3. QED BY <1>1, <1>2 DEF ConvInv, TalkInv

\* The answer to atstart is read.
LEMMA AtStartConv ==
  ASSUME SafeOwn, ConvInv, AtStart
  PROVE  ConvInv'
<1>1. ShapeInv /\ ProcInv
  BY ShapesOf DEF SafeOwn
<1>2. UNCHANGED <<build, daemon, client, thread, overlap, longest>>
  BY <1>1, Starting DEF Frame
<1>3. \A d \in Channels : chan'[d] = chan[d]
  <2>1. \A d \in AllChannels : d # ProcChannel => chan'[d] = chan[d]
    BY <1>1, Starting DEF Becomes
  <2>2. QED BY <2>1 DEF AllChannels, Channels, ProcChannel
<1>4. QED BY <1>1, <1>2, <1>3, ConvSame

\* A socket is asked for.
LEMMA SocketConv ==
  ASSUME SafeOwn, ConvInv, NEW t \in Threads, NEW type \in SocketTypes, Socket(t, type)
  PROVE  ConvInv'
<1>1. ShapeInv /\ ProcInv /\ FreshInv /\ OwnInv
  BY ShapesOf DEF SafeOwn
<1>2. PICK c \in Channels : c = opened'
  BY <1>1, NewSocket
<1>3. /\ client = "up" /\ daemon = "up" /\ UNCHANGED <<daemon, client>>
      /\ overlap' = (overlap \/ \E d \in Channels : chan[d].open)
  BY <1>1, NewSocket DEF ClientFrame, Frame
<1>4. PICK obj \in Asks("socketcall") :
        /\ Becomes(c, TRUE, <<packed("socketcall", obj)>>, << >>, NoSocket)
        /\ ThreadTo(t, [pc |-> "reading", call |-> "socketcall", obj |-> obj, ch |-> c,
                        own |-> c, fd |-> startfd, peer |-> <<0, 0>>, res |-> NoResult])
  BY <1>1, <1>2, NewSocket
<1>5. CASE overlap'
  BY <1>5, ConvOverlap
<1>6. CASE ~ overlap'
  <2>1. ~ overlap /\ \A d \in Channels : ~ chan[d].open
    BY <1>3, <1>6
  <2>2. \A u \in Threads : thread[u].own = 0
    BY <1>1, <2>1, Owner DEF Owns
  <2> DEFINE p == <<0, 0>>
             x == [pc |-> "reading", call |-> "socketcall", obj |-> obj, ch |-> c,
                   own |-> c, fd |-> startfd, peer |-> p, res |-> NoResult]
  <2>3. ThreadTo(t, x)
    BY <1>4
  <2> HIDE DEF p
  <2>4. /\ x.own = c /\ x.pc = "reading" /\ x.call = "socketcall" /\ x.obj = obj
        /\ x.peer = p /\ x.res.call = "none"
    BY DEF NoResult
  <2> HIDE DEF x
  <2>5. /\ thread'[t] = x /\ \A u \in Threads : u # t => thread'[u].own = 0
    BY <2>2, <2>3 DEF ThreadTo
  <2>6. ChanIs(c, <<packed("socketcall", obj)>>, << >>, NoSocket)
    BY <1>4 DEF Becomes, ChanIs
  <2>7. InCall(x)
    BY <2>4 DEF InCall
  <2>8. Asked(x, chan'[c])
    BY <2>4, <2>6, <2>7 DEF Asked, ChanIs, p
  <2>9. Talk(x, chan'[c], daemon', client', longest')
    BY <1>3, <2>8 DEF Talk
  <2>10. TalkTo(t, c)
    BY <1>3, <2>4, <2>5, <2>9 DEF TalkTo
  <2>11. QED BY <2>10, ConvOne
<1>7. QED BY <1>5, <1>6

\* A socket is asked of a daemon that is gone: another thread may be in its call.
LEMMA RefusedConv ==
  ASSUME SafeOwn, ConvInv, NEW t \in Threads, SocketRefused(t)
  PROVE  ConvInv'
<1>1. /\ daemon # "up" /\ daemon' = daemon /\ client' = "exit" /\ longest' = longest
      /\ UNCHANGED <<chan, thread, overlap>>
  BY Refused DEF ClientFrame, Frame
<1>2. Stranded(daemon', client')
  BY <1>1 DEF Stranded
<1>3. CASE overlap
  BY <1>1, <1>3, ConvOverlap
<1>4. CASE \A u \in Threads : thread[u].own = 0
  BY <1>1, <1>2, <1>4, ConvNone
<1>5. ASSUME ~ overlap, NEW u \in Threads, thread[u].own # 0
      PROVE  ConvInv'
  <2>1. PICK c \in Channels : c = thread[u].own
    BY <1>5, ConvOf
  <2>2. Owns(u) /\ Talk(thread[u], chan[c], daemon, client, longest)
    BY <1>5, <2>1, ConvOf
  <2>3. InCall(thread[u])
    BY <1>1, <2>2 DEF Talk, Over
  <2>4. Over(thread'[u], chan'[c], daemon', client')
    BY <1>1, <2>3 DEF Over
  <2>5. TalkTo(u, c)
    BY <1>1, <1>2, <2>1, <2>2, <2>4 DEF TalkTo, Talk, Owns
  <2>6. QED BY <2>5, ConvOne
<1>6. QED BY <1>3, <1>4, <1>5

\* A Request is sent where nothing was under way, or ends the application.
LEMMA SendConv ==
  ASSUME SafeOwn, ConvInv, NEW t \in Threads, NEW call \in SocketCalls, Send(t, call)
  PROVE  ConvInv'
<1>1. ShapeInv /\ ProcInv /\ OwnInv
  BY ShapesOf DEF SafeOwn
<1> DEFINE th == thread[t]
<1>2. /\ client = "up" /\ UNCHANGED <<build, daemon, overlap, longest>>
      /\ th.own # 0 /\ th.pc = "idle"
  BY <1>1, Sending DEF ClientFrame, Frame
<1>3. CASE overlap
  BY <1>2, <1>3, ConvOverlap
<1>4. CASE ~ overlap
  <2>1. PICK c \in Channels : c = th.own
    BY <1>2, <1>4, ConvOf
  <2>2. /\ Owns(t) /\ c # 0 /\ Talk(th, chan[c], daemon, client, longest)
    BY <1>2, <1>4, <2>1, ConvOf
  <2>3. table[0] = c
    BY <2>1, <2>2 DEF Owns
  <2>4. Quiet(th, chan[c]) /\ daemon = "up"
    BY <1>2, <2>2 DEF Talk, Over, InCall, Asked, Answered, Awaited
  <2> DEFINE q(o) == Append(chan[c].req, packed(call, o))
             x(o) == [pc |-> "sent", call |-> call, obj |-> o, ch |-> th.ch, own |-> th.own,
                      fd |-> th.fd, peer |-> th.peer, res |-> NoResult]
  <2>5. PICK obj \in Objects(call) : Sends(call, obj) /\ ThreadTo(t, x(obj))
    BY <1>1, <2>2, <2>3, Sending
  <2> DEFINE y == x(obj)
             w == packed(call, obj)
  <2>6. /\ y.own = c /\ y.pc = "sent" /\ y.call = call /\ y.obj = obj
        /\ y.peer = th.peer /\ y.res.call = "none"
    BY <2>1 DEF NoResult
  <2>7. ThreadTo(t, y) /\ y.own = thread[t].own
    BY <2>1, <2>5, <2>6
  <2>8. CASE client' = client /\ Becomes(c, chan[c].open, q(obj), chan[c].resp, chan[c].sock)
    <3>1. q(obj) = <<w>>
      <4>1. chan[c].req = << >>
        BY <2>4 DEF Quiet
      <4>2. Append(<< >>, w) = <<w>>
        OBVIOUS
      <4>3. QED BY <4>1, <4>2
    <3>2. ChanIs(c, <<w>>, chan[c].resp, chan[c].sock)
      BY <2>8, <3>1 DEF Becomes, ChanIs
    <3> HIDE DEF y, q, x
    <3>3. obj \in Asks(call)
      BY DEF Asks, SocketCalls
    <3>4. /\ chan[c].resp = << >> /\ chan[c].sock.waiting = "no" /\ Rest(y, chan[c].sock)
      BY <2>4, <2>6 DEF Quiet, Rest
    <3>5. Asked(y, chan'[c])
      BY <2>6, <3>2, <3>3, <3>4 DEF Asked, InCall, ChanIs
    <3>6. Talk(y, chan'[c], daemon', client', longest')
      BY <1>2, <2>4, <2>8, <3>5 DEF Talk
    <3>7. QED BY <1>2, <1>4, <2>1, <2>7, <2>8, <3>6, ConvThread
  <2>9. CASE ~ RequestFits(call, obj) /\ client' = Failing("overrun")
    <3> HIDE DEF y, q, x
    <3>1. client' = IF build' = "Debug" THEN "assert" ELSE "overrun"
      BY <1>2, <2>9 DEF Failing
    <3>2. Talk(y, chan'[c], daemon', client', longest')
      BY <2>6, <3>1 DEF Talk, Over, InCall
    <3>3. Excuse(y, chan'[c].sock, client', longest', build')
      BY <2>6, <2>9, <3>1 DEF Excuse
    <3>4. QED BY <1>2, <1>4, <2>1, <2>7, <3>2, <3>3, ConvThread
  <2>10. \/ client' = client /\ Becomes(c, chan[c].open, q(obj), chan[c].resp, chan[c].sock)
         \/ ~ RequestFits(call, obj) /\ client' = Failing("overrun")
    <3> HIDE DEF x
    <3>1. QED BY <2>2, <2>3, <2>4, <2>5 DEF Sends
  <2>11. QED BY <2>8, <2>9, <2>10
<1>5. QED BY <1>3, <1>4

\* The channel is looked up: the conversation is the same.
LEMMA LookupConv ==
  ASSUME SafeOwn, ConvInv, NEW t \in Threads, Lookup(t)
  PROVE  ConvInv'
<1>1. ShapeInv /\ ProcInv /\ OwnInv
  BY ShapesOf DEF SafeOwn
<1> DEFINE th == thread[t]
           ch == table[0]
           x == [pc |-> IF ch = 0 THEN "stray" ELSE "reading", call |-> th.call,
                 obj |-> th.obj, ch |-> ch, own |-> th.own, fd |-> th.fd,
                 peer |-> th.peer, res |-> th.res]
<1>2. /\ client = "up" /\ UNCHANGED <<daemon, client, chan, overlap, longest>>
      /\ th.own # 0 /\ th.pc = "sent" /\ ThreadTo(t, x)
  BY <1>1, LookedUp DEF ClientFrame, Frame
<1>3. CASE overlap
  BY <1>2, <1>3, ConvOverlap
<1>4. CASE ~ overlap
  <2>1. PICK c \in Channels : c = th.own
    BY <1>2, <1>4, ConvOf
  <2>2. /\ Owns(t) /\ c # 0 /\ Talk(th, chan[c], daemon, client, longest)
    BY <1>2, <1>4, <2>1, ConvOf
  <2>3. table[0] = c
    BY <2>1, <2>2 DEF Owns
  <2>4. /\ x.own = th.own /\ x.pc = "reading" /\ x.call = th.call /\ x.obj = th.obj
        /\ x.peer = th.peer /\ x.res = th.res
    BY <2>2, <2>3
  <2> HIDE DEF x, th
  <2>5. InCall(x) <=> InCall(th)
    BY <1>2, <2>4 DEF InCall
  <2>6. \A s : Rest(x, s) <=> Rest(th, s)
    BY <2>4 DEF Rest
  <2>7. Asked(th, chan[c]) => Asked(x, chan[c])
    BY <2>4, <2>5, <2>6 DEF Asked
  <2>8. \A s, r : Final(th, s, r) => Final(x, s, r)
    BY <2>4, <2>6 DEF Final, FinalConnect, FinalRecvfrom
  <2>9. Answered(th, chan[c], longest) => Answered(x, chan[c], longest)
    BY <2>4, <2>5, <2>8 DEF Answered
  <2>10. Awaited(th, chan[c]) => Awaited(x, chan[c])
    BY <2>4, <2>5, <2>6 DEF Awaited, Awaits
  <2>11. Over(th, chan[c], daemon, client) => Over(x, chan[c], daemon, client)
    BY <2>5 DEF Over
  <2>12. ~ Quiet(th, chan[c])
    BY <1>2 DEF Quiet
  <2>13. Talk(x, chan'[c], daemon', client', longest')
    BY <1>2, <2>2, <2>7, <2>9, <2>10, <2>11, <2>12 DEF Talk
  <2>14. QED BY <1>2, <1>4, <2>1, <2>4, <2>13, ConvThread DEF th
<1>5. QED BY <1>3, <1>4

\* The channel is closed: nobody has a socket.
LEMMA CloseChannelConv ==
  ASSUME SafeOwn, ConvInv, NEW t \in Threads, CloseChannel(t)
  PROVE  ConvInv'
<1>1. ShapeInv /\ ProcInv /\ OwnInv
  BY ShapesOf DEF SafeOwn
<1>2. PICK c \in AllChannels : c = thread[t].ch
  BY <1>1 DEF ShapeInv
<1>3. Closes(t, c)
  BY <1>1, <1>2, Closed
<1>4. client' = "up" /\ overlap' = overlap
  BY <1>3 DEF Closes, ClientFrame
<1>5. CASE overlap
  BY <1>4, <1>5, ConvOverlap
<1>6. CASE ~ overlap
  <2>1. Owns(t)
    BY <1>1, <1>3, <1>6, Owner DEF Closes
  <2>2. \A u \in Threads : thread'[u].own = 0
    BY <1>3, <2>1 DEF Closes, Owns, ThreadTo, Idle
  <2>3. QED BY <1>4, <2>2, ConvNone
<1>7. QED BY <1>5, <1>6

\* A program that ends in a call with a cause.
LEMMA EndedConv ==
  ASSUME SafeOwn, ConvInv, ~ overlap, NEW t \in Threads, thread[t].own # 0,
         NEW c, c = thread[t].own, InCall(thread[t]),
         NEW how, Ended(how), daemon' = daemon, longest' = longest, build' = build, how # "up",
         Stranded(daemon, how) \/ Excuse(thread[t], chan'[c].sock, how, longest, build)
  PROVE  ConvInv'
<1>1. Owns(t) /\ c \in Channels
  BY ConvOf
<1>2. thread' = thread /\ client' = how
  BY DEF Ended
<1>3. Over(thread[t], chan'[c], daemon', client')
  BY <1>2 DEF Over
<1>4. Talk(thread[t], chan'[c], daemon', client', longest')
  BY <1>3 DEF Talk
<1>5. TalkTo(t, c)
  BY <1>1, <1>2, <1>4 DEF TalkTo, Owns
<1>6. QED BY <1>1, <1>5, ConvOne

\* A call that returns what is true.
LEMMA ReturnedConv ==
  ASSUME SafeOwn, ConvInv, ~ overlap, NEW t \in Threads, thread[t].own # 0,
         NEW c, c = thread[t].own, NEW s, s.waiting = "no", ChanIs(c, << >>, << >>, s),
         NEW res, Returned(t, res), Told(thread[t], s, res),
         client = "up", daemon = "up", daemon' = daemon
  PROVE  ConvInv'
<1> DEFINE th == thread[t]
           pc == IF th.call = "closecall" THEN "closing" ELSE "idle"
           peer == IF th.call = "connectcall" /\ res.ret = 0 THEN th.obj["addr"] ELSE th.peer
           x == [pc |-> pc, call |-> th.call, obj |-> th.obj, ch |-> table[0], own |-> th.own,
                 fd |-> th.fd, peer |-> peer, res |-> res]
<1>1. client' = "up" /\ ThreadTo(t, x)
  BY DEF Returned
<1>2. pc \in {"idle", "closing"} /\ peer = SockAddr(s.faddr)
  BY DEF Told
<1>3. th.call # "connectcall" => peer = th.peer
  OBVIOUS
<1> HIDE DEF pc, peer
<1>4. /\ x.own = th.own /\ x.pc = pc /\ x.call = th.call /\ x.obj = th.obj
      /\ x.peer = peer /\ x.res = res
  OBVIOUS
<1> HIDE DEF x
<1>5. Rest(x, s)
  BY <1>2, <1>4 DEF Rest, Told
<1>6. Holds(x, s)
  BY <1>3, <1>4 DEF Holds, Told
<1>7. Quiet(x, chan'[c])
  BY <1>2, <1>4, <1>5, <1>6 DEF Quiet, ChanIs
<1>8. Talk(x, chan'[c], daemon', client', longest')
  BY <1>1, <1>7 DEF Talk
<1>9. QED BY <1>1, <1>4, <1>8, ConvThread

\* A Response is read.
LEMMA RecvConv ==
  ASSUME SafeOwn, ConvInv, NEW t \in Threads, Recv(t)
  PROVE  ConvInv'
<1>1. ShapeInv /\ ProcInv /\ OwnInv /\ QueueInv
  BY ShapesOf DEF SafeOwn, WiresInv
<1> DEFINE th == thread[t]
<1>2. /\ client = "up" /\ UNCHANGED <<build, daemon, overlap, longest>> /\ longest \in Nat
      /\ th.own # 0 /\ th.pc = "reading"
  BY <1>1, Receiving DEF ClientFrame, Frame, QueueInv
<1>3. CASE overlap
  BY <1>2, <1>3, ConvOverlap
<1>4. CASE ~ overlap
  <2>1. PICK c \in Channels : c = th.own
    BY <1>2, <1>4, ConvOf
  <2>2. /\ Owns(t) /\ c # 0 /\ Talk(th, chan[c], daemon, client, longest)
    BY <1>2, <1>4, <2>1, ConvOf
  <2>3. th.ch = c
    BY <1>2, <2>1, <2>2 DEF Owns
  <2> DEFINE ch == chan[c]
             s == ch.sock
             wire == Head(ch.resp)
             o == TopUnpack(Response__C, wire)
  <2>4. /\ ch.resp # << >>
        /\ Becomes(c, ch.open, ch.req, Tail(ch.resp), s)
        /\ \/ ~ TopUnpacks(Response__C, wire) /\ Ended("null")
           \/ /\ TopUnpacks(Response__C, wire) /\ o.plain["retcode"] = RetCode.WAIT_NEXT
              /\ UNCHANGED <<client, table, thread>>
           \/ /\ TopUnpacks(Response__C, wire) /\ o.plain["retcode"] # RetCode.WAIT_NEXT
              /\ Deliver(t, o)
    BY <1>1, <2>3, Receiving
  <2>5. \/ daemon = "up" /\ (Answered(th, ch, longest) \/ Awaited(th, ch))
        \/ daemon # "up" /\ InCall(th) /\ ch.resp = <<Sent(WaitNext)>>
    BY <1>2, <2>2, <2>4 DEF Talk, Over, Quiet, Asked
  <2>6. InCall(th)
    BY <2>5 DEF Answered, Awaited
  <2>7. ChanIs(c, ch.req, Tail(ch.resp), s)
    BY <2>4 DEF Becomes, ChanIs
  <2> HIDE DEF s
  <2>8. CASE wire = Sent(WaitNext)
    <3>1. UNCHANGED <<client, table, thread>>
      BY <2>4, <2>8, WaitNextRead DEF Passes, Arrived
    <3>2. CASE daemon = "up" /\ Awaited(th, ch)
      <4>1. Tail(ch.resp) = << >>
        <5>1. ch.resp = <<Sent(WaitNext)>>
          BY <2>4, <3>2 DEF Awaited
        <5>2. QED BY <5>1
      <4>2. Awaited(th, chan'[c])
        BY <2>7, <3>2, <4>1 DEF Awaited, ChanIs, s
      <4>3. Talk(th, chan'[c], daemon', client', longest')
        BY <1>2, <3>1, <3>2, <4>2 DEF Talk
      <4>4. TalkTo(t, c)
        BY <1>2, <2>1, <2>2, <3>1, <4>3 DEF TalkTo, Owns
      <4>5. QED BY <4>4, ConvOne
    <3>3. CASE daemon = "up" /\ Answered(th, ch, longest)
      <4>1. PICK r : /\ Final(th, s, r) /\ Brief(r, longest)
                     /\ ch.resp \in {<<Sent(r)>>, <<Sent(WaitNext), Sent(r)>>}
        BY <3>3 DEF Answered, s
      <4>2. CASE ch.resp = <<Sent(WaitNext), Sent(r)>>
        <5>1. Tail(ch.resp) = <<Sent(r)>>
          BY <4>2
        <5>2. Answered(th, chan'[c], longest')
          BY <1>2, <2>7, <3>3, <4>1, <5>1 DEF Answered, ChanIs, s
        <5>3. Talk(th, chan'[c], daemon', client', longest')
          BY <1>2, <3>1, <3>3, <5>2 DEF Talk
        <5>4. TalkTo(t, c)
          BY <1>2, <2>1, <2>2, <3>1, <5>3 DEF TalkTo, Owns
        <5>5. QED BY <5>4, ConvOne
      <4>3. CASE ch.resp = <<Sent(r)>>
        <5>1. Sent(r) = Sent(WaitNext)
          BY <2>8, <4>3
        <5>2. Arrived(r) = Arrived(WaitNext)
          BY <5>1 DEF Arrived
        <5>3. r = NoCode
          BY <4>1, <5>2, FinalReads, WaitNextRead
        <5>4. FALSE
          BY <5>1, <5>3, NoCodeRead, WaitNextRead DEF Passes
        <5>5. QED BY <5>4
      <4>4. QED BY <4>1, <4>2, <4>3
    <3>4. CASE daemon # "up" /\ ch.resp = <<Sent(WaitNext)>>
      <4>1. Tail(ch.resp) = << >>
        BY <3>4
      <4>2. Over(th, chan'[c], daemon', client')
        BY <1>2, <2>6, <2>7, <3>4, <4>1 DEF Over, ChanIs
      <4>3. Talk(th, chan'[c], daemon', client', longest')
        BY <4>2 DEF Talk
      <4>4. TalkTo(t, c)
        BY <1>2, <2>1, <2>2, <3>1, <4>3 DEF TalkTo, Owns
      <4>5. QED BY <4>4, ConvOne
    <3>5. QED BY <2>5, <3>2, <3>3, <3>4
  <2>9. CASE wire # Sent(WaitNext)
    <3>0. daemon = "up" /\ Answered(th, ch, longest)
      <4>1. ~ Awaited(th, ch) /\ ch.resp # <<Sent(WaitNext)>>
        BY <2>4, <2>9 DEF Awaited
      <4>2. QED BY <2>5, <4>1
    <3>1. PICK r : Final(th, s, r) /\ Brief(r, longest) /\ ch.resp = <<Sent(r)>>
      BY <2>9, <3>0 DEF Answered, s
    <3>2. wire = Sent(r) /\ o = Arrived(r) /\ Tail(ch.resp) = << >>
      BY <3>1 DEF Arrived
    <3>3. ASSUME NEW how, Ended(how), Unreadable(th, s, how, longest)
          PROVE  ConvInv'
      <4>1. how # "up"
        BY <3>3 DEF Unreadable
      <4>2. Excuse(th, chan'[c].sock, how, longest, build)
        BY <1>2, <2>7, <3>3 DEF Excuse, ChanIs
      <4>3. QED BY <1>2, <1>4, <2>1, <2>6, <3>3, <4>1, <4>2, EndedConv
    <3>4. CASE r = NoCode
      <4>1. Ended("null")
        BY <2>4, <3>2, <3>4, NoCodeRead
      <4>2. Unreadable(th, s, "null", longest)
        BY <3>1, <3>4, FinalReads
      <4>3. QED BY <3>3, <4>1, <4>2
    <3>5. CASE r # NoCode
      <4>1. Passes(r) /\ Arrived(r).plain["retcode"] # RetCode.WAIT_NEXT
        BY <3>1, <3>5, FinalReads
      <4>2. Deliver(t, Arrived(r))
        BY <2>4, <3>2, <4>1 DEF Passes
      <4> HIDE DEF th
      <4>o. th.obj \in Asks(th.call)
        BY <3>0 DEF Answered
      <4>3. Met(t, s, longest)
        BY <1>1, <1>2, <3>1, <3>5, <4>o, <4>2, FinalMet DEF th
      <4>4. CASE \E how : Ended(how) /\ Unreadable(th, s, how, longest)
        BY <3>3, <4>4
      <4>5. CASE \E res : Returned(t, res) /\ Told(th, s, res)
        <5>1. PICK res : Returned(t, res) /\ Told(th, s, res)
          BY <4>5
        <5>2. ch.req = << >> /\ s.waiting = "no"
          BY <3>0 DEF Answered, s
        <5>3. ChanIs(c, << >>, << >>, s)
          BY <2>7, <3>2, <5>2
        <5>4. QED BY <1>2, <1>4, <2>1, <3>0, <5>1, <5>2, <5>3, ReturnedConv DEF th
      <4>6. QED BY <4>3, <4>4, <4>5 DEF Met, th
    <3>6. QED BY <3>4, <3>5
  <2>10. QED BY <2>8, <2>9
<1>5. QED BY <1>3, <1>4

\* The daemon is gone: the call ends with it.
LEMMA RecvEofConv ==
  ASSUME SafeOwn, ConvInv, NEW t \in Threads, RecvEof(t)
  PROVE  ConvInv'
<1>1. ShapeInv
  BY ShapesOf DEF SafeOwn
<1> DEFINE th == thread[t]
<1>2. /\ client = "up" /\ UNCHANGED <<build, daemon, chan, overlap, longest>>
      /\ th.own # 0 /\ daemon # "up"
      /\ Ended(Failing("null")) \/ (daemon = "overread" /\ Ended("garbage"))
  BY <1>1, ReadingEof DEF ClientFrame, Frame
<1>3. PICK how : Ended(how) /\ how # "up" /\ Stranded(daemon, how)
  BY <1>2 DEF Stranded, Failing
<1>4. CASE overlap
  BY <1>2, <1>4, ConvOverlap
<1>5. CASE ~ overlap
  <2>1. PICK c \in Channels : c = th.own
    BY <1>2, <1>5, ConvOf
  <2>2. Talk(th, chan[c], daemon, client, longest)
    BY <1>2, <1>5, <2>1, ConvOf
  <2>3. InCall(th)
    BY <1>2, <2>2 DEF Talk, Over
  <2>4. QED BY <1>2, <1>3, <1>5, <2>1, <2>3, EndedConv
<1>6. QED BY <1>4, <1>5

\* At first nobody has a socket.
LEMMA ConvInit == Init => ConvInv
BY DEF Init, Idle, ConvInv, TalkInv, EndInv

\* The whole of the inductive invariant.
FullInv == SafeOwn /\ ConvInv

\* Each step keeps the conversation.
LEMMA ConvStep == FullInv /\ [Next]_vars => ConvInv'
<1> SUFFICES ASSUME SafeOwn, ConvInv, [Next]_vars
             PROVE  ConvInv'
  BY DEF FullInv
<1>1. ShapeInv
  BY ShapesOf DEF SafeOwn
<1>2. CASE UNCHANGED vars
  BY <1>1, <1>2, ConvSame DEF vars
<1>3. CASE AtStart
  BY <1>3, AtStartConv
<1>4. CASE \E t \in Threads : \E type \in SocketTypes : Socket(t, type)
  BY <1>4, SocketConv
<1>5. CASE \E t \in Threads : \E call \in SocketCalls : Send(t, call)
  BY <1>5, SendConv
<1>6. CASE \E t \in Threads : Lookup(t)
  BY <1>6, LookupConv
<1>7. CASE \E t \in Threads : Recv(t)
  BY <1>7, RecvConv
<1>8. CASE \E t \in Threads : RecvEof(t)
  BY <1>8, RecvEofConv
<1>9. CASE \E t \in Threads : CloseChannel(t)
  BY <1>9, CloseChannelConv
<1>10. CASE \E c \in Channels \cup {ProcChannel} :
              onReadReady(c) \/ onAsyncNewPacket(c) \/ PacketArrives(c) \/ ConnEstab(c)
  BY <1>10, DaemonConv DEF AllChannels
<1>11. CASE \E t \in Threads : SocketRefused(t)
  BY <1>11, RefusedConv
<1>12. QED
  BY <1>2, <1>3, <1>4, <1>5, <1>6, <1>7, <1>8, <1>9, <1>10, <1>11 DEF Next

\* The invariant holds in every state.
LEMMA FullAlways == Spec => []FullInv
<1>1. Init => FullInv
  BY SafeInit, OwnInit, ConvInit DEF FullInv, SafeOwn
<1>2. FullInv /\ [Next]_vars => FullInv'
  BY SafeStep, OwnStep, ConvStep DEF FullInv, SafeOwn
<1>3. QED BY <1>1, <1>2, PTL DEF Spec

\* What the calls return is true of the socket they were made on: a connect that
\* returned 0 left it connected to the address asked for (TCP established), recvfrom
\* counts the bytes it copied, getpeername and getsockname name its two ends.
THEOREM AnswersAreTrue == Spec => []AnswersTruthful
<1>1. FullInv => AnswersTruthful
  <2> SUFFICES ASSUME FullInv, ~ overlap, NEW t \in Threads, thread[t].own # 0
               PROVE  LET res == thread[t].res
                      IN  CASE res.call = "connectcall" -> ConnectTruthful(t, res)
                            [] res.call = "recvfromcall" -> DataTruthful(t, res)
                            [] res.call = "getpeernamecall" -> res.addr = thread[t].peer
                            [] res.call = "getsocknamecall" -> res.addr \in {<<1, 0>>, LocalAddr(SockOf(t))}
                            [] OTHER -> TRUE
    BY DEF AnswersTruthful
  <2> DEFINE th == thread[t]
             res == th.res
             s == SockOf(t)
  <2>1. PICK c \in Channels : c = th.own
    BY ConvOf DEF FullInv
  <2>2. Talk(th, chan[c], daemon, client, longest)
    BY <2>1, ConvOf DEF FullInv
  <2>3. s = chan[c].sock
    BY <2>1 DEF SockOf
  <2>4. CASE Quiet(th, chan[c])
    <3>1. Holds(th, s)
      BY <2>3, <2>4 DEF Quiet
    <3> HIDE DEF s
    <3>2. res.call = "connectcall" => ConnectTruthful(t, res)
      BY <3>1 DEF Holds, ConnectTruthful, s, EINPROGRESS
    <3>3. res.call = "recvfromcall" => DataTruthful(t, res)
      BY <3>1 DEF Holds, DataTruthful, s
    <3>4. res.call = "getpeernamecall" => res.addr = th.peer
      BY <3>1 DEF Holds
    <3>5. res.call = "getsocknamecall" => res.addr = LocalAddr(SockOf(t))
      BY <3>1 DEF Holds, s
    <3>6. QED BY <3>2, <3>3, <3>4, <3>5
  <2>5. CASE ~ Quiet(th, chan[c])
    <3>1. res.call = "none"
      BY <2>2, <2>5 DEF Talk, Over, Asked, Answered, Awaited, InCall
    <3>2. QED BY <3>1
  <2>6. QED BY <2>4, <2>5
<1>2. QED BY <1>1, FullAlways, PTL

\* A thread in a call has its Request or an answer in the channel, or the daemon will
\* write one: it waits for a packet (recvfrom) or for the peer (connect), and the only
\* answer that never comes is to the second connect of an established socket.
THEOREM AnswersOnTheirWay == Spec => []AnswerOnItsWay
<1>1. FullInv => AnswerOnItsWay
  <2> SUFFICES ASSUME FullInv, ~ overlap, daemon = "up", client = "up",
                      NEW t \in Threads, thread[t].pc \in {"sent", "reading"}
               PROVE  LET ch == chan[thread[t].own]
                      IN  \/ Len(ch.req) + Len(ch.resp) > 0
                          \/ thread[t].call = "recvfromcall" /\ ch.sock.waiting # "no"
                          \/ /\ thread[t].call = "connectcall" /\ ch.sock.estabCB
                             /\ ch.sock.state = "SYN_SENT" \/ thread[t].peer # <<0, 0>>
    BY DEF AnswerOnItsWay
  <2> DEFINE th == thread[t]
  <2>1. ShapeInv
    BY ShapesOf DEF FullInv, SafeOwn
  <2>2. th.own # 0
    BY <2>1, Busy
  <2>3. PICK c \in Channels : c = th.own
    BY <2>2, ConvOf DEF FullInv
  <2>4. Talk(th, chan[c], daemon, client, longest)
    BY <2>2, <2>3, ConvOf DEF FullInv
  <2> DEFINE ch == chan[c]
  <2>5. CASE Asked(th, ch)
    <3>1. Len(ch.req) = 1 /\ Len(ch.resp) = 0
      BY <2>5 DEF Asked
    <3>2. QED BY <2>3, <3>1
  <2>6. CASE Answered(th, ch, longest)
    <3>1. Len(ch.req) = 0 /\ (Len(ch.resp) = 1 \/ Len(ch.resp) = 2)
      BY <2>6 DEF Answered
    <3> DEFINE n == Len(ch.req)
               m == Len(ch.resp)
    <3>2. n = 0 /\ (m = 1 \/ m = 2)
      BY <3>1
    <3> HIDE DEF n, m
    <3>3. n + m > 0
      BY <3>2
    <3>4. QED BY <2>3, <3>3 DEF n, m
  <2>7. CASE Awaited(th, ch)
    <3>1. \/ th.call = "recvfromcall" /\ ch.sock.waiting # "no"
          \/ /\ th.call = "connectcall" /\ ch.sock.estabCB
             /\ ch.sock.state = "SYN_SENT" \/ th.peer # <<0, 0>>
      BY <2>7 DEF Awaited, Awaits
    <3>2. QED BY <2>3, <3>1
  <2>8. QED BY <2>4, <2>5, <2>6, <2>7 DEF Talk, Over, Quiet
<1>2. QED BY <1>1, FullAlways, PTL

\* The calls of an application end either program only by what the handlers and the
\* interceptor are known to do wrong: the missing return code of a connect on UDP, the
\* address that recvfrom asked for and the answer need not have, the wrong member of the
\* oneof for a nonblocking connect, a Request or a Response too long for its buffer, a
\* packet longer than the caller's, two open sockets sharing a descriptor; and the
\* application by the end of the daemon.
THEOREM StopsAreExplained == Spec => []StopsExplained
<1>1. FullInv => StopsExplained
  <2> SUFFICES ASSUME FullInv
               PROVE  StopsExplained
    OBVIOUS
  <2>1. ShapeInv /\ DaemonInv /\ ClientInv
    BY ShapesOf DEF FullInv, SafeOwn, WiresInv
  <2>b. build # "Debug" => build = "Release"
    BY <2>1 DEF ShapeInv
  <2>2. CASE overlap \/ client = "up"
    BY <2>1, <2>2 DEF StopsExplained, DaemonInv, ClientInv
  <2>3. CASE client # "up" /\ Stranded(daemon, client)
    BY <2>1, <2>3 DEF StopsExplained, DaemonInv, ClientInv, Stranded
  <2>4. CASE ~ overlap /\ client # "up" /\ ~ Stranded(daemon, client)
    <3>1. PICK t \in Threads : /\ thread[t].own # 0
                               /\ Excuse(thread[t], SockOf(t), client, longest, build)
      BY <2>4 DEF FullInv, ConvInv, EndInv, SockOf
    <3>2. thread[t].own \in Channels
      BY <2>1, <3>1 DEF ShapeInv
    <3>3. \/ AddressMissing /\ client \in {"assert", "null"}
          \/ ConnectInProgress /\ client = "assert"
          \/ UdpConnected /\ client = "null"
          \/ ShortBuffer /\ client = "overrun"
          \/ TooLong /\ client = IF build = "Debug" THEN "assert" ELSE "overrun"
      <4>1. CASE /\ thread[t].pc = "reading" /\ thread[t].call = "recvfromcall"
                 /\ thread[t].obj["requireaddr"] /\ (SockOf(t).nonblocking \/ SockOf(t).kind = "TCP")
                 /\ client \in {"assert", "null"}
        BY <4>1 DEF AddressMissing, Reads
      <4>2. CASE /\ thread[t].pc = "reading" /\ thread[t].call = "connectcall"
                 /\ SockOf(t).nonblocking /\ SockOf(t).kind = "TCP" /\ client = "assert"
        BY <4>2 DEF ConnectInProgress, Reads
      <4>3. CASE SockOf(t).kind = "UDP" /\ SockOf(t).faddr # NoAddr /\ client = "null"
        BY <3>2, <4>3 DEF UdpConnected, SockOf
      <4>4. CASE /\ thread[t].pc = "reading" /\ thread[t].call = "recvfromcall"
                 /\ thread[t].obj["len"] < longest /\ client = "overrun"
        BY <4>4 DEF ShortBuffer, Reads
      <4>5. CASE /\ thread[t].pc = "sent" /\ ~ RequestFits(thread[t].call, thread[t].obj)
                 /\ client = IF build = "Debug" THEN "assert" ELSE "overrun"
        BY <4>5 DEF TooLong
      <4>6. QED BY <3>1, <4>1, <4>2, <4>3, <4>4, <4>5 DEF Excuse, Unreadable
    <3>4. QED BY <2>1, <2>b, <3>3 DEF StopsExplained, ClientInv, DaemonInv
  <2>5. QED BY <2>2, <2>3, <2>4
<1>2. QED BY <1>1, FullAlways, PTL

=============================================================================
