------------------------------- MODULE Messages -------------------------------
(***************************************************************************)
(* One message on its way between the two languages: an answer composed in *)
(* C++ by a handler of the daemon and unpacked in C by the interceptor, or *)
(* a request packed in C and parsed in C++.  Every message of the protocol *)
(* takes part, in every state of its optional members.                     *)
(*                                                                         *)
(* The interceptor reads three answers through a pointer of the union that *)
(* belongs to another answer (Uses); that works while the structs have the *)
(* same layout up to the member read.                                      *)
(***************************************************************************)
EXTENDS RequestSchema, ResponseSchema, FiniteSets

CONSTANTS Ints,      \* values of integer members
          Datas      \* values of bytes and strings, << >> among them

ASSUME DatasAssumption == << >> \in Datas

VARIABLES way,       \* "answer" or "request"
          pc,        \* "compose", "sent", "read" or "null" (nothing unpacked)
          obj,       \* the sender's object
          wire,      \* the message in the channel
          read       \* the receiver's object

vars == <<way, pc, obj, wire, read>>

Values(type) == CASE type \in {"BYTES", "STRING"} -> Datas
                  [] type = "BOOL" -> BOOLEAN
                  [] type = "ENUM" -> {RetCode[c] : c \in DOMAIN RetCode}
                  [] OTHER -> Ints

\* REQUEST__INIT; RESPONSE's constructor makes the object without members.
EmptyRequest == [plain |-> [pid |-> 0], case |-> 0, union |-> Nothing]

Init == /\ way \in {"answer", "request"}
        /\ pc = "compose"
        /\ obj = IF way = "answer" THEN Nothing ELSE EmptyRequest
        /\ wire = << >>
        /\ read = Nothing

Composing(w) == pc = "compose" /\ way = w /\ UNCHANGED <<way, pc, wire, read>>

-----------------------------------------------------------------------------
\* resp->mutable_<call>()
ChooseAnswer == /\ Composing("answer")
                /\ \E c \in DOMAIN Response.calls : obj' = MutableCall(Response, obj, c)

\* callRet->set_<member>(v)
SetAnswer ==
  /\ Composing("answer")
  /\ \E c \in Call(Response, obj) : \E f \in ToSet(response__calls[c].fields) :
       \E v \in Values(f.type) : obj' = Set(obj, c, Set(obj[c], f.member, v))

\* resp->set_retcode(v)
SetRetcode == /\ Composing("answer")
              /\ \E v \in Values("ENUM") : obj' = Set(obj, "retcode", v)

\* SerializeToArray: in the default build nothing tests IsInitialized
WriteAnswer == /\ pc = "compose" /\ way = "answer"
               /\ wire' = TopSerialize(Response, obj) /\ pc' = "sent"
               /\ UNCHANGED <<way, obj, read>>

\* response__unpack
ReadAnswer == /\ pc = "sent" /\ way = "answer"
              /\ IF TopUnpacks(Response__C, wire)
                 THEN pc' = "read" /\ read' = TopUnpack(Response__C, wire)
                 ELSE pc' = "null" /\ UNCHANGED read
              /\ UNCHANGED <<way, obj, wire>>

\* req.<call> = &call; req.calling_case = ...; req.pid = getpid()
ChooseRequest ==
  /\ Composing("request")
  /\ obj.case = 0
  /\ \E c \in DOMAIN Request__CallingCase, p \in Ints :
       obj' = [plain |-> [pid |-> p], case |-> Request__CallingCase[c],
               union |-> InitValue(request__calls[c].struct)]

\* call.<member> = v, with call.has_<member> = true where there is one
SetRequest ==
  /\ Composing("request")
  /\ \E c \in DOMAIN Request__CallingCase :
       /\ obj.case = Request__CallingCase[c]
       /\ \E f \in ToSet(request__calls[c].fields) : \E v \in Values(f.type) :
            obj' = [obj EXCEPT !.union = [m \in DOMAIN @ |-> CASE m = f.member -> v
                                                               [] m = f.quantifier -> TRUE
                                                               [] OTHER -> @[m]]]

\* request__pack
WriteRequest == /\ pc = "compose" /\ way = "request"
                /\ wire' = TopPack(Request__C, obj) /\ pc' = "sent"
                /\ UNCHANGED <<way, obj, read>>

\* ParseFromArray: the object keeps what was read also where the test fails
ReadRequest == /\ pc = "sent" /\ way = "request"
               /\ read' = TopParse(Request, wire)
               /\ pc' = IF TopInitialized(Request, read') THEN "read" ELSE "null"
               /\ UNCHANGED <<way, obj, wire>>

Next == \/ ChooseAnswer \/ SetAnswer \/ SetRetcode \/ WriteAnswer \/ ReadAnswer
        \/ ChooseRequest \/ SetRequest \/ WriteRequest \/ ReadRequest

Spec == Init /\ [][Next]_vars

-----------------------------------------------------------------------------
(* Types: at most one member of a oneof, and items on the wire whose tags  *)
(* the tables have.                                                        *)
TypeOK ==
  /\ way \in {"answer", "request"}
  /\ pc \in {"compose", "sent", "read", "null"}
  /\ way = "answer" => Cardinality(Call(Response, obj)) <= 1
  /\ LET tags == ToSet(IF way = "answer" THEN Response_reads ELSE Request_reads)
     IN  \A item \in ToSet(wire) : \E t \in tags : item[1] = t[1]
  /\ pc = "read" /\ way = "request" => Cardinality(Call(Request, read)) <= 1

(* What a handler set is what the interceptor gets: the return code, the   *)
(* number of the call, each member's value, zero for a member that was not *)
(* set, and for an optional one whether it was.  response__unpack returns  *)
(* null for the same answers that fail the assertion in                    *)
(* ReqRespChannel::write.                                                  *)
AnswerArrives ==
  /\ way = "answer" /\ pc = "null" => ~ TopInitialized(Response, obj)
  /\ way = "answer" /\ pc = "read" =>
       /\ TopInitialized(Response, obj)
       /\ read.plain.retcode = obj["retcode"]
       /\ Call(Response, obj) = {} => read.case = 0
       /\ \A c \in Call(Response, obj) :
            /\ read.case = Response__ReturningCase[c]
            /\ \A f \in ToSet(response__calls[c].fields) :
                 /\ ~ f.required => read.union[f.quantifier] = Has(obj[c], f.member)
                 /\ read.union[f.member] =
                      IF Has(obj[c], f.member) THEN obj[c][f.member]
                      ELSE InitValue(response__calls[c].struct)[f.member]

(* What the interceptor packed is what the daemon parses, and no Request   *)
(* the interceptor can build fails the daemon's test for required members, *)
(* whose result ReqRespChannel::Impl::onReadReady ignores.                 *)
RequestArrives ==
  way = "request" =>
    /\ pc # "null"
    /\ pc = "read" =>
         /\ read["pid"] = obj.plain.pid
         /\ {Request__CallingCase[c] : c \in Call(Request, read)} = {obj.case} \ {0}
         /\ \A c \in Call(Request, read) : \A f \in ToSet(request__calls[c].fields) :
              /\ Has(read[c], f.member) <=> (f.required \/ obj.union[f.quantifier])
              /\ Has(read[c], f.member) => read[c][f.member] = obj.union[f.member]

(* What the interceptor reads through another answer's pointer:            *)
(* <<answer, pointer, member read, member meant>>.                         *)
Uses == {<<"sendtocall", "recvfromcall", "ret", "ret">>,
         <<"getpeernamecall", "recvfromcall", "buf", "peername">>,
         <<"getsocknamecall", "recvfromcall", "buf", "sockanme">>,
         <<"getsocknamecall", "getpeernamecall", "ret", "ret">>}

(* A read through another answer's pointer gives the member that was       *)
(* meant, whatever the handler set.                                        *)
AliasesHold ==
  way = "answer" /\ pc = "read" =>
    \A u \in Uses : read.case = Response__ReturningCase[u[1]] =>
      {read.union[m] : m \in Aliases(response__calls[u[1]].struct,
                                     response__calls[u[2]].struct, u[3])}
        = {read.union[u[4]]}
=============================================================================
