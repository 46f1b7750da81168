--------------------------- MODULE ResponseSchema ---------------------------
(***************************************************************************)
(* The tables of the generated code for response.proto.                    *)
(* Protobuf says how they are read.  The same message occurs in both       *)
(* languages, generated by two compilers; Messages checks that they agree. *)
(***************************************************************************)
EXTENDS Protobuf

(* C++: the tags <class>::MergePartialFromCodedStream knows, with the      *)
(* member each is stored in.                                               *)
Response_Socket_reads == <<<<8, "ret">>, <<16, "errno_">>>>
Response_Connect_reads == <<<<8, "ret">>, <<16, "errno_">>>>
Response_Close_reads == <<<<8, "ret">>, <<16, "errno_">>>>
Response_Recvfrom_reads == <<<<8, "ret">>, <<16, "errno_">>, <<26, "buf">>, <<34, "addr">>>>
Response_Sendto_reads == <<<<8, "ret">>, <<16, "errno_">>>>
Response_Poll_reads == <<<<8, "ret">>, <<16, "errno_">>>>
Response_Select_reads == <<<<8, "ret">>, <<16, "errno_">>>>
Response_Getpeername_reads == <<<<8, "ret">>, <<16, "errno_">>, <<26, "peername">>>>
Response_Getsockname_reads == <<<<8, "ret">>, <<16, "errno_">>, <<26, "sockanme">>>>
Response_Getsockopt_reads == <<<<8, "ret">>, <<16, "errno_">>>>
Response_Setsockopt_reads == <<<<8, "ret">>, <<16, "errno_">>>>
Response_Fcntl_reads == <<<<8, "ret">>, <<16, "errno_">>>>
Response_Atstart_reads == <<<<8, "startfd">>, <<16, "count">>>>

(* C++: what <class>::SerializeWithCachedSizes writes and ByteSize counts. *)
Response_Socket_writes == <<<<1, "Int32", "ret">>, <<2, "Int32", "errno_">>>>
Response_Connect_writes == <<<<1, "Int32", "ret">>, <<2, "Int32", "errno_">>>>
Response_Close_writes == <<<<1, "Int32", "ret">>, <<2, "Int32", "errno_">>>>
Response_Recvfrom_writes == <<<<1, "Int32", "ret">>, <<2, "Int32", "errno_">>,
                              <<3, "Bytes", "buf">>, <<4, "Bytes", "addr">>>>
Response_Sendto_writes == <<<<1, "Int32", "ret">>, <<2, "Int32", "errno_">>>>
Response_Poll_writes == <<<<1, "Int32", "ret">>, <<2, "Int32", "errno_">>>>
Response_Select_writes == <<<<1, "Int32", "ret">>, <<2, "Int32", "errno_">>>>
Response_Getpeername_writes == <<<<1, "Int32", "ret">>, <<2, "Int32", "errno_">>,
                                 <<3, "Bytes", "peername">>>>
Response_Getsockname_writes == <<<<1, "Int32", "ret">>, <<2, "Int32", "errno_">>,
                                 <<3, "Bytes", "sockanme">>>>
Response_Getsockopt_writes == <<<<1, "Int32", "ret">>, <<2, "Int32", "errno_">>>>
Response_Setsockopt_writes == <<<<1, "Int32", "ret">>, <<2, "Int32", "errno_">>>>
Response_Fcntl_writes == <<<<1, "Int32", "ret">>, <<2, "Int32", "errno_">>>>
Response_Atstart_writes == <<<<1, "Int32", "startfd">>, <<2, "Int32", "count">>>>

(* C++: the has-bits <class>::IsInitialized asks for.                      *)
Response_Socket_mask == {0}
Response_Connect_mask == {0}
Response_Close_mask == {0}
Response_Recvfrom_mask == {0}
Response_Sendto_mask == {0}
Response_Poll_mask == {0}
Response_Select_mask == {0}
Response_Getpeername_mask == {0}
Response_Getsockname_mask == {0}
Response_Getsockopt_mask == {0}
Response_Setsockopt_mask == {0}
Response_Fcntl_mask == {0}
Response_Atstart_mask == {0}

(* C++: the has-bit of each member (has_, set_has_ and clear_has_ in       *)
(* cpp_out/response.pb.h).                                                 *)
Response_Socket_bits == [ret |-> 0, errno_ |-> 1]
Response_Connect_bits == [ret |-> 0, errno_ |-> 1]
Response_Close_bits == [ret |-> 0, errno_ |-> 1]
Response_Recvfrom_bits == [ret |-> 0, errno_ |-> 1, buf |-> 2, addr |-> 3]
Response_Sendto_bits == [ret |-> 0, errno_ |-> 1]
Response_Poll_bits == [ret |-> 0, errno_ |-> 1]
Response_Select_bits == [ret |-> 0, errno_ |-> 1]
Response_Getpeername_bits == [ret |-> 0, errno_ |-> 1, peername |-> 2]
Response_Getsockname_bits == [ret |-> 0, errno_ |-> 1, sockanme |-> 2]
Response_Getsockopt_bits == [ret |-> 0, errno_ |-> 1]
Response_Setsockopt_bits == [ret |-> 0, errno_ |-> 1]
Response_Fcntl_bits == [ret |-> 0, errno_ |-> 1]
Response_Atstart_bits == [startfd |-> 0, count |-> 1]

(* C: the field descriptors of each message in c_out/response.pb-c.c.      *)
response__socket__fields == <<Required(1, "INT32", "ret"),
                              Optional(2, "INT32", "has_errno_", "errno_")>>
response__connect__fields == <<Required(1, "INT32", "ret"),
                               Optional(2, "INT32", "has_errno_", "errno_")>>
response__close__fields == <<Required(1, "INT32", "ret"),
                             Optional(2, "INT32", "has_errno_", "errno_")>>
response__recvfrom__fields == <<Required(1, "INT32", "ret"),
                                Optional(2, "INT32", "has_errno_", "errno_"),
                                Optional(3, "BYTES", "has_buf", "buf"),
                                Optional(4, "BYTES", "has_addr", "addr")>>
response__sendto__fields == <<Required(1, "INT32", "ret"),
                              Optional(2, "INT32", "has_errno_", "errno_")>>
response__poll__fields == <<Required(1, "INT32", "ret"),
                            Optional(2, "INT32", "has_errno_", "errno_")>>
response__select__fields == <<Required(1, "INT32", "ret"),
                              Optional(2, "INT32", "has_errno_", "errno_")>>
response__getpeername__fields == <<Required(1, "INT32", "ret"),
                                   Optional(2, "INT32", "has_errno_", "errno_"),
                                   Optional(3, "BYTES", "has_peername", "peername")>>
response__getsockname__fields == <<Required(1, "INT32", "ret"),
                                   Optional(2, "INT32", "has_errno_", "errno_"),
                                   Optional(3, "BYTES", "has_sockanme", "sockanme")>>
response__getsockopt__fields == <<Required(1, "INT32", "ret"),
                                  Optional(2, "INT32", "has_errno_", "errno_")>>
response__setsockopt__fields == <<Required(1, "INT32", "ret"),
                                  Optional(2, "INT32", "has_errno_", "errno_")>>
response__fcntl__fields == <<Required(1, "INT32", "ret"),
                             Optional(2, "INT32", "has_errno_", "errno_")>>
response__atstart__fields == <<Required(1, "INT32", "startfd"),
                               Optional(2, "INT32", "has_count", "count")>>

(* C: the structs of c_out/response.pb-c.h.                                *)
Response__Socket == <<<<"ret", "int32_t">>, <<"has_errno_", "protobuf_c_boolean">>,
                      <<"errno_", "int32_t">>>>
Response__Connect == <<<<"ret", "int32_t">>, <<"has_errno_", "protobuf_c_boolean">>,
                       <<"errno_", "int32_t">>>>
Response__Close == <<<<"ret", "int32_t">>, <<"has_errno_", "protobuf_c_boolean">>,
                     <<"errno_", "int32_t">>>>
Response__Recvfrom == <<<<"ret", "int32_t">>, <<"has_errno_", "protobuf_c_boolean">>,
                        <<"errno_", "int32_t">>, <<"has_buf", "protobuf_c_boolean">>,
                        <<"buf", "ProtobufCBinaryData">>,
                        <<"has_addr", "protobuf_c_boolean">>,
                        <<"addr", "ProtobufCBinaryData">>>>
Response__Sendto == <<<<"ret", "int32_t">>, <<"has_errno_", "protobuf_c_boolean">>,
                      <<"errno_", "int32_t">>>>
Response__Poll == <<<<"ret", "int32_t">>, <<"has_errno_", "protobuf_c_boolean">>,
                    <<"errno_", "int32_t">>>>
Response__Select == <<<<"ret", "int32_t">>, <<"has_errno_", "protobuf_c_boolean">>,
                      <<"errno_", "int32_t">>>>
Response__Getpeername == <<<<"ret", "int32_t">>, <<"has_errno_", "protobuf_c_boolean">>,
                           <<"errno_", "int32_t">>,
                           <<"has_peername", "protobuf_c_boolean">>,
                           <<"peername", "ProtobufCBinaryData">>>>
\* Mutant: the members of the struct in another order.
Response__Getsockname_Reordered ==
  <<<<"ret", "int32_t">>, <<"has_sockanme", "protobuf_c_boolean">>,
    <<"sockanme", "ProtobufCBinaryData">>, <<"has_errno_", "protobuf_c_boolean">>,
    <<"errno_", "int32_t">>>>
Response__Getsockname == <<<<"ret", "int32_t">>, <<"has_errno_", "protobuf_c_boolean">>,
                           <<"errno_", "int32_t">>,
                           <<"has_sockanme", "protobuf_c_boolean">>,
                           <<"sockanme", "ProtobufCBinaryData">>>>
Response__Getsockopt == <<<<"ret", "int32_t">>, <<"has_errno_", "protobuf_c_boolean">>,
                          <<"errno_", "int32_t">>>>
Response__Setsockopt == <<<<"ret", "int32_t">>, <<"has_errno_", "protobuf_c_boolean">>,
                          <<"errno_", "int32_t">>>>
Response__Fcntl == <<<<"ret", "int32_t">>, <<"has_errno_", "protobuf_c_boolean">>,
                     <<"errno_", "int32_t">>>>
Response__Atstart == <<<<"startfd", "int32_t">>, <<"has_count", "protobuf_c_boolean">>,
                       <<"count", "int32_t">>>>

(* The outer class: parsing, the members of the oneof and their classes,   *)
(* writing, required members.                                              *)
Response_reads == <<<<10, "socketcall">>, <<18, "connectcall">>, <<26, "closecall">>,
                    <<34, "recvfromcall">>, <<42, "sendtocall">>, <<50, "pollcall">>,
                    <<58, "selectcall">>, <<66, "getpeernamecall">>,
                    <<74, "getsocknamecall">>, <<82, "getsockoptcall">>,
                    <<90, "setsockoptcall">>, <<98, "fcntlcall">>, <<120, "retcode">>,
                    <<130, "atstartaction">>>>
Response_writes == <<<<1, "Message", "socketcall">>, <<2, "Message", "connectcall">>,
                     <<3, "Message", "closecall">>, <<4, "Message", "recvfromcall">>,
                     <<5, "Message", "sendtocall">>, <<6, "Message", "pollcall">>,
                     <<7, "Message", "selectcall">>, <<8, "Message", "getpeernamecall">>,
                     <<9, "Message", "getsocknamecall">>,
                     <<10, "Message", "getsockoptcall">>,
                     <<11, "Message", "setsockoptcall">>, <<12, "Message", "fcntlcall">>,
                     <<15, "Enum", "retcode">>, <<16, "Message", "atstartaction">>>>
Response_mask == {13}
Response_bits == [retcode |-> 13]
Response_calls ==
  [socketcall |-> Class(Response_Socket_reads, Response_Socket_writes,
                     Response_Socket_mask, Response_Socket_bits),
   connectcall |-> Class(Response_Connect_reads, Response_Connect_writes,
                     Response_Connect_mask, Response_Connect_bits),
   closecall |-> Class(Response_Close_reads, Response_Close_writes,
                     Response_Close_mask, Response_Close_bits),
   recvfromcall |-> Class(Response_Recvfrom_reads, Response_Recvfrom_writes,
                     Response_Recvfrom_mask, Response_Recvfrom_bits),
   sendtocall |-> Class(Response_Sendto_reads, Response_Sendto_writes,
                     Response_Sendto_mask, Response_Sendto_bits),
   pollcall |-> Class(Response_Poll_reads, Response_Poll_writes,
                     Response_Poll_mask, Response_Poll_bits),
   selectcall |-> Class(Response_Select_reads, Response_Select_writes,
                     Response_Select_mask, Response_Select_bits),
   getpeernamecall |-> Class(Response_Getpeername_reads, Response_Getpeername_writes,
                     Response_Getpeername_mask, Response_Getpeername_bits),
   getsocknamecall |-> Class(Response_Getsockname_reads, Response_Getsockname_writes,
                     Response_Getsockname_mask, Response_Getsockname_bits),
   getsockoptcall |-> Class(Response_Getsockopt_reads, Response_Getsockopt_writes,
                     Response_Getsockopt_mask, Response_Getsockopt_bits),
   setsockoptcall |-> Class(Response_Setsockopt_reads, Response_Setsockopt_writes,
                     Response_Setsockopt_mask, Response_Setsockopt_bits),
   fcntlcall |-> Class(Response_Fcntl_reads, Response_Fcntl_writes,
                     Response_Fcntl_mask, Response_Fcntl_bits),
   atstartaction |-> Class(Response_Atstart_reads, Response_Atstart_writes,
                     Response_Atstart_mask, Response_Atstart_bits)]
Response == [reads |-> Response_reads, writes |-> Response_writes, mask |-> Response_mask,
             bits |-> Response_bits, calls |-> Response_calls]

(* The outer descriptor, and the messages of its oneof.                    *)
response__fields == <<Oneof(1, "socketcall"), Oneof(2, "connectcall"),
                      Oneof(3, "closecall"), Oneof(4, "recvfromcall"),
                      Oneof(5, "sendtocall"), Oneof(6, "pollcall"),
                      Oneof(7, "selectcall"), Oneof(8, "getpeernamecall"),
                      Oneof(9, "getsocknamecall"), Oneof(10, "getsockoptcall"),
                      Oneof(11, "setsockoptcall"), Oneof(12, "fcntlcall"),
                      Required(15, "ENUM", "retcode"), Oneof(16, "atstartaction")>>
response__calls ==
  [socketcall |-> Message(response__socket__fields, Response__Socket),
   connectcall |-> Message(response__connect__fields, Response__Connect),
   closecall |-> Message(response__close__fields, Response__Close),
   recvfromcall |-> Message(response__recvfrom__fields, Response__Recvfrom),
   sendtocall |-> Message(response__sendto__fields, Response__Sendto),
   pollcall |-> Message(response__poll__fields, Response__Poll),
   selectcall |-> Message(response__select__fields, Response__Select),
   getpeernamecall |-> Message(response__getpeername__fields, Response__Getpeername),
   getsocknamecall |-> Message(response__getsockname__fields, Response__Getsockname),
   getsockoptcall |-> Message(response__getsockopt__fields, Response__Getsockopt),
   setsockoptcall |-> Message(response__setsockopt__fields, Response__Setsockopt),
   fcntlcall |-> Message(response__fcntl__fields, Response__Fcntl),
   atstartaction |-> Message(response__atstart__fields, Response__Atstart)]
Response__C == [fields |-> response__fields, struct |-> << >>, calls |-> response__calls]
Response__ReturningCase == [socketcall |-> 1, connectcall |-> 2, closecall |-> 3,
                            recvfromcall |-> 4, sendtocall |-> 5, pollcall |-> 6,
                            selectcall |-> 7, getpeernamecall |-> 8,
                            getsocknamecall |-> 9, getsockoptcall |-> 10,
                            setsockoptcall |-> 11, fcntlcall |-> 12, atstartaction |-> 16]
RetCode == [OK |-> 0, ERROR |-> 1, WAIT_NEXT |-> 2]
=============================================================================
