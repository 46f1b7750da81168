--------------------------- MODULE RequestSchema ---------------------------
(***************************************************************************)
(* The tables of the generated code for request.proto.                     *)
(* Protobuf says how they are read.  The same message occurs in both       *)
(* languages, generated by two compilers; Messages checks that they agree. *)
(***************************************************************************)
EXTENDS Protobuf

(* C++: the tags <class>::MergePartialFromCodedStream knows, with the      *)
(* member each is stored in.                                               *)
Request_Socket_reads == <<<<8, "domain">>, <<16, "type">>, <<24, "protocol">>>>
Request_Connect_reads == <<<<10, "addr">>>>
Request_Close_reads == << >>
Request_Recvfrom_reads == <<<<8, "len">>, <<16, "flags">>, <<24, "requireaddr">>>>
Request_Sendto_reads == <<<<10, "buf">>, <<16, "flags">>, <<26, "addr">>>>
Request_Poll_reads == << >>
Request_Select_reads == << >>
Request_Getpeername_reads == << >>
Request_Getsockname_reads == << >>
Request_Getsockopt_reads == << >>
Request_Setsockopt_reads == << >>
Request_Fcntl_reads == << >>
Request_Atstart_reads == <<<<10, "progname">>>>

(* C++: what <class>::SerializeWithCachedSizes writes and ByteSize counts. *)
Request_Socket_writes == <<<<1, "Int32", "domain">>, <<2, "Int32", "type">>,
                           <<3, "Int32", "protocol">>>>
Request_Connect_writes == <<<<1, "Bytes", "addr">>>>
Request_Close_writes == << >>
Request_Recvfrom_writes == <<<<1, "Int32", "len">>, <<2, "Int32", "flags">>,
                             <<3, "Bool", "requireaddr">>>>
Request_Sendto_writes == <<<<1, "Bytes", "buf">>, <<2, "Int32", "flags">>,
                           <<3, "Bytes", "addr">>>>
Request_Poll_writes == << >>
Request_Select_writes == << >>
Request_Getpeername_writes == << >>
Request_Getsockname_writes == << >>
Request_Getsockopt_writes == << >>
Request_Setsockopt_writes == << >>
Request_Fcntl_writes == << >>
Request_Atstart_writes == <<<<1, "String", "progname">>>>

(* C++: the has-bits <class>::IsInitialized asks for.                      *)
Request_Socket_mask == {0, 1, 2}
Request_Connect_mask == {0}
Request_Close_mask == {}
Request_Recvfrom_mask == {0, 1, 2}
Request_Sendto_mask == {0, 1}
Request_Poll_mask == {}
Request_Select_mask == {}
Request_Getpeername_mask == {}
Request_Getsockname_mask == {}
Request_Getsockopt_mask == {}
Request_Setsockopt_mask == {}
Request_Fcntl_mask == {}
Request_Atstart_mask == {0}

(* C++: the has-bit of each member (has_, set_has_ and clear_has_ in       *)
(* cpp_out/request.pb.h).                                                  *)
Request_Socket_bits == [domain |-> 0, type |-> 1, protocol |-> 2]
Request_Connect_bits == [addr |-> 0]
Request_Recvfrom_bits == [len |-> 0, flags |-> 1, requireaddr |-> 2]
Request_Sendto_bits == [buf |-> 0, flags |-> 1, addr |-> 2]
Request_Atstart_bits == [progname |-> 0]

(* C: the field descriptors of each message in c_out/request.pb-c.c.       *)
request__socket__fields == <<Required(1, "INT32", "domain"), Required(2, "INT32", "type"),
                             Required(3, "INT32", "protocol")>>
request__connect__fields == <<Required(1, "BYTES", "addr")>>
request__close__fields == << >>
request__recvfrom__fields == <<Required(1, "INT32", "len"), Required(2, "INT32", "flags"),
                               Required(3, "BOOL", "requireaddr")>>
request__sendto__fields == <<Required(1, "BYTES", "buf"), Required(2, "INT32", "flags"),
                             Optional(3, "BYTES", "has_addr", "addr")>>
request__poll__fields == << >>
request__select__fields == << >>
request__getpeername__fields == << >>
request__getsockname__fields == << >>
request__getsockopt__fields == << >>
request__setsockopt__fields == << >>
request__fcntl__fields == << >>
request__atstart__fields == <<Required(1, "STRING", "progname")>>

(* C: the structs of c_out/request.pb-c.h.                                 *)
Request__Socket == <<<<"domain", "int32_t">>, <<"type", "int32_t">>,
                     <<"protocol", "int32_t">>>>
Request__Connect == <<<<"addr", "ProtobufCBinaryData">>>>
Request__Close == << >>
Request__Recvfrom == <<<<"len", "int32_t">>, <<"flags", "int32_t">>,
                       <<"requireaddr", "protobuf_c_boolean">>>>
Request__Sendto == <<<<"buf", "ProtobufCBinaryData">>, <<"flags", "int32_t">>,
                     <<"has_addr", "protobuf_c_boolean">>,
                     <<"addr", "ProtobufCBinaryData">>>>
Request__Poll == << >>
Request__Select == << >>
Request__Getpeername == << >>
Request__Getsockname == << >>
Request__Getsockopt == << >>
Request__Setsockopt == << >>
Request__Fcntl == << >>
Request__Atstart == <<<<"progname", "char*">>>>

(* The outer class: parsing, the members of the oneof and their classes,   *)
(* writing, required members.                                              *)
Request_reads == <<<<10, "socketcall">>, <<18, "connectcall">>, <<26, "closecall">>,
                   <<34, "recvfromcall">>, <<42, "sendtocall">>, <<50, "pollcall">>,
                   <<58, "selectcall">>, <<66, "getpeernamecall">>,
                   <<74, "getsocknamecall">>, <<82, "getsockoptcall">>,
                   <<90, "setsockoptcall">>, <<98, "fcntlcall">>, <<120, "pid">>,
                   <<130, "atstartaction">>>>
Request_writes == <<<<1, "Message", "socketcall">>, <<2, "Message", "connectcall">>,
                    <<3, "Message", "closecall">>, <<4, "Message", "recvfromcall">>,
                    <<5, "Message", "sendtocall">>, <<6, "Message", "pollcall">>,
                    <<7, "Message", "selectcall">>, <<8, "Message", "getpeernamecall">>,
                    <<9, "Message", "getsocknamecall">>,
                    <<10, "Message", "getsockoptcall">>,
                    <<11, "Message", "setsockoptcall">>, <<12, "Message", "fcntlcall">>,
                    <<15, "UInt64", "pid">>, <<16, "Message", "atstartaction">>>>
Request_mask == {13}
Request_bits == [pid |-> 13]
Request_calls ==
  [socketcall |-> Class(Request_Socket_reads, Request_Socket_writes,
                     Request_Socket_mask, Request_Socket_bits),
   connectcall |-> Class(Request_Connect_reads, Request_Connect_writes,
                     Request_Connect_mask, Request_Connect_bits),
   closecall |-> Class(Request_Close_reads, Request_Close_writes,
                     Request_Close_mask, NoBits),
   recvfromcall |-> Class(Request_Recvfrom_reads, Request_Recvfrom_writes,
                     Request_Recvfrom_mask, Request_Recvfrom_bits),
   sendtocall |-> Class(Request_Sendto_reads, Request_Sendto_writes,
                     Request_Sendto_mask, Request_Sendto_bits),
   pollcall |-> Class(Request_Poll_reads, Request_Poll_writes,
                     Request_Poll_mask, NoBits),
   selectcall |-> Class(Request_Select_reads, Request_Select_writes,
                     Request_Select_mask, NoBits),
   getpeernamecall |-> Class(Request_Getpeername_reads, Request_Getpeername_writes,
                     Request_Getpeername_mask, NoBits),
   getsocknamecall |-> Class(Request_Getsockname_reads, Request_Getsockname_writes,
                     Request_Getsockname_mask, NoBits),
   getsockoptcall |-> Class(Request_Getsockopt_reads, Request_Getsockopt_writes,
                     Request_Getsockopt_mask, NoBits),
   setsockoptcall |-> Class(Request_Setsockopt_reads, Request_Setsockopt_writes,
                     Request_Setsockopt_mask, NoBits),
   fcntlcall |-> Class(Request_Fcntl_reads, Request_Fcntl_writes,
                     Request_Fcntl_mask, NoBits),
   atstartaction |-> Class(Request_Atstart_reads, Request_Atstart_writes,
                     Request_Atstart_mask, Request_Atstart_bits)]
Request == [reads |-> Request_reads, writes |-> Request_writes, mask |-> Request_mask,
            bits |-> Request_bits, calls |-> Request_calls]

(* The outer descriptor, and the messages of its oneof.                    *)
request__fields == <<Oneof(1, "socketcall"), Oneof(2, "connectcall"),
                     Oneof(3, "closecall"), Oneof(4, "recvfromcall"),
                     Oneof(5, "sendtocall"), Oneof(6, "pollcall"), Oneof(7, "selectcall"),
                     Oneof(8, "getpeernamecall"), Oneof(9, "getsocknamecall"),
                     Oneof(10, "getsockoptcall"), Oneof(11, "setsockoptcall"),
                     Oneof(12, "fcntlcall"), Required(15, "UINT64", "pid"),
                     Oneof(16, "atstartaction")>>
request__calls ==
  [socketcall |-> Message(request__socket__fields, Request__Socket),
   connectcall |-> Message(request__connect__fields, Request__Connect),
   closecall |-> Message(request__close__fields, Request__Close),
   recvfromcall |-> Message(request__recvfrom__fields, Request__Recvfrom),
   sendtocall |-> Message(request__sendto__fields, Request__Sendto),
   pollcall |-> Message(request__poll__fields, Request__Poll),
   selectcall |-> Message(request__select__fields, Request__Select),
   getpeernamecall |-> Message(request__getpeername__fields, Request__Getpeername),
   getsocknamecall |-> Message(request__getsockname__fields, Request__Getsockname),
   getsockoptcall |-> Message(request__getsockopt__fields, Request__Getsockopt),
   setsockoptcall |-> Message(request__setsockopt__fields, Request__Setsockopt),
   fcntlcall |-> Message(request__fcntl__fields, Request__Fcntl),
   atstartaction |-> Message(request__atstart__fields, Request__Atstart)]
Request__C == [fields |-> request__fields, struct |-> << >>, calls |-> request__calls]
Request__CallingCase == [socketcall |-> 1, connectcall |-> 2, closecall |-> 3,
                         recvfromcall |-> 4, sendtocall |-> 5, pollcall |-> 6,
                         selectcall |-> 7, getpeernamecall |-> 8, getsocknamecall |-> 9,
                         getsockoptcall |-> 10, setsockoptcall |-> 11, fcntlcall |-> 12,
                         atstartaction |-> 16]
=============================================================================
