------------------------------- MODULE Protobuf -------------------------------
(***************************************************************************)
(* What the classes protoc generated for the daemon (src/rpc/cpp_out, C++) *)
(* and the descriptors protoc-c generated for the interceptor              *)
(* (src/rpc/c_out, C) do with a message.  RequestSchema and ResponseSchema *)
(* hold what differs from class to class as tables; the operators here are *)
(* what the generated methods and the protobuf-c runtime make of a table.  *)
(*                                                                         *)
(* A wire is a sequence of items <<tag, value>>, tag = 8 * id + wire type. *)
(* The value of a submessage is a wire.  Bytes and strings are sequences.  *)
(*                                                                         *)
(* A C++ object is a function from the members that are present to their   *)
(* values; a C object is a function from all members of its struct.        *)
(***************************************************************************)
EXTENDS Integers, SequencesExt

Nothing == << >>                          \* the object without any member
\* set_<m>(v): value and has-bit
Set(obj, m, v) == [x \in DOMAIN obj \cup {m} |-> IF x = m THEN v ELSE obj[x]]
Has(obj, m) == m \in DOMAIN obj            \* has_<m>()

(* Both runtimes write and read in one loop: a writer goes through the     *)
(* fields of the table, in order; a reader through the items, each of      *)
(* which changes members of the object, so that the last one stays.        *)

\* The items of those fields that have one.
Written(fields, items) ==
  LET write(wire, f) == IF f \in DOMAIN items THEN Append(wire, items[f]) ELSE wire
  IN  FoldLeft(write, << >>, fields)

\* obj after the changes, a sequence of functions from members to values
Changed(obj, changes) ==
  LET of(m) == {i \in DOMAIN changes : m \in DOMAIN changes[i]}
  IN  [m \in DOMAIN obj \cup UNION {DOMAIN changes[i] : i \in DOMAIN changes} |->
         IF of(m) = {} THEN obj[m] ELSE changes[Max(of(m))][m]]

-----------------------------------------------------------------------------
(* C++.  A class is a record: reads, the <<tag, member>> pairs its parser  *)
(* knows; writes, the <<id, type, member>> in the order they are written;  *)
(* mask, the has-bits IsInitialized asks for; bits, the has-bit of each    *)
(* member.                                                                 *)

Class(reads, writes, mask, bits) ==
  [reads |-> reads, writes |-> writes, mask |-> mask, bits |-> bits]
NoBits == [m \in {} |-> 0]

WriteTag(w) == 8 * w[1] + IF w[2] \in {"Int32", "UInt64", "Bool", "Enum"} THEN 0 ELSE 2

\* <class>::SerializeWithCachedSizes
Serialize(class, obj) ==
  Written(class.writes, [w \in {x \in ToSet(class.writes) : Has(obj, x[3])} |->
                           <<WriteTag(w), obj[w[3]]>>])

\* <class>::MergePartialFromCodedStream: what has another tag is skipped
MergePartial(class, obj, wire) ==
  LET members(tag) == {t[2] : t \in {u \in ToSet(class.reads) : u[1] = tag}}
  IN  Changed(obj, [i \in DOMAIN wire |-> [m \in members(wire[i][1]) |-> wire[i][2]]])

\* <class>::IsInitialized
IsInitialized(class, obj) == class.mask \subseteq {class.bits[m] : m \in DOMAIN obj \cap DOMAIN class.bits}

(* The two outer classes have a oneof: top.calls maps its members to their *)
(* classes.                                                                *)

\* Mutant: clear_returning, clear_calling are forgotten.
MutableCall_KeepOther(top, obj, call) ==
  IF Has(obj, call) THEN obj ELSE Set(obj, call, Nothing)
\* mutable_<call>(): another member of the oneof is deleted first
MutableCall(top, obj, call) ==
  IF Has(obj, call) THEN obj
  ELSE Set([m \in DOMAIN obj \ DOMAIN top.calls |-> obj[m]], call, Nothing)

Call(top, obj) == DOMAIN obj \cap DOMAIN top.calls  \* calling_case(), returning_case()

TopSerialize(top, obj) ==
  Serialize(top, [m \in DOMAIN obj |-> IF m \in DOMAIN top.calls
                                       THEN Serialize(top.calls[m], obj[m]) ELSE obj[m]])

\* ParseFromArray without the test at its end
TopParse(top, wire) ==
  LET take(o, item) ==
        LET call == {t[2] : t \in {u \in ToSet(top.reads) : u[1] = item[1]}}
                      \cap DOMAIN top.calls
        IN  IF call = {} THEN MergePartial(top, o, <<item>>)
            ELSE LET c == CHOOSE m \in call : TRUE
                     p == MutableCall(top, o, c)
                 IN  Set(p, c, MergePartial(top.calls[c], p[c], item[2]))
  IN  FoldLeft(take, Nothing, wire)

TopInitialized(top, obj) == /\ IsInitialized(top, obj)
                            /\ \A m \in Call(top, obj) : IsInitialized(top.calls[m], obj[m])

-----------------------------------------------------------------------------
(* C.  A message is a record: fields, its array of field descriptors, and  *)
(* struct, the <<member, type>> pairs of the struct they are offsets into, *)
(* behind its base.                                                        *)

Message(fields, struct) == [fields |-> fields, struct |-> struct]

Required(id, type, member) == [id |-> id, required |-> TRUE, type |-> type,
                               quantifier |-> "none", member |-> member]
Optional(id, type, quantifier, member) == [id |-> id, required |-> FALSE, type |-> type,
                                           quantifier |-> quantifier, member |-> member]
Oneof(id, member) == Optional(id, "MESSAGE", "case", member)

WireType(type) == IF type \in {"INT32", "UINT64", "BOOL", "ENUM"} THEN 0 ELSE 2
Tag(f) == 8 * f.id + WireType(f.type)

\* <MESSAGE>__INIT: everything zero, bytes {0, NULL}
Zero(ctype) == CASE ctype \in {"ProtobufCBinaryData", "char*"} -> << >>
                 [] ctype = "protobuf_c_boolean" -> FALSE
                 [] OTHER -> 0
InitValue(struct) ==
  [m \in {f[1] : f \in ToSet(struct)} |->
      Zero((CHOOSE f \in ToSet(struct) : f[1] = m)[2])]

\* Mutant: an optional member is packed when it is not zero, has_ or not.
Pack_NonZero(msg, obj) ==
  Written(msg.fields,
          [f \in {g \in ToSet(msg.fields) : \/ g.required
                                            \/ obj[g.member] # InitValue(msg.struct)[g.member]} |->
             <<Tag(f), obj[f.member]>>])
\* protobuf_c_message_pack
Pack(msg, obj) ==
  Written(msg.fields, [f \in {g \in ToSet(msg.fields) : g.required \/ obj[g.quantifier]} |->
                         <<Tag(f), obj[f.member]>>])

\* protobuf_c_message_unpack: not null, and the object
Unpacks(msg, wire) ==
  /\ \A f \in ToSet(msg.fields) : f.required => \E it \in ToSet(wire) : it[1] \div 8 = f.id
  /\ \A f \in ToSet(msg.fields), it \in ToSet(wire) : it[1] \div 8 = f.id => it[1] = Tag(f)
Unpack(msg, wire) ==
  LET fields(tag) == {f \in ToSet(msg.fields) : Tag(f) = tag}
      members(tag) == {f.member : f \in fields(tag)}
      has(tag) == {f.quantifier : f \in {g \in fields(tag) : ~ g.required}}
  IN  Changed(InitValue(msg.struct),
              [i \in DOMAIN wire |->
                 [m \in members(wire[i][1]) \cup has(wire[i][1]) |->
                    IF m \in members(wire[i][1]) THEN wire[i][2] ELSE TRUE]])

(* The outer struct: plain, its members outside the oneof; case, the       *)
(* number of the member set; union, what the pointer of the union refers   *)
(* to.                                                                     *)
TopPack(top, obj) ==
  LET value(f) == IF f.member \in DOMAIN top.calls
                  THEN Pack(top.calls[f.member], obj.union) ELSE obj.plain[f.member]
  IN  Written(top.fields, [f \in {g \in ToSet(top.fields) : g.required \/ obj.case = g.id} |->
                             <<Tag(f), value(f)>>])

CallFields(top) == {f \in ToSet(top.fields) : f.member \in DOMAIN top.calls}
PlainFields(top) == ToSet(top.fields) \ CallFields(top)

TopUnpacks(top, wire) ==
  /\ Unpacks(top, wire)
  /\ \A f \in CallFields(top), it \in ToSet(wire) :
        it[1] = Tag(f) => Unpacks(top.calls[f.member], it[2])
TopUnpack(top, wire) ==
  LET calls(tag) == {f \in CallFields(top) : Tag(f) = tag}
      members(tag) == {f.member : f \in {g \in PlainFields(top) : Tag(g) = tag}}
      required == {f.member : f \in {g \in ToSet(top.fields) : g.required}}
      plain == Changed([m \in required |-> 0],
                       [i \in DOMAIN wire |-> [m \in members(wire[i][1]) |-> wire[i][2]]])
      chosen == {i \in DOMAIN wire : calls(wire[i][1]) # {}}
      last == wire[Max(chosen)]
      call == CHOOSE f \in calls(last[1]) : TRUE
  IN  IF chosen = {} THEN [plain |-> plain, case |-> 0, union |-> Nothing]
      ELSE [plain |-> plain, case |-> call.id, union |-> Unpack(top.calls[call.member], last[2])]

-----------------------------------------------------------------------------
(* The layout of a C struct, for a pointer of the union that is read as    *)
(* another member than the one that was set.                               *)

BaseSize == 24
Size(ctype) == CASE ctype = "ProtobufCBinaryData" -> 16
                 [] ctype \in {"uint64_t", "char*"} -> 8
                 [] OTHER -> 4
Align(n, ctype) == LET a == IF Size(ctype) = 4 THEN 4 ELSE 8
                   IN  ((n + a - 1) \div a) * a

\* offsetof(struct, m)
Offset(struct, m) ==
  LET k == CHOOSE i \in DOMAIN struct : struct[i][1] = m
      end(n, f) == Align(n, f[2]) + Size(f[2])
  IN  Align(FoldLeft(end, BaseSize, SubSeq(struct, 1, k - 1)), struct[k][2])
TypeOf(struct, m) == (CHOOSE f \in ToSet(struct) : f[1] = m)[2]

\* The members of `stored' that a read of member m through `used' hits.
Aliases(stored, used, m) ==
  {f[1] : f \in {g \in ToSet(stored) : /\ g[2] = TypeOf(used, m)
                                       /\ Offset(stored, g[1]) = Offset(used, m)}}
=============================================================================
