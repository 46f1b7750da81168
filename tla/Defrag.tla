------------------------------- MODULE Defrag -------------------------------
(***************************************************************************)
(* The receive loop of the IP thread (Ip.cpp) and Defrager::defrag, which  *)
(* reassembles datagrams from their fragments.                             *)
(*                                                                         *)
(* A fragment context is the chain of SocketBuffers that hangs on          *)
(* DefragContext::first.  Offsets are in units of 8 bytes, as in the       *)
(* header; frag_off is the 16-bit field with its flags, and Swapped is     *)
(* what a little-endian machine reads when the code forgets to convert it. *)
(*                                                                         *)
(* Not in this module: the mutex, which only guards against timeout_cb;    *)
(* timeout_cb itself, which never runs, for nothing runs the libev loop    *)
(* its timers are started in; checksums, of which the code checks none.    *)
(***************************************************************************)
EXTENDS Integers, Sequences, FiniteSets, FiniteSetsExt, SequencesExt

CONSTANTS
    Datagrams,      \* the datagrams that are sent
    Header,         \* datagram -> its [id, protocol, saddr, daddr]
    Fragments,      \* datagram -> its fragments [off, len, mf, ihl], in order
    Copies          \* bound: datagram -> how often one of its fragments arrives

ASSUME CopiesAssumption == Copies \in [Datagrams -> Nat]

\* The 13 bits of an offset, and the 16 of tot_len.
Offsets == 0 .. 8191
MaxLength == 65535
Lengths == 0 .. MaxLength

ASSUME DatagramsAssumption ==
    \A d \in Datagrams :
        /\ Fragments[d] \in Seq([off : Offsets, len : Nat \ {0}, mf : BOOLEAN, ihl : 5 .. 15])
        /\ Fragments[d] # <<>>

VARIABLES
    ctx,        \* header -> chain of the context's fragments, <<>> for no context
    arrivals,   \* history: datagram -> its fragments in the order they arrived
    delivered,  \* packets handed to Udp::rx or Tcp::rx, in order
    crashed     \* defrag dereferenced a null pointer

vars == <<ctx, arrivals, delivered, crashed>>

\* A fragment, as a SocketBuffer, is named by its datagram and its place in it.
Buffers == UNION {{d} \X (1 .. Len(Fragments[d])) : d \in Datagrams}

frag(b) == Fragments[b[1]][b[2]]
off(b) == frag(b).off
len(b) == frag(b).len
ihl(b) == frag(b).ihl

\* The fragments of d as buffers, and the length of d without its header.
Pieces(d) == {d} \X DOMAIN Fragments[d]
Size(d) == MapThenSumSet(len, Pieces(d))

\* Datagrams are fragmented as RFC 791 says: each fragment begins where the one
\* before it ends, all but the last have MF, and the whole has a 16-bit length.
ASSUME FragmentsAssumption ==
    \A d \in Datagrams :
        LET F == Fragments[d]
            last == Len(F)
        IN  /\ F[1].off = 0
            /\ \A i \in 1 .. last - 1 : F[i + 1].off * 8 = F[i].off * 8 + F[i].len
            /\ \A i \in 1 .. last : \A j \in 1 .. i - 1 : F[j].off < F[i].off
            /\ \A i \in 1 .. last : F[i].mf <=> i < last
            /\ Size(d) = F[last].off * 8 + F[last].len
            /\ Size(d) + F[1].ihl * 4 <= MaxLength

\* Mutant: the source address is not compared.
Key_NoSource(b) == [Header[b[1]] EXCEPT !.saddr = "any"]

\* What a context is looked up by.
Key(b) == Header[b[1]]

\* iphdr->frag_off as a number, its bytes exchanged, and its low 13 bits.
frag_off(b) == off(b) + (IF frag(b).mf THEN 8192 ELSE 0)
Swapped(v) == (v % 256) * 256 + v \div 256
ours_off(b) == Swapped(frag_off(b)) % 8192

Init ==
    /\ ctx = [k \in {Key(b) : b \in Buffers} |-> <<>>]
    /\ arrivals = [d \in Datagrams |-> <<>>]
    /\ delivered = <<>>
    /\ crashed = FALSE

-----------------------------------------------------------------------------

\* The number of fragments of a chain that ours goes behind.
Behind(chain, ours) ==
    Max({n \in 0 .. Len(chain) : \A i \in 1 .. n : ours > off(chain[i])})

GoesFirst(chain, b) == chain = <<>> \/ off(chain[1]) > off(b)

\* Mutant: the rest of the chain is dropped.
Inserted_NoNext(chain, b) ==
    IF GoesFirst(chain, b)
      THEN <<b>> \o chain
      ELSE Append(SubSeq(chain, 1, Behind(chain, ours_off(b))), b)

\* The chain with b in its place.
Inserted(chain, b) ==
    IF GoesFirst(chain, b)
      THEN <<b>> \o chain
      ELSE InsertAt(chain, Behind(chain, ours_off(b)) + 1, b)

\* Inserting behind nothing: prev is null.
NullPrev(chain, b) == ~GoesFirst(chain, b) /\ Behind(chain, ours_off(b)) = 0

\* Mutants: gaps are not looked for; MF is that of the first fragment.
Ready_NoGap(chain) ==
    /\ off(chain[1]) = 0
    /\ ~frag(Last(chain)).mf

Ready_FirstMF(chain) ==
    /\ off(chain[1]) = 0
    /\ \A i \in 1 .. Len(chain) - 1 :
           off(chain[i + 1]) * 8 = off(chain[i]) * 8 + len(chain[i])
    /\ ~frag(chain[1]).mf

\* Every fragment begins where the one before it ends, and MF of the last is 0.
Ready(chain) ==
    /\ off(chain[1]) = 0
    /\ \A i \in 1 .. Len(chain) - 1 :
           off(chain[i + 1]) * 8 = off(chain[i]) * 8 + len(chain[i])
    /\ ~frag(Last(chain)).mf

\* The length that reassembly puts in the first fragment's header.
tot_len(chain) ==
    (off(Last(chain)) * 8 + len(Last(chain)) + ihl(chain[1]) * 4) % 65536

\* user_payload_begin of the buffers behind the first, from the start of each:
\* the header length, in words, is added as it is.
begins(chain) == [i \in 1 .. Len(chain) - 1 |-> ihl(chain[i + 1])]

\* Mutant: the header length is taken for bytes.
Packet_Words(chain, total, last) ==
    [chain |-> chain, tot_len |-> total, transport |-> ihl(last), begins |-> begins(chain)]

\* A packet handed on: its chain, its tot_len, where the transport header is
\* looked for - by the header length of the fragment that came last - and where
\* the payload of the later buffers is.
Packet(chain, total, last) ==
    [chain |-> chain, tot_len |-> total, transport |-> ihl(last) * 4, begins |-> begins(chain)]

\* How much of packet p a recvfrom answers with: [begin, end) of every buffer,
\* where UdpPcb::recv has put begin behind the 8 bytes of the UDP header.
UserBytes(p) ==
    LET end(b) == ihl(b) * 4 + len(b)
        begin(i) == IF i = 1 THEN p.transport + 8 ELSE p.begins[i - 1]
    IN  MapThenSumSet(LAMBDA i : end(p.chain[i]) - begin(i), DOMAIN p.chain)

\* Mutant: the context is not removed.
defrag_Keep(b) ==
    LET chain == Inserted(ctx[Key(b)], b) IN
    \/ /\ NullPrev(ctx[Key(b)], b)
       /\ crashed' = TRUE
       /\ UNCHANGED <<ctx, delivered>>
    \/ /\ ~NullPrev(ctx[Key(b)], b)
       /\ ctx' = [ctx EXCEPT ![Key(b)] = chain]
       /\ delivered' = IF Ready(chain)
                         THEN Append(delivered, Packet(chain, tot_len(chain), b))
                         ELSE delivered
       /\ UNCHANGED crashed

\* Defrager::defrag: find or make the context, insert, and when the chain is
\* complete hand it on and remove the context.
defrag(b) ==
    LET chain == Inserted(ctx[Key(b)], b) IN
    \/ /\ NullPrev(ctx[Key(b)], b)
       /\ crashed' = TRUE
       /\ UNCHANGED <<ctx, delivered>>
    \/ /\ ~NullPrev(ctx[Key(b)], b)
       /\ Ready(chain)
       /\ ctx' = [ctx EXCEPT ![Key(b)] = <<>>]
       /\ delivered' = Append(delivered, Packet(chain, tot_len(chain), b))
       /\ UNCHANGED crashed
    \/ /\ ~NullPrev(ctx[Key(b)], b)
       /\ ~Ready(chain)
       /\ ctx' = [ctx EXCEPT ![Key(b)] = chain]
       /\ UNCHANGED <<delivered, crashed>>

isFrag(b) == off(b) # 0 \/ frag(b).mf

\* One turn of rx_loop: a packet of the network is taken from rxQ.
rx(b) ==
    /\ ~crashed
    /\ Cardinality({i \in DOMAIN arrivals[b[1]] : arrivals[b[1]][i] = b[2]}) < Copies[b[1]]
    /\ arrivals' = [arrivals EXCEPT ![b[1]] = Append(@, b[2])]
    /\ \/ isFrag(b) /\ defrag(b)
       \/ /\ ~isFrag(b)
          /\ delivered' = Append(delivered, Packet(<<b>>, len(b) + ihl(b) * 4, b))
          /\ UNCHANGED <<ctx, crashed>>

Next == \E b \in Buffers : rx(b)

Spec == Init /\ [][Next]_vars

-----------------------------------------------------------------------------
(* Properties *)

\* Contexts, arrivals and deliveries are made of the buffers that arrived.
TypeOK ==
    /\ DOMAIN ctx = {Key(b) : b \in Buffers}
    /\ \A k \in DOMAIN ctx : ctx[k] \in Seq(Buffers)
    /\ \A d \in Datagrams : arrivals[d] \in Seq(1 .. Len(Fragments[d]))
    /\ delivered \in Seq([chain : Seq(Buffers), tot_len : Lengths, transport : 20 .. 60,
                          begins : Seq(5 .. 15)])
    /\ crashed \in BOOLEAN

\* The fragments of d, in order, as a chain.
Whole(d) == [i \in DOMAIN Fragments[d] |-> <<d, i>>]

\* Whatever arrives, in any order and however often, a packet handed on is one
\* datagram, whole, in order and with the length it was sent with.
DeliveredWhole ==
    \A i \in DOMAIN delivered :
        \E d \in Datagrams :
            /\ delivered[i].chain = Whole(d)
            /\ delivered[i].tot_len = ihl(<<d, 1>>) * 4 + Size(d)

\* SocketBuffer.h:34, "user payload in [begin, end)": what a recvfrom answers
\* with is as long as the payload that was sent.  It is not: 15 bytes of header
\* come with every later fragment.
ReceivedAsSent ==
    \A i \in DOMAIN delivered : \A d \in Datagrams :
        delivered[i].chain = Whole(d) /\ Header[d].protocol = "udp"
            => UserBytes(delivered[i]) = Size(d) - 8

Places(seq, x) == {i \in DOMAIN seq : seq[i] = x}
Count(seq, x) == Cardinality(Places(seq, x))

\* Where b is in what was handed on: the number of a packet, and a place in it.
DeliveredPlaces(b) ==
    UNION {{i} \X Places(delivered[i].chain, b) : i \in DOMAIN delivered}

\* Every buffer that arrived is in one context or one delivered packet, once.
BuffersConserved ==
    ~crashed =>
        \A b \in Buffers :
            Count(arrivals[b[1]], b[2]) =
                Count(ctx[Key(b)], b) + Cardinality(DeliveredPlaces(b))

\* In order of arrival every fragment is before all, or after all, that came.
AtTheEnds(seq) ==
    \A j \in DOMAIN seq :
        \/ \A i \in 1 .. j - 1 : seq[j] < seq[i]
        \/ \A i \in 1 .. j - 1 : seq[j] > seq[i]

\* The unconverted offset of every fragment is beyond all offsets of d.
SwapHarmless(d) ==
    \A i, j \in DOMAIN Fragments[d] : i > 1 => ours_off(<<d, i>>) > off(<<d, j>>)

AllArrived(d) ==
    Len(arrivals[d]) = Len(Fragments[d]) /\ IsInjective(arrivals[d])

IsDelivered(d) == \E i \in DOMAIN delivered : delivered[i].chain = Whole(d)

\* Fragments that arrive at the ends of what is there, each once, are made
\* into their datagram as soon as the last of them is in.
EndsSuffice ==
    \A d \in Datagrams :
        AllArrived(d) /\ AtTheEnds(arrivals[d]) /\ SwapHarmless(d) /\ ~crashed
            => IsDelivered(d)
=============================================================================
