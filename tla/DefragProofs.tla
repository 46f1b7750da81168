----------------------------- MODULE DefragProofs -----------------------------
(***************************************************************************)
(* Theorems about Defrag, for any datagrams and fragments in any order and *)
(* number: types, that what is handed on is one datagram, whole, that no   *)
(* buffer is lost or used twice, and that arrival at the ends suffices.    *)
(***************************************************************************)
EXTENDS Defrag, Integers, SequenceTheorems, FiniteSetTheorems, WellFoundedInduction,
        TLAPS

\* No two datagrams on the network have the same id, protocol and addresses.
HeadersDistinct == \A d, e \in Datagrams : Header[d] = Header[e] => d = e

-----------------------------------------------------------------------------
(* Numbers.                                                                *)

\* A set of natural numbers has a least one.
LEMMA LeastOf ==
  ASSUME NEW T, T \subseteq Nat, T # {}
  PROVE  \E x \in T : \A y \in T : x <= y
<1> DEFINE R == {ss \in Nat \X Nat : ss[1] < ss[2]}
<1>1. IsWellFoundedOn(R, Nat)
  BY NatLessThanWellFounded DEF OpToRel
<1>2. PICK x \in T : \A y \in T : <<y, x>> \notin R
  BY <1>1, WFMin
<1>3. \A y \in T : ~ (y < x)
  BY <1>2
<1> QED BY <1>3

\* The greatest of some of the numbers up to a bound is one of them.
LEMMA GreatestOf ==
  ASSUME NEW n \in Nat, NEW S, S \subseteq 0 .. n, S # {}
  PROVE  Max(S) \in S
<1> DEFINE T == {m \in Nat : \E x \in S : m = n - x}
<1>1. T # {}
  <2>1. PICK x \in S : TRUE
    OBVIOUS
  <2>2. n - x \in T
    BY <2>1
  <2> QED BY <2>2
<1>2. PICK m \in T : \A y \in T : m <= y
  <2>1. T \subseteq Nat
    OBVIOUS
  <2> HIDE DEF T
  <2> QED BY <1>1, <2>1, LeastOf
<1>3. PICK x \in S : m = n - x
  OBVIOUS
<1>4. \A y \in S : x >= y
  <2>1. ASSUME NEW y \in S PROVE x >= y
    <3>1. n - y \in T
      OBVIOUS
    <3>2. n - x <= n - y
      BY <1>2, <1>3, <3>1
    <3> QED BY <3>2
  <2> QED BY <2>1
<1> QED BY <1>4 DEF Max

-----------------------------------------------------------------------------
(* Fragments.                                                              *)

LEMMA OffsetsAreNumbers ==
  ASSUME NEW x, x \in Offsets
  PROVE  x \in Nat
BY DEF Offsets

FragmentSet == [off : Offsets, len : Nat \ {0}, mf : BOOLEAN, ihl : 5 .. 15]

LEMMA FragmentsType ==
  ASSUME NEW d \in Datagrams
  PROVE  /\ Len(Fragments[d]) \in Nat \ {0} /\ DOMAIN Fragments[d] = 1 .. Len(Fragments[d])
         /\ \A i \in 1 .. Len(Fragments[d]) : Fragments[d][i] \in FragmentSet
<1>1. Fragments[d] \in Seq(FragmentSet) /\ Fragments[d] # << >>
  BY DatagramsAssumption DEF FragmentSet
<1> QED BY <1>1, LenProperties, EmptySeq, ElementOfSeq

\* A buffer is a datagram and a place in it.
LEMMA Place ==
  ASSUME NEW b \in Buffers
  PROVE  \E d \in Datagrams : \E i \in 1 .. Len(Fragments[d]) :
            b = <<d, i>> /\ b[1] = d /\ b[2] = i
BY DEF Buffers

LEMMA Fragment ==
  ASSUME NEW b \in Buffers
  PROVE  /\ off(b) \in Nat /\ len(b) \in Nat \ {0} /\ ihl(b) \in 5 .. 15
         /\ frag(b).mf \in BOOLEAN
<1>1. PICK d \in Datagrams, i \in Nat : i \in 1 .. Len(Fragments[d]) /\ b[1] = d /\ b[2] = i
  <2>1. PICK d \in Datagrams : \E i \in 1 .. Len(Fragments[d]) : b[1] = d /\ b[2] = i
    BY Place
  <2>2. PICK i \in 1 .. Len(Fragments[d]) : b[1] = d /\ b[2] = i
    BY <2>1
  <2> QED BY <2>2
<1>2. frag(b) \in FragmentSet
  BY <1>1, FragmentsType DEF frag
<1>3. \A r \in FragmentSet : /\ r.off \in Offsets /\ r.len \in Nat \ {0}
                             /\ r.mf \in BOOLEAN /\ r.ihl \in 5 .. 15
  BY DEF FragmentSet
<1> QED BY <1>2, <1>3, OffsetsAreNumbers DEF off, len, ihl

\* What FragmentsAssumption says of the fragments of one datagram, as buffers.
LEMMA Pieced ==
  ASSUME NEW d \in Datagrams
  PROVE  LET n == Len(Fragments[d]) IN
         /\ n \in Nat \ {0}
         /\ \A i \in 1 .. n : <<d, i>> \in Buffers
         /\ off(<<d, 1>>) = 0
         /\ \A i \in 1 .. n - 1 : off(<<d, i + 1>>) * 8 = off(<<d, i>>) * 8 + len(<<d, i>>)
         /\ \A i \in 1 .. n : \A j \in 1 .. i - 1 : off(<<d, j>>) < off(<<d, i>>)
         /\ \A i \in 1 .. n : frag(<<d, i>>).mf <=> i < n
BY FragmentsAssumption, FragmentsType DEF Buffers, frag, off, len, ihl

LEMMA Sized ==
  ASSUME NEW d \in Datagrams
  PROVE  LET n == Len(Fragments[d]) IN
         /\ Size(d) = off(<<d, n>>) * 8 + len(<<d, n>>)
         /\ Size(d) + ihl(<<d, 1>>) * 4 <= MaxLength
BY FragmentsAssumption, FragmentsType DEF frag, off, len, ihl

\* Two fragments of a datagram have different offsets.
LEMMA OffsetTells ==
  ASSUME NEW b \in Buffers, NEW c \in Buffers, b[1] = c[1], off(b) = off(c)
  PROVE  b = c
<1>1. PICK d \in Datagrams : \E i \in 1 .. Len(Fragments[d]) : b = <<d, i>> /\ b[1] = d
  BY Place
<1>2. PICK i \in 1 .. Len(Fragments[d]) : b = <<d, i>>
  BY <1>1
<1>3. PICK e \in Datagrams : \E j \in 1 .. Len(Fragments[e]) : c = <<e, j>> /\ c[1] = e
  BY Place
<1>4. PICK j \in 1 .. Len(Fragments[d]) : c = <<d, j>>
  BY <1>1, <1>3
<1>5. off(b) \in Nat /\ off(c) \in Nat
  BY Fragment
<1>6. /\ \A k \in 1 .. Len(Fragments[d]) : \A l \in 1 .. k - 1 : off(<<d, l>>) < off(<<d, k>>)
      /\ Len(Fragments[d]) \in Nat
  BY FragmentsType, Pieced
<1>7. ~ (i < j)
  <2>1. i < j => off(b) < off(c)
    BY <1>2, <1>4, <1>6
  <2> QED BY <1>5, <2>1
<1>8. ~ (j < i)
  <2>1. j < i => off(c) < off(b)
    BY <1>2, <1>4, <1>6
  <2> QED BY <1>5, <2>1
<1> QED BY <1>2, <1>4, <1>6, <1>7, <1>8

-----------------------------------------------------------------------------
(* Complete chains.                                                        *)

\* A chain that Defrager finds complete, of one context.
Complete(c, n) ==
  /\ c \in Seq(Buffers) /\ n = Len(c) /\ n > 0
  /\ \A i \in 1 .. n : Key(c[i]) = Key(c[1])
  /\ off(c[1]) = 0
  /\ \A i \in 1 .. n - 1 : off(c[i + 1]) * 8 = off(c[i]) * 8 + len(c[i])
  /\ ~ frag(c[n]).mf

\* It is a datagram: the fragment at each place is the datagram's, for else
\* there is a first place where it is not, and the one before tells its offset.
LEMMA CompleteIsWhole ==
  ASSUME HeadersDistinct, NEW c, NEW n, Complete(c, n)
  PROVE  \E d \in Datagrams : /\ c = Whole(d) /\ n = Len(Fragments[d])
                              /\ c[1] = <<d, 1>> /\ c[n] = <<d, n>>
<1> DEFINE d == c[1][1]
           m == Len(Fragments[d])
<1>1. n \in Nat \ {0} /\ \A i \in 1 .. n : c[i] \in Buffers
  BY LenProperties, ElementOfSeq DEF Complete
<1>2. \A b \in Buffers : /\ b[1] \in Datagrams
                        /\ \E j \in 1 .. Len(Fragments[b[1]]) : b = <<b[1], j>>
  <2>1. ASSUME NEW b \in Buffers
        PROVE  /\ b[1] \in Datagrams
               /\ \E j \in 1 .. Len(Fragments[b[1]]) : b = <<b[1], j>>
    BY Place
  <2> QED BY <2>1
<1>3. ASSUME NEW i \in 1 .. n
      PROVE  \E j \in 1 .. m : c[i] = <<d, j>>
  <2>1. c[i] \in Buffers /\ c[1] \in Buffers
    BY <1>1
  <2>2. Header[c[i][1]] = Header[d] /\ c[i][1] \in Datagrams /\ d \in Datagrams
    BY <1>2, <2>1 DEF Complete, Key
  <2>3. c[i][1] = d
    BY <2>2 DEF HeadersDistinct
  <2> QED BY <1>2, <2>1, <2>3
<1>4. d \in Datagrams
  BY <1>1, <1>2
<1> HIDE DEF d
<1>5. /\ m \in Nat \ {0}
      /\ \A j \in 1 .. m : <<d, j>> \in Buffers
      /\ off(<<d, 1>>) = 0
      /\ \A j \in 1 .. m - 1 : off(<<d, j + 1>>) * 8 = off(<<d, j>>) * 8 + len(<<d, j>>)
      /\ \A j \in 1 .. m : \A i \in 1 .. j - 1 : off(<<d, i>>) < off(<<d, j>>)
      /\ \A j \in 1 .. m : frag(<<d, j>>).mf <=> j < m
  BY <1>4, Pieced
<1> HIDE DEF m
<1>6. \A i \in 1 .. n : c[i] \in Buffers /\ c[i][1] = d
  BY <1>1, <1>3
<1>7. \A b \in Buffers : off(b) \in Nat /\ len(b) \in Nat \ {0}
  BY Fragment
<1>8. \A i \in 1 .. n : i <= m => c[i] = <<d, i>>
  <2> DEFINE Wrong == {i \in Nat : i \in 1 .. n /\ i <= m /\ c[i] # <<d, i>>}
  <2> SUFFICES ASSUME Wrong # {} PROVE FALSE
    BY <1>1, <1>5
  <2>1. PICK i \in Wrong : \A k \in Wrong : i <= k
    <3>1. Wrong \subseteq Nat
      OBVIOUS
    <3> HIDE DEF Wrong
    <3> QED BY <3>1, LeastOf
  <2>2. i \in 1 .. n /\ i \in 1 .. m /\ c[i] # <<d, i>>
    BY <1>5
  <2>3. c[i] \in Buffers /\ <<d, i>> \in Buffers /\ c[i][1] = d
    BY <1>5, <1>6, <2>2
  <2>4. off(c[i]) = off(<<d, i>>)
    <3>1. CASE i = 1
      BY <1>5, <3>1 DEF Complete
    <3>2. CASE i # 1
      <4> DEFINE k == i - 1
      <4>1. k \in 1 .. n - 1 /\ k \in 1 .. m - 1 /\ k \in 1 .. n /\ k \in 1 .. m /\ i = k + 1
        BY <1>1, <1>5, <2>2, <3>2
      <4>2. c[k] = <<d, k>>
        <5>1. k \notin Wrong
          BY <2>1, <2>2
        <5> QED BY <4>1, <5>1
      <4> HIDE DEF k
      <4>3. off(c[i]) * 8 = off(<<d, k>>) * 8 + len(<<d, k>>)
        BY <4>1, <4>2 DEF Complete
      <4>4. off(<<d, i>>) * 8 = off(<<d, k>>) * 8 + len(<<d, k>>)
        BY <1>5, <4>1
      <4>5. off(c[i]) \in Nat /\ off(<<d, i>>) \in Nat
        BY <1>7, <2>3
      <4> QED BY <4>3, <4>4, <4>5
    <3> QED BY <3>1, <3>2
  <2>5. c[i] = <<d, i>>
    BY <2>3, <2>4, OffsetTells
  <2> QED BY <2>2, <2>5
<1>9. n = m
  <2>1. CASE n <= m
    <3>1. c[n] = <<d, n>> /\ n \in 1 .. m
      BY <1>1, <1>5, <1>8, <2>1
    <3>2. ~ (n < m)
      BY <1>5, <3>1 DEF Complete
    <3> QED BY <1>1, <1>5, <2>1, <3>2
  <2>2. CASE n > m
    <3>1. c[m] = <<d, m>> /\ m \in 1 .. n - 1 /\ m + 1 \in 1 .. n /\ m \in 1 .. m
      BY <1>1, <1>5, <1>8, <2>2
    <3>2. PICK j \in 1 .. m : c[m + 1] = <<d, j>>
      BY <1>3, <3>1 DEF m
    <3>3. off(<<d, j>>) * 8 = off(<<d, m>>) * 8 + len(<<d, m>>)
      BY <3>1, <3>2 DEF Complete
    <3>4. /\ off(<<d, j>>) \in Nat /\ off(<<d, m>>) \in Nat /\ len(<<d, m>>) \in Nat \ {0}
      BY <1>5, <1>7, <3>1, <3>2
    <3>5. off(<<d, j>>) > off(<<d, m>>)
      BY <3>3, <3>4
    <3>6. j = m \/ j \in 1 .. m - 1
      BY <1>5, <3>2
    <3>7. off(<<d, j>>) <= off(<<d, m>>)
      BY <1>5, <3>1, <3>4, <3>6
    <3> QED BY <3>4, <3>5, <3>7
  <2> QED BY <1>1, <1>5, <2>1, <2>2
<1>10. c = Whole(d)
  <2>1. DOMAIN c = 1 .. n /\ c = [i \in 1 .. n |-> c[i]]
    BY LenProperties DEF Complete
  <2>2. Whole(d) = [i \in 1 .. m |-> <<d, i>>]
    BY <1>4, FragmentsType DEF Whole, m
  <2> QED BY <1>8, <1>9, <2>1, <2>2
<1> QED BY <1>1, <1>4, <1>5, <1>8, <1>9, <1>10 DEF m

-----------------------------------------------------------------------------
(* Types.                                                                  *)

\* The buffers a context may hold, and the packets.
Of(k) == {b \in Buffers : Key(b) = k}
Packets == [chain : Seq(Buffers), tot_len : Lengths, transport : 20 .. 60, begins : Seq(5 .. 15)]

Types ==
  /\ DOMAIN ctx = {Key(b) : b \in Buffers}
  /\ \A k \in DOMAIN ctx : ctx[k] \in Seq(Of(k))
  /\ arrivals \in [Datagrams -> Seq(Nat)]
  /\ \A d \in Datagrams : arrivals[d] \in Seq(1 .. Len(Fragments[d]))
  /\ delivered \in Seq(Packets)
  /\ crashed \in BOOLEAN

LEMMA OfBuffers ==
  ASSUME NEW k, NEW c \in Seq(Of(k))
  PROVE  c \in Seq(Buffers)
<1>1. Of(k) \subseteq Buffers
  BY DEF Of
<1> QED BY <1>1, SeqMonotonic

\* Insertion adds the fragment to the chain and nothing else, wherever its
\* unconverted offset puts it.
LEMMA InsertedType ==
  ASSUME NEW S, NEW c \in Seq(S), NEW b \in S
  PROVE  Inserted(c, b) \in Seq(S) /\ Inserted(c, b) # << >>
<1>1. <<b>> \in Seq(S) /\ Len(<<b>>) = 1
  OBVIOUS
<1>2. Len(c) \in Nat /\ \A i \in 1 .. Len(c) : c[i] \in S
  BY LenProperties, ElementOfSeq
<1>3. CASE GoesFirst(c, b)
  <2>1. Inserted(c, b) = <<b>> \o c
    BY <1>3 DEF Inserted
  <2>2. Inserted(c, b) \in Seq(S) /\ Len(Inserted(c, b)) = 1 + Len(c)
    BY <1>1, <2>1, ConcatProperties
  <2> QED BY <1>2, <2>2, EmptySeq
<1>4. CASE ~ GoesFirst(c, b)
  <2> DEFINE n == Behind(c, ours_off(b))
             before == SubSeq(c, 1, n)
             after == SubSeq(c, n + 1, Len(c))
  <2>1. n \in 0 .. Len(c)
    <3> DEFINE T == {m \in 0 .. Len(c) : \A i \in 1 .. m : ours_off(b) > off(c[i])}
    <3>1. 0 \in T /\ T \subseteq 0 .. Len(c)
      BY <1>2
    <3>2. n = Max(T)
      BY DEF Behind
    <3> HIDE DEF T, n
    <3> QED BY <1>2, <3>1, <3>2, GreatestOf
  <2>2. Inserted(c, b) = SubSeq(c, 1, (n + 1) - 1) \o <<b>> \o after
    BY <1>4 DEF Inserted, InsertAt
  <2>3. (n + 1) - 1 = n
    BY <1>2, <2>1
  <2> HIDE DEF n
  <2>4. before \in Seq(S) /\ after \in Seq(S)
    <3>1. 1 \in Int /\ n \in Int /\ n + 1 \in Int /\ Len(c) \in Int
      BY <1>2, <2>1
    <3>2. \A i \in 1 .. n : c[i] \in S
      BY <1>2, <2>1
    <3>3. \A i \in n + 1 .. Len(c) : c[i] \in S
      BY <1>2, <2>1
    <3> QED BY <3>1, <3>2, <3>3, SubSeqProperties
  <2> HIDE DEF before, after
  <2>5. Inserted(c, b) = before \o <<b>> \o after
    BY <2>2, <2>3 DEF before
  <2>6. before \o <<b>> \in Seq(S) /\ Len(before \o <<b>>) = Len(before) + 1
    BY <1>1, <2>4, ConcatProperties
  <2>7. /\ (before \o <<b>>) \o after \in Seq(S)
        /\ Len((before \o <<b>>) \o after) = Len(before) + 1 + Len(after)
    BY <2>4, <2>6, ConcatProperties
  <2>8. Len(before) \in Nat /\ Len(after) \in Nat
    BY <2>4, LenProperties
  <2> QED BY <2>5, <2>7, <2>8, EmptySeq
<1> QED BY <1>3, <1>4

\* A packet that is no fragment is a datagram of one fragment.
LEMMA SingleIsWhole ==
  ASSUME NEW b \in Buffers, ~ isFrag(b)
  PROVE  \E d \in Datagrams : /\ b = <<d, 1>> /\ <<b>> = Whole(d) /\ Size(d) = len(b)
<1>1. PICK d \in Datagrams : \E i \in 1 .. Len(Fragments[d]) : b = <<d, i>> /\ b[1] = d
  BY Place
<1>2. PICK i \in 1 .. Len(Fragments[d]) : b = <<d, i>>
  BY <1>1
<1> DEFINE n == Len(Fragments[d])
<1>3. n \in Nat \ {0} /\ DOMAIN Fragments[d] = 1 .. n
  BY FragmentsType
<1>4. /\ off(<<d, 1>>) = 0 /\ <<d, 1>> \in Buffers
      /\ frag(<<d, i>>).mf <=> i < n
  BY <1>3, Pieced
<1>5. off(b) = 0 /\ ~ frag(b).mf
  BY DEF isFrag
<1>6. i = n
  BY <1>2, <1>3, <1>4, <1>5
<1>7. b = <<d, 1>>
  <2>1. <<d, 1>>[1] = d
    OBVIOUS
  <2> QED BY <1>1, <1>4, <1>5, <2>1, OffsetTells
<1>8. n = 1
  <2>1. <<d, i>> = <<d, 1>>
    BY <1>2, <1>7
  <2> QED BY <1>6, <2>1
<1>9. Size(d) = len(b)
  <2>1. Size(d) = off(<<d, n>>) * 8 + len(<<d, n>>)
    BY Sized
  <2>2. len(b) \in Nat
    BY Fragment
  <2> QED BY <1>5, <1>7, <1>8, <2>1, <2>2
<1>10. <<b>> = Whole(d)
  <2>1. Whole(d) = [j \in 1 .. 1 |-> <<d, j>>]
    BY <1>3, <1>8 DEF Whole
  <2> QED BY <1>7, <2>1
<1> QED BY <1>7, <1>9, <1>10

\* The remainder, as % gives it.
LEMMA Remainder ==
  ASSUME NEW x \in Nat, NEW n \in Nat \ {0}
  PROVE  x % n \in Nat /\ x % n < n /\ (x < n => x % n = x)
OBVIOUS

\* Lengths are the numbers of 16 bits.
LEMMA LengthType ==
  /\ MaxLength \in Nat
  /\ \A x \in Nat : x % 65536 \in Lengths
  /\ \A x \in Nat : x <= MaxLength => x \in Lengths
<1>1. MaxLength \in Nat
  BY DEF MaxLength
<1>2. ASSUME NEW x \in Nat PROVE x % 65536 \in Lengths
  <2>1. 65536 \in Nat \ {0} /\ 65536 = MaxLength + 1
    BY DEF MaxLength
  <2> DEFINE n == 65536
  <2>2. n \in Nat \ {0} /\ n = MaxLength + 1
    BY <2>1
  <2> HIDE DEF n
  <2>3. x % n \in Nat /\ x % n < n
    BY <2>2, Remainder
  <2>4. x % n \in Lengths
    BY <1>1, <2>2, <2>3 DEF Lengths
  <2> QED BY <2>4 DEF n
<1>3. ASSUME NEW x \in Nat, x <= MaxLength PROVE x \in Lengths
  BY <1>1, <1>3 DEF Lengths
<1> QED BY <1>1, <1>2, <1>3

LEMMA TypeInit == Init => Types
<1> SUFFICES ASSUME Init PROVE Types
  OBVIOUS
<1>1. /\ \A k : << >> \in Seq(Of(k))
      /\ \A d : << >> \in Seq(1 .. Len(Fragments[d]))
      /\ << >> \in Seq(Nat) /\ << >> \in Seq(Packets)
  OBVIOUS
<1> QED BY <1>1 DEF Init, Types

\* A packet of one datagram, whole, with its length.
WholePacket(p) ==
  \E d \in Datagrams : p.chain = Whole(d) /\ p.tot_len = ihl(<<d, 1>>) * 4 + Size(d)

LEMMA HeaderBytes ==
  ASSUME NEW i \in 5 .. 15
  PROVE  i * 4 \in 20 .. 60
OBVIOUS

\* Where the payload of the later buffers is taken to begin: words, not bytes.
LEMMA BeginsType ==
  ASSUME NEW c \in Seq(Buffers)
  PROVE  begins(c) \in Seq(5 .. 15)
<1>1. Len(c) \in Nat
  BY LenProperties
<1>2. CASE Len(c) = 0
  <2>1. 1 .. Len(c) - 1 = {} /\ << >> \in Seq(5 .. 15)
    BY <1>2
  <2>2. begins(c) = << >>
    BY <2>1 DEF begins
  <2> QED BY <2>1, <2>2
<1>3. CASE Len(c) # 0
  <2> DEFINE n == Len(c) - 1
  <2>1. n \in Nat
    BY <1>1, <1>3
  <2>2. ASSUME NEW i \in 1 .. n PROVE ihl(c[i + 1]) \in 5 .. 15
    <3>1. c[i + 1] \in Buffers
      BY <1>1, ElementOfSeq
    <3> QED BY <3>1, Fragment
  <2> HIDE DEF n
  <2>3. [i \in 1 .. n |-> ihl(c[i + 1])] \in [1 .. n -> 5 .. 15]
    BY <2>2
  <2>4. [i \in 1 .. n |-> ihl(c[i + 1])] \in Seq(5 .. 15)
    BY <2>1, <2>3, SeqDef
  <2> QED BY <2>4 DEF begins, n
<1> QED BY <1>2, <1>3

\* A packet handed on is made of buffers, numbers of 16 bits and numbers of words.
LEMMA PacketType ==
  ASSUME NEW c \in Seq(Buffers), NEW total \in Lengths, NEW b \in Buffers
  PROVE  /\ Packet(c, total, b) \in Packets
         /\ Packet(c, total, b).chain = c /\ Packet(c, total, b).tot_len = total
<1>1. ihl(b) \in 5 .. 15
  BY Fragment
<1>2. ihl(b) * 4 \in 20 .. 60
  BY <1>1, HeaderBytes
<1> QED BY <1>2, BeginsType DEF Packet, Packets

\* The chain a fragment is put in, and what is made of it.
LEMMA Insertion ==
  ASSUME Types, NEW b \in Buffers
  PROVE  /\ Key(b) \in DOMAIN ctx
         /\ Inserted(ctx[Key(b)], b) \in Seq(Of(Key(b)))
         /\ Inserted(ctx[Key(b)], b) # << >>
<1>1. Key(b) \in DOMAIN ctx /\ ctx[Key(b)] \in Seq(Of(Key(b))) /\ b \in Of(Key(b))
  BY DEF Types, Of
<1> QED BY <1>1, InsertedType

LEMMA Reassembled ==
  ASSUME NEW k, NEW c \in Seq(Of(k)), c # << >>, NEW b \in Buffers
  PROVE  /\ Packet(c, tot_len(c), b) \in Packets
         /\ HeadersDistinct /\ Ready(c) => WholePacket(Packet(c, tot_len(c), b))
<1> DEFINE n == Len(c)
<1>1. n \in Nat \ {0} /\ \A i \in 1 .. n : c[i] \in Buffers /\ Key(c[i]) = k
  BY LenProperties, EmptySeq, ElementOfSeq DEF Of
<1>2. c \in Seq(Buffers) /\ Last(c) = c[n] /\ c[1] \in Buffers /\ c[n] \in Buffers
  BY <1>1, OfBuffers DEF Last
<1>3. off(c[n]) \in Nat /\ len(c[n]) \in Nat /\ ihl(c[1]) \in 5 .. 15
  BY <1>2, Fragment
<1> HIDE DEF n
<1> DEFINE size == off(c[n]) * 8 + len(c[n])
<1>4. tot_len(c) = (size + ihl(c[1]) * 4) % 65536
  BY <1>2 DEF tot_len
<1>5. size \in Nat /\ size + ihl(c[1]) * 4 \in Nat
  <2>1. size \in Nat
    BY <1>3
  <2>2. ihl(c[1]) * 4 \in Nat
    BY <1>3
  <2> HIDE DEF size
  <2> QED BY <2>1, <2>2
<1>6. tot_len(c) \in Lengths
  BY <1>4, <1>5, LengthType
<1>7. /\ Packet(c, tot_len(c), b) \in Packets
      /\ Packet(c, tot_len(c), b).chain = c /\ Packet(c, tot_len(c), b).tot_len = tot_len(c)
  BY <1>2, <1>6, PacketType
<1>8. ASSUME HeadersDistinct, Ready(c)
      PROVE  WholePacket(Packet(c, tot_len(c), b))
  <2>1. Complete(c, n)
    BY <1>1, <1>2, <1>8 DEF Complete, Ready, n
  <2>2. PICK d \in Datagrams : /\ c = Whole(d) /\ n = Len(Fragments[d])
                               /\ c[1] = <<d, 1>> /\ c[n] = <<d, n>>
    BY <1>8, <2>1, CompleteIsWhole
  <2>3. size = Size(d) /\ Size(d) + ihl(c[1]) * 4 <= MaxLength
    BY <2>2, Sized
  <2>4. (size + ihl(c[1]) * 4) % 65536 = size + ihl(c[1]) * 4
    <3> DEFINE x == size + ihl(c[1]) * 4
    <3>1. x \in Nat /\ x <= MaxLength
      BY <1>5, <2>3
    <3> HIDE DEF x
    <3>2. x % 65536 = x
      <4>1. 65536 \in Nat \ {0} /\ 65536 = MaxLength + 1 /\ MaxLength \in Nat
        BY DEF MaxLength
      <4> DEFINE m == 65536
      <4>2. m \in Nat \ {0} /\ m = MaxLength + 1 /\ MaxLength \in Nat
        BY <4>1
      <4> HIDE DEF m
      <4>3. x < m
        BY <3>1, <4>2
      <4>4. x % m = x
        BY <3>1, <4>2, <4>3, Remainder
      <4> QED BY <4>4 DEF m
    <3> QED BY <3>2 DEF x
  <2>5. tot_len(c) = ihl(<<d, 1>>) * 4 + Size(d)
    <3>1. ihl(c[1]) = ihl(<<d, 1>>)
      BY <2>2
    <3> DEFINE i == ihl(c[1])
    <3>2. i \in Nat /\ tot_len(c) = size + i * 4
      BY <1>3, <1>4, <2>4
    <3> HIDE DEF i, size
    <3>3. tot_len(c) = i * 4 + size
      BY <1>5, <3>2
    <3> QED BY <2>3, <3>1, <3>3 DEF i
  <2> QED BY <1>7, <2>2, <2>5 DEF WholePacket
<1> QED BY <1>7, <1>8

LEMMA Unfragmented ==
  ASSUME NEW b \in Buffers, ~ isFrag(b)
  PROVE  /\ Packet(<<b>>, len(b) + ihl(b) * 4, b) \in Packets
         /\ WholePacket(Packet(<<b>>, len(b) + ihl(b) * 4, b))
<1>1. PICK d \in Datagrams : b = <<d, 1>> /\ <<b>> = Whole(d) /\ Size(d) = len(b)
  BY SingleIsWhole
<1>2. len(b) \in Nat /\ ihl(b) \in 5 .. 15
  BY Fragment
<1>3. len(b) + ihl(b) * 4 <= MaxLength
  BY <1>1, Sized
<1>4. len(b) + ihl(b) * 4 \in Lengths
  BY <1>2, <1>3, LengthType
<1>5. <<b>> \in Seq(Buffers)
  OBVIOUS
<1>6. len(b) + ihl(b) * 4 = ihl(<<d, 1>>) * 4 + Size(d)
  BY <1>1, <1>2
<1> QED BY <1>1, <1>4, <1>5, <1>6, PacketType DEF WholePacket

\* What a turn of rx_loop hands on.
LEMMA HandsOn ==
  ASSUME Types, NEW b \in Buffers, rx(b)
  PROVE  \/ delivered' = delivered
         \/ \E p \in Packets : /\ delivered' = Append(delivered, p)
                               /\ HeadersDistinct => WholePacket(p)
<1> DEFINE c == Inserted(ctx[Key(b)], b)
           p == Packet(c, tot_len(c), b)
           q == Packet(<<b>>, len(b) + ihl(b) * 4, b)
<1>1. c \in Seq(Of(Key(b))) /\ c # << >>
  BY Insertion
<1> HIDE DEF c
<1>2. p \in Packets /\ (HeadersDistinct /\ Ready(c) => WholePacket(p))
  BY <1>1, Reassembled
<1>3. ~ isFrag(b) => q \in Packets /\ WholePacket(q)
  BY Unfragmented
<1>4. \/ delivered' = delivered
      \/ delivered' = Append(delivered, p) /\ Ready(c)
      \/ delivered' = Append(delivered, q) /\ ~ isFrag(b)
  BY DEF rx, defrag, c
<1> HIDE DEF p, q
<1> QED BY <1>2, <1>3, <1>4

LEMMA TypeStep == Types /\ [Next]_vars => Types'
<1> SUFFICES ASSUME Types, [Next]_vars PROVE Types'
  OBVIOUS
<1>1. CASE UNCHANGED vars
  BY <1>1 DEF vars, Types
<1>2. ASSUME NEW b \in Buffers, rx(b)
      PROVE  Types'
  <2>1. DOMAIN ctx' = DOMAIN ctx /\ \A k \in DOMAIN ctx : ctx'[k] \in Seq(Of(k))
    <3> DEFINE c == Inserted(ctx[Key(b)], b)
    <3>1. Key(b) \in DOMAIN ctx /\ c \in Seq(Of(Key(b)))
      BY Insertion
    <3>2. << >> \in Seq(Of(Key(b)))
      OBVIOUS
    <3>3. \/ ctx' = ctx
          \/ ctx' = [ctx EXCEPT ![Key(b)] = << >>]
          \/ ctx' = [ctx EXCEPT ![Key(b)] = c]
      BY <1>2 DEF rx, defrag
    <3> HIDE DEF c
    <3> QED BY <3>1, <3>2, <3>3 DEF Types
  <2>2. PICK d \in Datagrams : \E i \in 1 .. Len(Fragments[d]) : b[1] = d /\ b[2] = i
    BY Place
  <2>3. PICK i \in 1 .. Len(Fragments[d]) : b[1] = d /\ b[2] = i
    BY <2>2
  <2>4. arrivals' = [arrivals EXCEPT ![d] = Append(@, i)]
    BY <1>2, <2>3 DEF rx
  <2>5. /\ arrivals' \in [Datagrams -> Seq(Nat)]
        /\ \A e \in Datagrams : arrivals'[e] \in Seq(1 .. Len(Fragments[e]))
    <3>1. Len(Fragments[d]) \in Nat /\ i \in Nat
      BY FragmentsType
    <3>2. Append(arrivals[d], i) \in Seq(Nat) /\ Append(arrivals[d], i) \in Seq(1 .. Len(Fragments[d]))
      BY <3>1, AppendProperties DEF Types
    <3> QED BY <2>4, <3>2 DEF Types
  <2>6. delivered' \in Seq(Packets)
    <3>1. \A p \in Packets : Append(delivered, p) \in Seq(Packets)
      BY AppendProperties DEF Types
    <3> QED BY <1>2, <3>1, HandsOn DEF Types
  <2>7. crashed' \in BOOLEAN
    BY <1>2 DEF rx, defrag, Types
  <2> QED BY <2>1, <2>5, <2>6, <2>7 DEF Types
<1> QED BY <1>1, <1>2 DEF Next

LEMMA TypesAreTypes == Types => TypeOK
<1> SUFFICES ASSUME Types PROVE TypeOK
  OBVIOUS
<1>1. \A k \in DOMAIN ctx : ctx[k] \in Seq(Buffers)
  BY OfBuffers DEF Types
<1> QED BY <1>1 DEF Types, TypeOK, Packets

\* Contexts hold the fragments that arrived, each under its header, and what is
\* handed to the transport layer has 16-bit lengths, for any datagrams.
THEOREM TypeCorrect == Spec => []TypeOK
BY TypeInit, TypeStep, TypesAreTypes, PTL DEF Spec

\* A packet that Defrager hands on is one datagram, whole, in order and with its
\* length, however its fragments and those of others come, and although the
\* place of a fragment is looked for with unconverted offsets.
THEOREM DeliversDatagrams ==
  ASSUME HeadersDistinct
  PROVE  Spec => []DeliveredWhole
<1> DEFINE All == \A i \in DOMAIN delivered : WholePacket(delivered[i])
<1>1. Init => All
  BY DEF Init
<1>2. Types /\ All /\ [Next]_vars => All'
  <2> SUFFICES ASSUME Types, All, [Next]_vars PROVE All'
    OBVIOUS
  <2>1. CASE UNCHANGED vars
    BY <2>1 DEF vars, WholePacket
  <2>2. ASSUME NEW b \in Buffers, rx(b)
        PROVE  All'
    <3>1. delivered \in Seq(Packets)
      BY DEF Types
    <3>2. CASE delivered' = delivered
      BY <3>2 DEF WholePacket
    <3>3. ASSUME NEW p \in Packets, delivered' = Append(delivered, p), WholePacket(p)
          PROVE  All'
      <4>1. /\ DOMAIN delivered = 1 .. Len(delivered) /\ Len(delivered) \in Nat
            /\ DOMAIN delivered' = 1 .. Len(delivered) + 1
            /\ \A i \in 1 .. Len(delivered) : delivered'[i] = delivered[i]
            /\ delivered'[Len(delivered) + 1] = p
        BY <3>1, <3>3, AppendProperties, LenProperties
      <4>2. \A i \in DOMAIN delivered' : WholePacket(delivered'[i])
        BY <3>3, <4>1
      <4> QED BY <4>2 DEF WholePacket
    <3> QED BY <2>2, <3>2, <3>3, HandsOn, HeadersDistinct
  <2> QED BY <2>1, <2>2 DEF Next
<1>3. All => DeliveredWhole
  BY DEF WholePacket, DeliveredWhole
<1> QED BY <1>1, <1>2, <1>3, TypeInit, TypeStep, PTL DEF Spec

(***************************************************************************)
(* Counting.  A sequence that gains one element, anywhere, has it once     *)
(* more and everything else as often as before.                            *)
(***************************************************************************)

\* p is q with b put at place n + 1.
PutAt(q, n, b, p) ==
  /\ n \in 0 .. Len(q) /\ Len(p) = Len(q) + 1
  /\ \A i \in 1 .. n : p[i] = q[i]
  /\ p[n + 1] = b
  /\ \A i \in n + 1 .. Len(q) : p[i + 1] = q[i]

LEMMA PlacesFinite ==
  ASSUME NEW S, NEW q \in Seq(S), NEW x
  PROVE  /\ IsFiniteSet(Places(q, x)) /\ Count(q, x) \in Nat
         /\ Places(q, x) \subseteq 1 .. Len(q) /\ Len(q) \in Nat /\ DOMAIN q = 1 .. Len(q)
<1>1. Len(q) \in Nat /\ DOMAIN q = 1 .. Len(q)
  BY LenProperties
<1>2. Places(q, x) \subseteq 1 .. Len(q)
  BY <1>1 DEF Places
<1>3. IsFiniteSet(1 .. Len(q))
  BY <1>1, FS_Interval
<1>4. IsFiniteSet(Places(q, x))
  BY <1>2, <1>3, FS_Subset
<1> QED BY <1>1, <1>2, <1>4, FS_CardinalityType DEF Count

LEMMA CountPut ==
  ASSUME NEW S, NEW q \in Seq(S), NEW p \in Seq(S), NEW n, NEW b, PutAt(q, n, b, p), NEW x
  PROVE  Count(p, x) = Count(q, x) + (IF x = b THEN 1 ELSE 0)
<1> DEFINE A == Places(q, x)
           B == Places(p, x) \ {n + 1}
           f == [i \in A |-> IF i <= n THEN i ELSE i + 1]
<1>1. /\ Len(q) \in Nat /\ DOMAIN q = 1 .. Len(q) /\ DOMAIN p = 1 .. Len(q) + 1
      /\ IsFiniteSet(A) /\ IsFiniteSet(Places(p, x))
      /\ A \subseteq 1 .. Len(q) /\ Places(p, x) \subseteq 1 .. Len(q) + 1
      /\ n \in 0 .. Len(q) /\ n \in Nat
  BY PlacesFinite DEF PutAt
<1>2. \A i \in A : f[i] \in B
  <2> SUFFICES ASSUME NEW i \in A PROVE f[i] \in Places(p, x) /\ f[i] # n + 1
    OBVIOUS
  <2>1. i \in 1 .. Len(q) /\ q[i] = x
    BY <1>1 DEF Places
  <2>2. CASE i <= n
    <3>1. f[i] = i /\ i \in 1 .. n /\ p[i] = q[i]
      BY <1>1, <2>1, <2>2 DEF PutAt
    <3> QED BY <1>1, <2>1, <3>1 DEF Places
  <2>3. CASE ~(i <= n)
    <3>1. f[i] = i + 1 /\ i \in n + 1 .. Len(q) /\ p[i + 1] = q[i]
      BY <1>1, <2>1, <2>3 DEF PutAt
    <3> QED BY <1>1, <2>1, <3>1 DEF Places
  <2> QED BY <2>2, <2>3
<1>3. \A i, j \in A : f[i] = f[j] => i = j
  BY <1>1
<1>4. \A k \in B : \E i \in A : f[i] = k
  <2> SUFFICES ASSUME NEW k \in B PROVE \E i \in A : f[i] = k
    OBVIOUS
  <2>1. k \in 1 .. Len(q) + 1 /\ p[k] = x /\ k # n + 1
    BY <1>1 DEF Places
  <2>2. CASE k <= n
    <3>1. k \in 1 .. n /\ p[k] = q[k] /\ k \in 1 .. Len(q)
      BY <1>1, <2>1, <2>2 DEF PutAt
    <3>2. k \in A
      BY <1>1, <2>1, <3>1 DEF Places
    <3> QED BY <2>2, <3>2
  <2>3. CASE ~(k <= n)
    <3>1. k - 1 \in n + 1 .. Len(q) /\ (k - 1) + 1 = k /\ k - 1 \in 1 .. Len(q) /\ ~(k - 1 <= n)
      BY <1>1, <2>1, <2>3
    <3>2. q[k - 1] = x
      BY <2>1, <3>1 DEF PutAt
    <3>3. k - 1 \in A
      BY <1>1, <3>1, <3>2 DEF Places
    <3> QED BY <3>1, <3>3
  <2> QED BY <2>2, <2>3
<1>5. Cardinality(B) = Cardinality(A)
  <2>1. f \in [A -> B]
    BY <1>2
  <2> HIDE DEF f
  <2>2. f \in Bijection(A, B)
    BY <1>3, <1>4, <2>1 DEF Bijection, Injection, Surjection, IsInjective
  <2> QED BY <1>1, <2>2, FS_Bijection DEF ExistsBijection
<1>6. n + 1 \in Places(p, x) <=> x = b
  BY <1>1 DEF Places, PutAt
<1>7. Cardinality(B) = IF n + 1 \in Places(p, x) THEN Count(p, x) - 1 ELSE Count(p, x)
  BY <1>1, FS_RemoveElement DEF Count
<1>8. Count(p, x) \in Nat /\ Count(q, x) \in Nat /\ Count(q, x) = Cardinality(A)
  BY PlacesFinite DEF Count
<1>9. \A u, v, w \in Nat : w = u /\ w = v - 1 => v = u + 1
  OBVIOUS
<1>10. Cardinality(B) \in Nat /\ Cardinality(A) \in Nat
  BY <1>5, <1>8
<1> HIDE DEF A, B
<1>11. CASE x = b
  <2>1. Cardinality(B) = Count(p, x) - 1
    BY <1>6, <1>7, <1>11
  <2>2. Count(p, x) = Count(q, x) + 1
    BY <1>5, <1>8, <1>9, <1>10, <2>1
  <2> QED BY <1>11, <2>2
<1>12. CASE x # b
  <2>1. Count(p, x) = Count(q, x)
    BY <1>5, <1>6, <1>7, <1>8, <1>12
  <2> QED BY <1>8, <1>12, <2>1
<1> QED BY <1>11, <1>12

LEMMA AppendPuts ==
  ASSUME NEW S, NEW q \in Seq(S), NEW b \in S
  PROVE  PutAt(q, Len(q), b, Append(q, b))
BY AppendProperties, LenProperties DEF PutAt

\* Insertion is such a step, wherever it puts b.
LEMMA InsertedPuts ==
  ASSUME NEW S, NEW c \in Seq(S), NEW b \in S
  PROVE  /\ GoesFirst(c, b) => PutAt(c, 0, b, Inserted(c, b))
         /\ ~GoesFirst(c, b) => PutAt(c, Behind(c, ours_off(b)), b, Inserted(c, b))
<1>1. Len(c) \in Nat /\ <<b>> \in Seq(S) /\ Len(<<b>>) = 1 /\ <<b>>[1] = b
  BY LenProperties
<1>2. ASSUME GoesFirst(c, b) PROVE PutAt(c, 0, b, Inserted(c, b))
  <2>1. Inserted(c, b) = <<b>> \o c
    BY <1>2 DEF Inserted
  <2>2. /\ Len(<<b>> \o c) = 1 + Len(c)
        /\ \A i \in 1 .. 1 + Len(c) :
              (<<b>> \o c)[i] = IF i <= 1 THEN <<b>>[i] ELSE c[i - 1]
    BY <1>1, ConcatProperties
  <2>3. (<<b>> \o c)[0 + 1] = b
    BY <1>1, <2>2
  <2>4. \A i \in 0 + 1 .. Len(c) : (<<b>> \o c)[i + 1] = c[i]
    BY <1>1, <2>2
  <2> QED BY <1>1, <2>1, <2>2, <2>3, <2>4 DEF PutAt
<1>3. ASSUME ~GoesFirst(c, b) PROVE PutAt(c, Behind(c, ours_off(b)), b, Inserted(c, b))
  <2> DEFINE n == Behind(c, ours_off(b))
             before == SubSeq(c, 1, n)
             after == SubSeq(c, n + 1, Len(c))
             p == before \o <<b>>
  <2>1. n \in 0 .. Len(c)
    <3> DEFINE T == {m \in 0 .. Len(c) : \A i \in 1 .. m : ours_off(b) > off(c[i])}
    <3>1. 0 \in T /\ T \subseteq 0 .. Len(c)
      BY <1>1
    <3>2. n = Max(T)
      BY DEF Behind
    <3> HIDE DEF T, n
    <3> QED BY <1>1, <3>1, <3>2, GreatestOf
  <2>2. Inserted(c, b) = SubSeq(c, 1, (n + 1) - 1) \o <<b>> \o after
    BY <1>3 DEF Inserted, InsertAt
  <2>3. (n + 1) - 1 = n /\ n \in Nat
    BY <1>1, <2>1
  <2> HIDE DEF n
  <2>4. /\ before \in Seq(S) /\ Len(before) = n /\ \A i \in 1 .. n : before[i] = c[i]
        /\ after \in Seq(S) /\ Len(after) = Len(c) - n
        /\ \A i \in 1 .. Len(c) - n : after[i] = c[n + i]
    <3>1. 1 \in Int /\ n \in Int /\ n + 1 \in Int /\ Len(c) \in Int
      BY <1>1, <2>1
    <3>2. \A i \in 1 .. n : c[i] \in S
      BY <1>1, <2>1, ElementOfSeq
    <3>3. \A i \in n + 1 .. Len(c) : c[i] \in S
      BY <1>1, <2>1, ElementOfSeq
    <3>4. /\ before \in Seq(S)
          /\ Len(before) = IF 1 <= n THEN n - 1 + 1 ELSE 0
          /\ \A i \in 1 .. n - 1 + 1 : before[i] = c[1 + i - 1]
      BY <3>1, <3>2, SubSeqProperties
    <3>5. /\ after \in Seq(S)
          /\ Len(after) = IF n + 1 <= Len(c) THEN Len(c) - (n + 1) + 1 ELSE 0
          /\ \A i \in 1 .. Len(c) - (n + 1) + 1 : after[i] = c[(n + 1) + i - 1]
      BY <3>1, <3>3, SubSeqProperties
    <3> HIDE DEF before, after
    <3>6. n - 1 + 1 = n /\ Len(c) - (n + 1) + 1 = Len(c) - n
      BY <1>1, <2>1
    <3>7. \A i \in 1 .. n : 1 + i - 1 = i
      OBVIOUS
    <3>8. \A i \in 1 .. Len(c) - n : (n + 1) + i - 1 = n + i
      BY <1>1, <2>1
    <3>9. Len(before) = n /\ \A i \in 1 .. n : before[i] = c[i]
      BY <2>3, <3>4, <3>6, <3>7
    <3>10. Len(after) = Len(c) - n
      <4>1. CASE n + 1 <= Len(c)
        BY <3>5, <3>6, <4>1
      <4>2. CASE ~(n + 1 <= Len(c))
        <5>1. n = Len(c) /\ Len(after) = 0
          BY <1>1, <2>1, <3>5, <4>2
        <5> QED BY <1>1, <5>1
      <4> QED BY <4>1, <4>2
    <3>11. \A i \in 1 .. Len(c) - n : after[i] = c[n + i]
      BY <3>5, <3>6, <3>8
    <3> QED BY <3>4, <3>5, <3>9, <3>10, <3>11
  <2> HIDE DEF before, after
  <2>5. /\ p \in Seq(S) /\ Len(p) = n + 1
        /\ \A i \in 1 .. n : p[i] = before[i]
        /\ p[n + 1] = b
    BY <1>1, <2>3, <2>4, ConcatProperties
  <2> HIDE DEF p
  <2>6. /\ Len(p \o after) = (n + 1) + (Len(c) - n)
        /\ \A i \in 1 .. (n + 1) + (Len(c) - n) :
              (p \o after)[i] = IF i <= n + 1 THEN p[i] ELSE after[i - (n + 1)]
    BY <2>4, <2>5, ConcatProperties
  <2>7. Inserted(c, b) = p \o after
    BY <2>2, <2>3 DEF p, before
  <2>8. (n + 1) + (Len(c) - n) = Len(c) + 1
    BY <1>1, <2>1
  <2>9. \A i \in 1 .. n : (p \o after)[i] = c[i]
    BY <1>1, <2>1, <2>4, <2>5, <2>6
  <2>10. (p \o after)[n + 1] = b
    BY <1>1, <2>1, <2>5, <2>6
  <2>11. \A i \in n + 1 .. Len(c) : (p \o after)[i + 1] = c[i]
    <3> SUFFICES ASSUME NEW i \in n + 1 .. Len(c) PROVE (p \o after)[i + 1] = c[i]
      OBVIOUS
    <3>1. /\ i + 1 \in 1 .. (n + 1) + (Len(c) - n) /\ ~(i + 1 <= n + 1)
          /\ (i + 1) - (n + 1) = i - n /\ i - n \in 1 .. Len(c) - n /\ n + (i - n) = i
      BY <1>1, <2>1
    <3>2. (p \o after)[i + 1] = after[i - n]
      BY <2>6, <3>1
    <3>3. after[i - n] = c[n + (i - n)]
      BY <2>4, <3>1
    <3> QED BY <3>1, <3>2, <3>3
  <2> QED BY <2>1, <2>6, <2>7, <2>8, <2>9, <2>10, <2>11 DEF PutAt, n
<1> QED BY <1>2, <1>3

\* A packet handed on adds what its chain holds.
LEMMA HandedOn ==
  ASSUME delivered \in Seq(Packets), NEW p \in Packets, delivered' = Append(delivered, p),
         NEW b, IsFiniteSet(DeliveredPlaces(b))
  PROVE  /\ IsFiniteSet(DeliveredPlaces(b)')
         /\ Cardinality(DeliveredPlaces(b)') = Cardinality(DeliveredPlaces(b)) + Count(p.chain, b)
<1> DEFINE n == Len(delivered)
           New == {n + 1} \X Places(p.chain, b)
<1>1. /\ n \in Nat /\ DOMAIN delivered = 1 .. n /\ DOMAIN delivered' = 1 .. n + 1
      /\ \A i \in 1 .. n : delivered'[i] = delivered[i]
      /\ delivered'[n + 1] = p
  BY AppendProperties, LenProperties
<1> HIDE DEF n
<1>2. DeliveredPlaces(b)' = DeliveredPlaces(b) \cup New
  <2>1. DeliveredPlaces(b)' = UNION {{i} \X Places(delivered'[i].chain, b) : i \in 1 .. n + 1}
    BY <1>1 DEF DeliveredPlaces
  <2>2. DeliveredPlaces(b) = UNION {{i} \X Places(delivered[i].chain, b) : i \in 1 .. n}
    BY <1>1 DEF DeliveredPlaces
  <2>3. \A i \in 1 .. n : Places(delivered'[i].chain, b) = Places(delivered[i].chain, b)
    BY <1>1
  <2>4. Places(delivered'[n + 1].chain, b) = Places(p.chain, b)
    BY <1>1
  <2>5. \A i : i \in 1 .. n + 1 <=> i \in 1 .. n \/ i = n + 1
    BY <1>1
  <2>6. ASSUME NEW x, x \in DeliveredPlaces(b)' PROVE x \in DeliveredPlaces(b) \cup New
    <3> DEFINE All == {{i} \X Places(delivered'[i].chain, b) : i \in 1 .. n + 1}
    <3>4. PICK T \in All : x \in T
      BY <2>1, <2>6
    <3>1. PICK i \in 1 .. n + 1 : x \in {i} \X Places(delivered'[i].chain, b)
      BY <3>4
    <3>2. CASE i = n + 1
      BY <2>4, <3>1, <3>2
    <3>3. CASE i \in 1 .. n
      BY <2>2, <2>3, <3>1, <3>3
    <3> QED BY <2>5, <3>1, <3>2, <3>3
  <2>7. ASSUME NEW x, x \in DeliveredPlaces(b) PROVE x \in DeliveredPlaces(b)'
    <3>1. PICK i \in 1 .. n : x \in {i} \X Places(delivered[i].chain, b)
      BY <2>2, <2>7
    <3> QED BY <2>1, <2>3, <2>5, <3>1
  <2>8. ASSUME NEW x, x \in New PROVE x \in DeliveredPlaces(b)'
    BY <2>1, <2>4, <2>5, <2>8
  <2> QED BY <2>6, <2>7, <2>8
<1>3. DeliveredPlaces(b) \cap New = {}
  <2>1. \A x \in New : x[1] = n + 1
    OBVIOUS
  <2>2. \A x \in DeliveredPlaces(b) : x[1] \in 1 .. n
    BY <1>1 DEF DeliveredPlaces
  <2>3. n + 1 \notin 1 .. n
    BY <1>1
  <2> QED BY <2>1, <2>2, <2>3
<1>4. IsFiniteSet(New) /\ Cardinality(New) = Count(p.chain, b) /\ Count(p.chain, b) \in Nat
  <2>1. p.chain \in Seq(Buffers)
    BY DEF Packets
  <2>2. IsFiniteSet(Places(p.chain, b)) /\ Count(p.chain, b) \in Nat
    BY <2>1, PlacesFinite
  <2>3. IsFiniteSet({n + 1}) /\ Cardinality({n + 1}) = 1
    BY FS_Singleton
  <2>4. IsFiniteSet(New) /\ Cardinality(New) = 1 * Cardinality(Places(p.chain, b))
    BY <2>2, <2>3, FS_Product
  <2> QED BY <2>2, <2>4 DEF Count
<1> HIDE DEF New
<1>5. Cardinality(DeliveredPlaces(b)) \in Nat
  BY FS_CardinalityType
<1>6. /\ IsFiniteSet(DeliveredPlaces(b) \cup New)
      /\ Cardinality(DeliveredPlaces(b) \cup New)
            = Cardinality(DeliveredPlaces(b)) + Cardinality(New)
                - Cardinality(DeliveredPlaces(b) \cap New)
  BY <1>4, FS_Union
<1>7. Cardinality(DeliveredPlaces(b) \cap New) = 0
  BY <1>3, FS_EmptySet
<1>8. Cardinality(DeliveredPlaces(b)')
        = Cardinality(DeliveredPlaces(b)) + Count(p.chain, b) - 0
  BY <1>2, <1>4, <1>6, <1>7
<1> QED BY <1>2, <1>4, <1>5, <1>6, <1>8

LEMMA CountOne ==
  ASSUME NEW S, NEW b \in S, NEW x
  PROVE  Count(<<b>>, x) = (IF x = b THEN 1 ELSE 0) /\ Count(<< >>, x) = 0
<1>1. Count(<< >>, x) = 0
  <2>1. Places(<< >>, x) = {}
    BY DEF Places
  <2> QED BY <2>1, FS_EmptySet DEF Count
<1> DEFINE none == << >>
           one == <<b>>
<1>2. none \in Seq(S) /\ one \in Seq(S) /\ PutAt(none, 0, b, one)
  BY DEF PutAt
<1> HIDE DEF none, one
<1>3. Count(one, x) = Count(none, x) + (IF x = b THEN 1 ELSE 0)
  BY <1>2, CountPut
<1> QED BY <1>1, <1>3 DEF none, one

LEMMA CountInserted ==
  ASSUME NEW S, NEW c \in Seq(S), NEW b \in S, NEW x
  PROVE  Count(Inserted(c, b), x) = Count(c, x) + (IF x = b THEN 1 ELSE 0)
<1>1. Inserted(c, b) \in Seq(S)
  BY InsertedType
<1>2. PICK n : PutAt(c, n, b, Inserted(c, b))
  BY InsertedPuts
<1> QED BY <1>1, <1>2, CountPut

\* A buffer of another header is in no chain of this one.
LEMMA CountElsewhere ==
  ASSUME NEW k, NEW c \in Seq(Of(k)), NEW x, x \notin Of(k)
  PROVE  Count(c, x) = 0
<1>1. \A i \in DOMAIN c : c[i] # x
  BY LenProperties, ElementOfSeq
<1>2. Places(c, x) = {}
  BY <1>1 DEF Places
<1> QED BY <1>2, FS_EmptySet DEF Count

Conserved ==
  \A b \in Buffers :
    /\ IsFiniteSet(DeliveredPlaces(b))
    /\ ~crashed => Count(arrivals[b[1]], b[2])
                     = Count(ctx[Key(b)], b) + Cardinality(DeliveredPlaces(b))

LEMMA ConservedStep == Types /\ Conserved /\ [Next]_vars => Conserved'
<1> SUFFICES ASSUME Types, Conserved, [Next]_vars PROVE Conserved'
  OBVIOUS
<1>1. CASE UNCHANGED vars
  BY <1>1 DEF vars, Conserved, DeliveredPlaces
<1>2. ASSUME NEW b \in Buffers, rx(b), NEW y \in Buffers
      PROVE  /\ IsFiniteSet(DeliveredPlaces(y)')
             /\ ~crashed' => Count(arrivals'[y[1]], y[2])
                               = Count(ctx'[Key(y)], y) + Cardinality(DeliveredPlaces(y)')
  <2> DEFINE c == ctx[Key(b)]
             e == Inserted(c, b)
             one == IF y = b THEN 1 ELSE 0
  <2>1. /\ IsFiniteSet(DeliveredPlaces(y)) /\ ~crashed /\ delivered \in Seq(Packets)
        /\ Count(arrivals[y[1]], y[2]) = Count(ctx[Key(y)], y) + Cardinality(DeliveredPlaces(y))
    BY <1>2 DEF Conserved, rx, Types
  <2>2. /\ Key(b) \in DOMAIN ctx /\ Key(y) \in DOMAIN ctx
        /\ c \in Seq(Of(Key(b))) /\ b \in Of(Key(b)) /\ e \in Seq(Of(Key(b))) /\ e # << >>
    BY Insertion DEF Types, Of
  <2>3. one \in Nat /\ Cardinality(DeliveredPlaces(y)) \in Nat
        /\ Count(ctx[Key(y)], y) \in Nat /\ Count(c, y) \in Nat
    <3>1. ctx[Key(y)] \in Seq(Of(Key(y)))
      BY <2>2 DEF Types
    <3> QED BY <2>1, <2>2, <3>1, FS_CardinalityType, PlacesFinite
  <2>4. Count(arrivals'[y[1]], y[2]) = Count(arrivals[y[1]], y[2]) + one
    <3>1. PICK d \in Datagrams : \E i \in 1 .. Len(Fragments[d]) : b = <<d, i>> /\ b[1] = d /\ b[2] = i
      BY Place
    <3>2. PICK i \in 1 .. Len(Fragments[d]) : b = <<d, i>> /\ b[1] = d /\ b[2] = i
      BY <3>1
    <3>3. PICK f \in Datagrams : \E j \in 1 .. Len(Fragments[f]) : y = <<f, j>> /\ y[1] = f /\ y[2] = j
      BY Place
    <3>4. PICK j \in 1 .. Len(Fragments[f]) : y = <<f, j>> /\ y[1] = f /\ y[2] = j
      BY <3>3
    <3>5. /\ arrivals' = [arrivals EXCEPT ![d] = Append(@, i)]
          /\ arrivals \in [Datagrams -> Seq(Nat)] /\ i \in Nat
          /\ arrivals[f] \in Seq(Nat)
      BY <1>2, <3>2, <3>4, FragmentsType DEF rx, Types
    <3>6. CASE f = d
      <4>1. Append(arrivals[d], i) \in Seq(Nat)
            /\ PutAt(arrivals[d], Len(arrivals[d]), i, Append(arrivals[d], i))
        BY <3>5, <3>6, AppendPuts, AppendProperties
      <4>2. Count(Append(arrivals[d], i), j)
              = Count(arrivals[d], j) + (IF j = i THEN 1 ELSE 0)
        <5> DEFINE q == arrivals[d]
                   p == Append(q, i)
        <5>1. q \in Seq(Nat) /\ p \in Seq(Nat) /\ PutAt(q, Len(q), i, p)
          BY <3>5, <3>6, <4>1
        <5> HIDE DEF p, q
        <5>2. Count(p, j) = Count(q, j) + (IF j = i THEN 1 ELSE 0)
          BY <5>1, CountPut
        <5> QED BY <5>2 DEF p, q
      <4>3. arrivals'[f] = Append(arrivals[d], i)
        BY <3>5, <3>6
      <4>4. y = b <=> j = i
        BY <3>2, <3>4, <3>6
      <4> QED BY <3>4, <3>6, <4>2, <4>3, <4>4
    <3>7. CASE f # d
      <4>1. arrivals'[f] = arrivals[f] /\ y # b
        BY <3>2, <3>4, <3>5, <3>7
      <4>2. Count(arrivals[f], j) \in Nat
        BY <3>5, PlacesFinite
      <4> QED BY <3>4, <4>1, <4>2
    <3> QED BY <3>6, <3>7
  <2>5. Count(e, y) = Count(c, y) + one /\ Count(<<b>>, y) = one /\ Count(<< >>, y) = 0
    BY <2>2, CountInserted, CountOne
  <2>6. y \notin Of(Key(b)) => Count(e, y) = 0 /\ Count(c, y) = 0 /\ one = 0
    BY <2>2, CountElsewhere
  <2>7. Key(y) = Key(b) => Count(ctx[Key(y)], y) = Count(c, y)
    OBVIOUS
  <2>8. Key(y) # Key(b) => y \notin Of(Key(b))
    BY DEF Of
  <2>9. delivered' = delivered => DeliveredPlaces(y)' = DeliveredPlaces(y)
    BY DEF DeliveredPlaces
  <2> DEFINE p == Packet(e, tot_len(e), b)
             q == Packet(<<b>>, len(b) + ihl(b) * 4, b)
  <2>10. p \in Packets /\ p.chain = e
    BY <2>2, Reassembled DEF Packet
  <2>11. ~isFrag(b) => q \in Packets /\ q.chain = <<b>>
    BY Unfragmented DEF Packet
  <2> HIDE DEF one, c, e, p, q
  <2>12. CASE crashed' /\ delivered' = delivered
    BY <2>1, <2>9, <2>12
  <2>13. CASE ctx' = [ctx EXCEPT ![Key(b)] = << >>] /\ delivered' = Append(delivered, p)
    <3>1. /\ IsFiniteSet(DeliveredPlaces(y)')
          /\ Cardinality(DeliveredPlaces(y)') = Cardinality(DeliveredPlaces(y)) + Count(e, y)
      BY <2>1, <2>10, <2>13, HandedOn
    <3>2. CASE Key(y) = Key(b)
      <4>1. Count(ctx'[Key(y)], y) = 0
        BY <2>2, <2>5, <2>13, <3>2
      <4> QED BY <2>1, <2>3, <2>4, <2>5, <2>7, <3>1, <3>2, <4>1
    <3>3. CASE Key(y) # Key(b)
      <4>1. ctx'[Key(y)] = ctx[Key(y)]
        BY <2>2, <2>13, <3>3
      <4> QED BY <2>1, <2>3, <2>4, <2>6, <2>8, <3>1, <3>3, <4>1
    <3> QED BY <3>2, <3>3
  <2>14. CASE ctx' = [ctx EXCEPT ![Key(b)] = e] /\ delivered' = delivered
    <3>1. CASE Key(y) = Key(b)
      <4>1. Count(ctx'[Key(y)], y) = Count(e, y)
        BY <2>2, <2>14, <3>1
      <4> QED BY <2>1, <2>3, <2>4, <2>5, <2>7, <2>9, <2>14, <3>1, <4>1
    <3>2. CASE Key(y) # Key(b)
      <4>1. ctx'[Key(y)] = ctx[Key(y)]
        BY <2>2, <2>14, <3>2
      <4> QED BY <2>1, <2>3, <2>4, <2>6, <2>8, <2>9, <2>14, <3>2, <4>1
    <3> QED BY <3>1, <3>2
  <2>15. CASE ~isFrag(b) /\ ctx' = ctx /\ delivered' = Append(delivered, q)
    <3>1. /\ IsFiniteSet(DeliveredPlaces(y)')
          /\ Cardinality(DeliveredPlaces(y)') = Cardinality(DeliveredPlaces(y)) + one
      BY <2>1, <2>5, <2>11, <2>15, HandedOn
    <3> QED BY <2>1, <2>3, <2>4, <2>15, <3>1
  <2>16. \/ crashed' /\ delivered' = delivered
         \/ ctx' = [ctx EXCEPT ![Key(b)] = << >>] /\ delivered' = Append(delivered, p)
         \/ ctx' = [ctx EXCEPT ![Key(b)] = e] /\ delivered' = delivered
         \/ ~isFrag(b) /\ ctx' = ctx /\ delivered' = Append(delivered, q)
    BY <1>2 DEF rx, defrag, c, e, p, q
  <2> QED BY <2>12, <2>13, <2>14, <2>15, <2>16
<1> QED BY <1>1, <1>2 DEF Next, Conserved

\* Defrager neither loses a fragment nor uses one twice, whatever arrives in
\* whatever order: until it crashes on a null pointer, each buffer that arrived
\* is in the chain of one context or in one packet handed on.
THEOREM NoBufferLost == Spec => []BuffersConserved
<1>1. Init => Conserved
  <2> SUFFICES ASSUME Init, NEW b \in Buffers
               PROVE  /\ IsFiniteSet(DeliveredPlaces(b))
                      /\ Count(arrivals[b[1]], b[2])
                           = Count(ctx[Key(b)], b) + Cardinality(DeliveredPlaces(b))
    BY DEF Conserved
  <2>1. arrivals[b[1]] = << >> /\ ctx[Key(b)] = << >> /\ delivered = << >>
    BY Place DEF Init
  <2>2. DeliveredPlaces(b) = {}
    BY <2>1 DEF DeliveredPlaces
  <2>3. \A x : Count(<< >>, x) = 0
    BY CountOne
  <2> QED BY <2>1, <2>2, <2>3, FS_EmptySet
<1>2. Conserved => BuffersConserved
  BY DEF Conserved, BuffersConserved
<1> QED BY <1>1, <1>2, ConservedStep, TypeInit, TypeStep, PTL DEF Spec

(***************************************************************************)
(* Arrivals at the ends.  As long as every fragment of d comes once and    *)
(* before or behind all that came, the context of d is what came, sorted   *)
(* (Gathered), until it is handed on: nothing that is complete waits.      *)
(***************************************************************************)

LEMMA MaxIsTop ==
  ASSUME NEW n \in Nat, NEW S, S \subseteq 0 .. n, n \in S
  PROVE  Max(S) = n
<1>1. n \in S /\ \A y \in S : n >= y
  OBVIOUS
<1>2. Max(S) \in S /\ \A y \in S : Max(S) >= y
  BY <1>1 DEF Max
<1>3. Max(S) \in 0 .. n /\ n >= Max(S) /\ Max(S) >= n
  BY <1>1, <1>2
<1>4. \A x \in 0 .. n : n >= x /\ x >= n => x = n
  OBVIOUS
<1> QED BY <1>3, <1>4

\* Numbers up to m that grow m times are all of them.
LEMMA GrowingIsAll ==
  ASSUME NEW m \in Nat, NEW f, \A k \in 1 .. m : f[k] \in 1 .. m,
         \A k, l \in 1 .. m : k < l => f[k] < f[l]
  PROVE  \A k \in 1 .. m : f[k] = k
<1>1. \A k \in 1 .. m : f[k] >= k
  <2> DEFINE Wrong == {k \in Nat : k \in 1 .. m /\ f[k] < k}
  <2> SUFFICES ASSUME Wrong # {} PROVE FALSE
    OBVIOUS
  <2>1. PICK k \in Wrong : \A l \in Wrong : k <= l
    <3>1. Wrong \subseteq Nat
      OBVIOUS
    <3> HIDE DEF Wrong
    <3> QED BY <3>1, LeastOf
  <2>2. k \in 1 .. m /\ f[k] < k /\ f[k] \in 1 .. m
    BY <2>1
  <2>3. k - 1 \in 1 .. m /\ k - 1 < k /\ k - 1 \in Nat
    BY <2>2
  <2>4. k - 1 \notin Wrong
    <3> HIDE DEF Wrong
    <3>1. ~(k <= k - 1)
      BY <2>2
    <3> QED BY <2>1, <3>1
  <2>5. f[k - 1] \in 1 .. m /\ ~(f[k - 1] < k - 1) /\ f[k - 1] < f[k]
    BY <2>2, <2>3, <2>4
  <2> QED BY <2>2, <2>3, <2>5
<1>2. \A k \in 1 .. m : f[k] <= k
  <2> DEFINE Wrong == {j \in Nat : \E k \in 1 .. m : j = m - k /\ f[k] > k}
  <2> SUFFICES ASSUME NEW k \in 1 .. m, f[k] > k PROVE FALSE
    OBVIOUS
  <2>1. m - k \in Wrong
    OBVIOUS
  <2>2. PICK j \in Wrong : \A l \in Wrong : j <= l
    <3>1. Wrong \subseteq Nat /\ Wrong # {}
      BY <2>1
    <3> HIDE DEF Wrong
    <3> QED BY <3>1, LeastOf
  <2>3. PICK i \in 1 .. m : j = m - i /\ f[i] > i
    OBVIOUS
  <2>4. f[i] \in 1 .. m
    OBVIOUS
  <2>5. i + 1 \in 1 .. m /\ m - (i + 1) < j /\ m - (i + 1) \in Nat
    BY <2>3, <2>4
  <2>6. m - (i + 1) \notin Wrong
    <3>1. ~(j <= m - (i + 1))
      BY <2>3, <2>5
    <3> HIDE DEF Wrong
    <3> QED BY <2>2, <3>1
  <2>7. ~(f[i + 1] > i + 1)
    BY <2>5, <2>6
  <2>8. f[i + 1] \in 1 .. m /\ f[i] < f[i + 1]
    BY <2>3, <2>5
  <2> QED BY <2>3, <2>4, <2>7, <2>8
<1>3. \A k \in 1 .. m : f[k] \in Int /\ k \in Int
  OBVIOUS
<1> QED BY <1>1, <1>2, <1>3

\* c holds fragments of d that came, once each, in order.
Sorted(d, c, came) ==
  /\ Len(c) = Len(came)
  /\ \A k \in 1 .. Len(c) : /\ c[k] = <<d, c[k][2]>>
                            /\ \E j \in 1 .. Len(came) : c[k][2] = came[j]
  /\ \A k, l \in 1 .. Len(c) : k < l => c[k][2] < c[l][2]

Gathered(d) ==
  LET c == ctx[Header[d]]
  IN  Sorted(d, c, arrivals[d]) /\ (c # << >> => ~Ready(c))

InOrder(d) == SwapHarmless(d) /\ IsInjective(arrivals[d]) /\ AtTheEnds(arrivals[d])

EndsInv == \A d \in Datagrams : ~crashed /\ InOrder(d) => IsDelivered(d) \/ Gathered(d)

\* All fragments, sorted, are complete.
LEMMA SortedReady ==
  ASSUME NEW d \in Datagrams, NEW c \in Seq(Buffers),
         NEW came \in Seq(1 .. Len(Fragments[d])), Len(came) = Len(Fragments[d]),
         Sorted(d, c, came)
  PROVE  c # << >> /\ Ready(c)
<1> DEFINE m == Len(Fragments[d])
<1>1. /\ m \in Nat \ {0}
      /\ off(<<d, 1>>) = 0
      /\ \A i \in 1 .. m - 1 : off(<<d, i + 1>>) * 8 = off(<<d, i>>) * 8 + len(<<d, i>>)
      /\ \A i \in 1 .. m : frag(<<d, i>>).mf <=> i < m
  BY Pieced
<1> HIDE DEF m
<1>2. Len(c) = m /\ \A j \in 1 .. m : came[j] \in 1 .. m
  BY ElementOfSeq, LenProperties DEF Sorted, m
<1> DEFINE f == [k \in 1 .. m |-> c[k][2]]
<1>3. \A k \in 1 .. m : f[k] \in 1 .. m
  BY <1>2 DEF Sorted, m
<1>4. \A k, l \in 1 .. m : k < l => f[k] < f[l]
  BY <1>2 DEF Sorted
<1>5. \A k \in 1 .. m : f[k] = k
  <2> HIDE DEF f
  <2> QED BY <1>1, <1>3, <1>4, GrowingIsAll
<1>6. \A k \in 1 .. m : c[k] = <<d, k>>
  BY <1>2, <1>5 DEF Sorted
<1>7. 1 \in 1 .. m /\ m \in 1 .. m /\ ~(m < m)
      /\ \A i \in 1 .. m - 1 : i \in 1 .. m /\ i + 1 \in 1 .. m
  BY <1>1
<1>8. Last(c) = c[m]
  BY <1>2 DEF Last
<1>9. off(c[1]) = 0 /\ ~frag(Last(c)).mf
  BY <1>1, <1>6, <1>7, <1>8
<1>10. \A i \in 1 .. Len(c) - 1 : off(c[i + 1]) * 8 = off(c[i]) * 8 + len(c[i])
  BY <1>1, <1>2, <1>6, <1>7
<1>11. c # << >>
  BY <1>1, <1>2, EmptySeq
<1> QED BY <1>9, <1>10, <1>11 DEF Ready

\* What the order of arrival so far is, when it is still right after i came.
LEMMA EndsBefore ==
  ASSUME NEW came \in Seq(Nat), NEW i \in Nat,
         IsInjective(Append(came, i)), AtTheEnds(Append(came, i))
  PROVE  /\ IsInjective(came) /\ AtTheEnds(came)
         /\ \/ \A j \in 1 .. Len(came) : i < came[j]
            \/ \A j \in 1 .. Len(came) : i > came[j]
<1> DEFINE n == Len(came)
           t == Append(came, i)
<1>1. /\ n \in Nat /\ DOMAIN came = 1 .. n /\ DOMAIN t = 1 .. n + 1
      /\ \A j \in 1 .. n : t[j] = came[j]
      /\ t[n + 1] = i
  BY AppendProperties, LenProperties
<1>2. IsInjective(t) /\ AtTheEnds(t)
  OBVIOUS
<1> HIDE DEF n, t
<1>3. 1 .. n \subseteq 1 .. n + 1 /\ n + 1 \in 1 .. n + 1 /\ (n + 1) - 1 = n
      /\ \A j \in 1 .. n : 1 .. j - 1 \subseteq 1 .. n
  BY <1>1
<1>4. IsInjective(came)
  BY <1>1, <1>2, <1>3 DEF IsInjective
<1>5. AtTheEnds(came)
  BY <1>1, <1>2, <1>3 DEF AtTheEnds
<1>6. \/ \A j \in 1 .. n : i < came[j]
      \/ \A j \in 1 .. n : i > came[j]
  BY <1>1, <1>2, <1>3 DEF AtTheEnds
<1> QED BY <1>4, <1>5, <1>6 DEF n

\* A fragment that came at one of the ends is put there.
LEMMA SortedInserted ==
  ASSUME NEW d \in Datagrams, SwapHarmless(d), NEW c \in Seq(Buffers),
         NEW came \in Seq(1 .. Len(Fragments[d])), Sorted(d, c, came),
         NEW i \in 1 .. Len(Fragments[d]),
         \/ \A j \in 1 .. Len(came) : i < came[j]
         \/ \A j \in 1 .. Len(came) : i > came[j]
  PROVE  Sorted(d, Inserted(c, <<d, i>>), Append(came, i))
<1> DEFINE b == <<d, i>>
           m == Len(Fragments[d])
           n == Len(c)
           e == Inserted(c, b)
           t == Append(came, i)
<1>1. /\ m \in Nat \ {0} /\ b \in Buffers /\ b[2] = i
      /\ \A k \in 1 .. m : off(<<d, k>>) \in Nat
      /\ \A k, l \in 1 .. m : l < k => off(<<d, l>>) < off(<<d, k>>)
  <2>1. m \in Nat \ {0} /\ \A k \in 1 .. m : <<d, k>> \in Buffers
    BY Pieced
  <2>2. \A k \in 1 .. m : off(<<d, k>>) \in Nat
    BY <2>1, Fragment
  <2>3. \A k \in 1 .. m : \A l \in 1 .. k - 1 : off(<<d, l>>) < off(<<d, k>>)
    BY Pieced
  <2>4. \A k, l \in 1 .. m : l < k => l \in 1 .. k - 1
    BY <2>1
  <2> QED BY <2>1, <2>2, <2>3, <2>4
<1>2. n \in Nat /\ Len(came) = n /\ n = Len(c)
  BY LenProperties DEF Sorted
<1>3. /\ t \in Seq(1 .. m) /\ Len(t) = n + 1 /\ t[n + 1] = i
      /\ \A j \in 1 .. n : t[j] = came[j]
  BY <1>2, AppendProperties
<1>4. \A k \in 1 .. n : /\ c[k] = <<d, c[k][2]>> /\ c[k][2] \in 1 .. m
                        /\ \E j \in 1 .. n : c[k][2] = came[j]
  BY <1>2, ElementOfSeq, ZenonT(30) DEF Sorted
<1>5. \A k, l \in 1 .. n : k < l => c[k][2] < c[l][2]
  BY <1>2 DEF Sorted
<1>6. i \in 1 .. m /\ (\A j \in 1 .. n : i < came[j] \/ \A h \in 1 .. n : i > came[h])
  BY <1>2
<1>7. (GoesFirst(c, b) => PutAt(c, 0, b, e))
      /\ (~GoesFirst(c, b) => PutAt(c, Behind(c, ours_off(b)), b, e))
  BY <1>1, InsertedPuts
<1> HIDE DEF b, m, e, t, n
<1>8. CASE GoesFirst(c, b)
  <2>1. Len(e) = n + 1 /\ e[1] = b /\ \A k \in 1 .. n : e[k + 1] = c[k]
    <3>1. PutAt(c, 0, b, e)
      BY <1>7, <1>8
    <3> QED BY <1>2, <3>1 DEF PutAt
  <2>2. \A k \in 1 .. n : i < c[k][2]
    <3> SUFFICES ASSUME NEW k \in 1 .. n PROVE i < c[k][2]
      OBVIOUS
    <3>1. c # << >> /\ 1 \in 1 .. n
      BY <1>2, EmptySeq
    <3>2. off(c[1]) > off(b) /\ c[1] = <<d, c[1][2]>> /\ c[1][2] \in 1 .. m
      BY <1>4, <1>8, <3>1 DEF GoesFirst
    <3>3. off(b) \in Nat /\ off(c[1]) \in Nat /\ b = <<d, i>>
      BY <1>1, <1>6, <3>2 DEF b
    <3> DEFINE u == c[1][2]
    <3>4. off(<<d, u>>) > off(<<d, i>>) /\ u \in 1 .. m
      BY <3>2, <3>3
    <3>8. off(<<d, u>>) \in Nat /\ off(<<d, i>>) \in Nat
      BY <1>1, <1>6, <3>4
    <3>9. u < i => off(<<d, u>>) < off(<<d, i>>)
      BY <1>1, <1>6, <3>4
    <3>5. i < u
      <4> HIDE DEF u
      <4>3. \A x \in Nat : ~(x > x)
        OBVIOUS
      <4>1. u # i
        <5> SUFFICES ASSUME u = i PROVE FALSE
          OBVIOUS
        <5>1. off(<<d, i>>) > off(<<d, i>>)
          BY <3>4
        <5> QED BY <3>8, <4>3, <5>1
      <4>2. ~(u < i)
        BY <3>4, <3>8, <3>9
      <4> QED BY <1>1, <1>6, <3>4, <4>1, <4>2
    <3>6. k = 1 \/ c[1][2] < c[k][2]
      BY <1>2, <1>5, <3>1
    <3>10. c[k][2] \in 1 .. m /\ u \in 1 .. m
      BY <1>4, <3>1
    <3>7. c[k][2] \in Nat /\ u \in Nat /\ i \in Nat
      BY <1>1, <1>6, <3>10
    <3> QED BY <3>5, <3>6, <3>7
  <2>3. \A k \in 1 .. n + 1 : k = 1 \/ (k - 1 \in 1 .. n /\ e[k] = c[k - 1])
    <3> SUFFICES ASSUME NEW k \in 1 .. n + 1, k # 1 PROVE k - 1 \in 1 .. n /\ e[k] = c[k - 1]
      OBVIOUS
    <3>1. k - 1 \in 1 .. n /\ (k - 1) + 1 = k
      BY <1>2
    <3> QED BY <2>1, <3>1
  <2>4. ASSUME NEW k \in 1 .. n + 1
        PROVE  e[k] = <<d, e[k][2]>> /\ \E j \in 1 .. n + 1 : e[k][2] = t[j]
    <3>1. CASE k = 1
      <4>1. e[k] = <<d, i>> /\ e[k][2] = i /\ n + 1 \in 1 .. n + 1
        BY <1>1, <1>2, <2>1, <3>1 DEF b
      <4> QED BY <1>3, <4>1
    <3>2. CASE k - 1 \in 1 .. n /\ e[k] = c[k - 1]
      <4>1. PICK j \in 1 .. n : c[k - 1][2] = came[j]
        BY <1>4, <3>2
      <4>2. j \in 1 .. n + 1 /\ e[k][2] = t[j]
        BY <1>2, <1>3, <3>2, <4>1
      <4> QED BY <1>4, <3>2, <4>2
    <3> QED BY <2>3, <3>1, <3>2
  <2>5. ASSUME NEW k \in 1 .. n + 1, NEW l \in 1 .. n + 1, k < l
        PROVE  e[k][2] < e[l][2]
    <3>1. l - 1 \in 1 .. n /\ e[l] = c[l - 1]
      BY <1>2, <2>3, <2>5
    <3>2. CASE k = 1
      BY <1>1, <2>1, <2>2, <3>1, <3>2
    <3>3. CASE k - 1 \in 1 .. n /\ e[k] = c[k - 1]
      <4>1. k - 1 < l - 1
        BY <1>2, <2>5
      <4> QED BY <1>5, <3>1, <3>3, <4>1
    <3> QED BY <2>3, <3>2, <3>3
  <2> QED BY <1>3, <2>1, <2>4, <2>5 DEF Sorted, b, e, t
<1>9. CASE ~GoesFirst(c, b)
  <2>1. c # << >> /\ ~(off(c[1]) > off(b)) /\ 1 \in 1 .. n
    BY <1>2, <1>9, EmptySeq DEF GoesFirst
  <2>2. \A k \in 1 .. n : i > c[k][2]
    <3>1. c[1] = <<d, c[1][2]>> /\ c[1][2] \in 1 .. m
      BY <1>4, <2>1
    <3>2. off(b) \in Nat /\ off(c[1]) \in Nat /\ b = <<d, i>>
      BY <1>1, <1>6, <3>1 DEF b
    <3>3. ~(i < c[1][2])
      BY <1>1, <1>6, <2>1, <3>1, <3>2
    <3>4. PICK j \in 1 .. n : c[1][2] = came[j]
      BY <1>4, <2>1
    <3>5. \A h \in 1 .. n : i > came[h]
      BY <1>6, <3>3, <3>4
    <3> QED BY <1>4, <3>5
  <2>3. i > 1
    BY <1>1, <1>4, <1>6, <2>1, <2>2
  <2>4. Behind(c, ours_off(b)) = n
    <3> DEFINE T == {k \in 0 .. n : \A h \in 1 .. k : ours_off(b) > off(c[h])}
    <3>1. \A h \in 1 .. n : ours_off(b) > off(c[h])
      <4> SUFFICES ASSUME NEW h \in 1 .. n PROVE ours_off(b) > off(c[h])
        OBVIOUS
      <4>1. c[h] = <<d, c[h][2]>> /\ c[h][2] \in 1 .. m
        BY <1>4
      <4>2. DOMAIN Fragments[d] = 1 .. m
        BY FragmentsType DEF m
      <4> QED BY <1>6, <2>3, <4>1, <4>2 DEF SwapHarmless, b
    <3>2. n \in T /\ T \subseteq 0 .. n
      BY <1>2, <3>1
    <3>3. Behind(c, ours_off(b)) = Max(T)
      BY <1>2 DEF Behind
    <3> HIDE DEF T
    <3> QED BY <1>2, <3>2, <3>3, MaxIsTop
  <2>5. Len(e) = n + 1 /\ e[n + 1] = b /\ \A k \in 1 .. n : e[k] = c[k]
    BY <1>2, <1>7, <1>9, <2>4 DEF PutAt
  <2>6. \A k \in 1 .. n + 1 : k = n + 1 \/ (k \in 1 .. n /\ e[k] = c[k])
    BY <1>2, <2>5
  <2>7. ASSUME NEW k \in 1 .. n + 1
        PROVE  e[k] = <<d, e[k][2]>> /\ \E j \in 1 .. n + 1 : e[k][2] = t[j]
    <3>1. CASE k = n + 1
      <4>1. e[k] = <<d, i>> /\ e[k][2] = i
        BY <1>1, <2>5, <3>1 DEF b
      <4> QED BY <1>3, <3>1, <4>1
    <3>2. CASE k \in 1 .. n /\ e[k] = c[k]
      <4>1. PICK j \in 1 .. n : c[k][2] = came[j]
        BY <1>4, <3>2
      <4>2. j \in 1 .. n + 1 /\ e[k][2] = t[j]
        BY <1>2, <1>3, <3>2, <4>1
      <4> QED BY <1>4, <3>2, <4>2
    <3> QED BY <2>6, <3>1, <3>2
  <2>8. ASSUME NEW k \in 1 .. n + 1, NEW l \in 1 .. n + 1, k < l
        PROVE  e[k][2] < e[l][2]
    <3>1. k \in 1 .. n /\ e[k] = c[k]
      BY <1>2, <2>6, <2>8
    <3>2. CASE l = n + 1
      BY <1>1, <2>2, <2>5, <3>1, <3>2
    <3>3. CASE l \in 1 .. n /\ e[l] = c[l]
      BY <1>5, <2>8, <3>1, <3>3
    <3> QED BY <2>6, <3>2, <3>3
  <2> QED BY <1>3, <2>5, <2>7, <2>8 DEF Sorted, b, e, t
<1> QED BY <1>8, <1>9

\* What was handed on stays handed on.
LEMMA DeliveredStays ==
  ASSUME Types, NEW b \in Buffers, rx(b), NEW d \in Datagrams, IsDelivered(d)
  PROVE  IsDelivered(d)'
<1>1. PICK i \in DOMAIN delivered : delivered[i].chain = Whole(d)
  BY DEF IsDelivered
<1>2. i \in DOMAIN delivered' /\ delivered'[i] = delivered[i]
  <2>1. CASE delivered' = delivered
    BY <2>1
  <2>2. CASE \E p \in Packets : delivered' = Append(delivered, p)
    <3>1. PICK p \in Packets : delivered' = Append(delivered, p)
      BY <2>2
    <3>2. delivered \in Seq(Packets)
      BY DEF Types
    <3>3. /\ Len(delivered) \in Nat /\ DOMAIN delivered = 1 .. Len(delivered)
          /\ DOMAIN delivered' = 1 .. Len(delivered) + 1
          /\ \A j \in 1 .. Len(delivered) : delivered'[j] = delivered[j]
      BY <3>1, <3>2, AppendProperties, LenProperties
    <3> QED BY <3>3
  <2> QED BY <2>1, <2>2, HandsOn
<1> QED BY <1>1, <1>2 DEF IsDelivered

LEMMA DeliveredNow ==
  ASSUME Types, NEW p \in Packets, NEW d \in Datagrams,
         delivered' = Append(delivered, p), p.chain = Whole(d)
  PROVE  IsDelivered(d)'
<1>1. delivered \in Seq(Packets)
  BY DEF Types
<1>2. /\ Len(delivered) \in Nat
      /\ DOMAIN delivered' = 1 .. Len(delivered) + 1 /\ delivered'[Len(delivered) + 1] = p
  BY <1>1, AppendProperties, LenProperties
<1>3. Len(delivered) + 1 \in DOMAIN delivered'
  BY <1>2
<1> QED BY <1>2, <1>3 DEF IsDelivered

\* A complete chain of the context of d is d.
LEMMA ReadyIsWhole ==
  ASSUME HeadersDistinct, NEW d \in Datagrams, NEW c \in Seq(Of(Header[d])), c # << >>, Ready(c)
  PROVE  c = Whole(d)
<1>1. Len(c) \in Nat \ {0} /\ \A i \in 1 .. Len(c) : c[i] \in Buffers /\ Key(c[i]) = Header[d]
  BY LenProperties, EmptySeq, ElementOfSeq DEF Of
<1>2. c \in Seq(Buffers) /\ Last(c) = c[Len(c)]
  BY OfBuffers DEF Last
<1>3. Complete(c, Len(c))
  BY <1>1, <1>2 DEF Complete, Ready
<1>4. PICK e \in Datagrams : c = Whole(e) /\ c[1] = <<e, 1>>
  BY <1>3, CompleteIsWhole
<1>5. Header[e] = Header[d]
  <2>1. Key(c[1]) = Header[d]
    BY <1>1
  <2>2. Key(<<e, 1>>) = Header[e]
    BY DEF Key
  <2> QED BY <1>4, <2>1, <2>2
<1> QED BY <1>4, <1>5 DEF HeadersDistinct

\* A fragment of d arrives in order.
LEMMA GatheredStep ==
  ASSUME HeadersDistinct, Types, NEW d \in Datagrams, NEW i \in 1 .. Len(Fragments[d]),
         rx(<<d, i>>), ~crashed', SwapHarmless(d), Gathered(d),
         IsInjective(Append(arrivals[d], i)), AtTheEnds(Append(arrivals[d], i))
  PROVE  IsDelivered(d)' \/ Gathered(d)'
<1> DEFINE b == <<d, i>>
           c == ctx[Header[d]]
           e == Inserted(c, b)
           p == Packet(e, tot_len(e), b)
           q == Packet(<<b>>, len(b) + ihl(b) * 4, b)
<1>1. b \in Buffers /\ b[1] = d /\ b[2] = i /\ Key(b) = Header[d]
  BY Pieced DEF Key
<1>2. /\ Header[d] \in DOMAIN ctx /\ c \in Seq(Of(Header[d])) /\ c \in Seq(Buffers)
      /\ e \in Seq(Of(Header[d])) /\ e # << >> /\ p \in Packets /\ p.chain = e
  <2>1. Key(b) \in DOMAIN ctx /\ ctx[Key(b)] \in Seq(Of(Key(b)))
        /\ Inserted(ctx[Key(b)], b) \in Seq(Of(Key(b))) /\ Inserted(ctx[Key(b)], b) # << >>
    BY <1>1, Insertion DEF Types
  <2>2. ctx[Key(b)] \in Seq(Buffers)
    BY <2>1, OfBuffers
  <2>3. c = ctx[Key(b)]
    BY <1>1
  <2> HIDE DEF b, c
  <2>4. p \in Packets
    BY <1>1, <2>1, <2>3, Reassembled
  <2>5. p.chain = e
    BY DEF Packet
  <2> QED BY <1>1, <2>1, <2>2, <2>3, <2>4, <2>5
<1>3. /\ arrivals[d] \in Seq(1 .. Len(Fragments[d])) /\ arrivals[d] \in Seq(Nat) /\ i \in Nat
      /\ arrivals'[d] = Append(arrivals[d], i)
  <2>1. arrivals' = [arrivals EXCEPT ![d] = Append(@, i)]
    BY <1>1 DEF rx
  <2> QED BY <2>1, FragmentsType DEF Types
<1>4. \/ \A j \in 1 .. Len(arrivals[d]) : i < arrivals[d][j]
      \/ \A j \in 1 .. Len(arrivals[d]) : i > arrivals[d][j]
  BY <1>3, EndsBefore
<1>5. Sorted(d, e, Append(arrivals[d], i))
  BY <1>2, <1>3, <1>4, SortedInserted DEF Gathered
<1>6. CASE ~isFrag(b)
  <2>1. q \in Packets /\ q.chain = <<b>> /\ delivered' = Append(delivered, q)
    BY <1>1, <1>6, Unfragmented DEF Packet, rx
  <2>2. PICK f \in Datagrams : b = <<f, 1>> /\ <<b>> = Whole(f)
    BY <1>1, <1>6, SingleIsWhole
  <2>3. f = d
    BY <2>2
  <2> HIDE DEF b, q
  <2> QED BY <2>1, <2>2, <2>3, DeliveredNow
<1>7. CASE isFrag(b)
  <2>1. \/ Ready(e) /\ delivered' = Append(delivered, p)
        \/ ~Ready(e) /\ ctx' = [ctx EXCEPT ![Header[d]] = e]
    BY <1>1, <1>7 DEF rx, defrag
  <2> HIDE DEF p
  <2>2. CASE Ready(e) /\ delivered' = Append(delivered, p)
    <3>1. e = Whole(d)
      BY <1>2, <2>2, ReadyIsWhole
    <3> QED BY <1>2, <2>2, <3>1, DeliveredNow
  <2>3. CASE ~Ready(e) /\ ctx' = [ctx EXCEPT ![Header[d]] = e]
    <3>1. ctx'[Header[d]] = e
      BY <1>2, <2>3
    <3> HIDE DEF e
    <3> QED BY <1>3, <1>5, <2>3, <3>1 DEF Gathered
  <2> QED BY <2>1, <2>2, <2>3
<1> QED BY <1>6, <1>7

LEMMA ContextStep ==
  ASSUME NEW b, rx(b)
  PROVE  \E v : ctx' = ctx \/ ctx' = [ctx EXCEPT ![Key(b)] = v]
<1> DEFINE c == Inserted(ctx[Key(b)], b)
<1>1. \/ ctx' = ctx
      \/ ctx' = [ctx EXCEPT ![Key(b)] = << >>]
      \/ ctx' = [ctx EXCEPT ![Key(b)] = c]
  BY DEF rx, defrag
<1> HIDE DEF c
<1> QED BY <1>1

LEMMA EndsStep ==
  ASSUME HeadersDistinct, Types, EndsInv, [Next]_vars
  PROVE  EndsInv'
<1>1. CASE UNCHANGED vars
  BY <1>1 DEF vars, EndsInv, InOrder, IsDelivered, Gathered
<1>2. ASSUME NEW b \in Buffers, rx(b), NEW d \in Datagrams, ~crashed', InOrder(d)'
      PROVE  IsDelivered(d)' \/ Gathered(d)'
  <2>1. PICK f \in Datagrams : \E i \in 1 .. Len(Fragments[f]) : b = <<f, i>> /\ b[1] = f /\ b[2] = i
    BY Place
  <2>2. PICK i \in 1 .. Len(Fragments[f]) : b = <<f, i>> /\ b[1] = f /\ b[2] = i
    BY <2>1
  <2>3. /\ arrivals' = [arrivals EXCEPT ![f] = Append(@, i)] /\ ~crashed
        /\ arrivals \in [Datagrams -> Seq(Nat)] /\ i \in Nat
    BY <1>2, <2>2, FragmentsType DEF rx, Types
  <2>4. SwapHarmless(d) /\ IsInjective(arrivals'[d]) /\ AtTheEnds(arrivals'[d])
    BY <1>2 DEF InOrder
  <2>5. CASE f = d
    <3>1. arrivals'[d] = Append(arrivals[d], i) /\ arrivals[d] \in Seq(Nat)
      BY <2>3, <2>5
    <3>2. IsInjective(Append(arrivals[d], i)) /\ AtTheEnds(Append(arrivals[d], i))
      BY <2>4, <3>1
    <3>3. InOrder(d)
      BY <2>3, <2>4, <3>1, <3>2, EndsBefore DEF InOrder
    <3>4. IsDelivered(d) \/ Gathered(d)
      BY <2>3, <3>3 DEF EndsInv
    <3> QED BY <1>2, <2>2, <2>4, <2>5, <3>2, <3>4, DeliveredStays, GatheredStep
  <2>6. CASE f # d
    <3>1. arrivals'[d] = arrivals[d]
      BY <2>3, <2>6
    <3>2. InOrder(d)
      BY <2>4, <3>1 DEF InOrder
    <3>3. IsDelivered(d) \/ Gathered(d)
      BY <2>3, <3>2 DEF EndsInv
    <3>4. Header[f] # Header[d] /\ Key(b) = Header[f]
      BY <2>2, <2>6 DEF HeadersDistinct, Key
    <3>5. ctx'[Header[d]] = ctx[Header[d]]
      <4>1. \E v : ctx' = ctx \/ ctx' = [ctx EXCEPT ![Key(b)] = v]
        BY <1>2, ContextStep
      <4>2. <<d, 1>> \in Buffers /\ Key(<<d, 1>>) = Header[d]
        BY Pieced DEF Key
      <4>3. Header[d] \in DOMAIN ctx
        BY <4>2 DEF Types
      <4> QED BY <3>4, <4>1, <4>3
    <3>6. Gathered(d) => Gathered(d)'
      BY <3>1, <3>5 DEF Gathered
    <3> QED BY <1>2, <3>3, <3>6, DeliveredStays
  <2> QED BY <2>5, <2>6
<1> QED BY <1>1, <1>2 DEF Next, EndsInv

\* If no two datagrams on the network share a header: fragments of a datagram
\* that come once each, every one before or behind all that came, are handed on
\* as soon as the last is in, although Defrager::defrag compares the offsets in
\* the chain with one it did not convert - if that one is beyond the datagram's
\* offsets, and no null pointer was met.
THEOREM EndsAreEnough == ASSUME HeadersDistinct PROVE Spec => []EndsSuffice
<1>1. Init => EndsInv
  <2> SUFFICES ASSUME Init, NEW d \in Datagrams PROVE Gathered(d)
    BY DEF EndsInv
  <2>1. arrivals[d] = << >> /\ <<d, 1>> \in Buffers /\ Key(<<d, 1>>) = Header[d]
    BY Pieced DEF Init, Key
  <2>2. ctx[Header[d]] = << >>
    BY <2>1 DEF Init
  <2> QED BY <2>1, <2>2 DEF Gathered, Sorted
<1>2. Types /\ EndsInv => EndsSuffice
  <2> SUFFICES ASSUME Types, EndsInv, NEW d \in Datagrams, AllArrived(d), AtTheEnds(arrivals[d]),
                      SwapHarmless(d), ~crashed
               PROVE  IsDelivered(d)
    BY DEF EndsSuffice
  <2>1. IsDelivered(d) \/ Gathered(d)
    BY DEF EndsInv, InOrder, AllArrived
  <2>2. ASSUME Gathered(d) PROVE FALSE
    <3>1. Header[d] \in DOMAIN ctx
      <4>1. <<d, 1>> \in Buffers /\ Key(<<d, 1>>) = Header[d]
        BY Pieced DEF Key
      <4> QED BY <4>1 DEF Types
    <3>2. ctx[Header[d]] \in Seq(Buffers) /\ arrivals[d] \in Seq(1 .. Len(Fragments[d]))
      BY <3>1, OfBuffers DEF Types
    <3>3. ctx[Header[d]] # << >> /\ Ready(ctx[Header[d]])
      BY <2>2, <3>2, SortedReady DEF Gathered, AllArrived
    <3> QED BY <2>2, <3>3 DEF Gathered
  <2> QED BY <2>1, <2>2
<1>3. Types /\ EndsInv /\ [Next]_vars => EndsInv'
  BY HeadersDistinct, EndsStep
<1> QED BY <1>1, <1>2, <1>3, TypeInit, TypeStep, PTL DEF Spec
=============================================================================
