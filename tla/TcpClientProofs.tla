---------------------------- MODULE TcpClientProofs ----------------------------
(***************************************************************************)
(* Theorems about TcpClient, for any sequence space, network and bounds.   *)
(* First the connection: its types, what connect() returned on, and where  *)
(* a refusal is noticed.  Then the sequence numbers and the bytes: the two *)
(* ends count alike, the peer gets what the application wrote in order and *)
(* once, and the client acknowledges nothing the peer has not sent.  For   *)
(* these the network may lose, repeat and reorder as it likes.  Where it   *)
(* does not, the client queues the peer's bytes in order and once, and     *)
(* acknowledges what it queued.                                            *)
(***************************************************************************)
EXTENDS TcpClient, Integers, SequenceTheorems, TLAPS

-----------------------------------------------------------------------------
(* Sequence numbers.                                                       *)

\* A number is what it leaves modulo SeqSpace and a multiple of SeqSpace.
LEMMA ModUnique ==
  ASSUME NEW x \in Int, NEW q \in Int, NEW r \in SeqNumbers, x = q * SeqSpace + r
  PROVE  x % SeqSpace = r
BY SeqAssumption DEF SeqNumbers

LEMMA ModRange ==
  ASSUME NEW x \in Int
  PROVE  x % SeqSpace \in SeqNumbers
BY SeqAssumption DEF SeqNumbers

Turns(x, q) == x = q * SeqSpace + (x % SeqSpace)

LEMMA ModSplit ==
  ASSUME NEW x \in Int
  PROVE  \E q \in Int : Turns(x, q)
<1>1. x \div SeqSpace \in Int
  BY SeqAssumption
<1>2. x = (x \div SeqSpace) * SeqSpace + (x % SeqSpace)
  BY SeqAssumption, SMTT(60)
<1>3. Turns(x, x \div SeqSpace)
  BY <1>2 DEF Turns
<1> QED BY <1>1, <1>3, Zenon

\* A multiple of SeqSpace makes no difference.
LEMMA ModShift ==
  ASSUME NEW x \in Int, NEW q \in Int
  PROVE  (x + q * SeqSpace) % SeqSpace = x % SeqSpace
<1> DEFINE r == x % SeqSpace
<1>1. r \in SeqNumbers
  BY ModRange
<1>2. PICK d \in Int : Turns(x, d)
  BY ModSplit
<1>3. x = d * SeqSpace + r
  BY <1>2 DEF Turns
<1> HIDE DEF r
<1>4. x + q * SeqSpace = (d + q) * SeqSpace + r
  BY <1>1, <1>3, SeqAssumption DEF SeqNumbers
<1>5. x + q * SeqSpace \in Int /\ d + q \in Int
  BY SeqAssumption
<1>6. (x + q * SeqSpace) % SeqSpace = r
  BY <1>1, <1>4, <1>5, ModUnique
<1> QED BY <1>6 DEF r

LEMMA PlusType ==
  ASSUME NEW a \in SeqNumbers, NEW n \in Nat
  PROVE  Plus(a, n) \in SeqNumbers
BY ModRange, SeqAssumption DEF Plus, SeqNumbers

\* Sums and differences within one turn.
LEMMA PlusCases ==
  ASSUME NEW a \in SeqNumbers, NEW n \in 0 .. SeqSpace - 1
  PROVE  Plus(a, n) = IF a + n < SeqSpace THEN a + n ELSE a + n - SeqSpace
<1>1. CASE a + n < SeqSpace
  <2>1. a + n = 0 * SeqSpace + (a + n) /\ a + n \in Int /\ a + n \in SeqNumbers
    BY <1>1, SeqAssumption DEF SeqNumbers
  <2> QED BY <2>1, <1>1, ModUnique DEF Plus
<1>2. CASE ~ (a + n < SeqSpace)
  <2> DEFINE r == a + n - SeqSpace
  <2>1. a + n = 1 * SeqSpace + r /\ a + n \in Int /\ r \in SeqNumbers
    BY <1>2, SeqAssumption DEF SeqNumbers
  <2> HIDE DEF r
  <2>2. Plus(a, n) = r
    BY <2>1, ModUnique DEF Plus
  <2> QED BY <2>2, <1>2 DEF r
<1> QED BY <1>1, <1>2

LEMMA MinusCases ==
  ASSUME NEW a \in SeqNumbers, NEW b \in SeqNumbers
  PROVE  Minus(a, b) = IF a >= b THEN a - b ELSE a + SeqSpace - b
<1>1. CASE a >= b
  <2> DEFINE r == a - b
  <2>1. a + SeqSpace - b = 1 * SeqSpace + r /\ a + SeqSpace - b \in Int /\ r \in SeqNumbers
    BY <1>1, SeqAssumption DEF SeqNumbers
  <2> HIDE DEF r
  <2>2. Minus(a, b) = r
    BY <2>1, ModUnique DEF Minus
  <2> QED BY <2>2, <1>1 DEF r
<1>2. CASE ~ (a >= b)
  <2> DEFINE r == a + SeqSpace - b
  <2>1. r = 0 * SeqSpace + r /\ r \in Int /\ r \in SeqNumbers
    BY <1>2, SeqAssumption DEF SeqNumbers
  <2> HIDE DEF r
  <2>2. r % SeqSpace = r
    BY <2>1, ModUnique
  <2> QED BY <2>2, <1>2 DEF r, Minus
<1> QED BY <1>1, <1>2

LEMMA MinusType ==
  ASSUME NEW a \in SeqNumbers, NEW b \in SeqNumbers
  PROVE  Minus(a, b) \in SeqNumbers
BY MinusCases, SeqAssumption DEF SeqNumbers

\* Plus is a sum: the order and the steps do not matter.
LEMMA PlusPlus ==
  ASSUME NEW a \in SeqNumbers, NEW m \in Nat, NEW n \in Nat
  PROVE  Plus(Plus(a, m), n) = Plus(a, m + n)
<1> DEFINE r == Plus(a, m)
<1>1. a \in Int /\ a + m \in Int /\ r \in SeqNumbers
  BY PlusType, SeqAssumption DEF SeqNumbers
<1>2. PICK q \in Int : Turns(a + m, q)
  BY <1>1, ModSplit
<1>3. a + m = q * SeqSpace + r
  BY <1>2 DEF Turns, Plus
<1> HIDE DEF r
<1>4. a + (m + n) = (r + n) + q * SeqSpace /\ r + n \in Int
  BY <1>1, <1>3, SeqAssumption DEF SeqNumbers
<1>5. (a + (m + n)) % SeqSpace = (r + n) % SeqSpace
  BY <1>4, ModShift
<1> QED BY <1>5 DEF Plus, r

\* The distance of two places in a stream is the difference of their numbers.
LEMMA MinusPlus ==
  ASSUME NEW a \in SeqNumbers, NEW m \in Nat, NEW n \in Nat
  PROVE  Minus(Plus(a, m), Plus(a, n)) = (m - n) % SeqSpace
<1> DEFINE x == Plus(a, m)
           y == Plus(a, n)
<1>1. /\ a \in Int /\ a + m \in Int /\ a + n \in Int
      /\ x \in SeqNumbers /\ y \in SeqNumbers
  BY PlusType, SeqAssumption DEF SeqNumbers
<1>2. PICK p \in Int : Turns(a + m, p)
  BY <1>1, ModSplit
<1>3. PICK q \in Int : Turns(a + n, q)
  BY <1>1, ModSplit
<1>4. a + m = p * SeqSpace + x
  BY <1>2 DEF Turns, Plus
<1>5. a + n = q * SeqSpace + y
  BY <1>3 DEF Turns, Plus
<1> HIDE DEF x, y
<1>6. x + SeqSpace - y = (m - n) + (1 + q - p) * SeqSpace
  BY <1>1, <1>4, <1>5, SeqAssumption DEF SeqNumbers
<1>7. m - n \in Int /\ 1 + q - p \in Int
  OBVIOUS
<1>8. (x + SeqSpace - y) % SeqSpace = (m - n) % SeqSpace
  BY <1>6, <1>7, ModShift
<1> QED BY <1>8 DEF Minus, x, y

\* Places less than a turn apart have different numbers.
LEMMA PlusInjective ==
  ASSUME NEW a \in SeqNumbers, NEW m \in 0 .. SeqSpace - 1, NEW n \in 0 .. SeqSpace - 1,
         Plus(a, m) = Plus(a, n)
  PROVE  m = n
BY PlusCases, SeqAssumption DEF SeqNumbers

\* The way from b to c is that to a and on.
LEMMA MinusOn ==
  ASSUME NEW a \in SeqNumbers, NEW b \in SeqNumbers, NEW c \in SeqNumbers,
         Minus(a, b) <= Minus(c, b)
  PROVE  Minus(c, a) = Minus(c, b) - Minus(a, b)
BY MinusCases, SeqAssumption DEF SeqNumbers

LEMMA MinusGrows ==
  ASSUME NEW a \in SeqNumbers, NEW b \in SeqNumbers, NEW n \in Nat,
         Minus(a, b) + n < SeqSpace
  PROVE  Minus(Plus(a, n), b) = Minus(a, b) + n
<1> DEFINE p == Plus(a, n)
           d == Minus(a, b)
<1>1. d = IF a >= b THEN a - b ELSE a + SeqSpace - b
  BY MinusCases
<1>2. n \in 0 .. SeqSpace - 1
  BY <1>1, SeqAssumption DEF SeqNumbers
<1>3. p \in SeqNumbers /\ p = IF a + n < SeqSpace THEN a + n ELSE a + n - SeqSpace
  BY <1>2, PlusType, PlusCases
<1>4. Minus(p, b) = IF p >= b THEN p - b ELSE p + SeqSpace - b
  BY <1>3, MinusCases
<1>5. d + n < SeqSpace
  OBVIOUS
<1> HIDE DEF p, d
<1>6. Minus(p, b) = d + n
  BY <1>1, <1>2, <1>3, <1>4, <1>5, SeqAssumption DEF SeqNumbers
<1> QED BY <1>6 DEF p, d

LEMMA PlusBack ==
  ASSUME NEW a \in SeqNumbers, NEW n \in 0 .. SeqSpace - 1
  PROVE  Minus(Plus(a, n), a) = n
<1> DEFINE p == Plus(a, n)
<1>1. p \in SeqNumbers /\ p = IF a + n < SeqSpace THEN a + n ELSE a + n - SeqSpace
  BY PlusType, PlusCases
<1>2. Minus(p, a) = IF p >= a THEN p - a ELSE p + SeqSpace - a
  BY <1>1, MinusCases
<1> HIDE DEF p
<1>3. Minus(p, a) = n
  BY <1>1, <1>2, SeqAssumption DEF SeqNumbers
<1> QED BY <1>3 DEF p

LEMMA PlusZero ==
  ASSUME NEW a \in SeqNumbers
  PROVE  Plus(a, 0) = a
BY PlusCases, SeqAssumption DEF SeqNumbers

LEMMA IssType == iss \in SeqNumbers /\ Plus(iss, 1) = 2 /\ Minus(2, iss) = 1 /\ 2 \in SeqNumbers
<1>1. iss \in SeqNumbers /\ 2 \in SeqNumbers /\ 1 \in 0 .. SeqSpace - 1
  BY SeqAssumption DEF iss, SeqNumbers
<1> QED BY <1>1, PlusCases, MinusCases, SeqAssumption DEF iss

LEMMA MinusPositive ==
  ASSUME NEW a \in SeqNumbers, NEW b \in SeqNumbers, a # b
  PROVE  Minus(a, b) \in Nat \ {0}
BY MinusCases, SeqAssumption DEF SeqNumbers

-----------------------------------------------------------------------------
(* Segments and queues of segments.                                        *)

LEMMA NetSteps ==
  ASSUME NEW T, NEW s \in Seq(T)
  PROVE  /\ \A e \in T : /\ Append(s, e) \in Seq(T)
                         /\ ToSet(Append(s, e)) = ToSet(s) \cup {e}
         /\ \A t \in Seq(T) : /\ s \o t \in Seq(T)
                              /\ ToSet(s \o t) = ToSet(s) \cup ToSet(t)
         /\ \A i \in DOMAIN s : /\ s[i] \in T /\ s[i] \in ToSet(s)
                                /\ RemoveAt(s, i) \in Seq(T)
                                /\ ToSet(RemoveAt(s, i)) \subseteq ToSet(s)
<1>1. ASSUME NEW e \in T
      PROVE  Append(s, e) \in Seq(T) /\ ToSet(Append(s, e)) = ToSet(s) \cup {e}
  <2>1. /\ Append(s, e) \in Seq(T) /\ Len(Append(s, e)) = Len(s) + 1
        /\ \A i \in 1 .. Len(s) : Append(s, e)[i] = s[i]
        /\ Append(s, e)[Len(s) + 1] = e
    OBVIOUS
  <2>2. DOMAIN s = 1 .. Len(s) /\ DOMAIN Append(s, e) = 1 .. Len(s) + 1 /\ Len(s) \in Nat
    BY <2>1, LenProperties
  <2> QED BY <2>1, <2>2 DEF ToSet
<1>2. ASSUME NEW t \in Seq(T)
      PROVE  s \o t \in Seq(T) /\ ToSet(s \o t) = ToSet(s) \cup ToSet(t)
  <2>1. /\ s \o t \in Seq(T) /\ Len(s \o t) = Len(s) + Len(t)
        /\ \A i \in 1 .. Len(s) + Len(t) :
             (s \o t)[i] = IF i <= Len(s) THEN s[i] ELSE t[i - Len(s)]
    BY ConcatProperties
  <2>2. /\ Len(s) \in Nat /\ Len(t) \in Nat /\ DOMAIN s = 1 .. Len(s) /\ DOMAIN t = 1 .. Len(t)
        /\ DOMAIN (s \o t) = 1 .. Len(s) + Len(t)
    BY <2>1, LenProperties
  <2>3. ASSUME NEW i \in 1 .. Len(t)
        PROVE  i + Len(s) \in DOMAIN (s \o t) /\ (s \o t)[i + Len(s)] = t[i]
    BY <2>1, <2>2
  <2>4. ASSUME NEW i \in 1 .. Len(s)
        PROVE  i \in DOMAIN (s \o t) /\ (s \o t)[i] = s[i]
    BY <2>1, <2>2
  <2>5. ASSUME NEW i \in DOMAIN (s \o t)
        PROVE  (s \o t)[i] \in ToSet(s) \cup ToSet(t)
    <3>1. CASE i <= Len(s)
      BY <3>1, <2>1, <2>2 DEF ToSet
    <3>2. CASE ~ (i <= Len(s))
      <4>1. i - Len(s) \in DOMAIN t /\ (s \o t)[i] = t[i - Len(s)]
        BY <3>2, <2>1, <2>2
      <4> QED BY <4>1 DEF ToSet
    <3> QED BY <3>1, <3>2
  <2>6. ToSet(s \o t) \subseteq ToSet(s) \cup ToSet(t)
    BY <2>5 DEF ToSet
  <2>7. ToSet(s) \subseteq ToSet(s \o t)
    BY <2>4, <2>2 DEF ToSet
  <2>8. ToSet(t) \subseteq ToSet(s \o t)
    BY <2>3, <2>2 DEF ToSet
  <2> QED BY <2>1, <2>6, <2>7, <2>8
<1>3. ASSUME NEW i \in DOMAIN s
      PROVE  /\ s[i] \in T /\ s[i] \in ToSet(s)
             /\ RemoveAt(s, i) \in Seq(T)
             /\ ToSet(RemoveAt(s, i)) \subseteq ToSet(s)
  <2>1. Len(s) \in Nat /\ DOMAIN s = 1 .. Len(s) /\ i \in 1 .. Len(s)
    BY LenProperties
  <2>2. \A j \in 1 .. Len(s) : s[j] \in T /\ s[j] \in ToSet(s)
    BY <2>1, ElementOfSeq DEF ToSet
  <2>3. s \in Seq(ToSet(s))
    <3>1. s \in [1 .. Len(s) -> ToSet(s)]
      BY <2>1, <2>2, LenProperties
    <3> QED BY <3>1, <2>1, SeqDef
  <2>4. SubSeq(s, 1, i - 1) \in Seq(ToSet(s)) /\ SubSeq(s, i + 1, Len(s)) \in Seq(ToSet(s))
    <3>1. (\A j \in 1 .. i - 1 : s[j] \in ToSet(s)) /\ (\A j \in i + 1 .. Len(s) : s[j] \in ToSet(s))
      BY <2>1, <2>2
    <3>2. 1 \in Int /\ i - 1 \in Int /\ i + 1 \in Int /\ Len(s) \in Int
      BY <2>1
    <3> QED BY <3>1, <3>2, SubSeqProperties
  <2>5. RemoveAt(s, i) \in Seq(ToSet(s))
    BY <2>4, ConcatProperties DEF RemoveAt
  <2>6. ToSet(RemoveAt(s, i)) \subseteq ToSet(s)
    BY <2>5, LenProperties, ElementOfSeq DEF ToSet
  <2>7. ToSet(s) \subseteq T
    BY <2>1, <2>2 DEF ToSet
  <2> QED BY <2>1, <2>2, <2>5, <2>6, <2>7, SeqMonotonic
<1> QED BY <1>1, <1>2, <1>3

LEMMA OneSegment ==
  ASSUME NEW T, NEW s \in Seq(T), Len(s) = 1
  PROVE  s[1] \in T /\ s = <<s[1]>> /\ ToSet(s) = {s[1]}
<1>1. DOMAIN s = {1}
  BY LenProperties
<1> QED BY <1>1, ElementOfSeq DEF ToSet

LEMMA SetOfOne ==
  ASSUME NEW e
  PROVE  ToSet(<<e>>) = {e}
BY DEF ToSet

LEMMA SetOfNone == ToSet(<< >>) = {}
BY DEF ToSet

Flags == {{"SYN"}, {"ACK"}, {"SYN", "ACK"}, {"RST", "ACK"}}
Stream == Seq(Nat \ {0})

LEMMA BytesType ==
  ASSUME NEW from \in Nat, NEW n \in Nat
  PROVE  Bytes(from, n) \in Stream /\ Len(Bytes(from, n)) = n
<1>1. Bytes(from, n) \in [1 .. n -> Nat \ {0}]
  BY DEF Bytes
<1>2. Bytes(from, n) \in Stream
  BY <1>1, SeqDef DEF Stream
<1>3. Len(Bytes(from, n)) = n
  BY <1>1, <1>2, LenProperties DEF Stream
<1> QED BY <1>2, <1>3

LEMMA SegmentType ==
  ASSUME NEW f \in Flags, NEW s \in SeqNumbers, NEW a \in SeqNumbers, NEW d \in Stream
  PROVE  /\ Segment(f, s, a, d) \in Segments
         /\ Segment(f, s, a, d).flags = f /\ Segment(f, s, a, d).seq = s
         /\ Segment(f, s, a, d).ackSeq = a /\ Segment(f, s, a, d).data = d
BY DEF Segments, Segment, Flags, Stream

LEMMA EmptyStream == << >> \in Stream /\ Len(<< >>) = 0
BY DEF Stream

-----------------------------------------------------------------------------
(* Types.                                                                  *)

\* TypeOK, a fact for each variable.
Types ==
  /\ conn_state \in {"CLOSED", "SYN_SENT", "ESTABLISHED"}
  /\ send_unack \in SeqNumbers /\ send_next \in SeqNumbers /\ irs \in SeqNumbers
  /\ recv_next \in SeqNumbers
  /\ p_una \in SeqNumbers /\ p_next \in SeqNumbers /\ p_rcv \in SeqNumbers
  /\ fport \in {"none", "peer"}
  /\ evOut \in Seq(Segments) /\ ipOut \in Seq(Segments)
  /\ toPeer \in Seq(Segments) /\ toClient \in Seq(Segments)
  /\ evPc \in {"idle", "ack", "store", "tx"}
  /\ ipPc \in {"idle", "seq", "tx", "callback"}
  /\ ipCallback \in BOOLEAN /\ aborted \in BOOLEAN
  /\ recvQ \in 0 .. RecvQLimit + 1
  /\ conn \in {"idle", "connecting", "connected"}
  /\ written \in 0 .. MaxUp /\ p_sent \in 0 .. MaxDown
  /\ queued \in Stream /\ accepted \in Stream
  /\ budget \in [up : 0 .. LossesUp, down : 0 .. LossesDown,
                 dup : 0 .. Duplicates, rexmit : 0 .. MaxRetransmits]
  /\ pstate \in {"listen", "refused", "synrcvd", "estab"}

\* A thread has one segment while it builds one, and what the peer has not seen
\* acknowledged it did send.
Shape ==
  /\ evPc = "idle" => evOut = << >>
  /\ evPc # "idle" => Len(evOut) = 1
  /\ ipPc \in {"seq", "tx"} => Len(ipOut) = 1
  /\ ipPc \in {"idle", "callback"} => ipOut = << >>
  /\ pstate = "synrcvd" => p_una = PeerIss /\ p_next = Plus(PeerIss, 1)
  /\ pstate # "estab" => p_sent = 0
  /\ pstate = "estab" => PeerUnacked <= p_sent

TypeInv == Types /\ Shape

LEMMA TypesSame == Types <=> TypeOK
BY DEF Types, TypeOK, Stream

LEMMA TypesSameNext == Types' <=> TypeOK'
BY DEF Types, TypeOK, Stream

LEMMA Bounds ==
  /\ RecvQLimit \in Nat /\ MaxUp \in Nat /\ MaxDown \in Nat /\ MaxRetransmits \in Nat
  /\ LossesUp \in Nat /\ LossesDown \in Nat /\ Duplicates \in Nat
  /\ MaxSegment \in Nat \ {0} /\ Window \in Nat \ {0}
  /\ SeqSpace \in Nat /\ SeqSpace > 2 /\ PeerIss \in SeqNumbers /\ Window < SeqSpace
  /\ 0 \in SeqNumbers /\ 1 \in SeqNumbers
BY BoundsAssumption, SeqAssumption, WindowAssumption DEF SeqNumbers

LEMMA TypeInit == Init => TypeInv
<1> SUFFICES ASSUME Init PROVE TypeInv
  OBVIOUS
<1>1. << >> \in Seq(Segments) /\ << >> \in Stream
  BY EmptyStream
<1>4. budget \in [up : 0 .. LossesUp, down : 0 .. LossesDown,
                    dup : 0 .. Duplicates, rexmit : 0 .. MaxRetransmits]
  BY Bounds DEF Init
<1>5. recvQ \in 0 .. RecvQLimit + 1 /\ written \in 0 .. MaxUp /\ p_sent \in 0 .. MaxDown
  BY Bounds DEF Init
<1>2. Types
  BY <1>1, <1>4, <1>5, Bounds DEF Init, Types
<1>3. Shape
  BY DEF Init, Shape
<1> QED BY <1>2, <1>3 DEF TypeInv

\* The types of what is on its way, in the form of NetSteps.
LEMMA NetFacts ==
  ASSUME Types
  PROVE  /\ \A i \in DOMAIN toPeer : /\ toPeer[i] \in Segments /\ toPeer[i] \in ToSet(toPeer)
                                     /\ RemoveAt(toPeer, i) \in Seq(Segments)
                                     /\ ToSet(RemoveAt(toPeer, i)) \subseteq ToSet(toPeer)
         /\ \A i \in DOMAIN toClient :
              /\ toClient[i] \in Segments /\ toClient[i] \in ToSet(toClient)
              /\ RemoveAt(toClient, i) \in Seq(Segments)
              /\ ToSet(RemoveAt(toClient, i)) \subseteq ToSet(toClient)
         /\ \A e \in Segments : /\ Append(toPeer, e) \in Seq(Segments)
                                /\ ToSet(Append(toPeer, e)) = ToSet(toPeer) \cup {e}
                                /\ Append(toClient, e) \in Seq(Segments)
                                /\ ToSet(Append(toClient, e)) = ToSet(toClient) \cup {e}
         /\ \A t \in Seq(Segments) : /\ toPeer \o t \in Seq(Segments)
                                     /\ ToSet(toPeer \o t) = ToSet(toPeer) \cup ToSet(t)
<1>1. toPeer \in Seq(Segments) /\ toClient \in Seq(Segments)
  BY DEF Types
<1>2. /\ \A i \in DOMAIN toPeer : /\ toPeer[i] \in Segments /\ toPeer[i] \in ToSet(toPeer)
                                  /\ RemoveAt(toPeer, i) \in Seq(Segments)
                                  /\ ToSet(RemoveAt(toPeer, i)) \subseteq ToSet(toPeer)
      /\ \A e \in Segments : /\ Append(toPeer, e) \in Seq(Segments)
                             /\ ToSet(Append(toPeer, e)) = ToSet(toPeer) \cup {e}
      /\ \A t \in Seq(Segments) : /\ toPeer \o t \in Seq(Segments)
                                  /\ ToSet(toPeer \o t) = ToSet(toPeer) \cup ToSet(t)
  BY <1>1, NetSteps
<1>3. /\ \A i \in DOMAIN toClient :
              /\ toClient[i] \in Segments /\ toClient[i] \in ToSet(toClient)
              /\ RemoveAt(toClient, i) \in Seq(Segments)
              /\ ToSet(RemoveAt(toClient, i)) \subseteq ToSet(toClient)
      /\ \A e \in Segments : /\ Append(toClient, e) \in Seq(Segments)
                             /\ ToSet(Append(toClient, e)) = ToSet(toClient) \cup {e}
  BY <1>1, NetSteps
<1> QED BY <1>2, <1>3

LEMMA SegmentParts ==
  ASSUME NEW s \in Segments
  PROVE  /\ s.flags \in Flags /\ s.seq \in SeqNumbers /\ s.ackSeq \in SeqNumbers
         /\ s.data \in Stream /\ Len(s.data) \in Nat
BY LenProperties DEF Segments, Flags, Stream

\* What the event loop's segment is while it has one, and the IP thread's.
LEMMA EvSegment ==
  ASSUME TypeInv, evPc # "idle"
  PROVE  evOut[1] \in Segments /\ evOut = <<evOut[1]>> /\ ToSet(evOut) = {evOut[1]}
BY OneSegment DEF TypeInv, Types, Shape

LEMMA IpSegment ==
  ASSUME TypeInv, ipPc \in {"seq", "tx"}
  PROVE  ipOut[1] \in Segments /\ ipOut = <<ipOut[1]>> /\ ToSet(ipOut) = {ipOut[1]}
BY OneSegment DEF TypeInv, Types, Shape

LEMMA OneSeq ==
  ASSUME NEW s \in Segments
  PROVE  <<s>> \in Seq(Segments) /\ Len(<<s>>) = 1
OBVIOUS

\* What TcpPcb::send leaves in CLOSED and in ESTABLISHED.
LEMMA SendTypes ==
  ASSUME TypeInv, evPc = "idle", NEW d \in Stream, sendSyn(d) \/ sendData(d)
  PROVE  /\ conn_state' \in {"SYN_SENT", "ESTABLISHED"}
         /\ send_unack' \in SeqNumbers /\ send_next' \in SeqNumbers
         /\ irs' \in SeqNumbers /\ recv_next' \in SeqNumbers
         /\ evPc' \in {"ack", "store", "tx"}
         /\ evOut' \in Seq(Segments) /\ Len(evOut') = 1
<1> USE DEF TypeInv, Types
<1>0. Len(d) \in Nat /\ {"SYN"} \in Flags /\ {"ACK"} \in Flags
  BY LenProperties DEF Stream, Flags
<1>1. CASE sendSyn(d)
  <2>1. Plus(iss, 1) \in SeqNumbers /\ iss \in SeqNumbers /\ 0 \in SeqNumbers
    BY IssType, Bounds
  <2>2. Segment({"SYN"}, iss, 0, d) \in Segments
    BY <1>0, <2>1, SegmentType
  <2> QED BY <1>1, <2>1, <2>2 DEF sendSyn
<1>2. CASE sendData(d)
  <2>1. Plus(send_next, Len(d)) \in SeqNumbers
    BY <1>0, PlusType
  <2>2. /\ Segment({"ACK"}, send_next, 0, d) \in Segments
        /\ Segment({"ACK"}, send_next, recv_next, d) \in Segments
    BY <1>0, Bounds, SegmentType
  <2>3. evOut' \in Seq(Segments) /\ Len(evOut') = 1 /\ evPc' \in {"ack", "store"}
    BY <1>2, <2>2, OneSeq DEF sendData
  <2>4. send_next' \in SeqNumbers
    BY <1>2, <2>1 DEF sendData
  <2> QED BY <1>2, <2>3, <2>4 DEF sendData
<1> QED BY <1>1, <1>2

LEMMA EventLoopTypes ==
  ASSUME TypeInv, EventLoop
  PROVE  TypeInv'
<1> USE DEF TypeInv, pcbVars, evVars, ipVars, appVars, peerVars
<1>1. CASE connect
  <2>1. CASE sendSyn(<< >>)
    <3>1. evPc = "idle"
      BY <1>1 DEF connect, EventLoopFree
    <3>2. /\ conn_state' \in {"SYN_SENT", "ESTABLISHED"}
          /\ send_unack' \in SeqNumbers /\ send_next' \in SeqNumbers
          /\ irs' \in SeqNumbers /\ recv_next' \in SeqNumbers
          /\ evPc' \in {"ack", "store", "tx"}
          /\ evOut' \in Seq(Segments) /\ Len(evOut') = 1
      BY <2>1, <3>1, SendTypes, EmptyStream
    <3> QED BY <1>1, <3>2 DEF connect, Types, Shape, PeerUnacked
  <2>2. CASE conn_state = "SYN_SENT" /\ UNCHANGED <<conn_state, send_unack, send_next,
                                                    irs, recv_next, evVars>>
    BY <1>1, <2>2 DEF connect, Types, Shape, PeerUnacked
  <2> QED BY <1>1, <2>1, <2>2 DEF connect
<1>2. ASSUME NEW n \in 1 .. MaxSegment, send(n)
      PROVE  TypeInv'
  <2>1. evPc = "idle" /\ written \in Nat /\ n \in Nat
    BY <1>2, Bounds DEF send, EventLoopFree, Types
  <2>2. Bytes(written, n) \in Stream
    BY <2>1, BytesType
  <2>3. /\ conn_state' \in {"SYN_SENT", "ESTABLISHED"}
        /\ send_unack' \in SeqNumbers /\ send_next' \in SeqNumbers
        /\ irs' \in SeqNumbers /\ recv_next' \in SeqNumbers
        /\ evPc' \in {"ack", "store", "tx"}
        /\ evOut' \in Seq(Segments) /\ Len(evOut') = 1
    BY <1>2, <2>1, <2>2, SendTypes DEF send
  <2>4. written' \in 0 .. MaxUp
    BY <1>2, <2>1, Bounds DEF send
  <2> QED BY <1>2, <2>3, <2>4 DEF send, Types, Shape, PeerUnacked
<1>3. CASE sendRest
  <2>1. evPc \in {"ack", "store"}
    BY <1>3 DEF sendRest
  <2>2. evOut[1] \in Segments /\ evOut = <<evOut[1]>>
    BY <2>1, EvSegment
  <2>3. [evOut[1] EXCEPT !.ackSeq = recv_next] \in Segments
    BY <2>2 DEF Types, Segments
  <2>4. Plus(send_next, Len(evOut[1].data)) \in SeqNumbers
    BY <2>2, SegmentParts, PlusType DEF Types
  <2>5. evOut' \in Seq(Segments) /\ Len(evOut') = 1 /\ send_next' \in SeqNumbers
    <3>1. CASE evPc = "ack"
      BY <1>3, <2>3, <3>1, OneSeq DEF sendRest, Types
    <3>2. CASE evPc = "store"
      BY <1>3, <2>2, <2>4, <3>2, OneSeq DEF sendRest, Types
    <3> QED BY <2>1, <3>1, <3>2
  <2> QED BY <1>3, <2>5 DEF sendRest, Types, Shape, PeerUnacked
<1>4. CASE EventLoopTx
  <2>1. toPeer' \in Seq(Segments)
    BY <1>4, NetFacts DEF EventLoopTx, Types
  <2>2. << >> \in Seq(Segments)
    OBVIOUS
  <2> QED BY <1>4, <2>1, <2>2 DEF EventLoopTx, Types, Shape, PeerUnacked
<1>5. CASE takeFromRecvQ
  <2>1. recvQ' \in 0 .. RecvQLimit + 1
    BY <1>5, Bounds DEF takeFromRecvQ, Types
  <2> QED BY <1>5, <2>1 DEF takeFromRecvQ, Types, Shape, PeerUnacked
<1> QED BY <1>1, <1>2, <1>3, <1>4, <1>5 DEF EventLoop

LEMMA IpThreadTypes ==
  ASSUME TypeInv, IpThread
  PROVE  TypeInv'
<1> USE DEF TypeInv, pcbVars, evVars, ipVars, appVars, peerVars
<1>1. ASSUME NEW i \in NetDeliverable(toClient), IpFree,
             toClient' = RemoveAt(toClient, i),
             recvInSynSent(toClient[i]) \/ recvInEstablished(toClient[i]),
             UNCHANGED <<fport, evVars, conn, written, toPeer, budget, peerVars>>
      PROVE  TypeInv'
  <2> DEFINE seg == toClient[i]
  <2>1. i \in DOMAIN toClient
    BY DEF NetDeliverable
  <2>2. seg \in Segments /\ toClient' \in Seq(Segments)
    BY <1>1, <2>1, NetFacts
  <2>3. /\ seg.flags \in Flags /\ seg.seq \in SeqNumbers /\ seg.ackSeq \in SeqNumbers
        /\ seg.data \in Stream /\ Len(seg.data) \in Nat
    BY <2>2, SegmentParts
  <2> HIDE DEF seg
  <2>4. /\ Plus(seg.seq, 1) \in SeqNumbers /\ Plus(seg.seq, Len(seg.data)) \in SeqNumbers
        /\ Plus(send_unack, 1) \in SeqNumbers
    BY <2>3, PlusType, Bounds DEF Types
  <2>5. \A v \in SeqNumbers : <<Segment({"ACK"}, 0, v, << >>)>> \in Seq(Segments)
    <3>1. \A v \in SeqNumbers : Segment({"ACK"}, 0, v, << >>) \in Segments
      BY SegmentType, EmptyStream, Bounds DEF Flags
    <3> QED BY <3>1
  <2>6. CASE recvInSynSent(seg)
    <3>1. CASE aborted'
      <4>1. aborted' /\ UNCHANGED <<conn_state, send_unack, send_next, irs, recv_next, ipVars,
                                    recvQ, queued>>
        BY <1>1, <2>6, <3>1 DEF recvInSynSent, IpFree
      <4> QED BY <1>1, <2>2, <4>1 DEF Types, Shape, PeerUnacked
    <3>2. CASE ~ aborted'
      <4>1. establish(seg) /\ UNCHANGED <<aborted, recvQ, queued>>
        BY <2>6, <3>2, <1>1 DEF recvInSynSent, IpFree
      <4> QED BY <1>1, <2>2, <2>3, <2>4, <2>5, <4>1
              DEF establish, ack2peer, Types, Shape, PeerUnacked
    <3> QED BY <3>1, <3>2
  <2>7. CASE recvInEstablished(seg)
    <3>1. send_unack' \in SeqNumbers
      BY <2>3, <2>7 DEF recvInEstablished, acknowledged, Types
    <3>2. CASE seg.data # << >> /\ payload(seg)
      <4>1. queued \o seg.data \in Stream
        BY <2>3, ConcatProperties DEF Stream, Types
      <4>2. recvQ' \in 0 .. RecvQLimit + 1 /\ queued' \in Stream
        <5>1. CASE recvQ > RecvQLimit
          BY <3>2, <5>1 DEF payload, putToRecvQ, Types
        <5>2. CASE ~ (recvQ > RecvQLimit)
          <6>1. recvQ' = recvQ + 1 /\ queued' = queued \o seg.data
            BY <3>2, <5>2 DEF payload, putToRecvQ
          <6>2. recvQ + 1 \in 0 .. RecvQLimit + 1
            BY <5>2, Bounds DEF Types
          <6> QED BY <4>1, <6>1, <6>2
        <5> QED BY <5>1, <5>2
      <4>3. recv_next' \in SeqNumbers /\ ipPc' = "seq" /\ ipOut' \in Seq(Segments) /\ Len(ipOut') = 1
        BY <3>2, <2>4, <2>5 DEF payload, ack2peer
      <4> QED BY <1>1, <2>2, <2>7, <3>1, <4>2, <4>3
              DEF recvInEstablished, Types, Shape, PeerUnacked
    <3>3. CASE seg.data = << >> /\ UNCHANGED <<recvQ, queued, recv_next, ipPc, ipOut>>
      BY <1>1, <2>2, <2>7, <3>1, <3>3 DEF recvInEstablished, Types, Shape, PeerUnacked
    <3> QED BY <2>7, <3>2, <3>3 DEF recvInEstablished
  <2> QED BY <1>1, <2>6, <2>7 DEF seg
<1>2. CASE ack2peerRest
  <2>1. ipPc \in {"seq", "tx"}
    BY <1>2 DEF ack2peerRest
  <2>2. ipOut[1] \in Segments /\ ipOut \in Seq(Segments)
    BY <2>1, IpSegment DEF Types
  <2>3. [ipOut[1] EXCEPT !.seq = send_next] \in Segments
    BY <2>2 DEF Types, Segments
  <2>4. toPeer \o ipOut \in Seq(Segments) /\ << >> \in Seq(Segments)
    BY <2>2, NetFacts
  <2>5. CASE ipPc = "seq"
    <3>1. ipOut' \in Seq(Segments) /\ Len(ipOut') = 1 /\ ipPc' = "tx" /\ UNCHANGED toPeer
      BY <1>2, <2>3, <2>5, OneSeq DEF ack2peerRest
    <3> QED BY <1>2, <3>1 DEF ack2peerRest, Types, Shape, PeerUnacked
  <2>6. CASE ipPc = "tx"
    <3>1. ipOut' = << >> /\ ipPc' \in {"idle", "callback"} /\ toPeer' \in Seq(Segments)
      BY <1>2, <2>4, <2>6 DEF ack2peerRest
    <3> QED BY <1>2, <2>4, <3>1 DEF ack2peerRest, Types, Shape, PeerUnacked
  <2> QED BY <2>1, <2>5, <2>6
<1>3. CASE onConnEstabCB
  BY <1>3 DEF onConnEstabCB, Types, Shape, PeerUnacked
<1> QED BY <1>1, <1>2, <1>3 DEF IpThread, recv

\* What the peer sends and what is removed from the network have their types.
LEMMA PeerSaysTypes ==
  ASSUME Types, NEW f \in Flags, NEW s \in SeqNumbers, NEW a \in SeqNumbers, NEW d \in Stream,
         PeerSays(f, s, a, d)
  PROVE  /\ toClient' \in Seq(Segments)
         /\ ToSet(toClient') = ToSet(toClient) \cup {Segment(f, s, a, d)}
BY SegmentType, NetFacts DEF PeerSays

LEMMA PeerReceiveTypes ==
  ASSUME TypeInv, PeerReceive
  PROVE  TypeInv'
<1> USE DEF TypeInv, pcbVars, evVars, ipVars, appVars, peerVars
<1>1. PICK i \in NetDeliverable(toPeer) :
        /\ toPeer' = RemoveAt(toPeer, i)
        /\ \/ PeerListen(toPeer[i])
           \/ PeerIgnore(toPeer[i])
           \/ PeerAccept(toPeer[i])
           \/ pstate = "refused" /\ UNCHANGED <<toClient, peerVars>>
        /\ UNCHANGED <<pcbVars, evVars, ipVars, appVars, budget>>
  BY DEF PeerReceive
<1> DEFINE seg == toPeer[i]
<1>2. i \in DOMAIN toPeer
  BY DEF NetDeliverable
<1>3. seg \in Segments /\ toPeer' \in Seq(Segments)
  BY <1>1, <1>2, NetFacts
<1>4. /\ seg.flags \in Flags /\ seg.seq \in SeqNumbers /\ seg.ackSeq \in SeqNumbers
      /\ seg.data \in Stream /\ Len(seg.data) \in Nat
  BY <1>3, SegmentParts
<1> HIDE DEF seg
<1>5. /\ Plus(seg.seq, 1) \in SeqNumbers /\ Plus(PeerIss, 1) \in SeqNumbers
      /\ Plus(p_rcv, Len(seg.data)) \in SeqNumbers
  BY <1>4, PlusType, Bounds DEF Types
<1>6. \* the variables of the peer
      /\ toClient' \in Seq(Segments)
      /\ p_una' \in SeqNumbers /\ p_next' \in SeqNumbers /\ p_rcv' \in SeqNumbers
      /\ p_sent' = p_sent /\ accepted' \in Stream
      /\ pstate' \in {"listen", "refused", "synrcvd", "estab"}
      /\ pstate' = "synrcvd" => p_una' = PeerIss /\ p_next' = Plus(PeerIss, 1)
      /\ pstate' # "estab" => p_sent = 0
      /\ pstate' = "estab" => Minus(p_next', p_una') <= p_sent
  <2>1. CASE PeerListen(seg)
    <3>1. CASE pstate' = "synrcvd"
      <4>1. PeerSays({"SYN", "ACK"}, PeerIss, p_rcv', << >>) /\ p_rcv' = Plus(seg.seq, 1)
        BY <2>1, <3>1 DEF PeerListen
      <4>2. toClient' \in Seq(Segments)
        BY <4>1, <1>5, PeerSaysTypes, EmptyStream, Bounds DEF Flags
      <4> QED BY <2>1, <3>1, <4>1, <4>2, <1>5, Bounds DEF PeerListen, Types, Shape
    <3>2. CASE pstate' # "synrcvd"
      <4>1. /\ PeerSays({"RST", "ACK"}, 0, Plus(seg.seq, 1), << >>) /\ pstate' = "refused"
            /\ UNCHANGED <<p_una, p_next, p_rcv, p_sent, accepted>>
        BY <2>1, <3>2 DEF PeerListen
      <4>2. toClient' \in Seq(Segments)
        BY <4>1, <1>5, PeerSaysTypes, EmptyStream, Bounds DEF Flags
      <4> QED BY <2>1, <4>1, <4>2 DEF PeerListen, Types, Shape
    <3> QED BY <3>1, <3>2
  <2>2. CASE PeerIgnore(seg)
    <3>1. UNCHANGED peerVars /\ pstate \in {"synrcvd", "estab"}
      BY <2>2 DEF PeerIgnore, PeerOpen
    <3>2. toClient' \in Seq(Segments)
      <4>1. CASE pstate = "synrcvd"
        BY <2>2, <4>1, PeerSaysTypes, EmptyStream, Bounds DEF PeerIgnore, Flags, Types
      <4>2. CASE pstate # "synrcvd"
        BY <2>2, <4>2, PeerSaysTypes, EmptyStream, Bounds DEF PeerIgnore, Flags, Types
      <4> QED BY <4>1, <4>2
    <3> QED BY <3>1, <3>2 DEF Types, Shape, PeerUnacked
  <2>3. CASE PeerAccept(seg)
    <3>1. pstate \in {"synrcvd", "estab"} /\ UNCHANGED <<p_next, p_sent>>
      BY <2>3 DEF PeerAccept, PeerOpen
    <3>2. p_una' \in {p_una, seg.ackSeq} /\ p_una' \in SeqNumbers
      BY <2>3, <1>4 DEF PeerAccept, Types
    <3>3. accepted \o seg.data \in Stream
      BY <1>4, ConcatProperties DEF Stream, Types
    <3>4. accepted' \in Stream /\ p_rcv' \in SeqNumbers
      BY <2>3, <1>5, <3>3 DEF PeerAccept, Types
    <3>5. toClient' \in Seq(Segments)
      <4>1. CASE seg.data = << >>
        BY <2>3, <4>1 DEF PeerAccept, Types
      <4>2. CASE seg.data # << >>
        <5>1. PeerSays({"ACK"}, p_next, p_rcv', << >>)
          BY <2>3, <4>2 DEF PeerAccept
        <5> QED BY <5>1, <3>4, PeerSaysTypes, EmptyStream DEF Flags, Types
      <4> QED BY <4>1, <4>2
    <3>6. pstate' = IF p_una' = PeerIss /\ pstate = "synrcvd" THEN "synrcvd" ELSE "estab"
      BY <2>3 DEF PeerAccept
    <3>7. /\ Minus(p_next, p_una) \in Nat /\ Minus(p_next, p_una') \in Nat
          /\ Minus(p_next, p_una') <= Minus(p_next, p_una)
          /\ p_una' # p_una => Minus(p_next, p_una') < Minus(p_next, p_una)
      <4>1. Minus(p_next, p_una) \in Nat /\ Minus(p_next, p_una') \in Nat
        BY <3>2, MinusType DEF Types, SeqNumbers
      <4>2. CASE p_una' = p_una
        BY <4>1, <4>2
      <4>3. CASE p_una' # p_una
        <5>1. p_una' = seg.ackSeq /\ Minus(seg.ackSeq, p_una) <= Minus(p_next, p_una)
          BY <2>3, <3>2, <4>3 DEF PeerAccept
        <5>2. Minus(p_next, p_una') = Minus(p_next, p_una) - Minus(p_una', p_una)
          BY <5>1, <1>4, MinusOn DEF Types
        <5>3. Minus(p_una', p_una) \in Nat \ {0}
          <6>1. p_una \in SeqNumbers /\ p_una' \in SeqNumbers
            BY <3>2 DEF Types
          <6> QED BY <4>3, <6>1, MinusPositive
        <5> QED BY <4>1, <5>2, <5>3
      <4> QED BY <4>2, <4>3
    <3>8. pstate' = "estab" => Minus(p_next', p_una') <= p_sent
      <4>1. CASE pstate = "estab"
        BY <4>1, <3>1, <3>7, Bounds DEF Shape, PeerUnacked, Types
      <4>2. CASE pstate = "synrcvd" /\ p_una' # PeerIss
        <5>1. Minus(p_next, p_una) = 1
          BY <4>2, PlusBack, Bounds, SeqAssumption DEF Shape, SeqNumbers
        <5> QED BY <4>2, <5>1, <3>1, <3>7 DEF Shape, PeerUnacked, Types
      <4> QED BY <3>1, <3>6, <4>1, <4>2
    <3> QED BY <3>1, <3>2, <3>4, <3>5, <3>6, <3>8 DEF Shape, Types
  <2>4. CASE pstate = "refused" /\ UNCHANGED <<toClient, peerVars>>
    BY <2>4 DEF Types, Shape
  <2> QED BY <1>1, <2>1, <2>2, <2>3, <2>4 DEF seg
<1>7. Types'
  BY <1>1, <1>3, <1>6 DEF Types
<1> QED BY <1>1, <1>6, <1>7 DEF Shape, PeerUnacked

LEMMA PeerSendTypes ==
  ASSUME TypeInv, PeerSend
  PROVE  TypeInv'
<1> USE DEF TypeInv, pcbVars, evVars, ipVars, appVars
<1>1. PICK n \in 1 .. MaxSegment :
        /\ pstate = "estab"
        /\ p_sent + n <= MaxDown
        /\ PeerUnacked + n <= Window
        /\ PeerSays({"ACK"}, p_next, p_rcv, Bytes(p_sent, n))
        /\ p_next' = Plus(p_next, n)
        /\ p_sent' = p_sent + n
        /\ UNCHANGED <<pcbVars, evVars, ipVars, appVars, toPeer, budget,
                       pstate, p_una, p_rcv, accepted>>
  BY DEF PeerSend
<1>2. n \in Nat /\ p_sent \in Nat /\ Bytes(p_sent, n) \in Stream
  BY BytesType, Bounds DEF Types
<1>3. toClient' \in Seq(Segments)
  BY <1>1, <1>2, PeerSaysTypes DEF Flags, Types
<1>4. p_next' \in SeqNumbers /\ p_sent' \in 0 .. MaxDown
  BY <1>1, <1>2, PlusType, Bounds DEF Types
<1>5. Minus(p_next', p_una) = Minus(p_next, p_una) + n
  <2>1. Minus(p_next, p_una) \in Nat
    BY MinusType DEF Types, SeqNumbers
  <2>2. Minus(p_next, p_una) + n < SeqSpace
    BY <1>1, <1>2, <2>1, Bounds DEF PeerUnacked
  <2> QED BY <1>1, <1>2, <2>2, MinusGrows DEF Types
<1>6. Minus(p_next', p_una) <= p_sent'
  <2>1. Minus(p_next, p_una) \in Nat /\ Minus(p_next, p_una) <= p_sent
    BY <1>1, MinusType DEF Types, SeqNumbers, Shape, PeerUnacked
  <2> QED BY <1>1, <1>2, <1>5, <2>1
<1> QED BY <1>1, <1>3, <1>4, <1>6 DEF Types, Shape, PeerUnacked

LEMMA BudgetParts ==
  ASSUME Types
  PROVE  /\ budget.up \in 0 .. LossesUp /\ budget.down \in 0 .. LossesDown
         /\ budget.dup \in 0 .. Duplicates /\ budget.rexmit \in 0 .. MaxRetransmits
BY DEF Types

LEMMA PeerRetransmitTypes ==
  ASSUME TypeInv, PeerRetransmit
  PROVE  TypeInv'
<1> USE DEF TypeInv, pcbVars, evVars, ipVars, appVars, peerVars
<1>1. /\ UNCHANGED <<pcbVars, evVars, ipVars, appVars, toPeer, peerVars>>
      /\ budget.rexmit < MaxRetransmits /\ budget' = [budget EXCEPT !.rexmit = @ + 1]
  BY DEF PeerRetransmit
<1>2. budget' \in [up : 0 .. LossesUp, down : 0 .. LossesDown,
                   dup : 0 .. Duplicates, rexmit : 0 .. MaxRetransmits]
  <2>1. budget.rexmit + 1 \in 0 .. MaxRetransmits
    BY <1>1, BudgetParts, Bounds
  <2> QED BY <1>1, <2>1 DEF Types
<1>3. toClient' \in Seq(Segments)
  <2>1. CASE pstate = "synrcvd" /\ PeerSays({"SYN", "ACK"}, PeerIss, p_rcv, << >>)
    BY <2>1, PeerSaysTypes, EmptyStream, Bounds DEF Types, Flags
  <2>2. ASSUME pstate = "estab", NEW n \in 1 .. MaxSegment,
               PeerSays({"ACK"}, p_una, p_rcv, Bytes(p_sent - PeerUnacked, n))
        PROVE  toClient' \in Seq(Segments)
    <3>1. n \in Nat /\ p_sent - PeerUnacked \in Nat
      <4>1. PeerUnacked \in Nat /\ PeerUnacked <= p_sent /\ p_sent \in Nat
        BY <2>2, MinusType, Bounds DEF Types, Shape, PeerUnacked, SeqNumbers
      <4> QED BY <4>1, Bounds
    <3>2. Bytes(p_sent - PeerUnacked, n) \in Stream
      BY <3>1, BytesType
    <3> QED BY <2>2, <3>2, PeerSaysTypes DEF Types, Flags
  <2> QED BY <2>1, <2>2 DEF PeerRetransmit
<1> QED BY <1>1, <1>2, <1>3 DEF Types, Shape, PeerUnacked

LEMMA NetworkTypes ==
  ASSUME TypeInv, Network
  PROVE  TypeInv'
<1> USE DEF TypeInv, pcbVars, evVars, ipVars, appVars, peerVars
<1>1. UNCHANGED <<pcbVars, evVars, ipVars, appVars, peerVars>>
  BY DEF Network, NetLose, NetDuplicate
<1>2. toPeer' \in Seq(Segments) /\ toClient' \in Seq(Segments)
  <2> HIDE DEF TypeInv
  <2>1. /\ toPeer \in Seq(Segments) /\ toClient \in Seq(Segments)
        /\ \A i \in DOMAIN toPeer : /\ RemoveAt(toPeer, i) \in Seq(Segments)
                                    /\ Append(toPeer, toPeer[i]) \in Seq(Segments)
        /\ \A i \in DOMAIN toClient : /\ RemoveAt(toClient, i) \in Seq(Segments)
                                      /\ Append(toClient, toClient[i]) \in Seq(Segments)
    <3>1. Types
      BY DEF TypeInv
    <3>2. toPeer \in Seq(Segments) /\ toClient \in Seq(Segments)
      BY <3>1 DEF Types
    <3> QED BY <3>1, <3>2, NetFacts
  <2>2. \/ \E i \in DOMAIN toPeer : toPeer' = RemoveAt(toPeer, i) /\ UNCHANGED toClient
        \/ \E i \in DOMAIN toClient : toClient' = RemoveAt(toClient, i) /\ UNCHANGED toPeer
        \/ \E i \in DOMAIN toPeer : toPeer' = Append(toPeer, toPeer[i]) /\ UNCHANGED toClient
        \/ \E i \in DOMAIN toClient : toClient' = Append(toClient, toClient[i]) /\ UNCHANGED toPeer
    BY DEF Network, NetLose, NetDuplicate
  <2> QED BY <2>1, <2>2
<1>3. budget' \in [up : 0 .. LossesUp, down : 0 .. LossesDown,
                   dup : 0 .. Duplicates, rexmit : 0 .. MaxRetransmits]
  <2>1. CASE NetLose
    <3>1. CASE budget.up < LossesUp /\ budget' = [budget EXCEPT !.up = @ + 1]
      <4>1. budget.up + 1 \in 0 .. LossesUp
        BY <3>1, BudgetParts, Bounds
      <4> QED BY <3>1, <4>1 DEF Types
    <3>2. CASE budget.down < LossesDown /\ budget' = [budget EXCEPT !.down = @ + 1]
      <4>1. budget.down + 1 \in 0 .. LossesDown
        BY <3>2, BudgetParts, Bounds
      <4> QED BY <3>2, <4>1 DEF Types
    <3> QED BY <2>1, <3>1, <3>2 DEF NetLose
  <2>2. CASE NetDuplicate
    <3>1. budget.dup < Duplicates /\ budget' = [budget EXCEPT !.dup = @ + 1]
      BY <2>2 DEF NetDuplicate
    <3>2. budget.dup + 1 \in 0 .. Duplicates
      BY <3>1, BudgetParts, Bounds
    <3> QED BY <3>1, <3>2 DEF Types
  <2> QED BY <2>1, <2>2 DEF Network
<1> QED BY <1>1, <1>2, <1>3 DEF Types, Shape, PeerUnacked

LEMMA TypeStep ==
  ASSUME TypeInv, [Next]_vars
  PROVE  TypeInv'
<1>1. CASE EventLoop
  BY <1>1, EventLoopTypes
<1>2. CASE IpThread
  BY <1>2, IpThreadTypes
<1>3. CASE Peer
  BY <1>3, PeerReceiveTypes, PeerSendTypes, PeerRetransmitTypes DEF Peer
<1>4. CASE Network
  BY <1>4, NetworkTypes
<1>5. CASE UNCHANGED vars
  BY <1>5 DEF vars, pcbVars, evVars, ipVars, appVars, peerVars,
              TypeInv, Types, Shape, PeerUnacked
<1> QED BY <1>1, <1>2, <1>3, <1>4, <1>5 DEF Next

THEOREM TypesHold == Spec => []TypeInv
BY TypeInit, TypeStep, PTL DEF Spec

\* The members of TcpPcb, the segments and the peer have their types in every
\* reachable state: sequence numbers stay within their width, the queue within its limit.
THEOREM TypeCorrect == Spec => []TypeOK
<1>1. TypeInv => TypeOK
  BY TypesSame DEF TypeInv
<1> QED BY <1>1, TypesHold, PTL

-----------------------------------------------------------------------------
(* The handshake.                                                          *)

Established == conn_state = "ESTABLISHED"
UpSegments == ToSet(toPeer) \cup ToSet(evOut) \cup ToSet(ipOut)

\* A build that has assertions, or a peer that does not refuse.
RefusalNoticed == Asserts \/ ~ Refuses

\* Where the segments on their way come from: only an established client sends
\* what is not a SYN, and only to such a client does the peer send what is not
\* the answer to a SYN.
FromClient(s) == \/ s.flags = {"SYN"} /\ s.seq = iss
                 \/ s.flags = {"ACK"} /\ Established
FromPeer(s) == \/ s.flags = {"SYN", "ACK"} /\ s.seq = PeerIss /\ PeerOpen
               \/ s.flags = {"ACK"} /\ Established
               \/ s.flags = {"RST", "ACK"} /\ pstate = "refused"

HandInv ==
  /\ ipPc # "idle" => Established
  /\ conn = "connected" => Established
  /\ Established => PeerOpen /\ irs = PeerIss
  /\ pstate = "estab" => Established
  /\ pstate = "refused" => Refuses
  /\ aborted => pstate = "refused"
  /\ PeerOpen => p_rcv = 2 \/ Established
  /\ \A s \in ToSet(ipOut) : s.flags = {"ACK"}
  /\ \A s \in UpSegments : FromClient(s)
  /\ \A s \in ToSet(toClient) : FromPeer(s)

LEMMA FlagFacts ==
  /\ {"SYN"} # {"ACK"} /\ {"ACK"} # {"RST", "ACK"} /\ {"SYN", "ACK"} # {"RST", "ACK"}
  /\ {"SYN", "ACK"} # {"ACK"}
  /\ "SYN" \notin {"ACK"} /\ "SYN" \notin {"RST", "ACK"}
  /\ "ACK" \notin {"SYN"} /\ "ACK" \in {"ACK"}
  /\ {"SYN", "ACK"} \subseteq {"SYN", "ACK"}
<1>1. "SYN" # "ACK" /\ "SYN" # "RST" /\ "RST" # "ACK"
  OBVIOUS
<1>2. "SYN" \in {"SYN"} /\ "SYN" \notin {"ACK"} /\ "SYN" \notin {"RST", "ACK"}
  BY <1>1
<1>3. "RST" \in {"RST", "ACK"} /\ "RST" \notin {"ACK"} /\ "RST" \notin {"SYN", "ACK"}
  BY <1>1
<1>4. "SYN" \in {"SYN", "ACK"} /\ "ACK" \in {"ACK"} /\ "ACK" \notin {"SYN"}
  BY <1>1
<1> QED BY <1>2, <1>3, <1>4

LEMMA HandInit == Init => HandInv
<1> SUFFICES ASSUME Init PROVE HandInv
  OBVIOUS
<1>1. ToSet(toPeer) = {} /\ ToSet(evOut) = {} /\ ToSet(ipOut) = {} /\ ToSet(toClient) = {}
  BY SetOfNone DEF Init
<1> QED BY <1>1 DEF Init, HandInv, UpSegments, Established, PeerOpen

\* A step of the event loop makes no segment but a SYN, or one of an
\* established client, and leaves the peer alone.
LEMMA EventLoopHand ==
  ASSUME TypeInv, HandInv, EventLoop
  PROVE  HandInv'
<1> USE DEF pcbVars, evVars, ipVars, appVars, peerVars
<1>1. /\ UNCHANGED <<irs, ipVars, aborted, toClient, peerVars>>
      /\ conn_state' # conn_state => conn_state = "CLOSED" /\ conn_state' = "SYN_SENT"
      /\ conn' = "connected" => conn = "connected"
  BY DEF EventLoop, connect, send, sendRest, EventLoopTx, takeFromRecvQ, sendSyn, sendData
<1>2. /\ Established' <=> Established
      /\ PeerOpen' <=> PeerOpen
      /\ \A s : FromClient(s)' <=> FromClient(s)
      /\ \A s : FromPeer(s)' <=> FromPeer(s)
  BY <1>1 DEF Established, PeerOpen, FromClient, FromPeer
<1>3. \A s \in ToSet(evOut)' : s \in ToSet(evOut) \/ FromClient(s)
  <2>1. ASSUME NEW d, sendSyn(d)
        PROVE  \A s \in ToSet(evOut)' : FromClient(s)
    BY <2>1, SetOfOne DEF sendSyn, Segment, FromClient
  <2>2. ASSUME NEW d, sendData(d)
        PROVE  \A s \in ToSet(evOut)' : FromClient(s)
    BY <2>2, SetOfOne DEF sendData, Segment, FromClient, Established
  <2>3. CASE connect
    BY <2>1, <2>3 DEF connect
  <2>4. ASSUME NEW n \in 1 .. MaxSegment, send(n)
        PROVE  \A s \in ToSet(evOut)' : FromClient(s)
    BY <2>1, <2>2, <2>4 DEF send
  <2>5. CASE sendRest
    <3>1. evPc # "idle"
      BY <2>5 DEF sendRest
    <3>2. evOut[1] \in Segments /\ evOut = <<evOut[1]>> /\ ToSet(evOut) = {evOut[1]}
      BY <3>1, EvSegment
    <3>3. FromClient(evOut[1])
      BY <3>2 DEF HandInv, UpSegments
    <3>4. FromClient([evOut[1] EXCEPT !.ackSeq = recv_next])
      BY <3>2, <3>3 DEF FromClient, Segments
    <3>5. evOut' = evOut \/ evOut' = <<[evOut[1] EXCEPT !.ackSeq = recv_next]>>
      BY <2>5 DEF sendRest
    <3> QED BY <3>4, <3>5, SetOfOne
  <2>6. CASE EventLoopTx
    BY <2>6, SetOfNone DEF EventLoopTx
  <2>7. CASE takeFromRecvQ
    BY <2>7 DEF takeFromRecvQ
  <2> QED BY <2>3, <2>4, <2>5, <2>6, <2>7 DEF EventLoop
<1>4. ToSet(toPeer)' \subseteq ToSet(toPeer) \cup ToSet(evOut)
  <2>1. CASE EventLoopTx
    <3>1. toPeer' = toPeer \/ toPeer' = toPeer \o evOut
      BY <2>1 DEF EventLoopTx
    <3>2. evOut \in Seq(Segments)
      BY DEF TypeInv, Types
    <3> QED BY <3>1, <3>2, NetFacts DEF TypeInv
  <2>2. CASE ~ EventLoopTx
    BY <2>2 DEF EventLoop, connect, send, sendRest, takeFromRecvQ
  <2> QED BY <2>1, <2>2
<1>5. ToSet(ipOut)' = ToSet(ipOut) /\ ToSet(toClient)' = ToSet(toClient)
  BY <1>1
<1>6. \A s \in UpSegments' : FromClient(s)'
  BY <1>2, <1>3, <1>4, <1>5 DEF HandInv, UpSegments
<1>7. \A s \in ToSet(toClient)' : FromPeer(s)'
  BY <1>2, <1>5 DEF HandInv
<1> QED BY <1>1, <1>2, <1>6, <1>7 DEF HandInv

\* recv establishes the connection only with the peer's SYN and ACK.
LEMMA IpThreadHand ==
  ASSUME TypeInv, HandInv, IpThread, RefusalNoticed
  PROVE  HandInv'
<1> USE DEF pcbVars, evVars, ipVars, appVars, peerVars
<1>1. ASSUME NEW i \in NetDeliverable(toClient), IpFree,
             toClient' = RemoveAt(toClient, i),
             recvInSynSent(toClient[i]) \/ recvInEstablished(toClient[i]),
             UNCHANGED <<fport, evVars, conn, written, toPeer, budget, peerVars>>
      PROVE  HandInv'
  <2> DEFINE seg == toClient[i]
  <2>1. i \in DOMAIN toClient
    BY DEF NetDeliverable
  <2>2. seg \in ToSet(toClient) /\ ToSet(toClient)' \subseteq ToSet(toClient)
    BY <1>1, <2>1, NetFacts DEF TypeInv
  <2>3. FromPeer(seg)
    BY <2>2 DEF HandInv
  <2> HIDE DEF seg
  <2>4. PeerOpen' <=> PeerOpen
    BY <1>1 DEF PeerOpen
  <2>5. CASE recvInSynSent(seg)
    <3>1. ~ Established
      BY <2>5 DEF recvInSynSent, Established
    <3>2. \/ SynAck(seg) /\ seg.flags = {"SYN", "ACK"} /\ seg.seq = PeerIss /\ PeerOpen
          \/ ~ SynAck(seg) /\ pstate = "refused"
      BY <2>3, <3>1, FlagFacts DEF FromPeer, SynAck
    <3>3. CASE SynAck(seg)
      <4>1. establish(seg) /\ UNCHANGED aborted
        BY <2>5, <3>3 DEF recvInSynSent
      <4>2. seg.seq = PeerIss /\ PeerOpen
        BY <3>2, <3>3
      <4>3. Established' /\ irs' = PeerIss
        BY <4>1, <4>2 DEF establish, Established
      <4>4. ToSet(ipOut)' = {Segment({"ACK"}, 0, recv_next', << >>)}
        BY <4>1, SetOfOne DEF establish, ack2peer
      <4>5. \A s \in UpSegments' : FromClient(s)'
        <5>1. ASSUME NEW s \in UpSegments' PROVE FromClient(s)'
          <6>1. s \in UpSegments \/ s = Segment({"ACK"}, 0, recv_next', << >>)
            BY <1>1, <4>4 DEF UpSegments
          <6>2. CASE s \in UpSegments
            BY <6>2, <4>3 DEF HandInv, FromClient
          <6>3. CASE s = Segment({"ACK"}, 0, recv_next', << >>)
            BY <6>3, <4>3 DEF Segment, FromClient
          <6> QED BY <6>1, <6>2, <6>3
        <5> QED BY <5>1
      <4>6. \A s \in ToSet(toClient)' : FromPeer(s)'
        BY <1>1, <2>2, <2>4, <4>3 DEF HandInv, FromPeer
      <4>7. \A s \in ToSet(ipOut)' : s.flags = {"ACK"}
        BY <4>4 DEF Segment
      <4> QED BY <1>1, <2>4, <4>1, <4>2, <4>3, <4>5, <4>6, <4>7 DEF HandInv
    <3>4. CASE ~ SynAck(seg)
      <4>1. Refuses /\ Asserts
        BY <3>2, <3>4 DEF HandInv, RefusalNoticed
      <4>2. /\ aborted' /\ pstate = "refused"
            /\ UNCHANGED <<conn_state, irs, ipVars>>
        BY <2>5, <3>2, <3>4, <4>1 DEF recvInSynSent
      <4> QED BY <1>1, <2>2, <2>4, <4>2
              DEF HandInv, UpSegments, FromClient, FromPeer, Established
    <3> QED BY <3>3, <3>4
  <2>6. CASE recvInEstablished(seg)
    <3>1. Established /\ UNCHANGED <<conn_state, irs, aborted>>
      BY <2>6 DEF recvInEstablished, Established
    <3>2. Established' <=> Established
      BY <3>1 DEF Established
    <3>3. \A s \in ToSet(ipOut)' : s \in ToSet(ipOut) \/ s.flags = {"ACK"}
      <4>1. CASE payload(seg)
        BY <4>1, SetOfOne DEF payload, ack2peer, Segment
      <4>2. CASE UNCHANGED ipOut
        BY <4>2
      <4> QED BY <2>6, <4>1, <4>2 DEF recvInEstablished
    <3>4. \A s \in UpSegments' : FromClient(s)'
      BY <1>1, <3>1, <3>2, <3>3 DEF HandInv, UpSegments, FromClient
    <3>5. \A s \in ToSet(toClient)' : FromPeer(s)'
      BY <1>1, <2>2, <2>4, <3>2 DEF HandInv, FromPeer
    <3>6. \A s \in ToSet(ipOut)' : s.flags = {"ACK"}
      BY <3>3 DEF HandInv
    <3> QED BY <1>1, <2>4, <3>1, <3>2, <3>4, <3>5, <3>6 DEF HandInv
  <2> QED BY <1>1, <2>5, <2>6 DEF seg
<1>2. CASE ack2peerRest
  <2>1. /\ UNCHANGED <<pcbVars, evVars, appVars, toClient, peerVars>>
        /\ ipPc \in {"seq", "tx"}
    BY <1>2 DEF ack2peerRest
  <2>2. Established /\ Established' /\ (PeerOpen' <=> PeerOpen)
    BY <2>1 DEF HandInv, Established, PeerOpen
  <2>3. ipOut[1] \in Segments /\ ipOut \in Seq(Segments) /\ ToSet(ipOut) = {ipOut[1]}
    BY <2>1, IpSegment DEF TypeInv, Types
  <2>4. \A s \in UpSegments' : s \in UpSegments \/ s.flags = ipOut[1].flags
    <3>1. CASE ipPc = "seq"
      <4>1. ToSet(ipOut)' = {[ipOut[1] EXCEPT !.seq = send_next]} /\ UNCHANGED toPeer
        BY <1>2, <3>1, SetOfOne DEF ack2peerRest
      <4>2. [ipOut[1] EXCEPT !.seq = send_next].flags = ipOut[1].flags
        BY <2>3 DEF Segments
      <4> QED BY <2>1, <4>1, <4>2 DEF UpSegments
    <3>2. CASE ipPc = "tx"
      <4>1. ToSet(ipOut)' = {} /\ ToSet(toPeer)' = ToSet(toPeer) \cup ToSet(ipOut)
        BY <1>2, <2>3, <3>2, SetOfNone, NetFacts DEF ack2peerRest, TypeInv
      <4> QED BY <2>1, <4>1 DEF UpSegments
    <3> QED BY <2>1, <3>1, <3>2
  <2>5. FromClient(ipOut[1])
    BY <2>3 DEF HandInv, UpSegments
  <2>6. ipOut[1].flags = {"ACK"}
    BY <2>3 DEF HandInv
  <2>7. \A s \in ToSet(ipOut)' : s.flags = {"ACK"}
    <3>1. CASE ipPc = "seq"
      <4>1. ToSet(ipOut)' = {[ipOut[1] EXCEPT !.seq = send_next]}
        BY <1>2, <3>1, SetOfOne DEF ack2peerRest
      <4>2. [ipOut[1] EXCEPT !.seq = send_next].flags = ipOut[1].flags
        BY <2>3 DEF Segments
      <4> QED BY <2>6, <4>1, <4>2
    <3>2. CASE ipPc = "tx"
      BY <1>2, <3>2, SetOfNone DEF ack2peerRest
    <3> QED BY <2>1, <3>1, <3>2
  <2>8. \A s \in UpSegments' : FromClient(s)'
    BY <2>2, <2>4, <2>6 DEF HandInv, FromClient
  <2>9. \A s \in ToSet(toClient)' : FromPeer(s)'
    BY <2>1, <2>2 DEF HandInv, FromPeer
  <2> QED BY <2>1, <2>2, <2>7, <2>8, <2>9 DEF HandInv
<1>3. CASE onConnEstabCB
  BY <1>3 DEF onConnEstabCB, HandInv, UpSegments, Established, PeerOpen, FromClient, FromPeer
<1> QED BY <1>1, <1>2, <1>3 DEF IpThread, recv

\* The peer takes no segment but one of an established client: a repeated SYN
\* is old.
LEMMA AcceptEstablished ==
  ASSUME TypeInv, HandInv, NEW seg \in Segments, FromClient(seg), PeerAccept(seg)
  PROVE  Established
<1>1. ~ PeerOld(seg) /\ PeerOpen
  BY DEF PeerAccept
<1>2. CASE p_rcv = 2 /\ seg.seq = iss
  <2>1. Minus(p_rcv, seg.seq) = 1
    BY <1>2, IssType
  <2>2. 1 \in 1 .. SeqSpace \div 2
    BY SeqAssumption
  <2> QED BY <1>1, <2>1, <2>2 DEF PeerOld
<1> QED BY <1>1, <1>2 DEF HandInv, FromClient

\* The peer is established by a segment of an established client, and answers
\* with something else than SYN and ACK only then.
LEMMA PeerHand ==
  ASSUME TypeInv, HandInv, Peer
  PROVE  HandInv'
<1> USE DEF pcbVars, evVars, ipVars, appVars, peerVars
<1>1. /\ UNCHANGED <<pcbVars, evVars, ipVars, appVars>>
      /\ Established' <=> Established
      /\ \A s : FromClient(s)' <=> FromClient(s)
  BY DEF Peer, PeerReceive, PeerSend, PeerRetransmit, Established, FromClient
<1>2. \* what is left to show
      ASSUME ToSet(toPeer)' \subseteq ToSet(toPeer),
             pstate # pstate' => pstate = "listen" \/ pstate' = "estab",
             pstate' = "estab" => Established,
             pstate' = "listen" => pstate = "listen",
             pstate' = "refused" => Refuses,
             PeerOpen' => p_rcv' = 2 \/ Established,
             \A s \in ToSet(toClient)' : s \in ToSet(toClient) \/ FromPeer(s)'
      PROVE  HandInv'
  <2>1. PeerOpen => PeerOpen'
    BY <1>2 DEF PeerOpen
  <2>2. pstate = "refused" => pstate' = "refused"
    <3>1. Established => PeerOpen
      BY DEF HandInv
    <3> QED BY <3>1, <1>2 DEF PeerOpen
  <2>3. \A s : FromPeer(s) => FromPeer(s)'
    BY <1>1, <2>1, <2>2 DEF FromPeer
  <2>4. \A s \in ToSet(toClient)' : FromPeer(s)'
    BY <1>2, <2>3 DEF HandInv
  <2>5. \A s \in UpSegments' : FromClient(s)'
    BY <1>1, <1>2 DEF HandInv, UpSegments
  <2> QED BY <1>1, <1>2, <2>1, <2>2, <2>4, <2>5 DEF HandInv
<1>3. CASE PeerReceive
  <2>1. PICK i \in NetDeliverable(toPeer) :
          /\ toPeer' = RemoveAt(toPeer, i)
          /\ \/ PeerListen(toPeer[i])
             \/ PeerIgnore(toPeer[i])
             \/ PeerAccept(toPeer[i])
             \/ pstate = "refused" /\ UNCHANGED <<toClient, peerVars>>
    BY <1>3 DEF PeerReceive
  <2> DEFINE seg == toPeer[i]
  <2>2. i \in DOMAIN toPeer
    BY DEF NetDeliverable
  <2>3. seg \in Segments /\ seg \in ToSet(toPeer) /\ ToSet(toPeer)' \subseteq ToSet(toPeer)
    BY <2>1, <2>2, NetFacts DEF TypeInv
  <2>4. FromClient(seg)
    BY <2>3 DEF HandInv, UpSegments
  <2> HIDE DEF seg
  <2>5. /\ seg.seq \in SeqNumbers /\ seg.data \in Stream /\ Len(seg.data) \in Nat
        /\ Plus(seg.seq, 1) \in SeqNumbers
    BY <2>3, SegmentParts, PlusType
  <2>6. CASE PeerListen(seg)
    <3>1. pstate = "listen" /\ ~ Established
      BY <2>6 DEF PeerListen, HandInv, PeerOpen
    <3>2. seg.seq = iss /\ Plus(seg.seq, 1) = 2
      BY <2>4, <3>1, IssType DEF FromClient
    <3>3. CASE pstate' = "synrcvd"
      <4>1. p_rcv' = 2 /\ PeerSays({"SYN", "ACK"}, PeerIss, p_rcv', << >>)
        BY <2>6, <3>2, <3>3 DEF PeerListen
      <4>2. ToSet(toClient)' = ToSet(toClient)
                                 \cup {Segment({"SYN", "ACK"}, PeerIss, p_rcv', << >>)}
        BY <4>1, IssType, PeerSaysTypes, EmptyStream, Bounds DEF Flags, TypeInv
      <4>3. \A s : s = Segment({"SYN", "ACK"}, PeerIss, p_rcv', << >>) => FromPeer(s)'
        BY <3>3 DEF FromPeer, Segment, PeerOpen
      <4> QED BY <1>2, <2>3, <3>1, <3>3, <4>1, <4>2, <4>3
    <3>4. CASE pstate' # "synrcvd"
      <4>1. /\ Refuses /\ pstate' = "refused"
            /\ PeerSays({"RST", "ACK"}, 0, Plus(seg.seq, 1), << >>)
        BY <2>6, <3>4 DEF PeerListen
      <4>2. ToSet(toClient)' = ToSet(toClient)
                                 \cup {Segment({"RST", "ACK"}, 0, Plus(seg.seq, 1), << >>)}
        BY <2>5, <4>1, PeerSaysTypes, EmptyStream, Bounds DEF Flags, TypeInv
      <4>3. \A s : s = Segment({"RST", "ACK"}, 0, Plus(seg.seq, 1), << >>) => FromPeer(s)'
        BY <4>1 DEF FromPeer, Segment
      <4>4. ~ PeerOpen'
        BY <4>1 DEF PeerOpen
      <4> QED BY <1>2, <2>3, <3>1, <4>1, <4>2, <4>3, <4>4
    <3> QED BY <3>3, <3>4
  <2>7. CASE PeerIgnore(seg)
    <3>1. UNCHANGED peerVars /\ pstate \in {"synrcvd", "estab"}
      BY <2>7 DEF PeerIgnore, PeerOpen
    <3>2. \A s \in ToSet(toClient)' : s \in ToSet(toClient) \/ FromPeer(s)'
      <4>1. CASE pstate = "synrcvd"
        <5>1. PeerSays({"SYN", "ACK"}, PeerIss, p_rcv, << >>)
          BY <2>7, <4>1 DEF PeerIgnore
        <5>2. ToSet(toClient)' = ToSet(toClient)
                                   \cup {Segment({"SYN", "ACK"}, PeerIss, p_rcv, << >>)}
          BY <5>1, PeerSaysTypes, EmptyStream, Bounds DEF Flags, TypeInv, Types
        <5>3. \A s : s = Segment({"SYN", "ACK"}, PeerIss, p_rcv, << >>) => FromPeer(s)'
          BY <3>1 DEF FromPeer, Segment, PeerOpen
        <5> QED BY <5>2, <5>3
      <4>2. CASE pstate = "estab"
        <5>1. PeerSays({"ACK"}, p_next, p_rcv, << >>)
          BY <2>7, <4>2 DEF PeerIgnore
        <5>2. ToSet(toClient)' = ToSet(toClient)
                                   \cup {Segment({"ACK"}, p_next, p_rcv, << >>)}
          BY <5>1, PeerSaysTypes, EmptyStream DEF Flags, TypeInv, Types
        <5>3. \A s : s = Segment({"ACK"}, p_next, p_rcv, << >>) => FromPeer(s)'
          BY <4>2, <1>1 DEF FromPeer, Segment, HandInv
        <5> QED BY <5>2, <5>3
      <4> QED BY <3>1, <4>1, <4>2
    <3>3. /\ pstate' = "estab" => Established
          /\ pstate' = "refused" => Refuses
          /\ PeerOpen' => p_rcv' = 2 \/ Established
      BY <3>1 DEF HandInv, PeerOpen
    <3> QED BY <1>2, <2>3, <3>1, <3>2, <3>3
  <2>8. CASE PeerAccept(seg)
    <3>1. /\ pstate \in {"synrcvd", "estab"} /\ pstate' \in {pstate, "estab"}
          /\ ~ PeerOld(seg)
      BY <2>8 DEF PeerAccept, PeerOpen
    <3>2. Established
      BY <2>3, <2>4, <2>8, AcceptEstablished
    <3>3. \A s \in ToSet(toClient)' : s \in ToSet(toClient) \/ FromPeer(s)'
      <4>1. CASE seg.data = << >>
        BY <2>8, <4>1 DEF PeerAccept
      <4>2. CASE seg.data # << >>
        <5>1. PeerSays({"ACK"}, p_next, p_rcv', << >>)
          BY <2>8, <4>2 DEF PeerAccept
        <5>2. p_rcv' \in SeqNumbers
          BY <1>3, PeerReceiveTypes DEF TypeInv, Types
        <5>3. ToSet(toClient)' = ToSet(toClient)
                                   \cup {Segment({"ACK"}, p_next, p_rcv', << >>)}
          BY <5>1, <5>2, PeerSaysTypes, EmptyStream DEF Flags, TypeInv, Types
        <5>4. \A s : s = Segment({"ACK"}, p_next, p_rcv', << >>) => FromPeer(s)'
          BY <3>2, <1>1 DEF FromPeer, Segment
        <5> QED BY <5>3, <5>4
      <4> QED BY <4>1, <4>2
    <3> QED BY <1>2, <2>3, <3>1, <3>2, <3>3
  <2>9. CASE pstate = "refused" /\ UNCHANGED <<toClient, peerVars>>
    BY <1>2, <2>3, <2>9 DEF HandInv, PeerOpen
  <2> QED BY <2>1, <2>6, <2>7, <2>8, <2>9 DEF seg
<1>4. CASE PeerSend
  <2>1. PICK n \in 1 .. MaxSegment : /\ pstate = "estab"
                                     /\ PeerSays({"ACK"}, p_next, p_rcv, Bytes(p_sent, n))
                                     /\ UNCHANGED <<toPeer, pstate, p_rcv>>
    BY <1>4 DEF PeerSend
  <2>2. Bytes(p_sent, n) \in Stream
    BY BytesType, Bounds DEF TypeInv, Types
  <2>3. ToSet(toClient)' = ToSet(toClient)
                             \cup {Segment({"ACK"}, p_next, p_rcv, Bytes(p_sent, n))}
    BY <2>1, <2>2, PeerSaysTypes DEF Flags, TypeInv, Types
  <2>4. Established
    BY <2>1 DEF HandInv
  <2>5. \A s : s = Segment({"ACK"}, p_next, p_rcv, Bytes(p_sent, n)) => FromPeer(s)'
    BY <2>4, <1>1 DEF FromPeer, Segment
  <2> QED BY <1>2, <2>1, <2>3, <2>4, <2>5
<1>5. CASE PeerRetransmit
  <2>1. UNCHANGED <<toPeer, peerVars>>
    BY <1>5 DEF PeerRetransmit
  <2>2. ToSet(toPeer)' = ToSet(toPeer)
    BY <2>1
  <2>3. \A s \in ToSet(toClient)' : s \in ToSet(toClient) \/ FromPeer(s)'
    <3>1. CASE pstate = "synrcvd" /\ PeerSays({"SYN", "ACK"}, PeerIss, p_rcv, << >>)
      <4>1. ToSet(toClient)' = ToSet(toClient)
                                 \cup {Segment({"SYN", "ACK"}, PeerIss, p_rcv, << >>)}
        BY <3>1, PeerSaysTypes, EmptyStream, Bounds DEF Flags, TypeInv, Types
      <4>2. \A s : s = Segment({"SYN", "ACK"}, PeerIss, p_rcv, << >>) => FromPeer(s)'
        BY <2>1, <3>1 DEF FromPeer, Segment, PeerOpen
      <4> QED BY <4>1, <4>2
    <3>2. ASSUME pstate = "estab", NEW n \in 1 .. MaxSegment,
                 PeerSays({"ACK"}, p_una, p_rcv, Bytes(p_sent - PeerUnacked, n))
          PROVE  \A s \in ToSet(toClient)' : s \in ToSet(toClient) \/ FromPeer(s)'
      <4> DEFINE d == Bytes(p_sent - PeerUnacked, n)
      <4>1. PeerUnacked \in Nat /\ PeerUnacked <= p_sent /\ p_sent \in Nat
        BY <3>2, MinusType, Bounds DEF TypeInv, Types, Shape, PeerUnacked, SeqNumbers
      <4>2. d \in Stream
        BY <4>1, BytesType, Bounds
      <4> HIDE DEF d
      <4>3. ToSet(toClient)' = ToSet(toClient) \cup {Segment({"ACK"}, p_una, p_rcv, d)}
        BY <3>2, <4>2, PeerSaysTypes DEF Flags, TypeInv, Types, d
      <4>4. \A s : s = Segment({"ACK"}, p_una, p_rcv, d) => FromPeer(s)'
        BY <3>2, <1>1 DEF FromPeer, Segment, HandInv
      <4> QED BY <4>3, <4>4
    <3> QED BY <1>5, <3>1, <3>2 DEF PeerRetransmit
  <2>4. /\ pstate' = "estab" => Established
        /\ pstate' = "refused" => Refuses
        /\ PeerOpen' => p_rcv' = 2 \/ Established
    BY <2>1 DEF HandInv, PeerOpen
  <2> QED BY <1>2, <2>1, <2>2, <2>3, <2>4
<1> QED BY <1>3, <1>4, <1>5 DEF Peer

\* The network makes no segment.
LEMMA NetworkMakesNone ==
  ASSUME TypeInv, Network
  PROVE  ToSet(toPeer)' \subseteq ToSet(toPeer) /\ ToSet(toClient)' \subseteq ToSet(toClient)
<1>1. CASE NetLose
  BY <1>1, NetFacts DEF NetLose, TypeInv
<1>2. CASE NetDuplicate
  <2>1. ASSUME NEW i \in DOMAIN toPeer, toPeer' = Append(toPeer, toPeer[i]),
               UNCHANGED toClient
        PROVE  ToSet(toPeer)' \subseteq ToSet(toPeer) /\ ToSet(toClient)' = ToSet(toClient)
    BY <2>1, NetFacts DEF TypeInv
  <2>2. ASSUME NEW i \in DOMAIN toClient, toClient' = Append(toClient, toClient[i]),
               UNCHANGED toPeer
        PROVE  ToSet(toClient)' \subseteq ToSet(toClient) /\ ToSet(toPeer)' = ToSet(toPeer)
    BY <2>2, NetFacts DEF TypeInv
  <2> QED BY <1>2, <2>1, <2>2 DEF NetDuplicate
<1> QED BY <1>1, <1>2 DEF Network

LEMMA NetworkHand ==
  ASSUME TypeInv, HandInv, Network
  PROVE  HandInv'
<1> USE DEF pcbVars, evVars, ipVars, appVars, peerVars
<1>1. UNCHANGED <<pcbVars, evVars, ipVars, appVars, peerVars>>
  BY DEF Network, NetLose, NetDuplicate
<1> QED BY <1>1, NetworkMakesNone
        DEF HandInv, UpSegments, FromClient, FromPeer, Established, PeerOpen

LEMMA HandStep ==
  ASSUME TypeInv, HandInv, [Next]_vars, RefusalNoticed
  PROVE  HandInv'
<1>1. CASE UNCHANGED vars
  BY <1>1 DEF vars, pcbVars, evVars, ipVars, appVars, peerVars,
              HandInv, UpSegments, FromClient, FromPeer, Established, PeerOpen
<1> QED BY <1>1, EventLoopHand, IpThreadHand, PeerHand, NetworkHand DEF Next

THEOREM HandHolds ==
  ASSUME RefusalNoticed
  PROVE  Spec => [](TypeInv /\ HandInv)
<1>1. Init => TypeInv /\ HandInv
  BY TypeInit, HandInit
<1>2. TypeInv /\ HandInv /\ [Next]_vars => (TypeInv /\ HandInv)'
  BY TypeStep, HandStep, RefusalNoticed
<1> QED BY <1>1, <1>2, PTL DEF Spec

\* connect reports success only on a connection to this peer, established at both
\* ends, whatever the network loses, repeats and reorders, if a refusal is noticed.
THEOREM ConnectMeansConnected ==
  ASSUME RefusalNoticed
  PROVE  Spec => []HandshakeAgrees
<1>1. HandInv => HandshakeAgrees
  BY DEF HandInv, HandshakeAgrees, Established
<1> QED BY <1>1, HandHolds, RefusalNoticed, PTL

\* Nothing but a refusal makes the assertion in TcpPcb::recv fail.
THEOREM OnlyRefusalCrashes == Spec => []CrashExplained
<1>1. CASE Asserts
  <2>1. RefusalNoticed
    BY <1>1 DEF RefusalNoticed
  <2>2. HandInv => CrashExplained
    BY DEF HandInv, CrashExplained
  <2> QED BY <2>1, <2>2, HandHolds, PTL
<1>2. CASE ~ Asserts
  <2>1. Init => ~ aborted
    BY DEF Init
  <2>2. ~ aborted /\ [Next]_vars => ~ aborted'
    <3> SUFFICES ASSUME ~ aborted, [Next]_vars PROVE ~ aborted'
      OBVIOUS
    <3> USE DEF appVars
    <3>1. CASE EventLoop
      BY <3>1 DEF EventLoop, connect, send, sendRest, EventLoopTx, takeFromRecvQ
    <3>2. CASE IpThread
      BY <1>2, <3>2 DEF IpThread, recv, recvInSynSent, recvInEstablished, ack2peerRest,
                        onConnEstabCB
    <3>3. CASE Peer
      BY <3>3 DEF Peer, PeerReceive, PeerSend, PeerRetransmit
    <3>4. CASE Network
      BY <3>4 DEF Network, NetLose, NetDuplicate
    <3>5. CASE UNCHANGED vars
      BY <3>5 DEF vars
    <3> QED BY <3>1, <3>2, <3>3, <3>4, <3>5 DEF Next
  <2>3. ~ aborted => CrashExplained
    BY DEF CrashExplained
  <2> QED BY <2>1, <2>2, <2>3, PTL DEF Spec
<1> QED BY <1>1, <1>2

-----------------------------------------------------------------------------
(* The two streams of bytes.                                               *)

\* Less is written in each direction than there are sequence numbers.
ShortUpload == MaxUp < SeqSpace
ShortDownload == MaxDown + 1 < SeqSpace

-----------------------------------------------------------------------------
(* Sequence numbers.                                                       *)

\* What lies a same distance ahead of two numbers tells them apart.
LEMMA PlusCancel ==
  ASSUME NEW a \in SeqNumbers, NEW b \in SeqNumbers, NEW n \in 0 .. SeqSpace - 1,
         Plus(a, n) = Plus(b, n)
  PROVE  a = b
BY PlusCases, SeqAssumption DEF SeqNumbers

\* From b on by the distance to a is a.
LEMMA PlusMinus ==
  ASSUME NEW a \in SeqNumbers, NEW b \in SeqNumbers
  PROVE  Plus(b, Minus(a, b)) = a
<1> DEFINE d == Minus(a, b)
<1>1. d = IF a >= b THEN a - b ELSE a + SeqSpace - b
  BY MinusCases
<1>2. d \in 0 .. SeqSpace - 1
  BY MinusType DEF SeqNumbers
<1> HIDE DEF d
<1>3. Plus(b, d) = IF b + d < SeqSpace THEN b + d ELSE b + d - SeqSpace
  BY <1>2, PlusCases
<1>4. Plus(b, d) = a
  BY <1>1, <1>2, <1>3, SeqAssumption DEF SeqNumbers
<1> QED BY <1>4 DEF d

LEMMA NoBytes ==
  ASSUME NEW d \in Stream
  PROVE  /\ Len(d) \in Nat
         /\ d = << >> <=> Len(d) = 0
BY LenProperties, EmptySeq DEF Stream

-----------------------------------------------------------------------------
(* The bytes of the application.                                           *)

\* Where send_next is once send has stored it.
SendPos == IF evPc = "store" THEN Plus(send_next, Len(evOut[1].data)) ELSE send_next

\* The number of a segment is the place of its bytes in the stream.
Numbered(s) ==
  s.data # << >> => \E w \in Nat : /\ w + Len(s.data) <= written
                                   /\ s.data = Bytes(w, Len(s.data))
                                   /\ s.seq = Plus(2, w)

\* The segments the peer may get to see.
EvCarried == IF fport = "peer" THEN ToSet(evOut) ELSE {}

\* An application that sends before it connects has its SYN lost; nothing but
\* an established client has written when a segment can reach the peer.
Heard == ToSet(toPeer) # {} \/ PeerOpen \/ (evPc # "idle" /\ fport = "peer")

UpInv ==
  /\ conn_state = "CLOSED" =>
       fport = "none" /\ written = 0 /\ evPc = "idle" /\ ToSet(toPeer) = {} /\ ~ PeerOpen
  /\ Heard => written = 0 \/ Established
  /\ conn_state = "SYN_SENT" => send_next = 2
  /\ Established => SendPos = Plus(2, written)
  /\ evPc \in {"ack", "store"} => Established
  /\ ~ PeerOpen => accepted = << >>
  /\ PeerOpen => p_rcv = Plus(2, Len(accepted))
  /\ \A s \in ToSet(ipOut) : s.data = << >>
  /\ \A s \in ToSet(toPeer) \cup EvCarried : Numbered(s)

LEMMA UpInit == Init => UpInv
<1> SUFFICES ASSUME Init PROVE UpInv
  OBVIOUS
<1>1. ToSet(toPeer) = {} /\ ToSet(ipOut) = {} /\ ToSet(evOut) = {}
  BY SetOfNone DEF Init
<1> QED BY <1>1 DEF Init, UpInv, Heard, EvCarried, Established, PeerOpen

\* What is written does not shrink, so a segment keeps its number.
LEMMA StaysNumbered ==
  ASSUME TypeInv, NEW s \in Segments, Numbered(s), written' \in Nat, written' >= written
  PROVE  Numbered(s)'
<1>1. Len(s.data) \in Nat /\ written \in Nat
  BY SegmentParts, Bounds DEF TypeInv, Types
<1>2. \A w \in Nat : w + Len(s.data) <= written => w + Len(s.data) <= written'
  BY <1>1
<1> QED BY <1>1, <1>2 DEF Numbered

\* TcpPcb::send in CLOSED makes a SYN that reaches nobody unless it is empty.
LEMMA SynUp ==
  ASSUME TypeInv, HandInv, UpInv, NEW d \in Stream, sendSyn(d),
         written' \in Nat, written' = written + Len(d),
         fport' = "peer" => d = << >>,
         UNCHANGED <<ipVars, toPeer, toClient, peerVars>>
  PROVE  UpInv'
<1> USE DEF ipVars, peerVars
<1>1. /\ conn_state = "CLOSED" /\ conn_state' = "SYN_SENT" /\ send_next' = 2
      /\ evPc' = "tx" /\ evOut' = <<Segment({"SYN"}, iss, 0, d)>>
  BY IssType DEF sendSyn
<1>2. ToSet(evOut)' = {Segment({"SYN"}, iss, 0, d)} /\ Segment({"SYN"}, iss, 0, d).data = d
  BY <1>1, SetOfOne DEF Segment
<1>3. written = 0 /\ ToSet(toPeer) = {} /\ ~ PeerOpen
  BY <1>1 DEF UpInv
<1>4. ToSet(toPeer)' = {} /\ ~ PeerOpen' /\ ToSet(ipOut)' = ToSet(ipOut)
  BY <1>3 DEF PeerOpen
<1>5. Heard' => written' = 0
  <2>1. Heard' => d = << >>
    BY <1>4 DEF Heard
  <2> QED BY <1>3, <2>1, NoBytes
<1>6. \A s \in EvCarried' : s.data = << >>
  BY <1>2 DEF EvCarried
<1>7. \A s \in ToSet(toPeer)' \cup EvCarried' : Numbered(s)'
  BY <1>4, <1>6 DEF Numbered
<1> QED BY <1>1, <1>3, <1>4, <1>5, <1>7 DEF UpInv, Established

\* In ESTABLISHED the bytes get the numbers that follow those of all before.
LEMMA DataUp ==
  ASSUME TypeInv, HandInv, UpInv, evPc = "idle", NEW n \in Nat,
         sendData(Bytes(written, n)), written' = written + n,
         UNCHANGED <<fport, ipVars, toPeer, toClient, peerVars>>
  PROVE  UpInv'
<1> USE DEF ipVars, peerVars
<1> DEFINE d == Bytes(written, n)
<1>1. written \in Nat /\ d \in Stream /\ Len(d) = n
  BY BytesType, Bounds DEF TypeInv, Types
<1>2. Established /\ Established' /\ (PeerOpen' <=> PeerOpen)
  BY DEF sendData, Established, PeerOpen
<1>3. send_next = Plus(2, written)
  BY <1>2 DEF UpInv, SendPos
<1>4. Plus(send_next, n) = Plus(2, written')
  BY <1>1, <1>3, IssType, PlusPlus
<1>5. PICK a \in SeqNumbers : evOut' = <<Segment({"ACK"}, send_next, a, d)>>
  BY Bounds DEF sendData, TypeInv, Types
<1> HIDE DEF d
<1> DEFINE e == Segment({"ACK"}, send_next, a, d)
<1>6. ToSet(evOut)' = {e} /\ evOut'[1] = e /\ e.data = d /\ e.seq = send_next
  BY <1>5, SetOfOne DEF Segment
<1> HIDE DEF e
<1>7. SendPos' = Plus(2, written') /\ evPc' \in {"ack", "store"}
  <2>1. CASE evPc' = "store"
    <3>1. send_next' = send_next
      BY <2>1 DEF sendData
    <3> QED BY <1>1, <1>4, <1>6, <2>1, <3>1 DEF SendPos
  <2>2. CASE evPc' # "store"
    <3>1. evPc' = "ack" /\ send_next' = Plus(send_next, Len(d))
      BY <2>2 DEF sendData, d
    <3> QED BY <1>1, <1>4, <2>2, <3>1 DEF SendPos
  <2> QED BY <2>1, <2>2
<1>8. \A s : s = e => Numbered(s)'
  <2>1. /\ written \in Nat /\ written + Len(d) <= written'
        /\ d = Bytes(written, Len(d)) /\ send_next = Plus(2, written)
    BY <1>1, <1>3 DEF d
  <2>2. \E w \in Nat : w + Len(d) <= written' /\ d = Bytes(w, Len(d)) /\ send_next = Plus(2, w)
    BY <2>1
  <2> QED BY <1>6, <2>2 DEF Numbered
<1>9. \A s \in ToSet(toPeer) : Numbered(s)'
  <2>1. \A s \in ToSet(toPeer) : s \in Segments /\ Numbered(s)
    BY NetFacts DEF UpInv, TypeInv, ToSet
  <2>2. written' \in Nat /\ written' >= written
    BY <1>1
  <2> QED BY <2>1, <2>2, StaysNumbered
<1>10. \A s \in ToSet(toPeer)' \cup EvCarried' : Numbered(s)'
  <2>1. \A s \in EvCarried' : s = e
    BY <1>6 DEF EvCarried
  <2>2. ToSet(toPeer)' = ToSet(toPeer)
    OBVIOUS
  <2> QED BY <1>8, <1>9, <2>1, <2>2
<1>11. conn_state' = "ESTABLISHED" /\ ToSet(ipOut)' = ToSet(ipOut)
  BY <1>2 DEF Established
<1> QED BY <1>2, <1>7, <1>10, <1>11 DEF UpInv, PeerOpen

LEMMA EventLoopUp ==
  ASSUME TypeInv, HandInv, UpInv, EventLoop
  PROVE  UpInv'
<1> USE DEF pcbVars, evVars, ipVars, appVars, peerVars
<1>1. CASE connect
  <2>1. evPc = "idle" /\ fport' = "peer" /\ written \in Nat
    BY <1>1, Bounds DEF connect, EventLoopFree, TypeInv, Types
  <2>2. CASE sendSyn(<< >>)
    <3>1. /\ written' = written + Len(<< >>) /\ written' \in Nat
          /\ UNCHANGED <<ipVars, toPeer, toClient, peerVars>>
      BY <1>1, <2>1, EmptyStream DEF connect
    <3> QED BY <2>2, <3>1, EmptyStream, SynUp
  <2>3. CASE conn_state = "SYN_SENT" /\ UNCHANGED <<conn_state, send_unack, send_next,
                                                    irs, recv_next, evVars>>
    <3>1. /\ ToSet(evOut)' = {} /\ evPc' = "idle"
          /\ UNCHANGED <<ipVars, written, toPeer, toClient, peerVars>>
      BY <1>1, <2>1, <2>3, SetOfNone DEF connect, TypeInv, Shape
    <3>2. EvCarried' = {} /\ (Heard' => Heard)
      BY <2>1, <3>1 DEF EvCarried, Heard, PeerOpen
    <3> QED BY <2>1, <2>3, <3>1, <3>2
            DEF UpInv, Established, PeerOpen, SendPos, Numbered
  <2> QED BY <1>1, <2>2, <2>3 DEF connect
<1>2. ASSUME NEW n \in 1 .. MaxSegment, send(n)
      PROVE  UpInv'
  <2>1. /\ evPc = "idle" /\ n \in Nat /\ written \in Nat /\ written' = written + n
        /\ UNCHANGED <<fport, ipVars, toPeer, toClient, peerVars>>
    BY <1>2, Bounds DEF send, EventLoopFree, TypeInv, Types
  <2>2. Bytes(written, n) \in Stream /\ Len(Bytes(written, n)) = n
    BY <2>1, BytesType
  <2>3. CASE sendSyn(Bytes(written, n))
    <3>1. fport' # "peer"
      BY <2>1, <2>3 DEF sendSyn, UpInv
    <3> QED BY <2>1, <2>2, <2>3, <3>1, SynUp
  <2>4. CASE sendData(Bytes(written, n))
    BY <2>1, <2>4, DataUp
  <2> QED BY <1>2, <2>3, <2>4 DEF send
<1>3. CASE sendRest
  <2>1. /\ evPc \in {"ack", "store"} /\ evPc' = "tx"
        /\ UNCHANGED <<conn_state, fport, ipVars, written, toPeer, toClient, peerVars>>
    BY <1>3 DEF sendRest
  <2>2. evOut[1] \in Segments /\ evOut = <<evOut[1]>> /\ ToSet(evOut) = {evOut[1]}
    BY <2>1, EvSegment
  <2>3. PICK e \in Segments : /\ evOut' = <<e>> /\ e.data = evOut[1].data /\ e.seq = evOut[1].seq
    <3>1. CASE evPc = "ack"
      <4>1. evOut' = <<[evOut[1] EXCEPT !.ackSeq = recv_next]>>
        BY <1>3, <3>1 DEF sendRest
      <4>2. /\ [evOut[1] EXCEPT !.ackSeq = recv_next] \in Segments
            /\ [evOut[1] EXCEPT !.ackSeq = recv_next].data = evOut[1].data
            /\ [evOut[1] EXCEPT !.ackSeq = recv_next].seq = evOut[1].seq
        BY <2>2 DEF TypeInv, Types, Segments
      <4> QED BY <4>1, <4>2
    <3>2. CASE evPc = "store"
      BY <1>3, <2>2, <3>2 DEF sendRest
    <3> QED BY <2>1, <3>1, <3>2
  <2>4. \A s \in EvCarried' : Numbered(s)'
    <3>1. ASSUME NEW s \in EvCarried' PROVE Numbered(s)'
      <4>1. s = e /\ fport = "peer"
        BY <2>1, <2>3, SetOfOne DEF EvCarried
      <4>2. Numbered(evOut[1])
        BY <2>2, <4>1 DEF UpInv, EvCarried
      <4> QED BY <2>1, <2>3, <4>1, <4>2 DEF Numbered
    <3> QED BY <3>1
  <2>5. SendPos' = SendPos
    <3>1. CASE evPc = "ack"
      BY <1>3, <2>1, <3>1 DEF sendRest, SendPos
    <3>2. CASE evPc = "store"
      BY <1>3, <2>1, <3>2 DEF sendRest, SendPos
    <3> QED BY <2>1, <3>1, <3>2
  <2>6. Established /\ Established' /\ (PeerOpen' <=> PeerOpen) /\ conn_state' = "ESTABLISHED"
    BY <2>1 DEF UpInv, Established, PeerOpen
  <2> QED BY <2>1, <2>4, <2>5, <2>6 DEF UpInv, Numbered, PeerOpen, Established
<1>4. CASE EventLoopTx
  <2>1. /\ evPc = "tx" /\ evPc' = "idle" /\ evOut' = << >>
        /\ UNCHANGED <<pcbVars, ipVars, appVars, toClient, peerVars>>
    BY <1>4 DEF EventLoopTx
  <2>2. evOut \in Seq(Segments)
    BY DEF TypeInv, Types
  <2>3. ToSet(toPeer)' = ToSet(toPeer) \cup EvCarried
    <3>1. CASE fport = "peer"
      BY <1>4, <2>2, <3>1, NetFacts DEF EventLoopTx, EvCarried, TypeInv
    <3>2. CASE fport # "peer"
      BY <1>4, <3>2 DEF EventLoopTx, EvCarried
    <3> QED BY <3>1, <3>2
  <2>4. EvCarried' = {}
    BY <2>1, SetOfNone DEF EvCarried
  <2>5. (Heard' => Heard) /\ conn_state # "CLOSED" /\ SendPos' = SendPos
    BY <2>1, <2>3 DEF Heard, EvCarried, PeerOpen, UpInv, SendPos
  <2> QED BY <2>1, <2>3, <2>4, <2>5 DEF UpInv, Numbered, PeerOpen, Established
<1>5. CASE takeFromRecvQ
  <2>1. UNCHANGED <<pcbVars, evVars, ipVars, written, toPeer, toClient, peerVars>>
    BY <1>5 DEF takeFromRecvQ
  <2> QED BY <2>1 DEF UpInv, Heard, SendPos, Numbered, EvCarried, PeerOpen, Established
<1> QED BY <1>1, <1>2, <1>3, <1>4, <1>5 DEF EventLoop

\* What recv in SYN_SENT does with what the peer sends: it establishes the
\* connection by the peer's SYN and ACK, or the assertion fails.
LEMMA Establishing ==
  ASSUME TypeInv, HandInv, RefusalNoticed, NEW seg, FromPeer(seg), recvInSynSent(seg)
  PROVE  \/ establish(seg) /\ seg.seq = PeerIss /\ PeerOpen
         \/ UNCHANGED <<conn_state, send_unack, send_next, irs, recv_next, ipVars>>
<1>1. ~ Established
  BY DEF recvInSynSent, Established
<1>2. \/ SynAck(seg) /\ seg.seq = PeerIss /\ PeerOpen
      \/ ~ SynAck(seg) /\ pstate = "refused"
  BY <1>1, FlagFacts DEF FromPeer, SynAck
<1>3. CASE SynAck(seg)
  BY <1>2, <1>3 DEF recvInSynSent
<1>4. CASE ~ SynAck(seg)
  <2>1. Asserts
    BY <1>2, <1>4 DEF HandInv, RefusalNoticed
  <2> QED BY <1>4, <2>1 DEF recvInSynSent
<1> QED BY <1>3, <1>4

\* The IP thread counts no byte of the application; when it establishes the
\* connection, nothing has been written.
LEMMA IpThreadUp ==
  ASSUME TypeInv, HandInv, UpInv, IpThread, RefusalNoticed
  PROVE  UpInv'
<1> USE DEF pcbVars, evVars, ipVars, appVars, peerVars
<1>1. ASSUME NEW i \in NetDeliverable(toClient),
             toClient' = RemoveAt(toClient, i),
             recvInSynSent(toClient[i]) \/ recvInEstablished(toClient[i]),
             UNCHANGED <<fport, evVars, conn, written, toPeer, budget, peerVars>>
      PROVE  UpInv'
  <2> DEFINE seg == toClient[i]
  <2>1. i \in DOMAIN toClient
    BY DEF NetDeliverable
  <2>2. FromPeer(seg)
    BY <2>1, NetFacts DEF HandInv, TypeInv
  <2> HIDE DEF seg
  <2>3. /\ PeerOpen' <=> PeerOpen
        /\ Heard' <=> Heard
        /\ EvCarried' = EvCarried /\ ToSet(toPeer)' = ToSet(toPeer)
        /\ \A s : Numbered(s)' <=> Numbered(s)
    BY <1>1 DEF PeerOpen, Heard, EvCarried, Numbered
  <2>4. \* what is left to show
        ASSUME \A s \in ToSet(ipOut)' : s \in ToSet(ipOut) \/ s.data = << >>,
               send_next' = send_next,
               conn_state' # conn_state =>
                 conn_state = "SYN_SENT" /\ conn_state' = "ESTABLISHED" /\ PeerOpen
        PROVE  UpInv'
    <3>1. CASE conn_state' = conn_state
      BY <1>1, <2>3, <2>4, <3>1 DEF UpInv, SendPos, Established
    <3>2. CASE conn_state' # conn_state
      <4>1. written = 0 /\ send_next = 2 /\ evPc \notin {"ack", "store"}
        BY <2>4, <3>2 DEF UpInv, Heard, Established
      <4>2. SendPos' = Plus(2, written')
        BY <1>1, <2>4, <4>1, IssType, PlusZero DEF SendPos
      <4> QED BY <1>1, <2>3, <2>4, <3>2, <4>1, <4>2 DEF UpInv, Established
    <3> QED BY <3>1, <3>2
  <2>5. CASE recvInSynSent(seg)
    <3>1. CASE establish(seg) /\ PeerOpen
      <4>1. \A s \in ToSet(ipOut)' : s.data = << >>
        BY <3>1, SetOfOne DEF establish, ack2peer, Segment
      <4> QED BY <2>4, <2>5, <3>1, <4>1 DEF establish, recvInSynSent
    <3>2. CASE UNCHANGED <<conn_state, send_unack, send_next, irs, recv_next, ipVars>>
      BY <2>4, <3>2
    <3> QED BY <2>2, <2>5, <3>1, <3>2, Establishing
  <2>6. CASE recvInEstablished(seg)
    <3>1. \A s \in ToSet(ipOut)' : s \in ToSet(ipOut) \/ s.data = << >>
      <4>1. CASE payload(seg)
        BY <4>1, SetOfOne DEF payload, ack2peer, Segment
      <4>2. CASE UNCHANGED ipOut
        BY <4>2
      <4> QED BY <2>6, <4>1, <4>2 DEF recvInEstablished
    <3> QED BY <2>4, <2>6, <3>1 DEF recvInEstablished
  <2> QED BY <1>1, <2>5, <2>6 DEF seg
<1>2. CASE ack2peerRest
  <2>1. /\ UNCHANGED <<pcbVars, evVars, appVars, toClient, peerVars>>
        /\ ipPc \in {"seq", "tx"}
    BY <1>2 DEF ack2peerRest
  <2>2. Established /\ Established' /\ (PeerOpen' <=> PeerOpen) /\ SendPos' = SendPos
        /\ EvCarried' = EvCarried /\ conn_state' = "ESTABLISHED"
    BY <2>1 DEF HandInv, Established, PeerOpen, SendPos, EvCarried
  <2>3. ipOut[1] \in Segments /\ ipOut \in Seq(Segments) /\ ToSet(ipOut) = {ipOut[1]}
    BY <2>1, IpSegment DEF TypeInv, Types
  <2>4. ipOut[1].data = << >>
    BY <2>3 DEF UpInv
  <2>5. CASE ipPc = "seq"
    <3>1. ToSet(ipOut)' = {[ipOut[1] EXCEPT !.seq = send_next]} /\ UNCHANGED toPeer
      BY <1>2, <2>5, SetOfOne DEF ack2peerRest
    <3>2. [ipOut[1] EXCEPT !.seq = send_next].data = ipOut[1].data
      BY <2>3 DEF Segments
    <3> QED BY <2>1, <2>2, <2>4, <3>1, <3>2 DEF UpInv, Numbered
  <2>6. CASE ipPc = "tx"
    <3>1. ToSet(ipOut)' = {} /\ ToSet(toPeer)' = ToSet(toPeer) \cup ToSet(ipOut)
      BY <1>2, <2>3, <2>6, SetOfNone, NetFacts DEF ack2peerRest, TypeInv
    <3>2. \A s \in ToSet(ipOut) : Numbered(s)
      BY DEF UpInv, Numbered
    <3> QED BY <2>1, <2>2, <3>1, <3>2 DEF UpInv, Numbered
  <2> QED BY <2>1, <2>5, <2>6
<1>3. CASE onConnEstabCB
  <2>1. UNCHANGED <<pcbVars, evVars, ipOut, written, toPeer, toClient, peerVars>>
    BY <1>3 DEF onConnEstabCB
  <2> QED BY <2>1 DEF UpInv, Heard, SendPos, Numbered, EvCarried, PeerOpen, Established
<1> QED BY <1>1, <1>2, <1>3 DEF IpThread, recv

\* The peer counts what it takes.
LEMMA PeerUp ==
  ASSUME TypeInv, HandInv, UpInv, Peer
  PROVE  UpInv'
<1> USE DEF pcbVars, evVars, ipVars, appVars, peerVars
<1>1. /\ UNCHANGED <<pcbVars, evVars, ipVars, appVars>>
      /\ Established' <=> Established
      /\ SendPos' = SendPos /\ EvCarried' = EvCarried
      /\ \A s : Numbered(s)' <=> Numbered(s)
  BY DEF Peer, PeerReceive, PeerSend, PeerRetransmit, Established, SendPos, EvCarried, Numbered
<1>2. \* what is left to show
      ASSUME ToSet(toPeer)' \subseteq ToSet(toPeer),
             PeerOpen' => PeerOpen \/ ToSet(toPeer) # {},
             ~ PeerOpen' => accepted' = << >>,
             PeerOpen' => p_rcv' = Plus(2, Len(accepted'))
      PROVE  UpInv'
  <2>1. Heard' => Heard
    BY <1>1, <1>2 DEF Heard
  <2>2. conn_state = "CLOSED" => ToSet(toPeer)' = {} /\ ~ PeerOpen'
    BY <1>2 DEF UpInv
  <2> QED BY <1>1, <1>2, <2>1, <2>2 DEF UpInv
<1>3. CASE PeerReceive
  <2>1. PICK i \in NetDeliverable(toPeer) :
          /\ toPeer' = RemoveAt(toPeer, i)
          /\ \/ PeerListen(toPeer[i])
             \/ PeerIgnore(toPeer[i])
             \/ PeerAccept(toPeer[i])
             \/ pstate = "refused" /\ UNCHANGED <<toClient, peerVars>>
    BY <1>3 DEF PeerReceive
  <2> DEFINE seg == toPeer[i]
  <2>2. i \in DOMAIN toPeer
    BY DEF NetDeliverable
  <2>3. seg \in Segments /\ seg \in ToSet(toPeer) /\ ToSet(toPeer)' \subseteq ToSet(toPeer)
    BY <2>1, <2>2, NetFacts DEF TypeInv
  <2>4. FromClient(seg)
    BY <2>3 DEF HandInv, UpSegments
  <2> HIDE DEF seg
  <2>5. seg.data \in Stream /\ Len(seg.data) \in Nat
    BY <2>3, SegmentParts
  <2>6. CASE PeerListen(seg)
    <3>1. pstate = "listen" /\ ~ Established /\ accepted' = accepted /\ accepted = << >>
      BY <2>6 DEF PeerListen, HandInv, PeerOpen, UpInv
    <3>2. seg.seq = iss /\ Plus(seg.seq, 1) = 2
      BY <2>4, <3>1, IssType DEF FromClient
    <3>3. PeerOpen' => p_rcv' = Plus(2, Len(accepted'))
      BY <2>6, <3>1, <3>2, EmptyStream, IssType, PlusZero DEF PeerListen, PeerOpen
    <3> QED BY <1>2, <2>3, <3>1, <3>3
  <2>7. CASE PeerIgnore(seg)
    BY <1>2, <2>3, <2>7 DEF PeerIgnore, PeerOpen, UpInv
  <2>8. CASE PeerAccept(seg)
    <3>1. PeerOpen /\ PeerOpen'
      BY <2>8 DEF PeerAccept, PeerOpen
    <3>2. p_rcv' = Plus(2, Len(accepted'))
      <4>1. p_rcv = Plus(2, Len(accepted)) /\ accepted \in Stream /\ Len(accepted) \in Nat
        BY <3>1, LenProperties DEF UpInv, TypeInv, Types, Stream
      <4>2. CASE seg.seq = p_rcv
        <5>1. accepted' = accepted \o seg.data /\ p_rcv' = Plus(p_rcv, Len(seg.data))
          BY <2>8, <4>2 DEF PeerAccept
        <5>2. Len(accepted') = Len(accepted) + Len(seg.data)
          BY <2>5, <4>1, <5>1, ConcatProperties DEF Stream
        <5> QED BY <2>5, <4>1, <5>1, <5>2, IssType, PlusPlus
      <4>3. CASE seg.seq # p_rcv
        BY <2>8, <4>1, <4>3 DEF PeerAccept
      <4> QED BY <4>2, <4>3
    <3> QED BY <1>2, <2>3, <3>1, <3>2
  <2>9. CASE pstate = "refused" /\ UNCHANGED <<toClient, peerVars>>
    BY <1>2, <2>3, <2>9 DEF PeerOpen, UpInv
  <2> QED BY <2>1, <2>6, <2>7, <2>8, <2>9 DEF seg
<1>4. CASE PeerSend \/ PeerRetransmit
  <2>1. UNCHANGED <<toPeer, pstate, p_rcv, accepted>>
    BY <1>4 DEF PeerSend, PeerRetransmit
  <2> QED BY <1>2, <2>1 DEF UpInv, PeerOpen
<1> QED BY <1>3, <1>4 DEF Peer

LEMMA NetworkUp ==
  ASSUME TypeInv, UpInv, Network
  PROVE  UpInv'
<1> USE DEF pcbVars, evVars, ipVars, appVars, peerVars
<1>1. UNCHANGED <<pcbVars, evVars, ipVars, appVars, peerVars>>
  BY DEF Network, NetLose, NetDuplicate
<1>2. ToSet(toPeer)' \subseteq ToSet(toPeer)
  BY NetworkMakesNone
<1> QED BY <1>1, <1>2 DEF UpInv, Heard, SendPos, Numbered, EvCarried, PeerOpen, Established

LEMMA UpStep ==
  ASSUME TypeInv, HandInv, UpInv, [Next]_vars, RefusalNoticed
  PROVE  UpInv'
<1>1. CASE UNCHANGED vars
  BY <1>1 DEF vars, pcbVars, evVars, ipVars, appVars, peerVars,
              UpInv, Heard, SendPos, Numbered, EvCarried, PeerOpen, Established
<1> QED BY <1>1, EventLoopUp, IpThreadUp, PeerUp, NetworkUp DEF Next

THEOREM UpHolds ==
  ASSUME RefusalNoticed
  PROVE  Spec => [](TypeInv /\ HandInv /\ UpInv)
<1>1. Init => TypeInv /\ HandInv /\ UpInv
  BY TypeInit, HandInit, UpInit
<1>2. TypeInv /\ HandInv /\ UpInv /\ [Next]_vars => (TypeInv /\ HandInv /\ UpInv)'
  BY TypeStep, HandStep, UpStep, RefusalNoticed
<1> QED BY <1>1, <1>2, PTL DEF Spec

\* Both ends count the bytes of the application alike, whatever the network does
\* and however long the streams are, if a refusal is noticed.
THEOREM EndsCountAlike ==
  ASSUME RefusalNoticed
  PROVE  Spec => []SequenceAgrees
<1>1. TypeInv /\ UpInv => SequenceAgrees
  <2> SUFFICES ASSUME TypeInv, UpInv, PeerOpen, evPc # "store"
               PROVE  Minus(send_next, p_rcv) = (written - Len(accepted)) % SeqSpace
    BY DEF SequenceAgrees
  <2>1. written \in Nat /\ Len(accepted) \in Nat
    BY LenProperties, Bounds DEF TypeInv, Types, Stream
  <2>2. send_next = Plus(2, written)
    <3>1. CASE Established
      BY <3>1 DEF UpInv, SendPos
    <3>2. CASE ~ Established
      <4>1. conn_state = "SYN_SENT" /\ written = 0
        BY <3>2 DEF UpInv, Heard, Established, TypeInv, Types
      <4> QED BY <4>1, IssType, PlusZero DEF UpInv
    <3> QED BY <3>1, <3>2
  <2>3. p_rcv = Plus(2, Len(accepted))
    BY DEF UpInv
  <2> QED BY <2>1, <2>2, <2>3, IssType, MinusPlus
<1> QED BY <1>1, UpHolds, RefusalNoticed, PTL

-----------------------------------------------------------------------------
(* The peer's end implements ByteStream.                                   *)

NoMoreThanWritten == Len(accepted) <= written

\* What the peer takes is what follows in the stream: a place less than a turn
\* away with the number it expects is the place it expects.
LEMMA Takes ==
  ASSUME TypeInv, HandInv, UpInv, NoMoreThanWritten, ShortUpload,
         NEW seg \in Segments, Numbered(seg), PeerAccept(seg)
  PROVE  \/ accepted' = accepted
         \/ \E n \in 1 .. written - Len(accepted) :
               accepted' = accepted \o Bytes(Len(accepted), n)
<1>1. seg.data \in Stream /\ accepted \in Stream /\ written \in 0 .. MaxUp
  BY SegmentParts DEF TypeInv, Types
<1>2. Len(seg.data) \in Nat /\ Len(accepted) \in Nat
  BY <1>1, LenProperties DEF Stream
<1>3. CASE seg.seq # p_rcv
  BY <1>3 DEF PeerAccept
<1>4. CASE seg.seq = p_rcv /\ seg.data = << >>
  <2>1. accepted' = accepted \o seg.data
    BY <1>4 DEF PeerAccept
  <2> QED BY <1>1, <1>4, <2>1, ConcatEmptySeq DEF Stream
<1>5. CASE seg.seq = p_rcv /\ seg.data # << >>
  <2>1. PICK w \in Nat : /\ w + Len(seg.data) <= written
                         /\ seg.data = Bytes(w, Len(seg.data))
                         /\ seg.seq = Plus(2, w)
    BY <1>5 DEF Numbered
  <2>2. p_rcv = Plus(2, Len(accepted))
    BY DEF PeerAccept, UpInv
  <2>3. w \in 0 .. SeqSpace - 1 /\ Len(accepted) \in 0 .. SeqSpace - 1
    BY <1>1, <1>2, <2>1, Bounds DEF ShortUpload, NoMoreThanWritten
  <2>4. w = Len(accepted)
    BY <1>5, <2>1, <2>2, <2>3, IssType, PlusInjective
  <2>5. Len(seg.data) # 0
    BY <1>1, <1>5, NoBytes
  <2>6. Len(seg.data) \in 1 .. written - Len(accepted)
    BY <1>1, <1>2, <2>1, <2>4, <2>5, Bounds
  <2>7. accepted' = accepted \o Bytes(Len(accepted), Len(seg.data))
    BY <1>5, <2>1, <2>4 DEF PeerAccept
  <2> QED BY <2>6, <2>7
<1> QED BY <1>3, <1>4, <1>5

LEMMA UploadStep ==
  ASSUME TypeInv, HandInv, UpInv, NoMoreThanWritten, ShortUpload, [Next]_vars
  PROVE  [Up!Next]_(Up!vars) /\ NoMoreThanWritten'
<1> USE DEF pcbVars, evVars, ipVars, appVars, peerVars
<1>1. written \in Nat /\ Len(accepted) \in Nat /\ accepted \in Stream
  BY Bounds, LenProperties DEF TypeInv, Types, Stream
<1>2. CASE UNCHANGED <<written, accepted>>
  BY <1>2 DEF Up!vars, NoMoreThanWritten
<1>3. CASE UNCHANGED accepted /\ \E n \in Nat : written' = written + n
  BY <1>1, <1>3 DEF Up!Next, Up!Write, NoMoreThanWritten
<1>4. ASSUME NEW n \in 1 .. written - Len(accepted), UNCHANGED written,
             accepted' = accepted \o Bytes(Len(accepted), n)
      PROVE  [Up!Next]_(Up!vars) /\ NoMoreThanWritten'
  <2>1. Up!Receive
    BY <1>4 DEF Up!Receive, Up!Bytes, Bytes
  <2>2. Bytes(Len(accepted), n) \in Stream /\ Len(Bytes(Len(accepted), n)) = n
    BY <1>1, BytesType
  <2>3. Len(accepted') = Len(accepted) + n
    BY <1>1, <1>4, <2>2, ConcatProperties DEF Stream
  <2> QED BY <1>1, <1>4, <2>1, <2>3 DEF Up!Next, NoMoreThanWritten
<1>5. CASE EventLoop
  <2>1. ASSUME NEW n \in 1 .. MaxSegment, send(n)
        PROVE  [Up!Next]_(Up!vars) /\ NoMoreThanWritten'
    BY <1>3, <2>1, Bounds DEF send
  <2>2. CASE connect \/ sendRest \/ EventLoopTx \/ takeFromRecvQ
    BY <1>2, <2>2 DEF connect, sendRest, EventLoopTx, takeFromRecvQ
  <2> QED BY <1>5, <2>1, <2>2 DEF EventLoop
<1>6. CASE IpThread
  BY <1>2, <1>6 DEF IpThread, recv, ack2peerRest, onConnEstabCB
<1>7. CASE PeerReceive
  <2>1. PICK i \in NetDeliverable(toPeer) :
          /\ \/ PeerListen(toPeer[i])
             \/ PeerIgnore(toPeer[i])
             \/ PeerAccept(toPeer[i])
             \/ pstate = "refused" /\ UNCHANGED <<toClient, peerVars>>
          /\ UNCHANGED appVars
    BY <1>7 DEF PeerReceive
  <2>2. CASE ~ PeerAccept(toPeer[i])
    BY <1>2, <2>1, <2>2 DEF PeerListen, PeerIgnore
  <2>3. CASE PeerAccept(toPeer[i])
    <3>1. i \in DOMAIN toPeer
      BY DEF NetDeliverable
    <3>2. toPeer[i] \in Segments /\ Numbered(toPeer[i])
      BY <3>1, NetFacts DEF TypeInv, UpInv
    <3>3. \/ accepted' = accepted
          \/ \E n \in 1 .. written - Len(accepted) :
                accepted' = accepted \o Bytes(Len(accepted), n)
      BY <2>3, <3>2, Takes
    <3> QED BY <1>2, <1>4, <2>1, <3>3
  <2> QED BY <2>2, <2>3
<1>8. CASE PeerSend \/ PeerRetransmit \/ Network
  BY <1>2, <1>8 DEF PeerSend, PeerRetransmit, Network, NetLose, NetDuplicate
<1>9. CASE UNCHANGED vars
  BY <1>2, <1>9 DEF vars
<1> QED BY <1>5, <1>6, <1>7, <1>8, <1>9 DEF Next, Peer

\* The peer's end of the upload implements ByteStream: the bytes arrive in the
\* order in which send was given them, each at most once, and none is made up.
THEOREM UploadImplementsStream ==
  ASSUME RefusalNoticed, ShortUpload
  PROVE  Spec => UploadKept
<1>1. Init => Up!Init /\ NoMoreThanWritten
  BY EmptyStream DEF Init, Up!Init, NoMoreThanWritten
<1>2. TypeInv /\ HandInv /\ UpInv /\ NoMoreThanWritten /\ [Next]_vars
        => [Up!Next]_(Up!vars) /\ NoMoreThanWritten'
  BY UploadStep, ShortUpload
<1>3. Spec => [](TypeInv /\ HandInv /\ UpInv)
  BY UpHolds, RefusalNoticed
<1> QED BY <1>1, <1>2, <1>3, PTL DEF Spec, UploadKept, Up!Spec

-----------------------------------------------------------------------------
(* What the client acknowledges.                                           *)

\* A number the peer has sent all bytes before: its SYN, and then its bytes.
Sent(v) == \E r \in 1 .. p_sent + 1 : v = Plus(PeerIss, r)

\* The segments that say what the client has received; one that send has not
\* finished does not say it yet.
Saying == ToSet(toPeer) \cup ToSet(ipOut) \cup (IF evPc = "ack" THEN {} ELSE ToSet(evOut))

AckInv ==
  /\ PeerOpen => p_next = Plus(PeerIss, 1 + p_sent)
  /\ Established => Sent(recv_next)
  /\ \A s \in Saying : s.flags = {"ACK"} => Sent(s.ackSeq)
  /\ \A s \in ToSet(toClient) : s.data # << >> => Sent(Plus(s.seq, Len(s.data)))

LEMMA AckInit == Init => AckInv
<1> SUFFICES ASSUME Init PROVE AckInv
  OBVIOUS
<1>1. ToSet(toPeer) = {} /\ ToSet(evOut) = {} /\ ToSet(ipOut) = {} /\ ToSet(toClient) = {}
  BY SetOfNone DEF Init
<1> QED BY <1>1 DEF Init, AckInv, Saying, Established, PeerOpen

LEMMA LongerRange ==
  ASSUME NEW m \in Nat, NEW n \in Nat, n >= m
  PROVE  /\ \A r \in 1 .. m + 1 : r \in 1 .. n + 1
         /\ 1 + n \in 1 .. n + 1
OBVIOUS

\* What was sent stays sent.
LEMMA StaysSent ==
  ASSUME TypeInv, p_sent' \in Nat, p_sent' >= p_sent, NEW v, Sent(v)
  PROVE  Sent(v)'
<1>1. p_sent \in Nat
  BY Bounds DEF TypeInv, Types
<1>2. \A r \in 1 .. p_sent + 1 : r \in 1 .. p_sent' + 1
  BY <1>1, LongerRange
<1> QED BY <1>2 DEF Sent

LEMMA EventLoopAck ==
  ASSUME TypeInv, HandInv, AckInv, EventLoop
  PROVE  AckInv'
<1> USE DEF pcbVars, evVars, ipVars, appVars, peerVars
<1>1. /\ UNCHANGED <<recv_next, ipVars, toClient, peerVars>>
      /\ Established' <=> Established
      /\ PeerOpen' <=> PeerOpen
      /\ \A v : Sent(v)' <=> Sent(v)
  BY DEF EventLoop, connect, send, sendRest, EventLoopTx, takeFromRecvQ, sendSyn, sendData,
         Established, PeerOpen, Sent
<1>2. \* what is left to show
      ASSUME \A s \in Saying' : s \in Saying \/ (s.flags = {"ACK"} => Sent(s.ackSeq))
      PROVE  AckInv'
  BY <1>1, <1>2 DEF AckInv
<1>3. ASSUME evPc = "idle", NEW d, sendSyn(d), UNCHANGED toPeer
      PROVE  AckInv'
  <2>1. \A s \in ToSet(evOut)' : s.flags = {"SYN"}
    BY <1>3, SetOfOne DEF sendSyn, Segment
  <2> QED BY <1>1, <1>2, <1>3, <2>1, FlagFacts DEF Saying
<1>4. ASSUME evPc = "idle", NEW d, sendData(d), UNCHANGED toPeer
      PROVE  AckInv'
  <2>1. evPc' = "ack" \/ \A s \in ToSet(evOut)' : s.ackSeq = recv_next
    BY <1>4, SetOfOne DEF sendData, Segment
  <2>2. Sent(recv_next)
    BY <1>4 DEF sendData, AckInv, Established
  <2>3. \A s \in Saying' : s \in Saying \/ s.ackSeq = recv_next
    BY <1>1, <1>4, <2>1 DEF Saying
  <2>4. \A s : s.ackSeq = recv_next => Sent(s.ackSeq)
    BY <2>2
  <2> QED BY <1>2, <2>3, <2>4
<1>5. CASE connect
  <2>1. evPc = "idle" /\ UNCHANGED toPeer
    BY <1>5 DEF connect, EventLoopFree
  <2>2. CASE UNCHANGED evVars
    BY <1>1, <1>2, <2>1, <2>2 DEF Saying
  <2> QED BY <1>3, <1>5, <2>1, <2>2 DEF connect
<1>6. ASSUME NEW n \in 1 .. MaxSegment, send(n)
      PROVE  AckInv'
  BY <1>3, <1>4, <1>6 DEF send, EventLoopFree
<1>7. CASE sendRest
  <2>1. evPc \in {"ack", "store"} /\ UNCHANGED toPeer
    BY <1>7 DEF sendRest
  <2>2. evOut[1] \in Segments /\ ToSet(evOut) = {evOut[1]}
    BY <2>1, EvSegment
  <2>3. CASE evPc = "ack"
    <3>1. ToSet(evOut)' = {[evOut[1] EXCEPT !.ackSeq = recv_next]}
      BY <1>7, <2>3, SetOfOne DEF sendRest
    <3>2. /\ [evOut[1] EXCEPT !.ackSeq = recv_next].flags = evOut[1].flags
          /\ [evOut[1] EXCEPT !.ackSeq = recv_next].ackSeq = recv_next
      BY <2>2 DEF Segments
    <3>3. evOut[1].flags = {"ACK"} => Established
      BY <2>2, FlagFacts DEF HandInv, UpSegments, FromClient
    <3>4. evOut[1].flags = {"ACK"} => Sent(recv_next)
      BY <3>3 DEF AckInv
    <3>5. \A s \in ToSet(evOut)' : s.flags = {"ACK"} => Sent(s.ackSeq)
      BY <3>1, <3>2, <3>4
    <3> QED BY <1>1, <1>2, <2>1, <3>5 DEF Saying
  <2>4. CASE evPc = "store"
    BY <1>1, <1>2, <1>7, <2>1, <2>4 DEF sendRest, Saying
  <2> QED BY <2>1, <2>3, <2>4
<1>8. CASE EventLoopTx
  <2>1. evPc = "tx" /\ ToSet(evOut)' = {}
    BY <1>8, SetOfNone DEF EventLoopTx
  <2>2. toPeer' = toPeer \/ toPeer' = toPeer \o evOut
    BY <1>8 DEF EventLoopTx
  <2>3. evOut \in Seq(Segments)
    BY DEF TypeInv, Types
  <2>4. ToSet(toPeer)' \subseteq ToSet(toPeer) \cup ToSet(evOut)
    BY <2>2, <2>3, NetFacts DEF TypeInv
  <2> QED BY <1>1, <1>2, <2>1, <2>4 DEF Saying
<1>9. CASE takeFromRecvQ
  BY <1>1, <1>2, <1>9 DEF takeFromRecvQ, Saying
<1> QED BY <1>5, <1>6, <1>7, <1>8, <1>9 DEF EventLoop

\* recv takes its acknowledgment from the segment at hand; whichever it is, the
\* peer has sent what it acknowledges.
LEMMA IpThreadAck ==
  ASSUME TypeInv, HandInv, AckInv, IpThread, RefusalNoticed
  PROVE  AckInv'
<1> USE DEF pcbVars, evVars, ipVars, appVars, peerVars
<1>1. /\ UNCHANGED <<evVars, peerVars>>
      /\ PeerOpen' <=> PeerOpen
      /\ \A v : Sent(v)' <=> Sent(v)
  BY DEF IpThread, recv, ack2peerRest, onConnEstabCB, PeerOpen, Sent
<1>2. \* what is left to show
      ASSUME ToSet(toClient)' \subseteq ToSet(toClient),
             Established' => Sent(recv_next'),
             \A s \in Saying' : s \in Saying \/ Sent(s.ackSeq)
      PROVE  AckInv'
  BY <1>1, <1>2 DEF AckInv
<1>3. ASSUME NEW i \in NetDeliverable(toClient),
             toClient' = RemoveAt(toClient, i),
             recvInSynSent(toClient[i]) \/ recvInEstablished(toClient[i]),
             UNCHANGED toPeer
      PROVE  AckInv'
  <2> DEFINE seg == toClient[i]
  <2>1. i \in DOMAIN toClient
    BY DEF NetDeliverable
  <2>2. /\ seg \in Segments /\ seg \in ToSet(toClient)
        /\ ToSet(toClient)' \subseteq ToSet(toClient) /\ FromPeer(seg)
    BY <1>3, <2>1, NetFacts DEF HandInv, TypeInv
  <2> HIDE DEF seg
  <2>3. ASSUME Sent(recv_next'), ack2peer(recv_next')
        PROVE  AckInv'
    <3>1. \A s \in ToSet(ipOut)' : s.ackSeq = recv_next'
      BY <2>3, SetOfOne DEF ack2peer, Segment
    <3>2. \A s \in Saying' : s \in Saying \/ s.ackSeq = recv_next'
      BY <1>1, <1>3, <3>1 DEF Saying
    <3>3. \A s : s.ackSeq = recv_next' => Sent(s.ackSeq)
      BY <2>3
    <3> QED BY <1>2, <2>2, <2>3, <3>2, <3>3
  <2>4. ASSUME UNCHANGED <<recv_next, ipOut>>, Established' => Established
        PROVE  AckInv'
    BY <1>1, <1>2, <1>3, <2>2, <2>4 DEF AckInv, Saying
  <2>5. CASE recvInSynSent(seg)
    <3>1. CASE establish(seg) /\ seg.seq = PeerIss /\ PeerOpen
      <4>1. recv_next' = Plus(PeerIss, 1) /\ ack2peer(recv_next')
        BY <3>1 DEF establish
      <4>2. 1 \in 1 .. p_sent + 1
        BY Bounds DEF TypeInv, Types
      <4>3. Sent(recv_next')
        BY <4>1, <4>2 DEF Sent
      <4> QED BY <2>3, <4>1, <4>3
    <3>2. CASE UNCHANGED <<conn_state, send_unack, send_next, irs, recv_next, ipVars>>
      BY <2>4, <3>2 DEF Established
    <3> QED BY <2>2, <2>5, <3>1, <3>2, Establishing
  <2>6. CASE recvInEstablished(seg)
    <3>1. Established /\ Established'
      BY <2>6 DEF recvInEstablished, Established
    <3>2. CASE seg.data # << >> /\ payload(seg)
      <4>1. recv_next' = Plus(seg.seq, Len(seg.data)) /\ ack2peer(recv_next')
        BY <3>2 DEF payload
      <4>2. Sent(recv_next')
        BY <2>2, <3>2, <4>1 DEF AckInv
      <4> QED BY <2>3, <4>1, <4>2
    <3>3. CASE UNCHANGED <<recv_next, ipOut>>
      BY <2>4, <3>1, <3>3
    <3> QED BY <2>6, <3>2, <3>3 DEF recvInEstablished
  <2> QED BY <1>3, <2>5, <2>6 DEF seg
<1>4. CASE ack2peerRest
  <2>1. /\ UNCHANGED <<pcbVars, toClient>>
        /\ ipPc \in {"seq", "tx"}
    BY <1>4 DEF ack2peerRest
  <2>2. ipOut[1] \in Segments /\ ipOut \in Seq(Segments) /\ ToSet(ipOut) = {ipOut[1]}
    BY <2>1, IpSegment DEF TypeInv, Types
  <2>3. ipOut[1].flags = {"ACK"}
    BY <2>2 DEF HandInv
  <2>4. Sent(ipOut[1].ackSeq)
    BY <2>2, <2>3 DEF AckInv, Saying
  <2>5. \A s \in Saying' : s \in Saying \/ Sent(s.ackSeq)
    <3>1. CASE ipPc = "seq"
      <4>1. ToSet(ipOut)' = {[ipOut[1] EXCEPT !.seq = send_next]} /\ UNCHANGED toPeer
        BY <1>4, <3>1, SetOfOne DEF ack2peerRest
      <4>2. [ipOut[1] EXCEPT !.seq = send_next].ackSeq = ipOut[1].ackSeq
        BY <2>2 DEF Segments
      <4> QED BY <1>1, <2>4, <4>1, <4>2 DEF Saying
    <3>2. CASE ipPc = "tx"
      <4>1. ToSet(ipOut)' = {} /\ ToSet(toPeer)' = ToSet(toPeer) \cup ToSet(ipOut)
        BY <1>4, <2>2, <3>2, SetOfNone, NetFacts DEF ack2peerRest, TypeInv
      <4> QED BY <1>1, <4>1 DEF Saying
    <3> QED BY <2>1, <3>1, <3>2
  <2> QED BY <1>2, <2>1, <2>5 DEF AckInv, Established
<1>5. CASE onConnEstabCB
  BY <1>1, <1>2, <1>5 DEF onConnEstabCB, AckInv, Saying, Established
<1> QED BY <1>3, <1>4, <1>5 DEF IpThread, recv

\* What the peer sends next follows all that it sent; what it sends again is
\* some of it.
LEMMA PeerAck ==
  ASSUME TypeInv, HandInv, AckInv, Peer
  PROVE  AckInv'
<1> USE DEF pcbVars, evVars, ipVars, appVars, peerVars
<1>1. /\ UNCHANGED <<pcbVars, evVars, ipVars, appVars>>
      /\ Established' <=> Established
      /\ p_sent \in Nat /\ p_sent' \in Nat /\ p_sent' >= p_sent
  <2>1. p_sent' = p_sent \/ \E n \in 1 .. MaxSegment : p_sent' = p_sent + n
    BY DEF Peer, PeerReceive, PeerListen, PeerIgnore, PeerAccept, PeerSend, PeerRetransmit
  <2>2. p_sent \in Nat
    BY Bounds DEF TypeInv, Types
  <2>3. UNCHANGED <<pcbVars, evVars, ipVars, appVars>>
    BY DEF Peer, PeerReceive, PeerSend, PeerRetransmit
  <2> QED BY <2>1, <2>2, <2>3, Bounds DEF Established
<1>2. \* what is left to show
      ASSUME ToSet(toPeer)' \subseteq ToSet(toPeer),
             PeerOpen' => p_next' = Plus(PeerIss, 1 + p_sent'),
             \A s \in ToSet(toClient)' :
               s \in ToSet(toClient) \/ (s.data # << >> => Sent(Plus(s.seq, Len(s.data)))')
      PROVE  AckInv'
  <2>1. \A v : Sent(v) => Sent(v)'
    BY <1>1, StaysSent
  <2>2. (Established => Sent(recv_next))'
    BY <1>1, <2>1 DEF AckInv, Sent
  <2>3. \A s \in Saying' : s.flags = {"ACK"} => Sent(s.ackSeq)'
    BY <1>1, <1>2, <2>1 DEF AckInv, Saying
  <2>4. \A s \in ToSet(toClient)' : s.data # << >> => Sent(Plus(s.seq, Len(s.data)))'
    BY <1>2, <2>1 DEF AckInv
  <2> QED BY <1>2, <2>2, <2>3, <2>4 DEF AckInv
<1>3. ASSUME NEW f \in Flags, NEW v \in SeqNumbers, NEW a \in SeqNumbers,
             PeerSays(f, v, a, << >>)
      PROVE  \A s \in ToSet(toClient)' : s \in ToSet(toClient) \/ s.data = << >>
  <2>1. ToSet(toClient') = ToSet(toClient) \cup {Segment(f, v, a, << >>)}
    BY <1>3, PeerSaysTypes, EmptyStream DEF TypeInv
  <2> QED BY <2>1 DEF Segment
<1>4. ASSUME NEW v \in SeqNumbers, NEW d \in Stream,
             \A x : x = Plus(v, Len(d)) => Sent(x)',
             PeerSays({"ACK"}, v, p_rcv, d)
      PROVE  \A s \in ToSet(toClient)' :
               s \in ToSet(toClient) \/ (s.data # << >> => Sent(Plus(s.seq, Len(s.data)))')
  <2>1. ToSet(toClient') = ToSet(toClient) \cup {Segment({"ACK"}, v, p_rcv, d)}
    BY <1>4, PeerSaysTypes DEF TypeInv, Types, Flags
  <2> QED BY <1>4, <2>1 DEF Segment
<1>5. CASE PeerReceive
  <2>1. PICK i \in NetDeliverable(toPeer) :
          /\ toPeer' = RemoveAt(toPeer, i)
          /\ \/ PeerListen(toPeer[i])
             \/ PeerIgnore(toPeer[i])
             \/ PeerAccept(toPeer[i])
             \/ pstate = "refused" /\ UNCHANGED <<toClient, peerVars>>
    BY <1>5 DEF PeerReceive
  <2> DEFINE seg == toPeer[i]
  <2>2. i \in DOMAIN toPeer
    BY DEF NetDeliverable
  <2>3. seg \in Segments /\ seg \in ToSet(toPeer) /\ ToSet(toPeer)' \subseteq ToSet(toPeer)
    BY <2>1, <2>2, NetFacts DEF TypeInv
  <2> HIDE DEF seg
  <2>4. Plus(seg.seq, 1) \in SeqNumbers
    BY <2>3, SegmentParts, PlusType
  <2>5. p_rcv' \in SeqNumbers /\ p_rcv \in SeqNumbers /\ p_next \in SeqNumbers
    BY <1>5, PeerReceiveTypes DEF TypeInv, Types
  <2>6. /\ {"SYN", "ACK"} \in Flags /\ {"ACK"} \in Flags /\ {"RST", "ACK"} \in Flags
        /\ PeerIss \in SeqNumbers /\ 0 \in SeqNumbers
    BY Bounds DEF Flags
  <2>7. CASE PeerListen(seg)
    <3>1. p_sent' = 0 /\ ~ PeerOpen
      BY <2>7 DEF PeerListen, PeerOpen, TypeInv, Shape
    <3>2. PeerOpen' => p_next' = Plus(PeerIss, 1)
      BY <2>7 DEF PeerListen, PeerOpen
    <3>3. \A s \in ToSet(toClient)' : s \in ToSet(toClient) \/ s.data = << >>
      <4>1. CASE PeerSays({"SYN", "ACK"}, PeerIss, p_rcv', << >>)
        BY <1>3, <2>5, <2>6, <4>1
      <4>2. CASE PeerSays({"RST", "ACK"}, 0, Plus(seg.seq, 1), << >>)
        BY <1>3, <2>4, <2>6, <4>2
      <4> QED BY <2>7, <4>1, <4>2 DEF PeerListen
    <3> QED BY <1>2, <2>3, <3>1, <3>2, <3>3
  <2>8. CASE PeerIgnore(seg)
    <3>1. \A s \in ToSet(toClient)' : s \in ToSet(toClient) \/ s.data = << >>
      <4>1. CASE PeerSays({"SYN", "ACK"}, PeerIss, p_rcv, << >>)
        BY <1>3, <2>5, <2>6, <4>1
      <4>2. CASE PeerSays({"ACK"}, p_next, p_rcv, << >>)
        BY <1>3, <2>5, <2>6, <4>2
      <4> QED BY <2>8, <4>1, <4>2 DEF PeerIgnore
    <3> QED BY <1>2, <2>3, <2>8, <3>1 DEF PeerIgnore, AckInv, PeerOpen
  <2>9. CASE PeerAccept(seg)
    <3>1. \A s \in ToSet(toClient)' : s \in ToSet(toClient) \/ s.data = << >>
      <4>1. CASE UNCHANGED toClient
        BY <4>1
      <4>2. CASE PeerSays({"ACK"}, p_next, p_rcv', << >>)
        BY <1>3, <2>5, <2>6, <4>2
      <4> QED BY <2>9, <4>1, <4>2 DEF PeerAccept
    <3> QED BY <1>2, <2>3, <2>9, <3>1 DEF PeerAccept, AckInv, PeerOpen
  <2>10. CASE pstate = "refused" /\ UNCHANGED <<toClient, peerVars>>
    BY <1>2, <2>3, <2>10 DEF AckInv, PeerOpen
  <2> QED BY <2>1, <2>7, <2>8, <2>9, <2>10 DEF seg
<1>6. CASE PeerSend
  <2>1. PICK n \in 1 .. MaxSegment :
          /\ pstate = "estab"
          /\ PeerSays({"ACK"}, p_next, p_rcv, Bytes(p_sent, n))
          /\ p_next' = Plus(p_next, n)
          /\ p_sent' = p_sent + n
          /\ UNCHANGED <<toPeer, pstate>>
    BY <1>6 DEF PeerSend
  <2>2. /\ n \in Nat /\ Bytes(p_sent, n) \in Stream /\ Len(Bytes(p_sent, n)) = n
        /\ p_next \in SeqNumbers
    <3>1. p_sent \in Nat /\ p_next \in SeqNumbers
      BY <1>1, Bounds DEF TypeInv, Types
    <3>2. n \in Nat
      OBVIOUS
    <3> QED BY <3>1, <3>2, BytesType
  <2>3. p_next = Plus(PeerIss, 1 + p_sent)
    BY <2>1 DEF AckInv, PeerOpen
  <2>4. Plus(p_next, n) = Plus(PeerIss, 1 + p_sent')
    <3>1. 1 + p_sent' = (1 + p_sent) + n /\ 1 + p_sent \in Nat
      BY <1>1, <2>1, <2>2
    <3> QED BY <2>2, <2>3, <3>1, PlusPlus, Bounds
  <2>5. \A v : v = Plus(p_next, n) => Sent(v)'
    <3>1. 1 + p_sent' \in 1 .. p_sent' + 1
      BY <1>1, LongerRange
    <3>2. \A v : v = Plus(PeerIss, 1 + p_sent') => Sent(v)'
      BY <3>1 DEF Sent
    <3> QED BY <2>4, <3>2
  <2>6. \A s \in ToSet(toClient)' :
          s \in ToSet(toClient) \/ (s.data # << >> => Sent(Plus(s.seq, Len(s.data)))')
    BY <1>4, <2>1, <2>2, <2>5
  <2> QED BY <1>2, <2>1, <2>4, <2>6
<1>7. CASE PeerRetransmit
  <2>1. UNCHANGED <<toPeer, peerVars>>
    BY <1>7 DEF PeerRetransmit
  <2>2. CASE PeerSays({"SYN", "ACK"}, PeerIss, p_rcv, << >>)
    <3>1. \A s \in ToSet(toClient)' : s \in ToSet(toClient) \/ s.data = << >>
      BY <1>3, <2>2, Bounds DEF TypeInv, Types, Flags
    <3> QED BY <1>2, <2>1, <3>1 DEF AckInv, PeerOpen
  <2>3. ASSUME pstate = "estab", NEW n \in 1 .. MaxSegment, n <= PeerUnacked,
               PeerSays({"ACK"}, p_una, p_rcv, Bytes(p_sent - PeerUnacked, n))
        PROVE  AckInv'
    <3> DEFINE u == PeerUnacked
               d == Bytes(p_sent - u, n)
    <3>1. /\ p_una \in SeqNumbers /\ p_next \in SeqNumbers /\ n \in Nat
          /\ u \in 0 .. SeqSpace - 1 /\ u <= p_sent /\ p_sent <= MaxDown
      BY <2>3, MinusType, Bounds DEF TypeInv, Types, Shape, PeerUnacked, SeqNumbers
    <3>2. Plus(p_una, u) = p_next
      BY <3>1, PlusMinus DEF PeerUnacked
    <3>3. n <= u
      BY <2>3
    <3> HIDE DEF u
    <3>4. /\ p_sent - u \in Nat /\ 1 + p_sent - u \in Nat /\ (1 + p_sent - u) + u = 1 + p_sent
          /\ (1 + p_sent - u) + n \in 1 .. p_sent + 1
      BY <1>1, <3>1, <3>3, Bounds
    <3>5. p_next = Plus(PeerIss, 1 + p_sent)
      BY <2>3 DEF AckInv, PeerOpen
    <3>6. p_una = Plus(PeerIss, 1 + p_sent - u)
      <4>1. Plus(Plus(PeerIss, 1 + p_sent - u), u) = Plus(PeerIss, 1 + p_sent)
        BY <3>1, <3>4, PlusPlus, Bounds
      <4>2. Plus(PeerIss, 1 + p_sent - u) \in SeqNumbers
        BY <3>4, PlusType, Bounds
      <4> QED BY <3>1, <3>2, <3>5, <4>1, <4>2, PlusCancel
    <3>7. Plus(p_una, n) = Plus(PeerIss, (1 + p_sent - u) + n)
      BY <3>1, <3>4, <3>6, PlusPlus, Bounds
    <3>8. d \in Stream /\ Len(d) = n
      BY <3>1, <3>4, BytesType
    <3> HIDE DEF d
    <3>9. \A v : v = Plus(p_una, n) => Sent(v)'
      BY <2>1, <3>4, <3>7 DEF Sent
    <3>10. PeerSays({"ACK"}, p_una, p_rcv, d)
      BY <2>3 DEF d, u
    <3>11. ToSet(toClient') = ToSet(toClient) \cup {Segment({"ACK"}, p_una, p_rcv, d)}
      BY <3>1, <3>8, <3>10, PeerSaysTypes DEF TypeInv, Types, Flags
    <3>12. \A s \in ToSet(toClient)' :
             s \in ToSet(toClient) \/ Plus(s.seq, Len(s.data)) = Plus(p_una, n)
      BY <3>8, <3>11 DEF Segment
    <3> QED BY <1>2, <2>1, <3>9, <3>12 DEF AckInv, PeerOpen
  <2> QED BY <1>7, <2>2, <2>3 DEF PeerRetransmit
<1> QED BY <1>5, <1>6, <1>7 DEF Peer

LEMMA NetworkAck ==
  ASSUME TypeInv, AckInv, Network
  PROVE  AckInv'
<1> USE DEF pcbVars, evVars, ipVars, appVars, peerVars
<1>1. UNCHANGED <<pcbVars, evVars, ipVars, appVars, peerVars>>
  BY DEF Network, NetLose, NetDuplicate
<1> QED BY <1>1, NetworkMakesNone DEF AckInv, Saying, Sent, PeerOpen, Established

\* No segment acknowledges what the peer has not sent, although recv takes any
\* segment for the next one, if a refusal is noticed.
THEOREM NothingUnsentAcknowledged ==
  ASSUME RefusalNoticed, ShortDownload
  PROVE  Spec => []AcksTruthful
<1>1. Init => TypeInv /\ HandInv /\ AckInv
  BY TypeInit, HandInit, AckInit
<1>2. TypeInv /\ HandInv /\ AckInv /\ [Next]_vars => (TypeInv /\ HandInv /\ AckInv)'
  <2> SUFFICES ASSUME TypeInv, HandInv, AckInv, [Next]_vars
               PROVE  AckInv'
    BY TypeStep, HandStep, RefusalNoticed
  <2>1. CASE UNCHANGED vars
    BY <2>1 DEF vars, pcbVars, evVars, ipVars, appVars, peerVars,
                AckInv, Saying, Sent, PeerOpen, Established
  <2> QED BY <2>1, EventLoopAck, IpThreadAck, PeerAck, NetworkAck,
             RefusalNoticed DEF Next
<1>3. TypeInv /\ HandInv /\ AckInv => AcksTruthful
  <2> SUFFICES ASSUME TypeInv, HandInv, AckInv, PeerOpen,
                      NEW i \in DOMAIN toPeer, "ACK" \in toPeer[i].flags
               PROVE  Minus(toPeer[i].ackSeq, PeerIss) \in 1 .. Minus(p_next, PeerIss)
    BY DEF AcksTruthful
  <2>1. toPeer[i] \in ToSet(toPeer)
    BY NetFacts DEF TypeInv
  <2>2. toPeer[i].flags = {"ACK"}
    BY <2>1, FlagFacts DEF HandInv, UpSegments, FromClient
  <2>3. PICK r \in 1 .. p_sent + 1 : toPeer[i].ackSeq = Plus(PeerIss, r)
    BY <2>1, <2>2 DEF AckInv, Saying, Sent
  <2>4. p_sent \in Nat /\ r \in 0 .. SeqSpace - 1 /\ 1 + p_sent \in 0 .. SeqSpace - 1
    BY Bounds, ShortDownload DEF TypeInv, Types, ShortDownload
  <2>5. Minus(toPeer[i].ackSeq, PeerIss) = r
    BY <2>3, <2>4, PlusBack, Bounds
  <2>6. Minus(p_next, PeerIss) = 1 + p_sent
    BY <2>4, PlusBack, Bounds DEF AckInv
  <2> QED BY <2>4, <2>5, <2>6
<1> QED BY <1>1, <1>2, <1>3, PTL DEF Spec

-----------------------------------------------------------------------------
(* Bytes on their way in a network that loses, repeats and reorders        *)
(* nothing.                                                                *)

\* The segments of a queue carry a stream on: the bytes of segment i are those
\* after the first at[i - 1], under the numbers that a stream from base gives
\* them, and those of the next segment follow.
Placed(net, base, at) ==
  /\ \A i \in 1 .. Len(net) :
       /\ at[i] = at[i - 1] + Len(net[i].data)
       /\ net[i].data = Bytes(at[i - 1], Len(net[i].data))
       /\ net[i].data # << >> => net[i].seq = Plus(base, at[i - 1])
  /\ \A i, j \in 0 .. Len(net) : i <= j => at[i] <= at[j]

Places(net) == [0 .. Len(net) -> Nat]

\* The places with one more segment at the end, of k bytes; without the first.
AtMore(at, n, k) == [j \in 0 .. n + 1 |-> IF j <= n THEN at[j] ELSE at[n] + k]
AtLess(at, n) == [j \in 0 .. n - 1 |-> at[j + 1]]

LEMMA PlacedNone ==
  ASSUME NEW base, NEW net, net = << >>
  PROVE  \E at \in Places(net) : Placed(net, base, at) /\ at[0] = 0 /\ at[Len(net)] = 0
<1> DEFINE at == [j \in 0 .. 0 |-> 0]
<1>1. Len(net) = 0 /\ 0 .. Len(net) = {0} /\ 1 .. Len(net) = {}
  OBVIOUS
<1>2. at \in Places(net) /\ at[0] = 0
  BY <1>1 DEF Places
<1>3. Placed(net, base, at)
  BY <1>1, <1>2 DEF Placed
<1> QED BY <1>1, <1>2, <1>3

LEMMA PlacedMore ==
  ASSUME NEW net \in Seq(Segments), NEW base, NEW at \in Places(net), Placed(net, base, at),
         NEW s \in Segments, s.data = Bytes(at[Len(net)], Len(s.data)),
         s.data # << >> => s.seq = Plus(base, at[Len(net)])
  PROVE  LET to == AtMore(at, Len(net), Len(s.data))
         IN  /\ to \in Places(Append(net, s)) /\ Placed(Append(net, s), base, to)
             /\ \A j \in 0 .. Len(net) : to[j] = at[j]
             /\ to[0] = at[0] /\ to[Len(Append(net, s))] = at[Len(net)] + Len(s.data)
<1> DEFINE n == Len(net)
           k == Len(s.data)
           to == AtMore(at, n, k)
           more == Append(net, s)
<1>1. n \in Nat /\ k \in Nat
  BY LenProperties, SegmentParts
<1>2. Len(more) = n + 1 /\ more[n + 1] = s /\ \A i \in 1 .. n : more[i] = net[i]
  OBVIOUS
<1>3. \A j \in 0 .. n : at[j] \in Nat
  BY <1>1 DEF Places
<1>4. /\ \A j \in 0 .. n : to[j] = at[j]
      /\ to[n + 1] = at[n] + k
      /\ to \in [0 .. n + 1 -> Nat]
  BY <1>1, <1>3 DEF AtMore
<1>5. ASSUME NEW i \in 1 .. n + 1
      PROVE  /\ to[i] = to[i - 1] + Len(more[i].data)
             /\ more[i].data = Bytes(to[i - 1], Len(more[i].data))
             /\ more[i].data # << >> => more[i].seq = Plus(base, to[i - 1])
  <2>1. CASE i \in 1 .. n
    <3>1. i \in 0 .. n /\ i - 1 \in 0 .. n
      BY <1>1, <2>1
    <3>2. to[i] = at[i] /\ to[i - 1] = at[i - 1] /\ more[i] = net[i]
      BY <1>2, <1>4, <2>1, <3>1
    <3> QED BY <2>1, <3>2 DEF Placed
  <2>2. CASE i = n + 1
    <3>1. i - 1 = n /\ n \in 0 .. n
      BY <1>1, <2>2
    <3>2. to[i] = at[n] + k /\ to[i - 1] = at[n] /\ more[i] = s
      BY <1>2, <1>4, <2>2, <3>1
    <3> QED BY <3>2
  <2> QED BY <1>1, <2>1, <2>2
<1>6. \A i, j \in 0 .. n + 1 : i <= j => to[i] <= to[j]
  <2>1. \A i, j \in 0 .. n : i <= j => at[i] <= at[j]
    BY DEF Placed
  <2>2. ASSUME NEW i \in 0 .. n + 1, NEW j \in 0 .. n + 1, i <= j
        PROVE  to[i] <= to[j]
    <3>1. CASE j \in 0 .. n
      <4>1. i \in 0 .. n
        BY <1>1, <2>2, <3>1
      <4>2. to[i] = at[i] /\ to[j] = at[j]
        BY <1>4, <3>1, <4>1
      <4> QED BY <2>1, <2>2, <3>1, <4>1, <4>2
    <3>2. CASE j = n + 1 /\ i \in 0 .. n
      <4>1. to[i] = at[i] /\ to[j] = at[n] + k /\ n \in 0 .. n
        BY <1>1, <1>4, <3>2
      <4>2. at[i] <= at[n] /\ at[i] \in Nat /\ at[n] \in Nat
        BY <1>1, <1>3, <2>1, <3>2, <4>1
      <4> HIDE DEF to, n, k
      <4> QED BY <1>1, <4>1, <4>2
    <3>3. CASE i = n + 1 /\ j = n + 1
      <4>1. to[i] = to[j] /\ to[i] \in Nat
        BY <1>1, <1>4, <3>3
      <4> HIDE DEF to, n, k
      <4> QED BY <4>1
    <3>4. j \in 0 .. n \/ (j = n + 1 /\ i \in 0 .. n) \/ (i = n + 1 /\ j = n + 1)
      BY <1>1, <2>2
    <3> QED BY <3>1, <3>2, <3>3, <3>4
  <2> QED BY <2>2
<1>7. Placed(more, base, to)
  <2> HIDE DEF to, n, k, more
  <2> QED BY <1>2, <1>5, <1>6 DEF Placed
<1>8. to \in Places(more)
  BY <1>2, <1>4 DEF Places
<1> QED BY <1>1, <1>2, <1>4, <1>7, <1>8

\* A queue without its first segment.
LEMMA FirstGone ==
  ASSUME NEW T, NEW net \in Seq(T), net # << >>
  PROVE  /\ Len(net) \in Nat \ {0} /\ 1 \in DOMAIN net
         /\ RemoveAt(net, 1) \in Seq(T) /\ Len(RemoveAt(net, 1)) = Len(net) - 1
         /\ \A i \in 1 .. Len(net) - 1 : RemoveAt(net, 1)[i] = net[i + 1]
<1>1. Len(net) \in Nat /\ Len(net) # 0 /\ DOMAIN net = 1 .. Len(net)
  BY EmptySeq, LenProperties
<1>2. RemoveAt(net, 1) = << >> \o SubSeq(net, 2, Len(net))
  <2>1. SubSeq(net, 1, 0) = << >>
    BY SubSeqProperties, <1>1
  <2> QED BY <2>1 DEF RemoveAt
<1>3. /\ SubSeq(net, 2, Len(net)) \in Seq(T)
      /\ Len(SubSeq(net, 2, Len(net))) = Len(net) - 1
      /\ \A i \in 1 .. Len(net) - 1 : SubSeq(net, 2, Len(net))[i] = net[i + 1]
  <2>1. \A i \in 2 .. Len(net) : net[i] \in T
    BY <1>1, ElementOfSeq
  <2> QED BY <1>1, <2>1, SubSeqProperties
<1> DEFINE rest == SubSeq(net, 2, Len(net))
<1>4. RemoveAt(net, 1) = rest
  BY <1>2, <1>3, ConcatEmptySeq
<1>5. Len(net) \in Nat \ {0} /\ 1 \in DOMAIN net
  BY <1>1
<1>6. rest \in Seq(T) /\ Len(rest) = Len(net) - 1 /\ \A i \in 1 .. Len(net) - 1 : rest[i] = net[i + 1]
  BY <1>3
<1> HIDE DEF rest
<1> QED BY <1>4, <1>5, <1>6

LEMMA PlacedLess ==
  ASSUME NEW net \in Seq(Segments), net # << >>, NEW base,
         NEW at \in Places(net), Placed(net, base, at)
  PROVE  LET to == AtLess(at, Len(net))
             rest == RemoveAt(net, 1)
         IN  /\ to \in Places(rest) /\ Placed(rest, base, to)
             /\ \A j \in 0 .. Len(rest) : to[j] = at[j + 1]
             /\ to[0] = at[0] + Len(net[1].data) /\ to[Len(rest)] = at[Len(net)]
             /\ net[1].data = Bytes(at[0], Len(net[1].data))
             /\ net[1].data # << >> => net[1].seq = Plus(base, at[0])
<1> DEFINE n == Len(net)
           to == AtLess(at, n)
           rest == RemoveAt(net, 1)
<1>1. /\ n \in Nat \ {0} /\ Len(rest) = n - 1 /\ n - 1 \in Nat
      /\ \A i \in 1 .. n - 1 : rest[i] = net[i + 1]
  BY FirstGone
<1>2. \A j \in 0 .. n : at[j] \in Nat
  BY <1>1 DEF Places
<1>3. to \in [0 .. n - 1 -> Nat] /\ \A j \in 0 .. n - 1 : to[j] = at[j + 1]
  BY <1>1, <1>2 DEF AtLess
<1>4. /\ at[1] = at[0] + Len(net[1].data)
      /\ net[1].data = Bytes(at[0], Len(net[1].data))
      /\ net[1].data # << >> => net[1].seq = Plus(base, at[0])
  <2>1. 1 \in 1 .. Len(net) /\ 1 - 1 = 0
    BY <1>1
  <2> QED BY <2>1 DEF Placed
<1>5. ASSUME NEW i \in 1 .. n - 1
      PROVE  /\ to[i] = to[i - 1] + Len(rest[i].data)
             /\ rest[i].data = Bytes(to[i - 1], Len(rest[i].data))
             /\ rest[i].data # << >> => rest[i].seq = Plus(base, to[i - 1])
  <2>1. i + 1 \in 1 .. n /\ i \in 0 .. n - 1 /\ i - 1 \in 0 .. n - 1 /\ (i - 1) + 1 = i
        /\ (i + 1) - 1 = i
    BY <1>1
  <2>2. to[i] = at[i + 1] /\ to[i - 1] = at[i] /\ rest[i] = net[i + 1]
    BY <1>1, <1>3, <2>1
  <2>3. /\ at[i + 1] = at[(i + 1) - 1] + Len(net[i + 1].data)
        /\ net[i + 1].data = Bytes(at[(i + 1) - 1], Len(net[i + 1].data))
        /\ net[i + 1].data # << >> => net[i + 1].seq = Plus(base, at[(i + 1) - 1])
    BY <2>1 DEF Placed
  <2> QED BY <2>1, <2>2, <2>3
<1>6. \A i, j \in 0 .. n - 1 : i <= j => to[i] <= to[j]
  <2>1. \A i, j \in 0 .. n : i <= j => at[i] <= at[j]
    BY DEF Placed
  <2>2. ASSUME NEW i \in 0 .. n - 1, NEW j \in 0 .. n - 1, i <= j
        PROVE  to[i] <= to[j]
    <3>1. i + 1 \in 0 .. n /\ j + 1 \in 0 .. n /\ i + 1 <= j + 1
      BY <1>1, <2>2
    <3> QED BY <1>3, <2>1, <3>1
  <2> QED BY <2>2
<1>7. Placed(rest, base, to)
  <2> HIDE DEF to, n, rest
  <2> QED BY <1>1, <1>5, <1>6 DEF Placed
<1>8. to \in Places(rest)
  BY <1>1, <1>3 DEF Places
<1>9. to[0] = at[1] /\ to[n - 1] = at[n]
  <2>1. 0 \in 0 .. n - 1 /\ n - 1 \in 0 .. n - 1 /\ 0 + 1 = 1 /\ (n - 1) + 1 = n
    BY <1>1
  <2> QED BY <1>3, <2>1
<1> QED BY <1>1, <1>3, <1>4, <1>7, <1>8, <1>9

\* What comes first is no more than what comes last.
LEMMA PlacedGrows ==
  ASSUME NEW net \in Seq(Segments), NEW base, NEW at \in Places(net), Placed(net, base, at)
  PROVE  /\ \A j \in 0 .. Len(net) : at[j] \in Nat /\ at[0] <= at[j] /\ at[j] <= at[Len(net)]
         /\ Len(net) \in 0 .. Len(net) /\ 0 \in 0 .. Len(net)
<1>1. Len(net) \in Nat
  BY LenProperties
<1> QED BY <1>1 DEF Placed, Places

-----------------------------------------------------------------------------
(* The bytes of the peer.                                                  *)

\* The network loses, repeats and reorders nothing, the peer retransmits only
\* what is lost, and the threads see each other's stores in order.
NoFaults ==
  /\ LossesUp = 0 /\ LossesDown = 0 /\ Duplicates = 0 /\ ~ Reorders
  /\ Patient /\ ~ StoreDelay

\* The queue has room for every byte in a packet of its own, and no segment is
\* so long that what lies behind it passes for old.
RoomForAll == MaxDown <= RecvQLimit + 1
ShortSegments == MaxSegment < SeqSpace - SeqSpace \div 2

Undisturbed == NoFaults /\ RefusalNoticed /\ ShortDownload /\ RoomForAll /\ ShortSegments

LEMMA Distance ==
  ASSUME NEW a \in SeqNumbers, NEW m \in 0 .. SeqSpace - 1, NEW n \in 0 .. SeqSpace - 1
  PROVE  Minus(Plus(a, m), Plus(a, n)) = IF m >= n THEN m - n ELSE m - n + SeqSpace
<1>1. Minus(Plus(a, m), Plus(a, n)) = (m - n) % SeqSpace
  BY MinusPlus, SeqAssumption
<1>2. CASE m >= n
  <2>1. m - n = 0 * SeqSpace + (m - n) /\ m - n \in Int /\ m - n \in SeqNumbers
    BY <1>2, SeqAssumption DEF SeqNumbers
  <2> QED BY <1>1, <1>2, <2>1, ModUnique
<1>3. CASE ~ (m >= n)
  <2> DEFINE r == m - n + SeqSpace
  <2>1. m - n = (-1) * SeqSpace + r /\ m - n \in Int /\ r \in SeqNumbers /\ -1 \in Int
    BY <1>3, SeqAssumption DEF SeqNumbers
  <2> HIDE DEF r
  <2>2. (m - n) % SeqSpace = r
    BY <2>1, ModUnique
  <2> QED BY <1>1, <1>3, <2>2 DEF r
<1> QED BY <1>2, <1>3

\* The peer's bytes are numbered from the one after its SYN.
LEMMA AfterSyn ==
  ASSUME NEW n \in Nat
  PROVE  Plus(Plus(PeerIss, 1), n) = Plus(PeerIss, 1 + n)
<1>1. PeerIss \in SeqNumbers /\ 1 \in Nat
  BY Bounds
<1> QED BY <1>1, PlusPlus

\* An acknowledgment counts for the peer if it is not behind the last that did.
LEMMA AckMoves ==
  ASSUME NEW n \in 0 .. SeqSpace - 1, NEW u \in 0 .. n, NEW r \in 0 .. n
  PROVE  Minus(Plus(PeerIss, r), Plus(PeerIss, u)) <= Minus(Plus(PeerIss, n), Plus(PeerIss, u))
           <=> r >= u
<1>1. u \in 0 .. SeqSpace - 1 /\ r \in 0 .. SeqSpace - 1 /\ PeerIss \in SeqNumbers
  BY Bounds DEF SeqNumbers
<1>2. Minus(Plus(PeerIss, n), Plus(PeerIss, u)) = n - u
  BY <1>1, Distance
<1>3. Minus(Plus(PeerIss, r), Plus(PeerIss, u)) = IF r >= u THEN r - u ELSE r - u + SeqSpace
  BY <1>1, Distance
<1> QED BY <1>1, <1>2, <1>3, SeqAssumption

\* A segment's length ahead of RCV.NXT is not old.
LEMMA NotOld ==
  ASSUME ShortSegments, NEW q \in SeqNumbers, NEW d \in 0 .. MaxSegment
  PROVE  Minus(q, Plus(q, d)) \notin 1 .. SeqSpace \div 2
<1>1. SeqSpace \div 2 \in Nat /\ SeqSpace \in Nat /\ SeqSpace > 2 /\ MaxSegment \in Nat
  BY Bounds
<1>2. d \in 0 .. SeqSpace - 1 /\ d < SeqSpace - SeqSpace \div 2 /\ 0 \in 0 .. SeqSpace - 1
  BY <1>1 DEF ShortSegments
<1>3. Minus(Plus(q, 0), Plus(q, d)) = IF 0 >= d THEN 0 - d ELSE 0 - d + SeqSpace
  BY <1>2, Distance
<1>4. Plus(q, 0) = q
  BY PlusZero
<1> DEFINE h == SeqSpace \div 2
<1>5. h \in Nat /\ d < SeqSpace - h
  BY <1>1, <1>2
<1> HIDE DEF h
<1>6. Minus(q, Plus(q, d)) \notin 1 .. h
  BY <1>1, <1>2, <1>3, <1>4, <1>5
<1> QED BY <1>6 DEF h

LEMMA BytesOn ==
  ASSUME NEW m \in Nat, NEW n \in Nat
  PROVE  Bytes(0, m) \o Bytes(m, n) = Bytes(0, m + n)
<1> DEFINE a == Bytes(0, m)
           b == Bytes(m, n)
           c == Bytes(0, m + n)
<1>1. /\ a \in Seq(Nat \ {0}) /\ b \in Seq(Nat \ {0}) /\ c \in Seq(Nat \ {0})
      /\ Len(a) = m /\ Len(b) = n /\ Len(c) = m + n
  BY BytesType DEF Stream
<1>2. /\ \A i \in 1 .. m : a[i] = i
      /\ \A i \in 1 .. n : b[i] = m + i
      /\ \A i \in 1 .. m + n : c[i] = i
  BY DEF Bytes
<1> HIDE DEF a, b, c
<1>3. /\ a \o b \in Seq(Nat \ {0}) /\ Len(a \o b) = m + n
      /\ \A i \in 1 .. m + n : (a \o b)[i] = IF i <= m THEN a[i] ELSE b[i - m]
  BY <1>1, ConcatProperties
<1>4. \A i \in 1 .. m + n : (a \o b)[i] = c[i]
  <2>1. ASSUME NEW i \in 1 .. m + n PROVE (a \o b)[i] = c[i]
    <3>1. CASE i <= m
      <4>1. i \in 1 .. m
        BY <3>1
      <4> QED BY <1>2, <1>3, <3>1, <4>1
    <3>2. CASE ~ (i <= m)
      <4>1. i - m \in 1 .. n /\ m + (i - m) = i
        BY <3>2
      <4> QED BY <1>2, <1>3, <3>2, <4>1
    <3> QED BY <3>1, <3>2
  <2> QED BY <2>1
<1>5. a \o b = c
  BY <1>1, <1>3, <1>4, SeqEqual
<1> QED BY <1>5 DEF a, b, c

-----------------------------------------------------------------------------

\* A number that acknowledges what has been put in the receive queue, or less.
Acked(v) == \E r \in 1 .. Len(queued) + 1 : v = Plus(PeerIss, r)

\* The bytes in the segment that send has not given to Ip::tx.
Unsent == IF evPc = "idle" THEN 0 ELSE Len(evOut[1].data)

\* Wherever the threads are, the peer knows recv_next, or is told it by a segment
\* that it will not take for old: one under the number that follows all that
\* was written, or follows the bytes before it in the queue.
Told(at) ==
  \/ p_una = recv_next
  \/ ipPc = "seq"
  \/ ipPc = "tx" /\ ipOut[1].seq = send_next
  \/ evPc = "ack"
  \/ evPc = "tx" /\ evOut[1].ackSeq = recv_next
  \/ \E i \in 1 .. Len(toPeer) :
       /\ toPeer[i].ackSeq = recv_next
       /\ \E d \in 0 .. MaxSegment : toPeer[i].seq = Plus(2, at[i - 1] + d)

\* The way up: what was written and not received is on its way, in order.
UpWay ==
  \E at \in Places(toPeer) :
    /\ Placed(toPeer, 2, at) /\ at[0] = Len(accepted)
    /\ at[Len(toPeer)] + Unsent = written
    /\ Told(at)

\* The way down: what the peer sent and is not queued is on its way, in order.
DownWay ==
  \E at \in Places(toClient) :
    /\ Placed(toClient, Plus(PeerIss, 1), at) /\ at[0] = Len(queued)
    /\ at[Len(toClient)] = p_sent

\* Before the client is connected the SYN is all that is on its way to the peer,
\* and the answer to it comes after it.
Opening ==
  /\ Len(toPeer) <= 1 /\ accepted = << >> /\ queued = << >>
  /\ pstate # "listen" => toPeer = << >> /\ evPc = "idle"
  /\ toPeer # << >> => evPc = "idle"
  /\ PeerOpen => toClient # << >>

\* The segment of send holds the last bytes written.
EvLast ==
  /\ Unsent <= MaxSegment /\ Unsent <= written
  /\ evOut[1].data = Bytes(written - Unsent, Unsent)
  /\ evOut[1].seq = Plus(2, written - Unsent)

AcksInTurn ==
  /\ recv_next = Plus(PeerIss, 1 + Len(queued))
  /\ ipPc \in {"seq", "tx"} => ipOut[1].ackSeq = recv_next
  /\ evPc = "tx" => Acked(evOut[1].ackSeq)
  /\ \A s \in ToSet(toPeer) : Acked(s.ackSeq)

PeerAcked == \E u \in 0 .. Len(queued) + 1 : p_una = Plus(PeerIss, u)

Connected ==
  /\ AcksInTurn
  /\ PeerAcked
  /\ evPc # "idle" => EvLast
  /\ UpWay

DownInv ==
  /\ fport = "none" => toPeer = << >> /\ pstate = "listen"
  /\ conn_state = "CLOSED" => toPeer = << >> /\ pstate = "listen"
  /\ evPc # "store"
  /\ ~ Established => Opening
  /\ Established => Connected
  /\ DownWay
  /\ queued = Bytes(0, Len(queued))
  /\ recvQ <= Len(queued)

LEMMA DownInit == Init => DownInv
<1> SUFFICES ASSUME Init PROVE DownInv
  OBVIOUS
<1>1. DownWay
  <2>1. toClient = << >> /\ Len(queued) = 0 /\ p_sent = 0
    BY EmptyStream DEF Init
  <2>2. ASSUME NEW b
        PROVE  \E at \in Places(toClient) :
                 Placed(toClient, b, at) /\ at[0] = 0 /\ at[Len(toClient)] = 0
    BY <2>1, PlacedNone
  <2> QED BY <2>1, <2>2, Zenon DEF DownWay
<1>2. queued = Bytes(0, Len(queued))
  <2>1. Bytes(0, 0) \in Stream /\ Len(Bytes(0, 0)) = 0
    BY BytesType
  <2>2. Bytes(0, 0) = << >>
    BY <2>1, EmptySeq DEF Stream
  <2>3. queued = << >> /\ Len(queued) = 0
    BY EmptyStream DEF Init
  <2> QED BY <2>2, <2>3
<1>3. Opening
  BY EmptyStream DEF Init, Opening, PeerOpen
<1> QED BY <1>1, <1>2, <1>3, EmptyStream DEF Init, DownInv, Established

\* What is known of the lengths.
LEMMA DownFacts ==
  ASSUME TypeInv, DownInv
  PROVE  /\ Len(queued) \in Nat /\ Len(accepted) \in Nat /\ p_sent \in Nat /\ written \in Nat
         /\ Len(queued) <= p_sent /\ p_sent <= MaxDown
         /\ toClient # << >> =>
              /\ toClient[1] \in Segments
              /\ Len(toClient[1].data) \in Nat
              /\ Len(queued) + Len(toClient[1].data) <= p_sent
<1>1. Len(queued) \in Nat /\ Len(accepted) \in Nat /\ p_sent \in 0 .. MaxDown /\ written \in 0 .. MaxUp
      /\ MaxDown \in Nat /\ MaxUp \in Nat /\ toClient \in Seq(Segments)
  BY LenProperties, Bounds DEF TypeInv, Types, Stream
<1>2. PICK at \in Places(toClient) :
        /\ Placed(toClient, Plus(PeerIss, 1), at) /\ at[0] = Len(queued)
        /\ at[Len(toClient)] = p_sent
  BY DEF DownInv, DownWay
<1>3. at[0] <= at[Len(toClient)]
  BY <1>1, <1>2, PlacedGrows
<1>4. ASSUME toClient # << >>
      PROVE  /\ toClient[1] \in Segments
             /\ Len(toClient[1].data) \in Nat
             /\ Len(queued) + Len(toClient[1].data) <= p_sent
  <2>1. 1 \in 1 .. Len(toClient) /\ 1 \in 0 .. Len(toClient) /\ 1 - 1 = 0
        /\ toClient[1] \in Segments
    BY <1>1, <1>4, FirstGone, ElementOfSeq
  <2>2. at[1] = at[0] + Len(toClient[1].data)
    BY <1>2, <2>1 DEF Placed
  <2>3. at[1] <= at[Len(toClient)]
    BY <1>1, <1>2, <2>1, PlacedGrows
  <2> QED BY <1>2, <2>1, <2>2, <2>3, SegmentParts
<1> QED BY <1>1, <1>2, <1>3, <1>4

\* A step that changes nothing the invariant speaks of.
LEMMA DownFrame ==
  ASSUME DownInv,
         UNCHANGED <<conn_state, send_next, recv_next, fport, evVars, ipPc, ipOut, written,
                     queued, recvQ, toPeer, toClient, pstate, p_una, p_sent, accepted>>
  PROVE  DownInv'
<1>1. /\ Established' <=> Established
      /\ PeerOpen' <=> PeerOpen
      /\ Unsent' = Unsent
      /\ \A v : Acked(v)' <=> Acked(v)
      /\ \A at : Told(at)' <=> Told(at)
  BY DEF evVars, Established, PeerOpen, Unsent, Acked, Told
<1>2. AcksInTurn => AcksInTurn'
  BY <1>1 DEF evVars, AcksInTurn, Acked
<1>3. (UpWay => UpWay') /\ (DownWay => DownWay')
  BY <1>1 DEF UpWay, DownWay, Placed, Places
<1>4. (PeerAcked => PeerAcked') /\ (EvLast => EvLast') /\ (Opening => Opening')
  BY <1>1 DEF evVars, PeerAcked, EvLast, Opening
<1> QED BY <1>1, <1>2, <1>3, <1>4 DEF evVars, DownInv, Connected

\* What is established stays so while the queue and the peer are as they were.
LEMMA AckedSame ==
  ASSUME UNCHANGED queued
  PROVE  /\ \A v : Acked(v) => Acked(v)'
         /\ \A v : Acked(v)' => Acked(v)
         /\ UNCHANGED p_una /\ PeerAcked => PeerAcked'
         /\ UNCHANGED <<toClient, p_sent>> /\ DownWay => DownWay'
BY DEF Acked, PeerAcked, DownWay, Placed, Places

\* An established client has a peer that the segments reach.
LEMMA Reached ==
  ASSUME TypeInv, HandInv, DownInv, Established
  PROVE  fport = "peer" /\ PeerOpen
BY DEF HandInv, DownInv, PeerOpen, TypeInv, Types

\* TcpPcb::send in CLOSED.
LEMMA SynDown ==
  ASSUME TypeInv, HandInv, UpInv, DownInv, NEW d, sendSyn(d),
         UNCHANGED <<ipVars, recvQ, queued, toPeer, toClient, peerVars>>
  PROVE  DownInv'
<1> USE DEF ipVars, peerVars
<1>1. /\ conn_state = "CLOSED" /\ conn_state' = "SYN_SENT" /\ evPc' = "tx"
      /\ ~ Established /\ ~ Established'
  BY DEF sendSyn, Established
<1>2. toPeer = << >> /\ pstate = "listen" /\ Opening
  BY <1>1 DEF DownInv
<1>3. Opening'
  BY <1>2 DEF Opening, PeerOpen
<1> QED BY <1>1, <1>2, <1>3, AckedSame DEF DownInv

\* TcpPcb::send in ESTABLISHED: the segment is not finished before recv_next has
\* been read, so it will say whatever has been queued by then.
LEMMA DataDown ==
  ASSUME TypeInv, HandInv, UpInv, DownInv, NoFaults, evPc = "idle", NEW n \in 1 .. MaxSegment,
         sendData(Bytes(written, n)), written' = written + n,
         UNCHANGED <<fport, ipVars, recvQ, queued, toPeer, toClient, peerVars>>
  PROVE  DownInv'
<1> USE DEF ipVars, peerVars
<1> DEFINE d == Bytes(written, n)
<1>1. /\ written \in Nat /\ n \in Nat /\ n <= MaxSegment /\ Len(d) = n /\ MaxSegment \in Nat
  BY BytesType, Bounds DEF TypeInv, Types
<1>2. /\ Established /\ Established' /\ evPc' = "ack" /\ conn_state' = "ESTABLISHED"
      /\ evOut' = <<Segment({"ACK"}, send_next, 0, d)>>
      /\ UNCHANGED recv_next
  BY DEF sendData, Established, NoFaults
<1>3. send_next = Plus(2, written)
  BY <1>2 DEF UpInv, SendPos
<1>4. evOut'[1].data = d /\ evOut'[1].seq = send_next
  BY <1>2 DEF Segment
<1> HIDE DEF d
<1>5. Unsent = 0 /\ Unsent' = n
  BY <1>1, <1>2, <1>4 DEF Unsent
<1>6. written' - Unsent' = written
  BY <1>1, <1>5
<1>7. EvLast'
  <2>1. Unsent' <= MaxSegment /\ Unsent' <= written'
    BY <1>1, <1>5
  <2>2. evOut'[1].data = Bytes(written' - Unsent', Unsent')
    BY <1>4, <1>5, <1>6 DEF d
  <2>3. evOut'[1].seq = Plus(2, written' - Unsent')
    BY <1>3, <1>4, <1>6
  <2> QED BY <2>1, <2>2, <2>3 DEF EvLast
<1>8. Connected
  BY <1>2 DEF DownInv
<1>9. AcksInTurn'
  BY <1>2, <1>8, AckedSame DEF Connected, AcksInTurn
<1>10. UpWay'
  <2>1. PICK at \in Places(toPeer) :
          /\ Placed(toPeer, 2, at) /\ at[0] = Len(accepted)
          /\ at[Len(toPeer)] + Unsent = written
    BY <1>8 DEF Connected, UpWay
  <2>2. at[Len(toPeer)] \in Nat
    BY <2>1, PlacedGrows DEF TypeInv, Types
  <2>3. at[Len(toPeer)] + Unsent' = written'
    BY <1>1, <1>5, <2>1, <2>2
  <2>4. Told(at)'
    BY <1>2 DEF Told
  <2>5. /\ at \in Places(toPeer') /\ Placed(toPeer', 2, at) /\ at[0] = Len(accepted')
        /\ at[Len(toPeer')] + Unsent' = written'
    BY <2>1, <2>3
  <2> QED BY <2>4, <2>5 DEF UpWay, Placed, Places
<1>11. Connected'
  BY <1>7, <1>8, <1>9, <1>10, AckedSame DEF Connected
<1> QED BY <1>2, <1>11, AckedSame DEF DownInv

\* The rest of send: its segment says what has been queued up to now.
LEMMA SendRestDown ==
  ASSUME TypeInv, HandInv, UpInv, DownInv, sendRest
  PROVE  DownInv'
<1> USE DEF ipVars, appVars, peerVars
<1>1. /\ evPc = "ack" /\ evPc' = "tx"
      /\ evOut' = <<[evOut[1] EXCEPT !.ackSeq = recv_next]>>
      /\ UNCHANGED <<conn_state, send_next, recv_next, fport, ipVars, appVars, toPeer, toClient,
                     peerVars>>
  BY DEF sendRest, DownInv
<1>2. Established /\ Established' /\ conn_state' = "ESTABLISHED" /\ Connected
  BY <1>1 DEF UpInv, DownInv, Established
<1>3. evOut[1] \in Segments
  BY <1>1, EvSegment
<1>4. /\ evOut'[1].data = evOut[1].data /\ evOut'[1].seq = evOut[1].seq
      /\ evOut'[1].ackSeq = recv_next
  BY <1>1, <1>3 DEF Segments
<1>5. Unsent' = Unsent
  BY <1>1, <1>4 DEF Unsent
<1>6. EvLast'
  BY <1>1, <1>2, <1>4, <1>5 DEF Connected, EvLast
<1>7. AcksInTurn'
  <2>1. Acked(recv_next)
    <3>1. Len(queued) \in Nat
      BY DownFacts
    <3>2. Len(queued) + 1 \in 1 .. Len(queued) + 1 /\ 1 + Len(queued) = Len(queued) + 1
      BY <3>1
    <3>3. recv_next = Plus(PeerIss, Len(queued) + 1)
      BY <1>2, <3>2 DEF Connected, AcksInTurn
    <3> QED BY <3>2, <3>3 DEF Acked
  <2>2. Acked(evOut[1].ackSeq)'
    BY <1>1, <1>4, <2>1, AckedSame DEF Acked
  <2> QED BY <1>1, <1>2, <2>2, AckedSame DEF Connected, AcksInTurn
<1>8. UpWay'
  <2>1. PICK at \in Places(toPeer) :
          /\ Placed(toPeer, 2, at) /\ at[0] = Len(accepted)
          /\ at[Len(toPeer)] + Unsent = written
    BY <1>2 DEF Connected, UpWay
  <2>2. Told(at)'
    BY <1>1, <1>4 DEF Told
  <2> QED BY <1>1, <1>5, <2>1, <2>2 DEF UpWay, Placed, Places
<1>9. Connected'
  BY <1>1, <1>2, <1>6, <1>7, <1>8, AckedSame DEF Connected
<1> QED BY <1>1, <1>2, <1>9, AckedSame DEF DownInv

\* A queue with one more segment.
LEMMA OneMore ==
  ASSUME NEW net \in Seq(Segments), NEW s \in Segments
  PROVE  /\ Append(net, s) \in Seq(Segments) /\ Len(Append(net, s)) = Len(net) + 1
         /\ Len(net) \in Nat
         /\ Append(net, s)[Len(net) + 1] = s
         /\ \A i \in 1 .. Len(net) : Append(net, s)[i] = net[i]
         /\ net \o <<s>> = Append(net, s)
         /\ ToSet(Append(net, s)) = ToSet(net) \cup {s}
<1>1. <<s>> \in Seq(Segments) /\ Len(<<s>>) = 1
  BY OneSeq
<1>2. net \o <<s>> = Append(net, s)
  BY AppendIsConcat
<1>3. ToSet(Append(net, s)) = ToSet(net) \cup {s}
  BY NetSteps
<1> QED BY <1>2, <1>3

\* Ip::tx of what send made.
LEMMA EvTxDown ==
  ASSUME TypeInv, HandInv, UpInv, DownInv, EventLoopTx
  PROVE  DownInv'
<1> USE DEF pcbVars, ipVars, appVars, peerVars
<1>1. /\ evPc = "tx" /\ evPc' = "idle" /\ evOut' = << >>
      /\ toPeer' = IF fport = "peer" THEN toPeer \o evOut ELSE toPeer
      /\ UNCHANGED <<pcbVars, ipVars, appVars, toClient, peerVars>>
  BY DEF EventLoopTx
<1> DEFINE e == evOut[1]
<1>2. e \in Segments /\ evOut = <<e>> /\ toPeer \in Seq(Segments)
  BY <1>1, EvSegment DEF TypeInv, Types
<1>3. toPeer' = IF fport = "peer" THEN Append(toPeer, e) ELSE toPeer
  <2> HIDE DEF e
  <2>1. toPeer \o <<e>> = Append(toPeer, e)
    BY <1>2, OneMore
  <2> QED BY <1>1, <1>2, <2>1
<1>4. Established' <=> Established
  BY <1>1 DEF Established
<1>5. conn_state # "CLOSED"
  BY <1>1 DEF UpInv
<1>6. CASE ~ Established
  <2>1. Opening
    BY <1>6 DEF DownInv
  <2>2. toPeer = << >> /\ pstate = "listen"
    BY <1>1, <2>1 DEF Opening
  <2>3. Len(toPeer') <= 1
    BY <1>2, <1>3, <2>2
  <2>4. Opening'
    BY <1>1, <2>1, <2>2, <2>3 DEF Opening, PeerOpen
  <2>5. fport' = "none" => toPeer' = << >> /\ pstate' = "listen"
    BY <1>1, <1>3, <2>2
  <2> QED BY <1>1, <1>4, <1>5, <1>6, <2>4, <2>5, AckedSame DEF DownInv
<1>7. CASE Established
  <2>1. fport = "peer" /\ PeerOpen /\ Connected
    BY <1>7, Reached DEF DownInv
  <2>2. toPeer' = Append(toPeer, e)
    BY <1>3, <2>1
  <2>3. EvLast /\ Unsent = Len(e.data) /\ Unsent' = 0 /\ Acked(e.ackSeq) /\ Len(e.data) \in Nat
    BY <1>1, <1>2, <2>1, SegmentParts DEF Connected, Unsent, AcksInTurn
  <2>4. PICK at \in Places(toPeer) :
          /\ Placed(toPeer, 2, at) /\ at[0] = Len(accepted)
          /\ at[Len(toPeer)] + Unsent = written
          /\ Told(at)
    BY <2>1 DEF Connected, UpWay
  <2>5. at[Len(toPeer)] \in Nat /\ at[Len(toPeer)] = written - Unsent
    BY <1>2, <2>3, <2>4, PlacedGrows
  <2>6. e.data = Bytes(at[Len(toPeer)], Len(e.data)) /\ e.seq = Plus(2, at[Len(toPeer)])
    BY <2>3, <2>5 DEF EvLast
  <2> HIDE DEF e
  <2>7. PICK to \in Places(toPeer') :
          /\ Placed(toPeer', 2, to)
          /\ \A j \in 0 .. Len(toPeer) : to[j] = at[j]
          /\ to[0] = at[0] /\ to[Len(toPeer')] = at[Len(toPeer)] + Len(e.data)
    BY <1>2, <2>2, <2>4, <2>6, PlacedMore
  <2>8. /\ Len(toPeer') = Len(toPeer) + 1 /\ Len(toPeer) \in Nat
        /\ toPeer'[Len(toPeer) + 1] = e
        /\ \A i \in 1 .. Len(toPeer) : toPeer'[i] = toPeer[i]
        /\ ToSet(toPeer)' = ToSet(toPeer) \cup {e}
    BY <1>2, <2>2, OneMore
  <2>9. Told(to)'
    <3>1. CASE p_una = recv_next \/ ipPc = "seq" \/ (ipPc = "tx" /\ ipOut[1].seq = send_next)
      BY <1>1, <3>1 DEF Told
    <3>2. CASE e.ackSeq = recv_next
      <4>1. Len(toPeer) + 1 \in 1 .. Len(toPeer') /\ (Len(toPeer) + 1) - 1 = Len(toPeer)
            /\ Len(toPeer) \in 0 .. Len(toPeer) /\ 0 \in 0 .. MaxSegment
        BY <2>8, Bounds
      <4>2. to[(Len(toPeer) + 1) - 1] + 0 = at[Len(toPeer)]
        BY <2>5, <2>7, <4>1
      <4>3. toPeer'[Len(toPeer) + 1].seq = Plus(2, to[(Len(toPeer) + 1) - 1] + 0)
        BY <2>6, <2>8, <4>2
      <4>4. toPeer'[Len(toPeer) + 1].ackSeq = recv_next'
        BY <1>1, <2>8, <3>2
      <4> QED BY <4>1, <4>3, <4>4 DEF Told
    <3>3. ASSUME NEW i \in 1 .. Len(toPeer), toPeer[i].ackSeq = recv_next,
                 NEW d \in 0 .. MaxSegment, toPeer[i].seq = Plus(2, at[i - 1] + d)
          PROVE  Told(to)'
      <4>1. i \in 1 .. Len(toPeer') /\ i - 1 \in 0 .. Len(toPeer)
        BY <2>8
      <4>2. to[i - 1] = at[i - 1] /\ toPeer'[i] = toPeer[i] /\ recv_next' = recv_next
        BY <1>1, <2>7, <2>8, <4>1
      <4> QED BY <3>3, <4>1, <4>2 DEF Told
    <3> QED BY <1>1, <2>4, <3>1, <3>2, <3>3 DEF Told, e
  <2>10. UpWay'
    <3>1. to[0] = Len(accepted')
      BY <1>1, <2>4, <2>7
    <3>2. to[Len(toPeer')] + Unsent' = written'
      BY <1>1, <2>3, <2>4, <2>5, <2>7
    <3> QED BY <2>7, <2>9, <3>1, <3>2 DEF UpWay, Placed, Places
  <2>11. AcksInTurn'
    BY <1>1, <2>1, <2>3, <2>8, AckedSame DEF Connected, AcksInTurn
  <2>12. Connected'
    BY <1>1, <2>1, <2>10, <2>11, AckedSame DEF Connected
  <2> QED BY <1>1, <1>4, <1>5, <1>7, <2>1, <2>12, AckedSame DEF DownInv
<1> QED BY <1>6, <1>7

LEMMA EventLoopDown ==
  ASSUME TypeInv, HandInv, UpInv, DownInv, NoFaults, EventLoop
  PROVE  DownInv'
<1> USE DEF ipVars, appVars, peerVars
<1>1. CASE connect
  <2>1. CASE sendSyn(<< >>)
    BY <1>1, <2>1, SynDown DEF connect
  <2>2. CASE conn_state = "SYN_SENT" /\ UNCHANGED <<conn_state, send_unack, send_next,
                                                    irs, recv_next, evVars>>
    <3>1. /\ UNCHANGED <<conn_state, evVars, ipVars, queued, recvQ, toPeer, toClient, peerVars>>
          /\ fport' = "peer" /\ ~ Established /\ ~ Established'
      BY <1>1, <2>2 DEF connect, Established
    <3>2. Opening'
      BY <3>1 DEF DownInv, Opening, PeerOpen, evVars
    <3> QED BY <2>2, <3>1, <3>2, AckedSame DEF DownInv, evVars
  <2> QED BY <1>1, <2>1, <2>2 DEF connect
<1>2. ASSUME NEW n \in 1 .. MaxSegment, send(n)
      PROVE  DownInv'
  <2>1. /\ evPc = "idle" /\ written' = written + n
        /\ UNCHANGED <<fport, ipVars, recvQ, queued, toPeer, toClient, peerVars>>
        /\ sendSyn(Bytes(written, n)) \/ sendData(Bytes(written, n))
    BY <1>2 DEF send, EventLoopFree
  <2> QED BY <2>1, SynDown, DataDown
<1>3. CASE takeFromRecvQ
  <2>1. /\ UNCHANGED <<pcbVars, evVars, ipVars, queued, written, toPeer, toClient, peerVars>>
        /\ recvQ' <= recvQ /\ recvQ \in Nat /\ recvQ' \in Nat
    BY <1>3, Bounds DEF takeFromRecvQ, TypeInv, Types
  <2>2. /\ Established' <=> Established
        /\ PeerOpen' <=> PeerOpen
        /\ (Opening => Opening') /\ (Connected => Connected')
    BY <2>1, AckedSame
       DEF pcbVars, evVars, Established, PeerOpen, Opening, Connected, AcksInTurn, EvLast, Unsent,
           UpWay, Told, Placed, Places
  <2>3. recvQ' <= Len(queued')
    BY <2>1, DownFacts DEF DownInv
  <2> QED BY <2>1, <2>2, <2>3, AckedSame DEF DownInv, pcbVars, evVars
<1> QED BY <1>1, <1>2, <1>3, SendRestDown, EvTxDown DEF EventLoop

\* The first segment for the client holds the bytes that the queue lacks first.
LEMMA NextDown ==
  ASSUME TypeInv, DownInv, toClient # << >>
  PROVE  /\ toClient[1] \in Segments
         /\ toClient[1].data = Bytes(Len(queued), Len(toClient[1].data))
         /\ toClient[1].data # << >> =>
              toClient[1].seq = Plus(PeerIss, 1 + Len(queued))
<1>1. PICK at \in Places(toClient) :
        Placed(toClient, Plus(PeerIss, 1), at) /\ at[0] = Len(queued)
  BY DEF DownInv, DownWay
<1>2. toClient \in Seq(Segments) /\ toClient[1] \in Segments /\ Len(queued) \in Nat
  BY DownFacts DEF TypeInv, Types
<1>3. /\ toClient[1].data = Bytes(at[0], Len(toClient[1].data))
      /\ toClient[1].data # << >> => toClient[1].seq = Plus(Plus(PeerIss, 1), at[0])
  BY <1>1, <1>2, PlacedLess
<1>4. Plus(Plus(PeerIss, 1), Len(queued)) = Plus(PeerIss, 1 + Len(queued))
  BY <1>2, AfterSyn
<1> QED BY <1>1, <1>2, <1>3, <1>4

LEMMA DownTaken ==
  ASSUME TypeInv, DownInv, toClient # << >>, toClient' = RemoveAt(toClient, 1),
         UNCHANGED p_sent, Len(queued') = Len(queued) + Len(toClient[1].data)
  PROVE  DownWay'
<1>1. PICK at \in Places(toClient) :
        /\ Placed(toClient, Plus(PeerIss, 1), at) /\ at[0] = Len(queued)
        /\ at[Len(toClient)] = p_sent
  BY DEF DownInv, DownWay
<1>2. toClient \in Seq(Segments)
  BY DEF TypeInv, Types
<1>3. PICK to \in Places(toClient') :
        /\ Placed(toClient', Plus(PeerIss, 1), to)
        /\ to[0] = at[0] + Len(toClient[1].data) /\ to[Len(toClient')] = at[Len(toClient)]
  BY <1>1, <1>2, PlacedLess
<1>4. to[0] = Len(queued') /\ to[Len(toClient')] = p_sent'
  BY <1>1, <1>3
<1> QED BY <1>3, <1>4 DEF DownWay, Placed, Places

\* A longer queue acknowledges no less.
LEMMA AckedMore ==
  ASSUME Len(queued) \in Nat, Len(queued') \in Nat, Len(queued') >= Len(queued)
  PROVE  /\ \A v : Acked(v) => Acked(v)'
         /\ UNCHANGED p_una /\ PeerAcked => PeerAcked'
<1>1. /\ \A r \in 1 .. Len(queued) + 1 : r \in 1 .. Len(queued') + 1
      /\ \A r \in 0 .. Len(queued) + 1 : r \in 0 .. Len(queued') + 1
  OBVIOUS
<1> QED BY <1>1 DEF Acked, PeerAcked

\* recv in SYN_SENT.
LEMMA SynSentDown ==
  ASSUME TypeInv, HandInv, UpInv, DownInv, Undisturbed, ipPc = "idle", toClient # << >>,
         toClient' = RemoveAt(toClient, 1), recvInSynSent(toClient[1]),
         UNCHANGED <<fport, evVars, conn, written, toPeer, budget, peerVars>>
  PROVE  DownInv'
<1> USE DEF evVars, ipVars, peerVars
<1> DEFINE seg == toClient[1]
<1>1. /\ conn_state = "SYN_SENT" /\ ~ Established /\ UNCHANGED <<recvQ, queued>>
      /\ seg \in Segments /\ Opening /\ FromPeer(seg)
  <2>1. 1 \in DOMAIN toClient
    BY FirstGone DEF TypeInv, Types
  <2>2. seg \in ToSet(toClient)
    BY <2>1, NetFacts DEF TypeInv
  <2> QED BY <2>2, DownFacts DEF recvInSynSent, Established, DownInv, HandInv
<1>2. pstate # "estab" /\ p_sent = 0 /\ Len(queued) = 0 /\ Len(accepted) = 0
  BY <1>1, EmptyStream DEF HandInv, TypeInv, Shape, Opening
<1>3. Len(seg.data) = 0
  BY <1>2, DownFacts
<1>4. DownWay'
  BY <1>1, <1>2, <1>3, DownTaken
<1> HIDE DEF seg
<1>5. CASE PeerOpen
  <2>1. pstate = "synrcvd" /\ toPeer = << >> /\ evPc = "idle"
    BY <1>1, <1>2, <1>5 DEF PeerOpen, Opening
  <2>2. SynAck(seg) /\ seg.seq = PeerIss
    BY <1>1, <2>1, FlagFacts DEF FromPeer, SynAck
  <2>3. establish(seg)
    BY <1>1, <2>2 DEF recvInSynSent, seg
  <2>4. /\ conn_state' = "ESTABLISHED" /\ Established' /\ recv_next' = Plus(PeerIss, 1)
        /\ ipPc' = "seq" /\ ipOut' = <<Segment({"ACK"}, 0, recv_next', << >>)>>
    BY <2>2, <2>3 DEF establish, ack2peer, Established
  <2>5. AcksInTurn'
    <3>1. recv_next' = Plus(PeerIss, 1 + Len(queued'))
      BY <1>1, <1>2, <2>4
    <3>2. ipOut'[1].ackSeq = recv_next'
      BY <2>4 DEF Segment
    <3>3. ToSet(toPeer)' = {}
      BY <2>1, SetOfNone
    <3> QED BY <2>1, <3>1, <3>2, <3>3 DEF AcksInTurn
  <2>6. PeerAcked'
    <3>1. p_una' = PeerIss /\ Plus(PeerIss, 0) = PeerIss
      BY <2>1, PlusZero, Bounds DEF TypeInv, Shape
    <3>2. 0 \in 0 .. Len(queued') + 1
      BY <1>1, <1>2
    <3> QED BY <3>1, <3>2 DEF PeerAcked
  <2>7. UpWay'
    <3>1. PICK at \in Places(toPeer') :
            Placed(toPeer', 2, at) /\ at[0] = 0 /\ at[Len(toPeer')] = 0
      BY <2>1, PlacedNone
    <3>2. Unsent' = 0 /\ written' = 0 /\ Len(accepted') = 0
      BY <1>1, <1>2, <1>5, <2>1 DEF Unsent, UpInv, Heard
    <3>3. Told(at)'
      BY <2>4 DEF Told
    <3>4. at[0] = Len(accepted') /\ at[Len(toPeer')] + Unsent' = written'
      BY <3>1, <3>2
    <3> QED BY <3>1, <3>3, <3>4 DEF UpWay, Placed, Places
  <2>8. Connected'
    BY <2>1, <2>5, <2>6, <2>7 DEF Connected
  <2> QED BY <1>1, <1>4, <2>1, <2>4, <2>8 DEF DownInv
<1>6. CASE ~ PeerOpen
  <2>1. UNCHANGED <<conn_state, send_unack, send_next, irs, recv_next, ipVars>>
    BY <1>1, <1>6, Establishing DEF Undisturbed, seg
  <2>2. Opening'
    BY <1>1, <1>6 DEF Opening, PeerOpen
  <2> QED BY <1>1, <1>4, <2>1, <2>2 DEF DownInv, Established
<1> QED BY <1>5, <1>6

\* recv in ESTABLISHED of a segment without payload, and of one with.
LEMMA NoPayloadDown ==
  ASSUME TypeInv, HandInv, UpInv, DownInv, Established, toClient # << >>,
         toClient' = RemoveAt(toClient, 1), toClient[1].data = << >>,
         UNCHANGED <<conn_state, send_next, recv_next, recvQ, queued, ipPc, ipOut>>,
         UNCHANGED <<fport, evVars, conn, written, toPeer, budget, peerVars>>
  PROVE  DownInv'
<1> USE DEF evVars, peerVars
<1>1. DownWay'
  <2>1. Len(toClient[1].data) = 0 /\ Len(queued) \in Nat
    BY EmptyStream, DownFacts
  <2> QED BY <2>1, DownTaken
<1>2. Established' /\ (Connected => Connected')
  BY AckedSame DEF Established, Connected, AcksInTurn, EvLast, Unsent, UpWay, Told, Placed, Places
<1> QED BY <1>1, <1>2, AckedSame DEF DownInv

\* A payload is the one expected, and the queue has room for it.
LEMMA PayloadDown ==
  ASSUME TypeInv, HandInv, UpInv, DownInv, Undisturbed, Established, ipPc = "idle",
         toClient # << >>, toClient' = RemoveAt(toClient, 1),
         toClient[1].data # << >>, payload(toClient[1]),
         UNCHANGED <<conn_state, send_next>>,
         UNCHANGED <<fport, evVars, conn, written, toPeer, budget, peerVars>>
  PROVE  /\ DownInv'
         /\ \E n \in 1 .. p_sent - Len(queued) : queued' = queued \o Bytes(Len(queued), n)
<1> USE DEF evVars, peerVars
<1> DEFINE seg == toClient[1]
           m == Len(queued)
           k == Len(seg.data)
<1>1. /\ m \in Nat /\ k \in Nat /\ m + k <= p_sent /\ p_sent <= MaxDown /\ p_sent \in Nat
      /\ MaxDown \in Nat /\ RecvQLimit \in Nat /\ recvQ \in Nat /\ recvQ <= m
  BY DownFacts, Bounds DEF DownInv, TypeInv, Types
<1>2. /\ seg \in Segments /\ seg.data = Bytes(m, k)
      /\ seg.seq = Plus(PeerIss, 1 + m)
  BY NextDown
<1>3. k # 0
  BY <1>2, NoBytes, SegmentParts
<1> HIDE DEF seg, m, k
<1>4. ~ (recvQ > RecvQLimit)
  BY <1>1, <1>3 DEF Undisturbed, RoomForAll
<1>5. /\ recvQ' = recvQ + 1 /\ queued' = queued \o seg.data
      /\ recv_next' = Plus(seg.seq, k)
      /\ ipPc' = "seq" /\ ipOut' = <<Segment({"ACK"}, 0, recv_next', << >>)>>
  BY <1>4 DEF payload, putToRecvQ, ack2peer, seg, k
<1>6. queued = Bytes(0, m)
  BY DEF DownInv, m
<1>7. queued' = Bytes(0, m + k) /\ Len(queued') = m + k
  <2>1. queued' = Bytes(0, m) \o Bytes(m, k)
    BY <1>2, <1>5, <1>6
  <2>2. Bytes(0, m) \o Bytes(m, k) = Bytes(0, m + k)
    BY <1>1, BytesOn
  <2>3. m + k \in Nat /\ 0 \in Nat
    BY <1>1
  <2>4. Len(Bytes(0, m + k)) = m + k
    BY <2>3, BytesType
  <2> QED BY <2>1, <2>2, <2>4
<1>8. DownWay'
  BY <1>1, <1>7, DownTaken DEF m, k, seg
<1>9. recv_next' = Plus(PeerIss, 1 + Len(queued'))
  <2>1. Plus(Plus(PeerIss, 1 + m), k) = Plus(PeerIss, (1 + m) + k)
    BY <1>1, PlusPlus, Bounds
  <2>2. (1 + m) + k = 1 + (m + k)
    BY <1>1
  <2> QED BY <1>2, <1>5, <1>7, <2>1, <2>2
<1>10. /\ Established' /\ Connected
       /\ Len(queued') \in Nat /\ Len(queued') >= Len(queued)
  BY <1>1, <1>7 DEF Established, DownInv, m
<1>11. AcksInTurn'
  <2>1. ipOut'[1].ackSeq = recv_next'
    BY <1>5 DEF Segment
  <2>2. \A v : Acked(v) => Acked(v)'
    BY <1>1, <1>10, AckedMore DEF m
  <2> QED BY <1>5, <1>9, <1>10, <2>1, <2>2 DEF Connected, AcksInTurn
<1>12. PeerAcked'
  BY <1>1, <1>10, AckedMore DEF Connected, m
<1>13. UpWay'
  <2>1. PICK at \in Places(toPeer) :
          /\ Placed(toPeer, 2, at) /\ at[0] = Len(accepted)
          /\ at[Len(toPeer)] + Unsent = written
    BY <1>10 DEF Connected, UpWay
  <2>2. Told(at)'
    BY <1>5 DEF Told
  <2>3. Unsent' = Unsent
    BY DEF Unsent
  <2> QED BY <2>1, <2>2, <2>3 DEF UpWay, Placed, Places
<1>14. Connected'
  BY <1>10, <1>11, <1>12, <1>13 DEF Connected, EvLast, Unsent
<1>15. recvQ' <= Len(queued')
  BY <1>1, <1>3, <1>5, <1>7
<1>16. queued' = Bytes(0, Len(queued'))
  BY <1>7
<1>17. DownInv'
  BY <1>8, <1>10, <1>14, <1>15, <1>16 DEF DownInv
<1>18. k \in 1 .. p_sent - m /\ queued' = queued \o Bytes(m, k)
  BY <1>1, <1>2, <1>3, <1>5
<1> QED BY <1>17, <1>18 DEF m

\* Established, its send_next is the number that follows all bytes written.
LEMMA NextIsLast ==
  ASSUME TypeInv, UpInv, DownInv, Established
  PROVE  send_next = Plus(2, written)
BY DEF UpInv, DownInv, SendPos

\* ack2peer: from here on the acknowledgment is under way.
LEMMA AckRestDown ==
  ASSUME TypeInv, HandInv, UpInv, DownInv, ack2peerRest
  PROVE  DownInv'
<1> USE DEF pcbVars, evVars, appVars, peerVars
<1>1. /\ UNCHANGED <<pcbVars, evVars, appVars, toClient, peerVars>>
      /\ ipPc \in {"seq", "tx"}
  BY DEF ack2peerRest
<1>2. Established /\ Established' /\ Connected /\ conn_state = "ESTABLISHED"
      /\ fport = "peer" /\ Unsent' = Unsent
  BY <1>1, Reached DEF HandInv, Established, DownInv, Unsent
<1> DEFINE e == ipOut[1]
<1>3. e \in Segments /\ ipOut = <<e>> /\ ToSet(ipOut) = {e} /\ toPeer \in Seq(Segments)
  BY <1>1, IpSegment DEF TypeInv, Types
<1>4. e.ackSeq = recv_next /\ e.data = << >> /\ Len(e.data) = 0
  BY <1>1, <1>2, <1>3, EmptyStream DEF Connected, AcksInTurn, UpInv
<1>5. PICK at \in Places(toPeer) :
        /\ Placed(toPeer, 2, at) /\ at[0] = Len(accepted)
        /\ at[Len(toPeer)] + Unsent = written
        /\ Told(at)
  BY <1>2 DEF Connected, UpWay
<1>6. \* what is left to show
      ASSUME AcksInTurn', UpWay'
      PROVE  DownInv'
  BY <1>1, <1>2, <1>6, AckedSame DEF DownInv, Connected, EvLast
<1>7. CASE ipPc = "seq"
  <2>1. /\ ipPc' = "tx" /\ ipOut' = <<[ipOut[1] EXCEPT !.seq = send_next]>>
        /\ UNCHANGED toPeer
    BY <1>7 DEF ack2peerRest
  <2>2. ipOut'[1].seq = send_next /\ ipOut'[1].ackSeq = recv_next
    BY <1>3, <1>4, <2>1 DEF Segments
  <2>3. AcksInTurn'
    BY <1>1, <1>2, <2>1, <2>2, AckedSame DEF Connected, AcksInTurn
  <2>4. Told(at)'
    BY <1>1, <2>1, <2>2 DEF Told
  <2>5. UpWay'
    BY <1>1, <1>2, <1>5, <2>1, <2>4 DEF UpWay, Placed, Places
  <2> QED BY <1>6, <2>3, <2>5
<1>8. CASE ipPc = "tx"
  <2> HIDE DEF e
  <2>1. /\ ipPc' \in {"callback", "idle"} /\ toPeer' = toPeer \o ipOut
        /\ toPeer \o <<e>> = Append(toPeer, e)
    BY <1>3, <1>8, OneMore DEF ack2peerRest
  <2>2. toPeer' = Append(toPeer, e)
    BY <1>3, <2>1
  <2>3. /\ Len(toPeer') = Len(toPeer) + 1 /\ Len(toPeer) \in Nat
        /\ toPeer'[Len(toPeer) + 1] = e
        /\ \A i \in 1 .. Len(toPeer) : toPeer'[i] = toPeer[i]
        /\ ToSet(toPeer)' = ToSet(toPeer) \cup {e}
    BY <1>3, <2>2, OneMore
  <2>4. /\ at[Len(toPeer)] \in Nat /\ Unsent \in 0 .. MaxSegment /\ MaxSegment \in Nat
    <3>1. Unsent \in Nat
      <4>1. CASE evPc = "idle"
        BY <4>1 DEF Unsent
      <4>2. CASE evPc # "idle"
        BY <4>2, EvSegment, SegmentParts DEF Unsent
      <4> QED BY <4>1, <4>2
    <3>2. Unsent <= MaxSegment
      <4>1. CASE evPc = "idle"
        BY <4>1, Bounds DEF Unsent
      <4>2. CASE evPc # "idle"
        BY <1>2, <4>2 DEF Connected, EvLast
      <4> QED BY <4>1, <4>2
    <3> QED BY <1>3, <1>5, <3>1, <3>2, PlacedGrows, Bounds
  <2>5. e.data = Bytes(at[Len(toPeer)], Len(e.data))
    <3>1. Bytes(at[Len(toPeer)], 0) \in Stream /\ Len(Bytes(at[Len(toPeer)], 0)) = 0
      BY <2>4, BytesType
    <3>2. Bytes(at[Len(toPeer)], 0) = << >>
      BY <3>1, NoBytes
    <3> QED BY <1>4, <3>2
  <2>6. PICK to \in Places(toPeer') :
          /\ Placed(toPeer', 2, to)
          /\ \A j \in 0 .. Len(toPeer) : to[j] = at[j]
          /\ to[0] = at[0] /\ to[Len(toPeer')] = at[Len(toPeer)] + Len(e.data)
    BY <1>3, <1>4, <1>5, <2>2, <2>5, PlacedMore
  <2>7. Told(to)'
    <3>1. CASE p_una = recv_next \/ evPc = "ack" \/ (evPc = "tx" /\ evOut[1].ackSeq = recv_next)
      BY <1>1, <3>1 DEF Told
    <3>2. CASE e.seq = send_next
      <4>1. Len(toPeer) + 1 \in 1 .. Len(toPeer') /\ (Len(toPeer) + 1) - 1 = Len(toPeer)
            /\ Len(toPeer) \in 0 .. Len(toPeer)
        BY <2>3
      <4>2. to[(Len(toPeer) + 1) - 1] + Unsent = written
        BY <1>5, <2>6, <4>1
      <4>3. send_next = Plus(2, written)
        BY <1>2, NextIsLast
      <4>4. /\ toPeer'[Len(toPeer) + 1].seq = Plus(2, to[(Len(toPeer) + 1) - 1] + Unsent)
            /\ toPeer'[Len(toPeer) + 1].ackSeq = recv_next'
        BY <1>1, <1>4, <2>3, <3>2, <4>2, <4>3
      <4> QED BY <2>4, <4>1, <4>4 DEF Told
    <3>3. ASSUME NEW i \in 1 .. Len(toPeer), toPeer[i].ackSeq = recv_next,
                 NEW d \in 0 .. MaxSegment, toPeer[i].seq = Plus(2, at[i - 1] + d)
          PROVE  Told(to)'
      <4>1. i \in 1 .. Len(toPeer') /\ i - 1 \in 0 .. Len(toPeer)
        BY <2>3
      <4>2. to[i - 1] = at[i - 1] /\ toPeer'[i] = toPeer[i] /\ recv_next' = recv_next
        BY <1>1, <2>3, <2>6, <4>1
      <4> QED BY <3>3, <4>1, <4>2 DEF Told
    <3> QED BY <1>5, <1>8, <3>1, <3>2, <3>3 DEF Told, e
  <2>8. UpWay'
    <3>1. to[0] = Len(accepted')
      BY <1>1, <1>5, <2>6
    <3>2. to[Len(toPeer')] + Unsent' = written'
      BY <1>1, <1>2, <1>4, <1>5, <2>4, <2>6
    <3> QED BY <2>6, <2>7, <3>1, <3>2 DEF UpWay, Placed, Places
  <2>9. AcksInTurn'
    <3>1. Acked(recv_next)
      <4>1. Len(queued) + 1 \in 1 .. Len(queued) + 1 /\ 1 + Len(queued) = Len(queued) + 1
        BY DownFacts
      <4>2. recv_next = Plus(PeerIss, Len(queued) + 1)
        BY <1>2, <4>1 DEF Connected, AcksInTurn
      <4> QED BY <4>1, <4>2 DEF Acked
    <3> QED BY <1>1, <1>2, <1>4, <2>1, <2>3, <3>1, AckedSame DEF Connected, AcksInTurn
  <2> QED BY <1>6, <2>8, <2>9
<1> QED BY <1>1, <1>7, <1>8

LEMMA IpThreadDown ==
  ASSUME TypeInv, HandInv, UpInv, DownInv, Undisturbed, IpThread
  PROVE  DownInv'
<1> USE DEF pcbVars, evVars, appVars, peerVars
<1>1. CASE recv
  <2>1. PICK i \in NetDeliverable(toClient) :
          /\ IpFree
          /\ toClient' = RemoveAt(toClient, i)
          /\ recvInSynSent(toClient[i]) \/ recvInEstablished(toClient[i])
          /\ UNCHANGED <<fport, evVars, conn, written, toPeer, budget, peerVars>>
    BY <1>1 DEF recv
  <2>2. i = 1 /\ i \in DOMAIN toClient /\ ipPc = "idle"
    BY <2>1 DEF NetDeliverable, Undisturbed, NoFaults, IpFree
  <2>3. toClient # << >>
    BY <2>2
  <2>4. CASE recvInSynSent(toClient[1])
    BY <2>1, <2>2, <2>3, <2>4, SynSentDown
  <2>5. CASE recvInEstablished(toClient[1])
    <3>1. Established /\ UNCHANGED <<conn_state, send_next>>
      BY <2>5 DEF recvInEstablished, Established
    <3>2. CASE toClient[1].data # << >> /\ payload(toClient[1])
      BY <2>1, <2>2, <2>3, <3>1, <3>2, PayloadDown
    <3>3. CASE toClient[1].data = << >> /\ UNCHANGED <<recvQ, queued, recv_next, ipPc, ipOut>>
      BY <2>1, <2>2, <2>3, <3>1, <3>3, NoPayloadDown
    <3> QED BY <2>5, <3>2, <3>3 DEF recvInEstablished
  <2> QED BY <2>1, <2>2, <2>4, <2>5
<1>2. CASE onConnEstabCB
  <2>1. /\ UNCHANGED <<pcbVars, evVars, ipOut, recvQ, written, queued, toPeer, toClient, peerVars>>
        /\ ipPc = "callback" /\ ipPc' = "idle"
    BY <1>2 DEF onConnEstabCB
  <2>2. /\ Established' <=> Established
        /\ (Opening => Opening') /\ (Connected => Connected')
    BY <2>1, AckedSame
       DEF Established, PeerOpen, Opening, Connected, AcksInTurn, EvLast, Unsent,
           UpWay, Told, Placed, Places
  <2> QED BY <2>1, <2>2, AckedSame DEF DownInv
<1> QED BY <1>1, <1>2, AckRestDown DEF IpThread

\* Another segment for the client, with the bytes that follow or with none.
LEMMA DownSaid ==
  ASSUME TypeInv, DownInv, NEW s \in Segments, toClient' = Append(toClient, s),
         \/ s.data = << >> /\ p_sent' = p_sent
         \/ /\ s.data = Bytes(p_sent, Len(s.data)) /\ s.seq = Plus(PeerIss, 1 + p_sent)
            /\ p_sent' = p_sent + Len(s.data),
         UNCHANGED queued
  PROVE  DownWay' /\ toClient' # << >>
<1>1. PICK at \in Places(toClient) :
        /\ Placed(toClient, Plus(PeerIss, 1), at) /\ at[0] = Len(queued)
        /\ at[Len(toClient)] = p_sent
  BY DEF DownInv, DownWay
<1>2. toClient \in Seq(Segments) /\ p_sent \in Nat
  BY DownFacts DEF TypeInv, Types
<1>3. Plus(Plus(PeerIss, 1), p_sent) = Plus(PeerIss, 1 + p_sent)
  BY <1>2, AfterSyn
<1>4. /\ s.data = Bytes(p_sent, Len(s.data))
      /\ s.data # << >> => s.seq = Plus(Plus(PeerIss, 1), p_sent)
      /\ p_sent' = p_sent + Len(s.data)
  <2>1. CASE s.data = << >> /\ p_sent' = p_sent
    <3>1. Bytes(p_sent, 0) \in Stream /\ Len(Bytes(p_sent, 0)) = 0
      BY <1>2, BytesType
    <3>2. Bytes(p_sent, 0) = << >>
      BY <3>1, NoBytes
    <3> QED BY <1>2, <2>1, <3>2, EmptyStream
  <2> QED BY <1>3, <2>1
<1>5. PICK to \in Places(toClient') :
        /\ Placed(toClient', Plus(PeerIss, 1), to)
        /\ to[0] = at[0] /\ to[Len(toClient')] = at[Len(toClient)] + Len(s.data)
  <2> DEFINE to == AtMore(at, Len(toClient), Len(s.data))
             more == Append(toClient, s)
  <2>1. /\ s.data = Bytes(at[Len(toClient)], Len(s.data))
        /\ s.data # << >> => s.seq = Plus(Plus(PeerIss, 1), at[Len(toClient)])
    BY <1>1, <1>4
  <2>2. /\ to \in Places(more) /\ Placed(more, Plus(PeerIss, 1), to)
        /\ to[0] = at[0] /\ to[Len(more)] = at[Len(toClient)] + Len(s.data)
    BY <1>1, <1>2, <2>1, PlacedMore
  <2> HIDE DEF to
  <2> QED BY <2>2
<1>6. to[0] = Len(queued') /\ to[Len(toClient')] = p_sent'
  BY <1>1, <1>4, <1>5
<1>7. toClient' # << >>
  BY <1>2, OneMore, EmptySeq
<1> QED BY <1>5, <1>6, <1>7 DEF DownWay, Placed, Places

LEMMA DownSaidNothing ==
  ASSUME TypeInv, DownInv, NEW f \in Flags, NEW v \in SeqNumbers, NEW a \in SeqNumbers,
         PeerSays(f, v, a, << >>), UNCHANGED <<queued, p_sent>>
  PROVE  DownWay' /\ toClient' # << >>
<1>1. Segment(f, v, a, << >>) \in Segments /\ Segment(f, v, a, << >>).data = << >>
  BY EmptyStream, SegmentType
<1> QED BY <1>1, DownSaid DEF PeerSays

\* The peer hears the SYN and answers.
LEMMA ListenDown ==
  ASSUME TypeInv, HandInv, UpInv, DownInv, toPeer # << >>, toPeer' = RemoveAt(toPeer, 1),
         PeerListen(toPeer[1]), UNCHANGED <<pcbVars, evVars, ipVars, appVars>>
  PROVE  DownInv'
<1> USE DEF pcbVars, evVars, ipVars, appVars
<1>1. pstate = "listen" /\ ~ Established /\ ~ Established' /\ UNCHANGED <<p_sent, accepted>>
  BY DEF PeerListen, HandInv, PeerOpen, Established
<1>2. Opening
  BY <1>1 DEF DownInv
<1>3. toPeer' = << >> /\ toPeer[1] \in Segments
  <2>1. toPeer \in Seq(Segments)
    BY DEF TypeInv, Types
  <2>2. toPeer' \in Seq(Segments) /\ Len(toPeer') = Len(toPeer) - 1 /\ Len(toPeer) \in Nat \ {0}
    BY <2>1, FirstGone
  <2>3. Len(toPeer') = 0
    BY <1>2, <2>2 DEF Opening
  <2> QED BY <2>1, <2>2, <2>3, EmptySeq, ElementOfSeq
<1>4. DownWay' /\ toClient' # << >>
  <2>1. /\ Plus(toPeer[1].seq, 1) \in SeqNumbers /\ PeerIss \in SeqNumbers /\ 0 \in SeqNumbers
        /\ {"SYN", "ACK"} \in Flags /\ {"RST", "ACK"} \in Flags
    BY <1>3, SegmentParts, PlusType, Bounds DEF Flags
  <2>2. CASE PeerSays({"SYN", "ACK"}, PeerIss, p_rcv', << >>) /\ p_rcv' = Plus(toPeer[1].seq, 1)
    BY <1>1, <2>1, <2>2, DownSaidNothing
  <2>3. CASE PeerSays({"RST", "ACK"}, 0, Plus(toPeer[1].seq, 1), << >>)
    BY <1>1, <2>1, <2>3, DownSaidNothing
  <2> QED BY <2>2, <2>3 DEF PeerListen
<1>5. Opening'
  BY <1>1, <1>2, <1>3, <1>4, EmptyStream DEF Opening
<1>6. fport # "none" /\ conn_state # "CLOSED"
  BY DEF DownInv
<1> QED BY <1>1, <1>4, <1>5, <1>6 DEF DownInv

\* The peer takes a segment of the established client, or ignores it as old: it
\* never ignores one with payload, and from each of the others it learns what it
\* acknowledges, except from one that an acknowledgment as good follows.
LEMMA TakenDown ==
  ASSUME TypeInv, HandInv, UpInv, AckInv, DownInv, Undisturbed,
         toPeer # << >>, toPeer' = RemoveAt(toPeer, 1),
         PeerIgnore(toPeer[1]) \/ PeerAccept(toPeer[1]), Established,
         UNCHANGED <<pcbVars, evVars, ipVars, appVars>>
  PROVE  DownInv'
<1> USE DEF pcbVars, evVars, ipVars, appVars
<1> DEFINE seg == toPeer[1]
<1>1. /\ PeerOpen /\ Established' /\ Connected /\ conn_state = "ESTABLISHED" /\ fport = "peer"
      /\ UNCHANGED <<p_next, p_sent>>
  BY Reached DEF PeerIgnore, PeerAccept, DownInv, Established, peerVars
<1>2. toPeer \in Seq(Segments) /\ p_rcv \in SeqNumbers /\ p_next \in SeqNumbers
  BY DEF TypeInv, Types
<1>3. /\ Len(toPeer) \in Nat \ {0} /\ 1 \in DOMAIN toPeer
      /\ Len(toPeer') = Len(toPeer) - 1
      /\ \A i \in 1 .. Len(toPeer) - 1 : toPeer'[i] = toPeer[i + 1]
  BY <1>2, FirstGone
<1>4. /\ seg \in Segments /\ seg \in ToSet(toPeer) /\ ToSet(toPeer') \subseteq ToSet(toPeer)
  BY <1>2, <1>3, NetSteps
<1>5. seg.data \in Stream /\ Len(seg.data) \in Nat /\ seg.ackSeq \in SeqNumbers
  BY <1>4, SegmentParts
<1>6. PICK at \in Places(toPeer) :
        /\ Placed(toPeer, 2, at) /\ at[0] = Len(accepted)
        /\ at[Len(toPeer)] + Unsent = written
        /\ Told(at)
  BY <1>1 DEF Connected, UpWay
<1>7. PICK to \in Places(toPeer') :
        /\ Placed(toPeer', 2, to)
        /\ \A j \in 0 .. Len(toPeer') : to[j] = at[j + 1]
        /\ to[0] = at[0] + Len(seg.data) /\ to[Len(toPeer')] = at[Len(toPeer)]
        /\ seg.data # << >> => seg.seq = Plus(2, at[0])
  BY <1>2, <1>6, PlacedLess
<1>8. Len(accepted) \in Nat /\ p_rcv = Plus(2, Len(accepted)) /\ accepted \in Stream
  BY <1>1, DownFacts DEF UpInv, TypeInv, Types
<1>9. PICK u \in 0 .. Len(queued) + 1 : p_una = Plus(PeerIss, u)
  BY <1>1 DEF Connected, PeerAcked
<1>10. PICK r \in 1 .. Len(queued) + 1 : seg.ackSeq = Plus(PeerIss, r)
  BY <1>1, <1>4 DEF Connected, AcksInTurn, Acked
<1> HIDE DEF seg
<1>11. seg.data # << >> => seg.seq = p_rcv
  BY <1>6, <1>7, <1>8
<1>12. \A d \in 0 .. MaxSegment : seg.seq = Plus(p_rcv, d) => ~ PeerOld(seg)
  BY <1>2, NotOld DEF Undisturbed, PeerOld
<1>13. /\ p_next = Plus(PeerIss, 1 + p_sent) /\ 1 + p_sent \in 0 .. SeqSpace - 1
       /\ Len(queued) \in Nat /\ Len(queued) <= p_sent /\ p_sent \in Nat
  <2>1. Len(queued) \in Nat /\ Len(queued) <= p_sent /\ p_sent \in Nat /\ p_sent <= MaxDown
    BY DownFacts
  <2> QED BY <1>1, <2>1, Bounds DEF AckInv, Undisturbed, ShortDownload
<1>14. Minus(seg.ackSeq, p_una) <= Minus(p_next, p_una) <=> r >= u
  <2>1. u \in 0 .. 1 + p_sent /\ r \in 0 .. 1 + p_sent
    BY <1>9, <1>10, <1>13
  <2> QED BY <1>9, <1>10, <1>13, <2>1, AckMoves
<1>15. PeerAccept(seg) => p_una' = IF r >= u THEN seg.ackSeq ELSE p_una
  BY <1>14 DEF PeerAccept
<1>16. PeerIgnore(seg) => p_una' = p_una /\ accepted' = accepted /\ PeerOld(seg)
  BY DEF PeerIgnore, peerVars
<1>17. PeerIgnore(seg) \/ PeerAccept(seg)
  BY DEF seg
<1>18. PeerAcked'
  <2>1. p_una' = Plus(PeerIss, u) \/ p_una' = Plus(PeerIss, r)
    BY <1>9, <1>10, <1>15, <1>16, <1>17
  <2>2. r \in 0 .. Len(queued) + 1
    BY <1>10, <1>13
  <2> QED BY <1>9, <2>1, <2>2 DEF PeerAcked
<1>19. Len(accepted') = Len(accepted) + Len(seg.data)
  <2>1. CASE seg.data # << >>
    <3>1. ~ PeerOld(seg)
      <4>1. 0 \in 0 .. MaxSegment /\ Plus(p_rcv, 0) = p_rcv
        BY <1>2, PlusZero, Bounds
      <4> QED BY <1>11, <1>12, <2>1, <4>1
    <3>2. accepted' = accepted \o seg.data
      BY <1>11, <1>16, <1>17, <2>1, <3>1 DEF PeerAccept
    <3> QED BY <1>5, <1>8, <3>2, ConcatProperties DEF Stream
  <2>2. CASE seg.data = << >>
    <3>1. Len(seg.data) = 0 /\ accepted \o << >> = accepted
      BY <1>8, <2>2, EmptyStream, ConcatEmptySeq DEF Stream
    <3>2. accepted' = accepted
      BY <1>16, <1>17, <2>2, <3>1 DEF PeerAccept
    <3> QED BY <1>8, <3>1, <3>2
  <2> QED BY <2>1, <2>2
<1>20. recv_next = Plus(PeerIss, Len(queued) + 1)
  <2>1. 1 + Len(queued) = Len(queued) + 1
    BY <1>13
  <2> QED BY <1>1, <2>1 DEF Connected, AcksInTurn
<1>21. ASSUME NEW v \in 0 .. Len(queued) + 1, Plus(PeerIss, v) = recv_next
       PROVE  v = Len(queued) + 1
  <2>1. v \in 0 .. SeqSpace - 1 /\ Len(queued) + 1 \in 0 .. SeqSpace - 1
    <3>1. Len(queued) + 1 <= SeqSpace - 1 /\ SeqSpace \in Nat
      BY <1>13, Bounds
    <3> QED BY <1>13, <1>21, <3>1
  <2> QED BY <1>20, <1>21, <2>1, PlusInjective, Bounds
<1>22. Told(to)'
  <2>1. CASE p_una = recv_next
    <3>1. u = Len(queued) + 1
      BY <1>9, <1>21, <2>1
    <3>2. r >= u => r = Len(queued) + 1
      BY <1>10, <1>13, <3>1
    <3>3. p_una' = recv_next
      BY <1>10, <1>15, <1>16, <1>17, <1>20, <2>1, <3>2
    <3> QED BY <3>3 DEF Told
  <2>2. CASE \/ ipPc = "seq"
             \/ ipPc = "tx" /\ ipOut[1].seq = send_next
             \/ evPc = "ack"
             \/ evPc = "tx" /\ evOut[1].ackSeq = recv_next
    BY <2>2 DEF Told
  <2>3. ASSUME NEW i \in 1 .. Len(toPeer), toPeer[i].ackSeq = recv_next,
               NEW d \in 0 .. MaxSegment, toPeer[i].seq = Plus(2, at[i - 1] + d)
        PROVE  Told(to)'
    <3>1. CASE i = 1
      <4>1. seg.ackSeq = recv_next /\ seg.seq = Plus(2, Len(accepted) + d)
        BY <1>6, <2>3, <3>1 DEF seg
      <4>2. seg.seq = Plus(p_rcv, d)
        BY <1>8, <4>1, IssType, PlusPlus, Bounds
      <4>3. PeerAccept(seg)
        BY <1>12, <1>16, <1>17, <4>2
      <4>4. r = Len(queued) + 1
        <5>1. r \in 0 .. Len(queued) + 1
          BY <1>10, <1>13
        <5> QED BY <1>10, <1>21, <4>1, <5>1
      <4>5. r >= u
        BY <1>9, <1>13, <4>4
      <4>6. p_una' = recv_next'
        BY <1>15, <4>1, <4>3, <4>5
      <4> QED BY <4>6 DEF Told
    <3>2. CASE i # 1
      <4>1. /\ i - 1 \in 1 .. Len(toPeer') /\ (i - 1) + 1 = i
            /\ i - 1 \in 1 .. Len(toPeer) - 1
            /\ (i - 1) - 1 \in 0 .. Len(toPeer') /\ ((i - 1) - 1) + 1 = i - 1
        BY <1>3, <3>2
      <4>2. toPeer'[i - 1] = toPeer[i] /\ to[(i - 1) - 1] = at[i - 1]
        BY <1>3, <1>7, <4>1
      <4>3. toPeer'[i - 1].ackSeq = recv_next' /\ toPeer'[i - 1].seq = Plus(2, to[(i - 1) - 1] + d)
        BY <2>3, <4>2
      <4> QED BY <4>1, <4>3 DEF Told
    <3> QED BY <3>1, <3>2
  <2> QED BY <1>6, <2>1, <2>2, <2>3 DEF Told
<1>23. UpWay'
  <2>1. to[0] = Len(accepted')
    BY <1>6, <1>7, <1>19
  <2>2. Unsent' = Unsent
    BY DEF Unsent
  <2>3. to[Len(toPeer')] + Unsent' = written'
    BY <1>6, <1>7, <2>2
  <2> QED BY <1>7, <1>22, <2>1, <2>3 DEF UpWay, Placed, Places
<1>24. DownWay'
  <2>1. {"SYN", "ACK"} \in Flags /\ {"ACK"} \in Flags /\ PeerIss \in SeqNumbers
    BY Bounds DEF Flags
  <2>2. CASE PeerIgnore(seg)
    <3>1. \/ PeerSays({"SYN", "ACK"}, PeerIss, p_rcv, << >>)
          \/ PeerSays({"ACK"}, p_next, p_rcv, << >>)
      BY <2>2 DEF PeerIgnore
    <3> QED BY <1>1, <1>2, <2>1, <3>1, DownSaidNothing
  <2>3. CASE PeerAccept(seg)
    <3>1. p_rcv' \in SeqNumbers
      <4>1. p_rcv' = p_rcv \/ p_rcv' = Plus(p_rcv, Len(seg.data))
        BY <2>3 DEF PeerAccept
      <4> QED BY <1>2, <1>5, <4>1, PlusType
    <3>2. CASE UNCHANGED toClient
      BY <1>1, <3>2, AckedSame DEF DownInv
    <3>3. CASE PeerSays({"ACK"}, p_next, p_rcv', << >>)
      BY <1>1, <1>2, <2>1, <3>1, <3>3, DownSaidNothing
    <3> QED BY <2>3, <3>2, <3>3 DEF PeerAccept
  <2> QED BY <1>17, <2>2, <2>3
<1>25. AcksInTurn'
  BY <1>1, <1>4, AckedSame DEF Connected, AcksInTurn
<1>26. Connected'
  BY <1>1, <1>18, <1>23, <1>25 DEF Connected, EvLast, Unsent
<1> QED BY <1>1, <1>24, <1>26 DEF DownInv

LEMMA PeerReceiveDown ==
  ASSUME TypeInv, HandInv, UpInv, AckInv, DownInv, Undisturbed, PeerReceive
  PROVE  DownInv'
<1>1. PICK i \in NetDeliverable(toPeer) :
        /\ toPeer' = RemoveAt(toPeer, i)
        /\ \/ PeerListen(toPeer[i])
           \/ PeerIgnore(toPeer[i])
           \/ PeerAccept(toPeer[i])
           \/ pstate = "refused" /\ UNCHANGED <<toClient, peerVars>>
        /\ UNCHANGED <<pcbVars, evVars, ipVars, appVars, budget>>
  BY DEF PeerReceive
<1>2. i = 1 /\ i \in DOMAIN toPeer
  BY DEF NetDeliverable, Undisturbed, NoFaults
<1>3. toPeer # << >>
  BY <1>2
<1>4. CASE PeerListen(toPeer[1])
  BY <1>1, <1>2, <1>3, <1>4, ListenDown
<1>5. pstate # "listen" => Established
  BY <1>3 DEF DownInv, Opening
<1>6. CASE PeerIgnore(toPeer[1]) \/ PeerAccept(toPeer[1])
  <2>1. pstate # "listen"
    BY <1>6 DEF PeerIgnore, PeerAccept, PeerOpen
  <2> QED BY <1>1, <1>2, <1>3, <1>5, <1>6, <2>1, TakenDown
<1>7. pstate # "refused"
  BY <1>5 DEF HandInv, PeerOpen
<1> QED BY <1>1, <1>2, <1>4, <1>6, <1>7

LEMMA PeerSendDown ==
  ASSUME TypeInv, HandInv, UpInv, AckInv, DownInv, PeerSend
  PROVE  DownInv'
<1> USE DEF pcbVars, evVars, ipVars, appVars
<1>1. PICK n \in 1 .. MaxSegment :
        /\ pstate = "estab"
        /\ PeerSays({"ACK"}, p_next, p_rcv, Bytes(p_sent, n))
        /\ p_sent' = p_sent + n
        /\ UNCHANGED <<pcbVars, evVars, ipVars, appVars, toPeer, pstate, p_una, accepted>>
  BY DEF PeerSend
<1>2. Established /\ Established' /\ Connected
  BY <1>1 DEF HandInv, DownInv, Established
<1>3. p_next = Plus(PeerIss, 1 + p_sent)
  BY <1>1 DEF AckInv, PeerOpen
<1> DEFINE d == Bytes(p_sent, n)
<1>4. /\ p_sent \in Nat /\ n \in Nat /\ d \in Stream /\ Len(d) = n
      /\ p_next \in SeqNumbers /\ p_rcv \in SeqNumbers /\ {"ACK"} \in Flags
  <2>1. p_sent \in Nat /\ p_next \in SeqNumbers /\ p_rcv \in SeqNumbers
    BY DownFacts DEF TypeInv, Types
  <2>2. n \in Nat /\ {"ACK"} \in Flags
    BY Bounds DEF Flags
  <2>3. d \in Stream /\ Len(d) = n
    BY <2>1, <2>2, BytesType
  <2> HIDE DEF d
  <2> QED BY <2>1, <2>2, <2>3
<1>5. d = Bytes(p_sent, Len(d))
  BY <1>4
<1> HIDE DEF d
<1> DEFINE s == Segment({"ACK"}, p_next, p_rcv, d)
<1>6. s \in Segments /\ s.data = d /\ s.seq = p_next
  BY <1>4, SegmentType
<1>7. toClient' = Append(toClient, s)
  BY <1>1 DEF PeerSays, d
<1> HIDE DEF s
<1>8. DownWay'
  BY <1>1, <1>3, <1>4, <1>5, <1>6, <1>7, DownSaid
<1>9. Connected'
  BY <1>1, <1>2, AckedSame
     DEF Connected, AcksInTurn, EvLast, Unsent, UpWay, Told, Placed, Places
<1> QED BY <1>1, <1>2, <1>8, <1>9 DEF DownInv

\* With nothing in transit the peer has had every acknowledgment of what it sent:
\* it never has anything to retransmit.
LEMMA NothingToRetransmit ==
  ASSUME TypeInv, HandInv, AckInv, DownInv, Undisturbed
  PROVE  ~ PeerRetransmit
<1> SUFFICES ASSUME PeerRetransmit PROVE FALSE
  OBVIOUS
<1>1. /\ PeerOpen /\ PeerUnacked > 0
      /\ toPeer = << >> /\ toClient = << >> /\ evOut = << >> /\ ipOut = << >>
  BY DEF PeerRetransmit, NothingInTransit, Undisturbed, NoFaults
<1>2. Established /\ Connected
  BY <1>1 DEF DownInv, Opening
<1>3. evPc = "idle" /\ ipPc \notin {"seq", "tx"}
  BY <1>1, EmptyStream DEF TypeInv, Shape
<1>4. 1 .. Len(toPeer) = {}
  BY <1>1
<1>5. p_una = recv_next
  BY <1>2, <1>3, <1>4 DEF Connected, UpWay, Told
<1>6. Len(queued) = p_sent
  <2>1. Len(toClient) = 0
    BY <1>1
  <2> QED BY <2>1 DEF DownInv, DownWay
<1>7. p_una = p_next
  BY <1>1, <1>2, <1>5, <1>6 DEF Connected, AcksInTurn, AckInv
<1>8. p_next \in SeqNumbers /\ Minus(p_next, p_next) = 0
  BY MinusCases DEF TypeInv, Types, SeqNumbers
<1> QED BY <1>1, <1>7, <1>8 DEF PeerUnacked

LEMMA NetworkIdle ==
  ASSUME TypeInv, Undisturbed
  PROVE  ~ Network
<1>1. /\ budget.up \in 0 .. LossesUp /\ budget.down \in 0 .. LossesDown
      /\ budget.dup \in 0 .. Duplicates
  BY BudgetParts DEF TypeInv, Types
<1> QED BY <1>1 DEF Network, NetLose, NetDuplicate, Undisturbed, NoFaults

LEMMA AckStep ==
  ASSUME TypeInv, HandInv, AckInv, [Next]_vars, RefusalNoticed
  PROVE  AckInv'
<1>1. CASE UNCHANGED vars
  BY <1>1 DEF vars, pcbVars, evVars, ipVars, appVars, peerVars,
              AckInv, Saying, Sent, PeerOpen, Established
<1> QED BY <1>1, EventLoopAck, IpThreadAck, PeerAck, NetworkAck DEF Next

LEMMA DownStep ==
  ASSUME TypeInv, HandInv, UpInv, AckInv, DownInv, Undisturbed, [Next]_vars
  PROVE  DownInv'
<1>1. CASE UNCHANGED vars
  BY <1>1, DownFrame DEF vars, pcbVars, evVars, ipVars, appVars, peerVars
<1>2. CASE EventLoop
  BY <1>2, EventLoopDown DEF Undisturbed
<1>3. CASE Peer
  BY <1>3, PeerReceiveDown, PeerSendDown, NothingToRetransmit DEF Peer
<1> QED BY <1>1, <1>2, <1>3, IpThreadDown, NetworkIdle DEF Next

AllInv == TypeInv /\ HandInv /\ UpInv /\ AckInv /\ DownInv

LEMMA AllStep ==
  ASSUME AllInv, Undisturbed, [Next]_vars
  PROVE  AllInv'
BY TypeStep, HandStep, UpStep, AckStep, DownStep DEF AllInv, Undisturbed

LEMMA DownHolds ==
  ASSUME Undisturbed
  PROVE  Spec => []AllInv
<1>1. Init => AllInv
  BY TypeInit, HandInit, UpInit, AckInit, DownInit DEF AllInv
<1>2. AllInv /\ [Next]_vars => AllInv'
  BY AllStep, Undisturbed
<1> QED BY <1>1, <1>2, PTL DEF Spec

\* What is acknowledged is in the receive queue, wherever the two threads are in
\* their calls, if the network is faultless and the queue never full.
THEOREM AcknowledgedIsQueued ==
  ASSUME Undisturbed
  PROVE  Spec => []AckMeansQueued
<1>1. AllInv => AckMeansQueued
  <2> SUFFICES ASSUME AllInv, conn_state = "ESTABLISHED"
               PROVE  Minus(recv_next, Plus(irs, 1)) = Len(queued) % SeqSpace
    BY DEF AckMeansQueued
  <2>1. recv_next = Plus(PeerIss, 1 + Len(queued)) /\ irs = PeerIss
    BY DEF AllInv, DownInv, Connected, AcksInTurn, HandInv, Established
  <2>2. Len(queued) \in Nat /\ PeerIss \in SeqNumbers
    BY DownFacts, Bounds DEF AllInv
  <2>3. (1 + Len(queued)) - 1 = Len(queued) /\ 1 + Len(queued) \in Nat
    BY <2>2
  <2> QED BY <2>1, <2>2, <2>3, MinusPlus
<1> QED BY <1>1, DownHolds, Undisturbed, PTL

LEMMA DownloadStep ==
  ASSUME AllInv, Undisturbed, [Next]_vars
  PROVE  [Down!Next]_(Down!vars)
<1> USE DEF AllInv, pcbVars, evVars, ipVars, appVars, peerVars
<1>1. p_sent \in Nat /\ Len(queued) \in Nat
  BY DownFacts
<1>2. CASE UNCHANGED <<p_sent, queued>>
  BY <1>2 DEF Down!vars
<1>3. CASE UNCHANGED queued /\ \E n \in Nat : p_sent' = p_sent + n
  BY <1>1, <1>3 DEF Down!Next, Down!Write
<1>4. ASSUME UNCHANGED p_sent,
             \E n \in 1 .. p_sent - Len(queued) : queued' = queued \o Bytes(Len(queued), n)
      PROVE  [Down!Next]_(Down!vars)
  BY <1>4 DEF Down!Next, Down!Receive, Down!Bytes, Bytes
<1>5. CASE EventLoop
  BY <1>2, <1>5 DEF EventLoop, connect, send, sendRest, EventLoopTx, takeFromRecvQ
<1>6. CASE recv
  <2>1. PICK i \in NetDeliverable(toClient) :
          /\ IpFree
          /\ toClient' = RemoveAt(toClient, i)
          /\ recvInSynSent(toClient[i]) \/ recvInEstablished(toClient[i])
          /\ UNCHANGED <<fport, evVars, conn, written, toPeer, budget, peerVars>>
    BY <1>6 DEF recv
  <2>2. i = 1 /\ i \in DOMAIN toClient /\ ipPc = "idle"
    BY <2>1 DEF NetDeliverable, Undisturbed, NoFaults, IpFree
  <2>3. toClient # << >>
    BY <2>2
  <2>4. CASE UNCHANGED queued
    BY <1>2, <2>1, <2>4
  <2>5. CASE ~ UNCHANGED queued
    <3>1. recvInEstablished(toClient[1]) /\ Established /\ UNCHANGED <<conn_state, send_next>>
      BY <2>1, <2>2, <2>5 DEF recvInSynSent, recvInEstablished, Established
    <3>2. toClient[1].data # << >> /\ payload(toClient[1])
      BY <2>5, <3>1 DEF recvInEstablished
    <3>3. \E n \in 1 .. p_sent - Len(queued) : queued' = queued \o Bytes(Len(queued), n)
      BY <2>1, <2>2, <2>3, <3>1, <3>2, PayloadDown
    <3> QED BY <1>4, <2>1, <3>3
  <2> QED BY <2>4, <2>5
<1>7. CASE ack2peerRest \/ onConnEstabCB
  BY <1>2, <1>7 DEF ack2peerRest, onConnEstabCB
<1>8. CASE PeerReceive
  <2>1. UNCHANGED <<p_sent, queued>>
    BY <1>8 DEF PeerReceive, PeerListen, PeerIgnore, PeerAccept
  <2> QED BY <1>2, <2>1
<1>9. CASE PeerSend
  <2>1. UNCHANGED queued /\ \E n \in Nat : p_sent' = p_sent + n
    BY <1>9, Bounds DEF PeerSend
  <2> QED BY <1>3, <2>1
<1>10. CASE UNCHANGED vars
  BY <1>2, <1>10 DEF vars
<1> QED BY <1>5, <1>6, <1>7, <1>8, <1>9, <1>10, NothingToRetransmit, NetworkIdle
        DEF Next, IpThread, Peer

\* The receive queue of the client implements the other ByteStream: the bytes of
\* the peer are put in it in order and once, although TcpPcb has no reassembly
\* queue, if the network is faultless and the queue never full.
THEOREM DownloadImplementsStream ==
  ASSUME Undisturbed
  PROVE  Spec => DownloadKept
<1>1. Init => Down!Init
  BY DEF Init, Down!Init
<1>2. AllInv /\ [Next]_vars => [Down!Next]_(Down!vars)
  BY DownloadStep, Undisturbed
<1>3. Spec => []AllInv
  BY DownHolds, Undisturbed
<1> QED BY <1>1, <1>2, <1>3, PTL DEF Spec, DownloadKept, Down!Spec
=============================================================================
