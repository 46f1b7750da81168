---------------------------- MODULE ProtobufProofs ----------------------------
(***************************************************************************)
(* What the two protobuf runtimes do to a message, for all tables and all  *)
(* values: a wire is a set of the fields it carries (IsWire), whoever      *)
(* wrote it, and a reader takes from it what the fields say.  Then the     *)
(* tables of the two languages are compared row by row (Agree), so that a  *)
(* message written by the one is read by the other as it was.              *)
(*                                                                         *)
(* Each writer, the parser of an outer message and the layout of a struct  *)
(* are a FoldLeft, of three steps.  Its turns are found three times over,  *)
(* in the same way: a lemma with the step as a parameter could be stated,  *)
(* and proved, but not used, as no prover here instantiates an operator.   *)
(***************************************************************************)
EXTENDS RequestSchema, ResponseSchema, SequenceTheorems, WellFoundedInduction, TLAPS

-----------------------------------------------------------------------------
(* The loops.                                                               *)

\* The last of the indices left to a loop of k + 1 turns.
LEMMA MaxIs ==
  ASSUME NEW k \in Nat, NEW s \in SUBSET (1 .. k + 1), k + 1 \in s
  PROVE  Max(s) = k + 1
<1>1. k + 1 \in s /\ \A y \in s : k + 1 >= y
  OBVIOUS
<1>2. Max(s) \in s /\ \A y \in s : Max(s) >= y
  BY <1>1 DEF Max
<1>3. Max(s) \in 1 .. k + 1
  BY <1>2
<1>4. k + 1 >= Max(s) /\ Max(s) >= k + 1
  BY <1>1, <1>2
<1> HIDE DEF Max
<1>5. QED BY <1>3, <1>4

\* Induction, for a set of numbers: the least that is missing has a predecessor.
LEMMA SetInduction ==
    ASSUME NEW S, 0 \in S, \A n \in Nat : n \in S => n + 1 \in S
    PROVE  \A n \in Nat : n \in S
<1> DEFINE R == {p \in Nat \X Nat : p[1] < p[2]}
           T == Nat \ S
<1>1. IsWellFoundedOn(R, Nat)
    BY NatLessThanWellFounded DEF OpToRel
<1> SUFFICES ASSUME T # {} PROVE FALSE
    OBVIOUS
<1>2. T \subseteq Nat
    OBVIOUS
<1>3. PICK x \in T : \A y \in T : <<y, x>> \notin R
    BY <1>1, <1>2, WFMin
<1>4. x \in Nat \ {0}
    BY <1>3
<1>5. x - 1 \in Nat /\ x - 1 < x /\ (x - 1) + 1 = x
    BY <1>4
<1>6. x - 1 \notin T
    BY <1>3, <1>4, <1>5
<1>7. QED BY <1>3, <1>5, <1>6

\* One turn of the writers' loop.
WriteStep(fields, items, wire, f) == IF f \in DOMAIN items THEN Append(wire, items[f]) ELSE wire

WriteRun(it, fields, items, n) ==
  it = [s \in SUBSET (1 .. n) |->
          IF s = {} THEN << >> ELSE WriteStep(fields, items, it[s \ {Max(s)}], fields[Max(s)])]

\* The loop over given fields has a run, by induction on its turns.
LEMMA WriteRunExists ==
  ASSUME NEW n \in Nat, NEW fields, NEW items
  PROVE  \E it : WriteRun(it, fields, items, n)
<1> DEFINE S == {k \in Nat : \E it : WriteRun(it, fields, items, k)}
<1>1. 0 \in S
  <2> DEFINE it == [s \in SUBSET (1 .. 0) |-> << >>]
             N == [s \in SUBSET (1 .. 0) |->
                     IF s = {} THEN << >> ELSE WriteStep(fields, items, it[s \ {Max(s)}], fields[Max(s)])]
  <2>1. SUBSET (1 .. 0) = {{}}
    OBVIOUS
  <2>2. \A s \in SUBSET (1 .. 0) : it[s] = N[s]
    BY <2>1
  <2>3. it = N
    <3> HIDE DEF it
    <3>1. it = [s \in SUBSET (1 .. 0) |-> it[s]]
      BY DEF it
    <3> DEFINE D == SUBSET (1 .. 0)
    <3>2. N = [s \in D |-> N[s]]
      OBVIOUS
    <3> HIDE DEF N, D
    <3>3. QED BY <3>1, <3>2, <2>2 DEF D
  <2>4. WriteRun(it, fields, items, 0)
    BY <2>3 DEF WriteRun
  <2>5. QED BY <2>4
<1>2. ASSUME NEW k \in Nat, k \in S PROVE k + 1 \in S
  <2>1. PICK it : WriteRun(it, fields, items, k)
    BY <1>2
  <2> DEFINE D == SUBSET (1 .. k + 1)
             new == [s \in D |-> IF k + 1 \in s THEN WriteStep(fields, items, it[s \ {k + 1}], fields[k + 1])
                                 ELSE it[s]]
             N == [s \in D |->
                     IF s = {} THEN << >> ELSE WriteStep(fields, items, new[s \ {Max(s)}], fields[Max(s)])]
  <2>2. ASSUME NEW s \in D PROVE new[s] = N[s]
    <3>1. s \subseteq 1 .. k + 1
      OBVIOUS
    <3>2. CASE k + 1 \in s
      <4>1. Max(s) = k + 1
        BY <3>1, <3>2, MaxIs
      <4>2. s \ {k + 1} \in SUBSET (1 .. k) /\ s \ {k + 1} \in D /\ k + 1 \notin s \ {k + 1}
        BY <3>1
      <4>3. new[s \ {k + 1}] = it[s \ {k + 1}]
        BY <4>2
      <4>4. N[s] = WriteStep(fields, items, new[s \ {k + 1}], fields[k + 1])
        BY <3>2, <4>1
      <4>5. new[s] = WriteStep(fields, items, it[s \ {k + 1}], fields[k + 1])
        BY <3>2
      <4> HIDE DEF new, N
      <4>6. QED BY <4>3, <4>4, <4>5
    <3>3. CASE k + 1 \notin s
      <4>1. s \in SUBSET (1 .. k)
        BY <3>1, <3>3
      <4>2. new[s] = it[s]
        BY <3>3
      <4>3. it[s] = IF s = {} THEN << >> ELSE WriteStep(fields, items, it[s \ {Max(s)}], fields[Max(s)])
        BY <2>1, <4>1 DEF WriteRun
      <4>4. N[s] = IF s = {} THEN << >> ELSE WriteStep(fields, items, new[s \ {Max(s)}], fields[Max(s)])
        OBVIOUS
      <4>5. s \ {Max(s)} \in D /\ k + 1 \notin s \ {Max(s)}
        BY <3>3
      <4>6. new[s \ {Max(s)}] = it[s \ {Max(s)}]
        BY <4>5
      <4> HIDE DEF new, N
      <4>7. QED BY <4>2, <4>3, <4>4, <4>6
    <3>4. QED BY <3>2, <3>3
  <2>3. new = [s \in D |-> new[s]] /\ N = [s \in D |-> N[s]]
    OBVIOUS
  <2>4. new = N
    <3> HIDE DEF new, N, D
    <3>1. QED BY <2>2, <2>3
  <2>5. WriteRun(new, fields, items, k + 1)
    BY <2>4 DEF WriteRun
  <2> HIDE DEF new
  <2>6. QED BY <2>5
<1> HIDE DEF S
<1>3. n \in S
  BY <1>1, <1>2, SetInduction
<1>4. QED BY <1>3 DEF S

\* FoldLeft goes through the fields turn by turn: each wire is the one before
\* and at most one more item.
LEMMA WriteSteps ==
  ASSUME NEW Fields, NEW fields \in Seq(Fields), NEW items
  PROVE  \E F : /\ F[0] = << >>
                /\ \A n \in 1 .. Len(fields) : F[n] = WriteStep(fields, items, F[n - 1], fields[n])
                /\ Written(fields, items) = F[Len(fields)]
<1> DEFINE D == DOMAIN fields
           it == CHOOSE g : g = [s \in SUBSET D |->
                   IF s = {} THEN << >> ELSE WriteStep(fields, items, g[s \ {Max(s)}], fields[Max(s)])]
           run == CHOOSE g : WriteRun(g, fields, items, Len(fields))
           F == [n \in 0 .. Len(fields) |-> run[1 .. n]]
<1>1. Len(fields) \in Nat /\ D = 1 .. Len(fields)
  OBVIOUS
<1>2. Written(fields, items) = it[D]
  BY DEF Written, FoldLeft, MapThenFoldSet, WriteStep
<1>3. it = run
  BY <1>1 DEF WriteRun
<1>4. WriteRun(run, fields, items, Len(fields))
  BY <1>1, WriteRunExists
<1> HIDE DEF it, run
<1>5. \A s \in SUBSET (1 .. Len(fields)) :
        run[s] = IF s = {} THEN << >> ELSE WriteStep(fields, items, run[s \ {Max(s)}], fields[Max(s)])
  BY <1>4 DEF WriteRun
<1>6. F[0] = << >>
  <2>1. 1 .. 0 = {} /\ {} \in SUBSET (1 .. Len(fields)) /\ 0 \in 0 .. Len(fields)
    BY <1>1
  <2>2. QED BY <2>1, <1>5
<1>7. ASSUME NEW n \in 1 .. Len(fields) PROVE F[n] = WriteStep(fields, items, F[n - 1], fields[n])
  <2>1. /\ 1 .. n \in SUBSET (1 .. Len(fields)) /\ n \in 1 .. n
        /\ n - 1 \in 0 .. Len(fields) /\ n \in 0 .. Len(fields) /\ (1 .. n) \ {n} = 1 .. n - 1
        /\ n - 1 \in Nat /\ (n - 1) + 1 = n
    BY <1>1
  <2>2. Max(1 .. n) = n
    BY <2>1, MaxIs
  <2>3. run[1 .. n] = WriteStep(fields, items, run[1 .. n - 1], fields[n])
    BY <2>1, <2>2, <1>5
  <2>4. F[n] = run[1 .. n] /\ F[n - 1] = run[1 .. n - 1]
    BY <2>1
  <2> HIDE DEF F
  <2>5. QED BY <2>3, <2>4
<1>8. F[Len(fields)] = run[1 .. Len(fields)]
  BY <1>1
<1> HIDE DEF F
<1>9. QED BY <1>1, <1>2, <1>3, <1>6, <1>7, <1>8

-----------------------------------------------------------------------------
(* What is written, and what the changes of a reader leave.                 *)

\* A wire holds the items, each once.
WrittenOnce(wire, items) ==
  /\ Len(wire) \in Nat /\ DOMAIN wire = 1 .. Len(wire)
  /\ \A i \in 1 .. Len(wire) : \E f \in DOMAIN items : wire[i] = items[f]
  /\ \A f \in DOMAIN items : \E i \in 1 .. Len(wire) : wire[i] = items[f]
  /\ \A i, j \in 1 .. Len(wire) : wire[i][1] = wire[j][1] => i = j

\* The items of a wire are those of the fields that have one, each once.
LEMMA WrittenItems ==
  ASSUME NEW Fields, NEW fields \in Seq(Fields), NEW items,
         \A i, j \in 1 .. Len(fields) : fields[i] = fields[j] => i = j,
         \A f \in DOMAIN items : \E i \in 1 .. Len(fields) : fields[i] = f,
         \A f, g \in DOMAIN items : items[f][1] = items[g][1] => f = g
  PROVE  WrittenOnce(Written(fields, items), items)
<1>1. PICK F : /\ F[0] = << >>
               /\ \A n \in 1 .. Len(fields) : F[n] = WriteStep(fields, items, F[n - 1], fields[n])
               /\ Written(fields, items) = F[Len(fields)]
  BY WriteSteps
<1>2. Len(fields) \in Nat
  OBVIOUS
<1> DEFINE Items == {items[f] : f \in DOMAIN items}
<1>2a. \A f \in DOMAIN items : items[f] \in Items
  OBVIOUS
<1> HIDE DEF Items
<1> DEFINE From(n) == \A i \in 1 .. Len(F[n]) :
                        \E k \in 1 .. n : fields[k] \in DOMAIN items /\ F[n][i] = items[fields[k]]
           To(n) == \A k \in 1 .. n : fields[k] \in DOMAIN items =>
                        \E i \in 1 .. Len(F[n]) : F[n][i] = items[fields[k]]
           Once(n) == \A i, j \in 1 .. Len(F[n]) : F[n][i][1] = F[n][j][1] => i = j
           S == {n \in Nat : n <= Len(fields) => F[n] \in Seq(Items) /\ From(n) /\ To(n) /\ Once(n)}
<1>3. 0 \in S
  <2>1. F[0] = << >> /\ Len(<< >>) = 0 /\ << >> \in Seq(Items) /\ 1 .. 0 = {}
    BY <1>1
  <2>2. F[0] \in Seq(Items) /\ 1 .. Len(F[0]) = {}
    BY <2>1
  <2>3. From(0) /\ To(0) /\ Once(0)
    BY <2>1, <2>2
  <2>4. QED BY <2>2, <2>3
<1>4. ASSUME NEW n \in Nat, n \in S PROVE n + 1 \in S
  <2> SUFFICES ASSUME n + 1 <= Len(fields)
               PROVE  F[n + 1] \in Seq(Items) /\ From(n + 1) /\ To(n + 1) /\ Once(n + 1)
    <3> HIDE DEF From, To, Once
    <3>1. n + 1 \in Nat
      OBVIOUS
    <3>2. QED BY <3>1
  <2>1. F[n] \in Seq(Items) /\ From(n) /\ To(n) /\ Once(n)
    <3>1. n <= Len(fields)
      BY <1>2
    <3> HIDE DEF From, To, Once
    <3>2. QED BY <3>1, <1>4
  <2>2. n + 1 \in 1 .. Len(fields) /\ (n + 1) - 1 = n
    BY <1>2
  <2>3. F[n + 1] = WriteStep(fields, items, F[n], fields[n + 1])
    BY <1>1, <2>2
  <2>4. \A k \in 1 .. n : k \in 1 .. n + 1
    OBVIOUS
  <2>5. CASE fields[n + 1] \notin DOMAIN items
    <3>1. F[n + 1] = F[n]
      BY <2>3, <2>5 DEF WriteStep
    <3>2. From(n + 1)
      BY <3>1, <2>1, <2>4
    <3>3. To(n + 1)
      <4>1. \A k \in 1 .. n + 1 : fields[k] \in DOMAIN items => k \in 1 .. n
        BY <2>5
      <4>2. QED BY <4>1, <3>1, <2>1
    <3>4. Once(n + 1)
      BY <3>1, <2>1
    <3> HIDE DEF From, To, Once
    <3>5. QED BY <3>1, <3>2, <3>3, <3>4, <2>1
  <2>6. CASE fields[n + 1] \in DOMAIN items
    <3> DEFINE item == items[fields[n + 1]]
    <3>1. item \in Items /\ F[n + 1] = Append(F[n], item)
      BY <2>3, <2>6, <1>2a DEF WriteStep
    <3>2. Len(F[n]) \in Nat
      BY <2>1
    <3>3. /\ F[n + 1] \in Seq(Items) /\ Len(F[n + 1]) = Len(F[n]) + 1
          /\ F[n + 1][Len(F[n]) + 1] = item
          /\ \A i \in 1 .. Len(F[n]) : F[n + 1][i] = F[n][i]
      <4> HIDE DEF item
      <4>1. QED BY <3>1, <2>1, AppendProperties
    <3>4. \A i \in 1 .. Len(F[n + 1]) : i \in 1 .. Len(F[n]) \/ i = Len(F[n]) + 1
      BY <3>2, <3>3
    <3>5. n + 1 \in 1 .. n + 1
      OBVIOUS
    <3>6. From(n + 1)
      <4>1. ASSUME NEW i \in 1 .. Len(F[n]) PROVE
              \E k \in 1 .. n + 1 : fields[k] \in DOMAIN items /\ F[n + 1][i] = items[fields[k]]
        <5>1. PICK k \in 1 .. n : fields[k] \in DOMAIN items /\ F[n][i] = items[fields[k]]
          BY <2>1
        <5>2. QED BY <5>1, <3>3, <2>4
      <4>2. QED BY <4>1, <3>3, <3>4, <3>5, <2>6
    <3>7. To(n + 1)
      <4>1. \A k \in 1 .. n + 1 : k \in 1 .. n \/ k = n + 1
        OBVIOUS
      <4>2. \A i \in 1 .. Len(F[n]) : i \in 1 .. Len(F[n + 1])
        BY <3>2, <3>3
      <4>3. Len(F[n]) + 1 \in 1 .. Len(F[n + 1])
        BY <3>2, <3>3
      <4>4. ASSUME NEW k \in 1 .. n, fields[k] \in DOMAIN items
            PROVE  \E i \in 1 .. Len(F[n + 1]) : F[n + 1][i] = items[fields[k]]
        <5>1. PICK i \in 1 .. Len(F[n]) : F[n][i] = items[fields[k]]
          BY <4>4, <2>1
        <5>2. QED BY <5>1, <3>3, <4>2
      <4>5. QED BY <4>1, <4>3, <4>4, <3>3
    <3>8. Once(n + 1)
      <4>1. ASSUME NEW i \in 1 .. Len(F[n]) PROVE F[n][i][1] # item[1]
        <5>1. PICK k \in 1 .. n : fields[k] \in DOMAIN items /\ F[n][i] = items[fields[k]]
          BY <2>1
        <5>2. k # n + 1 /\ k \in 1 .. Len(fields)
          BY <1>2, <2>2
        <5>3. fields[k] # fields[n + 1]
          BY <5>2, <2>2
        <5>4. QED BY <5>1, <5>3, <2>6
      <4> HIDE DEF item
      <4>2. ASSUME NEW i \in 1 .. Len(F[n + 1]), NEW j \in 1 .. Len(F[n + 1]),
                   F[n + 1][i][1] = F[n + 1][j][1]
            PROVE  i = j
        <5>1. CASE i \in 1 .. Len(F[n]) /\ j \in 1 .. Len(F[n])
          BY <5>1, <4>2, <3>3, <2>1
        <5>2. CASE i \in 1 .. Len(F[n]) /\ j = Len(F[n]) + 1
          BY <5>2, <4>1, <4>2, <3>3
        <5>3. CASE j \in 1 .. Len(F[n]) /\ i = Len(F[n]) + 1
          BY <5>3, <4>1, <4>2, <3>3
        <5>4. QED BY <5>1, <5>2, <5>3, <3>4
      <4>3. QED BY <4>2
    <3> HIDE DEF From, To, Once
    <3>9. QED BY <3>3, <3>6, <3>7, <3>8
  <2>7. QED BY <2>5, <2>6
<1>5. Len(fields) \in S
  <2> HIDE DEF S
  <2>1. QED BY <1>2, <1>3, <1>4, SetInduction
<1>6. F[Len(fields)] \in Seq(Items) /\ From(Len(fields)) /\ To(Len(fields)) /\ Once(Len(fields))
  BY <1>2, <1>5
<1>7. \A f \in DOMAIN items : \E k \in 1 .. Len(fields) : fields[k] = f
  OBVIOUS
<1> DEFINE W == Written(fields, items)
<1>8. W = F[Len(fields)]
  BY <1>1
<1>9. ASSUME NEW i \in 1 .. Len(W) PROVE \E f \in DOMAIN items : W[i] = items[f]
  <2> HIDE DEF W
  <2>1. \A j \in 1 .. Len(F[Len(fields)]) : \E k \in 1 .. Len(fields) :
          fields[k] \in DOMAIN items /\ F[Len(fields)][j] = items[fields[k]]
    BY <1>6
  <2>2. PICK k \in 1 .. Len(fields) :
          fields[k] \in DOMAIN items /\ F[Len(fields)][i] = items[fields[k]]
    BY <1>8, <2>1
  <2>3. QED BY <1>8, <2>2
<1>10. ASSUME NEW f \in DOMAIN items PROVE \E i \in 1 .. Len(W) : W[i] = items[f]
  <2>1. PICK k \in 1 .. Len(fields) : fields[k] = f
    BY <1>7
  <2> HIDE DEF W
  <2>2. QED BY <2>1, <1>6, <1>8
<1>11. W \in Seq(Items) /\ \A i, j \in 1 .. Len(W) : W[i][1] = W[j][1] => i = j
  <2> HIDE DEF W
  <2>1. QED BY <1>6, <1>8
<1>12. Len(W) \in Nat /\ DOMAIN W = 1 .. Len(W)
  <2> HIDE DEF W
  <2>1. QED BY <1>11
<1> HIDE DEF From, To, Once, S, W
<1>13. WrittenOnce(W, items)
  BY <1>9, <1>10, <1>11, <1>12 DEF WrittenOnce
<1>14. QED BY <1>13 DEF W

\* A set of numbers up to n has a greatest.
LEMMA MaxIn ==
  ASSUME NEW n \in Nat, NEW s \in SUBSET (1 .. n), s # {}
  PROVE  Max(s) \in s
<1> DEFINE S == {k \in Nat : \A x \in SUBSET (1 .. k) : x # {} => \E y \in x : \A z \in x : y >= z}
<1>1. 0 \in S
  <2>1. 1 .. 0 = {}
    OBVIOUS
  <2>2. QED BY <2>1
<1>2. ASSUME NEW k \in Nat, k \in S PROVE k + 1 \in S
  <2> SUFFICES ASSUME NEW x \in SUBSET (1 .. k + 1), x # {}
               PROVE  \E y \in x : \A z \in x : y >= z
    OBVIOUS
  <2>1. CASE k + 1 \in x
    <3>1. \A z \in x : k + 1 >= z
      OBVIOUS
    <3>2. QED BY <2>1, <3>1
  <2>2. CASE k + 1 \notin x
    <3>1. x \in SUBSET (1 .. k)
      BY <2>2
    <3>2. QED BY <3>1, <1>2
  <2>3. QED BY <2>1, <2>2
<1>3. n \in S
  <2> HIDE DEF S
  <2>1. QED BY <1>1, <1>2, SetInduction
<1>4. PICK y \in s : \A z \in s : y >= z
  BY <1>3
<1>5. QED BY <1>4 DEF Max

\* The greatest of a set of one.
LEMMA MaxOfOne ==
  ASSUME NEW k, k \in Nat
  PROVE  Max({k}) = k
<1>1. k \in {k} /\ \A y \in {k} : k >= y
  OBVIOUS
<1>2. Max({k}) \in {k}
  BY <1>1 DEF Max
<1>3. QED BY <1>2

\* The members after the changes; the value of one that no change has, and of
\* one that changes have.
Numbered(changes) == \E n \in Nat : DOMAIN changes = 1 .. n

WithMembers(obj, changes, n) == DOMAIN obj \cup UNION {DOMAIN changes[i] : i \in 1 .. n}

\* The members an object has after the changes,
LEMMA ChangedMembers ==
  ASSUME NEW obj, NEW n \in Nat, NEW changes, DOMAIN changes = 1 .. n
  PROVE  DOMAIN Changed(obj, changes) = WithMembers(obj, changes, n)
  BY DEF Changed, WithMembers

\* the value of one that no change has,
LEMMA ChangedNot ==
  ASSUME NEW obj, NEW n \in Nat, NEW changes, DOMAIN changes = 1 .. n,
         NEW m \in DOMAIN obj, \A i \in 1 .. n : m \notin DOMAIN changes[i]
  PROVE  Changed(obj, changes)[m] = obj[m]
<1> DEFINE of(x) == {i \in DOMAIN changes : x \in DOMAIN changes[i]}
           all == DOMAIN obj \cup UNION {DOMAIN changes[i] : i \in DOMAIN changes}
<1>1. Changed(obj, changes) =
        [x \in all |-> IF of(x) = {} THEN obj[x] ELSE changes[Max(of(x))][x]]
  BY DEF Changed
<1>2. of(m) = {} /\ m \in all
  OBVIOUS
<1> HIDE DEF of, all
<1>3. QED BY <1>1, <1>2

\* and that of one that some change has.
LEMMA ChangedSome ==
  ASSUME NEW obj, NEW changes, Numbered(changes), NEW m, NEW k \in DOMAIN changes,
         m \in DOMAIN changes[k]
  PROVE  \E i \in DOMAIN changes :
            m \in DOMAIN changes[i] /\ Changed(obj, changes)[m] = changes[i][m]
<1>a. PICK n \in Nat : DOMAIN changes = 1 .. n
  BY DEF Numbered
<1> DEFINE of(x) == {j \in DOMAIN changes : x \in DOMAIN changes[j]}
           all == DOMAIN obj \cup UNION {DOMAIN changes[j] : j \in DOMAIN changes}
<1>1. Changed(obj, changes) =
        [x \in all |-> IF of(x) = {} THEN obj[x] ELSE changes[Max(of(x))][x]]
  BY DEF Changed
<1>2. of(m) # {} /\ m \in all
  OBVIOUS
<1>3. Max(of(m)) \in of(m)
  <2>1. of(m) \subseteq 1 .. n
    BY <1>a
  <2> HIDE DEF of
  <2>2. QED BY <1>2, <2>1, MaxIn
<1>4. \A j \in of(m) : j \in DOMAIN changes /\ m \in DOMAIN changes[j]
  OBVIOUS
<1> HIDE DEF of, all
<1>5. Changed(obj, changes)[m] = changes[Max(of(m))][m]
  BY <1>1, <1>2
<1>6. QED BY <1>3, <1>4, <1>5

-----------------------------------------------------------------------------
(* Tables and wires.                                                        *)

\* The fields of a descriptor differ in number, tag and member.
GoodFields(msg) ==
  /\ msg.fields \in Seq(ToSet(msg.fields))
  /\ \A i, j \in 1 .. Len(msg.fields) : msg.fields[i] = msg.fields[j] => i = j
  /\ \A f \in ToSet(msg.fields) : f.id \in Nat /\ Tag(f) \div 8 = f.id
  /\ \A f, g \in ToSet(msg.fields) : f.id = g.id \/ f.member = g.member => f = g

\* The struct has a place for each, and one for the flag of an optional one.
GoodStruct(msg) ==
  /\ \A f \in ToSet(msg.fields) : f.member \in DOMAIN InitValue(msg.struct)
  /\ \A f \in ToSet(msg.fields) : ~ f.required =>
       /\ f.quantifier \in DOMAIN InitValue(msg.struct)
       /\ InitValue(msg.struct)[f.quantifier] = FALSE
       /\ \A g \in ToSet(msg.fields) : /\ f.quantifier # g.member
                                       /\ ~ g.required /\ f.quantifier = g.quantifier => f = g

\* A class of C++ writes, and reads, what the descriptor of C says.
WritesAgree(class, msg) ==
  /\ class.writes \in Seq(ToSet(class.writes))
  /\ \A i, j \in 1 .. Len(class.writes) : class.writes[i] = class.writes[j] => i = j
  /\ \A w \in ToSet(class.writes) : \E f \in ToSet(msg.fields) : WriteTag(w) = Tag(f) /\ w[3] = f.member
  /\ \A f \in ToSet(msg.fields) : \E w \in ToSet(class.writes) : WriteTag(w) = Tag(f) /\ w[3] = f.member
  /\ \A w, x \in ToSet(class.writes) : w[3] = x[3] => w = x
ReadsAgree(class, msg) ==
  /\ \A f \in ToSet(msg.fields) : <<Tag(f), f.member>> \in ToSet(class.reads)
  /\ \A t \in ToSet(class.reads) : \E f \in ToSet(msg.fields) : t = <<Tag(f), f.member>>
\* The has-bits asked for are those of the required fields.
MaskAgrees(class, msg) ==
  \A members : class.mask \subseteq {class.bits[m] : m \in members \cap DOMAIN class.bits}
                 <=> \A f \in ToSet(msg.fields) : f.required => f.member \in members

\* wire holds the value of each field in `present', once, and nothing else.
IsWire(msg, wire, present, value) ==
  /\ present \subseteq ToSet(msg.fields)
  /\ Len(wire) \in Nat /\ DOMAIN wire = 1 .. Len(wire)
  /\ \A i \in 1 .. Len(wire) : \E f \in present : wire[i] = <<Tag(f), value[f]>>
  /\ \A f \in present : \E i \in 1 .. Len(wire) : wire[i] = <<Tag(f), value[f]>>
  /\ \A i, j \in 1 .. Len(wire) : wire[i][1] = wire[j][1] => i = j

\* The elements of a sequence are those at its indices.
LEMMA InToSet ==
  ASSUME NEW S, NEW s \in Seq(S)
  PROVE  /\ ToSet(s) = {s[i] : i \in 1 .. Len(s)}
         /\ \A x \in ToSet(s) : \E i \in 1 .. Len(s) : s[i] = x
  BY DEF ToSet

\* A tag names one field: proto3 numbers the fields of a message apart.
LEMMA TagsDiffer ==
  ASSUME NEW msg, GoodFields(msg), NEW f \in ToSet(msg.fields), NEW g \in ToSet(msg.fields),
         Tag(f) = Tag(g) \/ Tag(f) \div 8 = g.id
  PROVE  f = g
<1>1. Tag(f) \div 8 = f.id /\ Tag(g) \div 8 = g.id
  BY DEF GoodFields
<1>2. f.id = g.id
  BY <1>1
<1>3. QED BY <1>2 DEF GoodFields

\* What SerializeWithCachedSizes writes is a wire of the members that are set.
LEMMA SerializeWire ==
  ASSUME NEW msg, GoodFields(msg), NEW class, WritesAgree(class, msg), NEW obj
  PROVE  IsWire(msg, Serialize(class, obj), {f \in ToSet(msg.fields) : Has(obj, f.member)},
                [f \in {g \in ToSet(msg.fields) : Has(obj, g.member)} |-> obj[f.member]])
<1> DEFINE W == ToSet(class.writes)
           items == [w \in {x \in W : Has(obj, x[3])} |-> <<WriteTag(w), obj[w[3]]>>]
           present == {f \in ToSet(msg.fields) : Has(obj, f.member)}
           value == [f \in present |-> obj[f.member]]
           wire == Written(class.writes, items)
<1>1. class.writes \in Seq(W)
  BY DEF WritesAgree
<1>2. \A i, j \in 1 .. Len(class.writes) : class.writes[i] = class.writes[j] => i = j
  BY DEF WritesAgree
<1>3. \A w \in DOMAIN items : \E i \in 1 .. Len(class.writes) : class.writes[i] = w
  BY <1>1, InToSet
<1>4. ASSUME NEW w \in DOMAIN items, NEW x \in DOMAIN items, items[w][1] = items[x][1] PROVE w = x
  <2>1. WriteTag(w) = WriteTag(x) /\ w \in W /\ x \in W
    BY <1>4
  <2>2. PICK f \in ToSet(msg.fields) : WriteTag(w) = Tag(f) /\ w[3] = f.member
    BY <2>1 DEF WritesAgree
  <2>3. PICK g \in ToSet(msg.fields) : WriteTag(x) = Tag(g) /\ x[3] = g.member
    BY <2>1 DEF WritesAgree
  <2>4. f = g
    BY <2>1, <2>2, <2>3, TagsDiffer
  <2>5. QED BY <2>1, <2>2, <2>3, <2>4 DEF WritesAgree
<1>5. Serialize(class, obj) = wire
  BY DEF Serialize
<1>6. \A w \in DOMAIN items : \E f \in present : items[w] = <<Tag(f), value[f]>>
  <2> SUFFICES ASSUME NEW w \in DOMAIN items PROVE \E f \in present : items[w] = <<Tag(f), value[f]>>
    OBVIOUS
  <2>1. w \in W /\ Has(obj, w[3]) /\ items[w] = <<WriteTag(w), obj[w[3]]>>
    OBVIOUS
  <2>2. PICK f \in ToSet(msg.fields) : WriteTag(w) = Tag(f) /\ w[3] = f.member
    BY <2>1 DEF WritesAgree
  <2>3. f \in present /\ value[f] = obj[f.member]
    BY <2>1, <2>2
  <2>4. QED BY <2>1, <2>2, <2>3
<1>7. \A f \in present : \E w \in DOMAIN items : items[w] = <<Tag(f), value[f]>>
  <2> SUFFICES ASSUME NEW f \in present PROVE \E w \in DOMAIN items : items[w] = <<Tag(f), value[f]>>
    OBVIOUS
  <2>1. PICK w \in W : WriteTag(w) = Tag(f) /\ w[3] = f.member
    BY DEF WritesAgree
  <2>2. w \in DOMAIN items /\ items[w] = <<WriteTag(w), obj[w[3]]>> /\ value[f] = obj[f.member]
    BY <2>1
  <2>3. QED BY <2>1, <2>2
<1> HIDE DEF items, W
<1>8. WrittenOnce(wire, items)
  BY <1>1, <1>2, <1>3, <1>4, WrittenItems
<1> HIDE DEF wire, value
<1>9. IsWire(msg, wire, present, value)
  <2>1. \A i \in 1 .. Len(wire) : \E f \in present : wire[i] = <<Tag(f), value[f]>>
    BY <1>6, <1>8 DEF WrittenOnce
  <2>2. \A f \in present : \E i \in 1 .. Len(wire) : wire[i] = <<Tag(f), value[f]>>
    BY <1>7, <1>8 DEF WrittenOnce
  <2>3. QED BY <1>8, <2>1, <2>2 DEF WrittenOnce, IsWire
<1>10. QED BY <1>5, <1>9 DEF value

\* What is packed: the same for the members of an object and of the outer one.
LEMMA WrittenWire ==
  ASSUME NEW msg, GoodFields(msg), NEW present \in SUBSET ToSet(msg.fields), NEW value
  PROVE  IsWire(msg, Written(msg.fields, [f \in present |-> <<Tag(f), value[f]>>]), present, value)
<1> DEFINE F == ToSet(msg.fields)
           items == [f \in present |-> <<Tag(f), value[f]>>]
           wire == Written(msg.fields, items)
<1>1. msg.fields \in Seq(F) /\ \A i, j \in 1 .. Len(msg.fields) : msg.fields[i] = msg.fields[j] => i = j
  BY DEF GoodFields
<1>2. \A f \in DOMAIN items : \E i \in 1 .. Len(msg.fields) : msg.fields[i] = f
  BY <1>1, InToSet
<1>3. ASSUME NEW f \in DOMAIN items, NEW g \in DOMAIN items, items[f][1] = items[g][1] PROVE f = g
  <2>1. f \in F /\ g \in F /\ Tag(f) = Tag(g)
    BY <1>3
  <2>2. QED BY <2>1, TagsDiffer
<1>4. DOMAIN items = present /\ \A f \in present : items[f] = <<Tag(f), value[f]>>
  OBVIOUS
<1> HIDE DEF items, F
<1>5. WrittenOnce(wire, items)
  BY <1>1, <1>2, <1>3, WrittenItems
<1> HIDE DEF wire
<1>6. IsWire(msg, wire, present, value)
  <2>1. \A i \in 1 .. Len(wire) : \E f \in present : wire[i] = <<Tag(f), value[f]>>
    BY <1>4, <1>5 DEF WrittenOnce
  <2>2. \A f \in present : \E i \in 1 .. Len(wire) : wire[i] = <<Tag(f), value[f]>>
    BY <1>4, <1>5 DEF WrittenOnce
  <2>3. QED BY <1>5, <2>1, <2>2 DEF WrittenOnce, IsWire
<1>7. QED BY <1>6 DEF wire, items

\* What protobuf_c_message_pack writes is a wire of the required fields and of
\* those whose has_ flag is set.
LEMMA PackWire ==
  ASSUME NEW msg, GoodFields(msg), NEW obj
  PROVE  LET present == {f \in ToSet(msg.fields) : f.required \/ obj[f.quantifier]}
         IN  IsWire(msg, Pack(msg, obj), present, [f \in present |-> obj[f.member]])
<1> DEFINE present == {f \in ToSet(msg.fields) : f.required \/ obj[f.quantifier]}
           value == [f \in present |-> obj[f.member]]
           items == [f \in present |-> <<Tag(f), value[f]>>]
<1>1. items = [f \in present |-> <<Tag(f), obj[f.member]>>]
  OBVIOUS
<1>2. Pack(msg, obj) = Written(msg.fields, items)
  BY <1>1 DEF Pack
<1>3. present \in SUBSET ToSet(msg.fields)
  OBVIOUS
<1> HIDE DEF present, value
<1>4. IsWire(msg, Written(msg.fields, items), present, value)
  BY <1>3, WrittenWire
<1>5. QED BY <1>2, <1>4 DEF present, value

\* Null or not: whether each required field is there.
LEMMA UnpacksWire ==
  ASSUME NEW msg, GoodFields(msg), NEW wire, NEW present, NEW value,
         IsWire(msg, wire, present, value)
  PROVE  Unpacks(msg, wire) <=> \A f \in ToSet(msg.fields) : f.required => f \in present
<1> DEFINE F == ToSet(msg.fields)
<1>1. /\ \A it \in ToSet(wire) : \E f \in present : it = <<Tag(f), value[f]>>
      /\ \A f \in present : <<Tag(f), value[f]>> \in ToSet(wire)
  <2>1. ToSet(wire) = {wire[i] : i \in 1 .. Len(wire)}
    BY DEF ToSet, IsWire
  <2> DEFINE n == Len(wire)
  <2>2. /\ \A i \in 1 .. n : \E f \in present : wire[i] = <<Tag(f), value[f]>>
        /\ \A f \in present : \E i \in 1 .. n : wire[i] = <<Tag(f), value[f]>>
    BY DEF IsWire
  <2>3. ASSUME NEW it \in ToSet(wire) PROVE \E f \in present : it = <<Tag(f), value[f]>>
    <3>1. PICK i \in 1 .. n : it = wire[i]
      BY <2>1
    <3> HIDE DEF n
    <3>2. QED BY <3>1, <2>2
  <2>4. ASSUME NEW f \in present PROVE <<Tag(f), value[f]>> \in ToSet(wire)
    <3>1. PICK i \in 1 .. n : wire[i] = <<Tag(f), value[f]>>
      BY <2>2
    <3>2. wire[i] \in ToSet(wire)
      BY <2>1
    <3>3. QED BY <3>1, <3>2
  <2>5. QED BY <2>3, <2>4
<1>2. present \subseteq F
  BY DEF IsWire
<1>3. ASSUME NEW f \in F, NEW it \in ToSet(wire), it[1] \div 8 = f.id PROVE it[1] = Tag(f) /\ f \in present
  <2>1. PICK g \in present : it = <<Tag(g), value[g]>>
    BY <1>1
  <2>2. f = g
    BY <1>2, <1>3, <2>1, TagsDiffer
  <2>3. QED BY <2>1, <2>2
<1>4. ASSUME NEW f \in present PROVE \E it \in ToSet(wire) : it[1] \div 8 = f.id
  <2>1. Tag(f) \div 8 = f.id
    BY <1>2 DEF GoodFields
  <2>2. QED BY <1>1, <2>1
<1> HIDE DEF F
<1>5. QED BY <1>2, <1>3, <1>4 DEF Unpacks, F

\* A change sets the member of f to v, and its quantifier where it has one.
SetsField(change, f, v) ==
  /\ \A m : m \in DOMAIN change <=> m = f.member \/ (~ f.required /\ m = f.quantifier)
  /\ change[f.member] = v
  /\ ~ f.required => change[f.quantifier] = TRUE

\* The members of the object, and the flags.
LEMMA UnpackWire ==
  ASSUME NEW msg, GoodFields(msg), GoodStruct(msg), NEW wire, NEW present, NEW value,
         IsWire(msg, wire, present, value)
  PROVE  /\ \A f \in ToSet(msg.fields) :
              /\ Unpack(msg, wire)[f.member]
                   = IF f \in present THEN value[f] ELSE InitValue(msg.struct)[f.member]
              /\ ~ f.required => Unpack(msg, wire)[f.quantifier] = (f \in present)
         /\ DOMAIN Unpack(msg, wire) = DOMAIN InitValue(msg.struct)
<1> DEFINE F == ToSet(msg.fields)
           base == InitValue(msg.struct)
           fields(tag) == {f \in F : Tag(f) = tag}
           members(tag) == {f.member : f \in fields(tag)}
           has(tag) == {f.quantifier : f \in {g \in fields(tag) : ~ g.required}}
           n == Len(wire)
           changes == [i \in DOMAIN wire |->
                         [m \in members(wire[i][1]) \cup has(wire[i][1]) |->
                            IF m \in members(wire[i][1]) THEN wire[i][2] ELSE TRUE]]
<1>1. Unpack(msg, wire) = Changed(base, changes)
  BY DEF Unpack
<1>2. n \in Nat /\ DOMAIN changes = 1 .. n /\ DOMAIN wire = 1 .. n
  BY DEF IsWire
<1>3. ASSUME NEW i \in 1 .. n, NEW f \in present, wire[i] = <<Tag(f), value[f]>>
      PROVE  SetsField(changes[i], f, value[f])
  <2>1. f \in F
    BY DEF IsWire
  <2>2. fields(Tag(f)) = {f}
    BY <2>1, TagsDiffer
  <2>3. /\ members(Tag(f)) = {f.member}
        /\ \A m : m \in has(Tag(f)) <=> ~ f.required /\ m = f.quantifier
    BY <2>2
  <2>4. wire[i][1] = Tag(f) /\ wire[i][2] = value[f]
    BY <1>3
  <2>5. ~ f.required => f.quantifier # f.member
    BY <2>1 DEF GoodStruct
  <2> HIDE DEF members, has
  <2>6. changes[i] = [m \in members(Tag(f)) \cup has(Tag(f)) |->
                        IF m \in members(Tag(f)) THEN value[f] ELSE TRUE]
    BY <1>2, <2>4
  <2>7. DOMAIN changes[i] = members(Tag(f)) \cup has(Tag(f))
    BY <2>6
  <2>8. changes[i][f.member] = value[f]
    BY <2>3, <2>6
  <2>9. ~ f.required => changes[i][f.quantifier] = TRUE
    BY <2>3, <2>5, <2>6
  <2> HIDE DEF changes
  <2>10. QED BY <2>3, <2>7, <2>8, <2>9 DEF SetsField
<1>4. \A i \in 1 .. n : \E f \in present : f \in F /\ wire[i] = <<Tag(f), value[f]>>
  BY DEF IsWire
<1>5. \A f \in present : \E i \in 1 .. n : wire[i] = <<Tag(f), value[f]>>
  BY DEF IsWire
<1>6. \A i, j \in 1 .. n : wire[i][1] = wire[j][1] => i = j
  BY DEF IsWire
<1> HIDE DEF changes, n
\* Whose change a member is
<1>7. ASSUME NEW f \in F, NEW i \in 1 .. n, NEW m, m \in DOMAIN changes[i],
             m = f.member \/ (~ f.required /\ m = f.quantifier)
      PROVE  f \in present /\ wire[i] = <<Tag(f), value[f]>>
  <2>1. PICK g \in present : g \in F /\ wire[i] = <<Tag(g), value[g]>>
    BY <1>4
  <2>2. m = g.member \/ (~ g.required /\ m = g.quantifier)
    <3>1. SetsField(changes[i], g, value[g])
      BY <1>3, <2>1
    <3>2. QED BY <3>1, <1>7 DEF SetsField
  <2>3. f = g
    <3>1. CASE m = f.member /\ m = g.member
      BY <3>1, <2>1 DEF GoodFields
    <3>2. CASE m = f.member /\ ~ g.required /\ m = g.quantifier
      BY <3>2, <2>1 DEF GoodStruct
    <3>3. CASE ~ f.required /\ m = f.quantifier /\ m = g.member
      BY <3>3, <2>1 DEF GoodStruct
    <3>4. CASE ~ f.required /\ m = f.quantifier /\ ~ g.required /\ m = g.quantifier
      BY <3>4, <2>1 DEF GoodStruct
    <3>5. QED BY <1>7, <2>2, <3>1, <3>2, <3>3, <3>4
  <2>4. QED BY <2>1, <2>3
<1>8. ASSUME NEW f \in F, NEW m, m = f.member \/ (~ f.required /\ m = f.quantifier),
             f \notin present
      PROVE  Changed(base, changes)[m] = base[m]
  <2>1. \A i \in 1 .. n : m \notin DOMAIN changes[i]
    BY <1>7, <1>8
  <2>2. m \in DOMAIN base
    BY <1>8 DEF GoodStruct
  <2> HIDE DEF base
  <2>3. QED BY <2>1, <2>2, <1>2, ChangedNot
<1>9. ASSUME NEW f \in present, NEW m, m = f.member \/ (~ f.required /\ m = f.quantifier)
      PROVE  Changed(base, changes)[m] = IF m = f.member THEN value[f] ELSE TRUE
  <2>1. f \in F
    BY DEF IsWire
  <2>2. PICK i \in 1 .. n : wire[i] = <<Tag(f), value[f]>>
    BY <1>5
  <2>3. SetsField(changes[i], f, value[f])
    BY <1>3, <2>2
  <2>4. m \in DOMAIN changes[i] /\ changes[i][m] = IF m = f.member THEN value[f] ELSE TRUE
    BY <1>9, <2>3 DEF SetsField
  <2>5. ASSUME NEW j \in 1 .. n, m \in DOMAIN changes[j] PROVE j = i
    <3>1. wire[j] = <<Tag(f), value[f]>>
      BY <1>7, <1>9, <2>1, <2>5
    <3>2. wire[j][1] = wire[i][1]
      BY <2>2, <3>1
    <3>3. QED BY <3>2, <1>6
  <2> HIDE DEF base
  <2>6. Changed(base, changes)[m] = changes[i][m]
    <3>1. Numbered(changes) /\ i \in DOMAIN changes
      BY <1>2 DEF Numbered
    <3>2. PICK j \in DOMAIN changes :
            m \in DOMAIN changes[j] /\ Changed(base, changes)[m] = changes[j][m]
      BY <2>4, <3>1, ChangedSome
    <3>3. QED BY <1>2, <2>5, <3>2
  <2>7. QED BY <2>4, <2>6
<1>10. ASSUME NEW f \in F
       PROVE  /\ Changed(base, changes)[f.member] = IF f \in present THEN value[f] ELSE base[f.member]
              /\ ~ f.required => Changed(base, changes)[f.quantifier] = (f \in present)
  <2>1. ~ f.required => base[f.quantifier] = FALSE /\ f.quantifier # f.member
    BY DEF GoodStruct
  <2> HIDE DEF base
  <2>2. CASE f \in present
    BY <2>1, <2>2, <1>9
  <2>3. CASE f \notin present
    <3>1. Changed(base, changes)[f.member] = base[f.member]
      BY <2>3, <1>8
    <3>2. ~ f.required => Changed(base, changes)[f.quantifier] = base[f.quantifier]
      BY <2>3, <1>8
    <3>3. (f \in present) = FALSE
      BY <2>3
    <3>4. ~ f.required => Changed(base, changes)[f.quantifier] = (f \in present)
      BY <2>1, <3>2, <3>3
    <3>5. QED BY <2>3, <3>1, <3>4
  <2>4. QED BY <2>2, <2>3
<1>11. DOMAIN Changed(base, changes) = DOMAIN base
  <2>1. ASSUME NEW i \in 1 .. n PROVE DOMAIN changes[i] \subseteq DOMAIN base
    <3>1. PICK f \in present : f \in F /\ wire[i] = <<Tag(f), value[f]>>
      BY <1>4
    <3>2. SetsField(changes[i], f, value[f])
      BY <1>3, <3>1
    <3>3. f.member \in DOMAIN base /\ (~ f.required => f.quantifier \in DOMAIN base)
      BY <3>1 DEF GoodStruct
    <3>4. QED BY <3>2, <3>3 DEF SetsField
  <2> HIDE DEF base
  <2>2. DOMAIN Changed(base, changes) = WithMembers(base, changes, n)
    BY <1>2, ChangedMembers
  <2>3. QED BY <2>1, <2>2 DEF WithMembers
<1>12. QED BY <1>1, <1>10, <1>11

\* The member of a tag.
LEMMA TagMembers ==
  ASSUME NEW msg, GoodFields(msg), NEW class, ReadsAgree(class, msg), NEW f \in ToSet(msg.fields)
  PROVE  {t[2] : t \in {u \in ToSet(class.reads) : u[1] = Tag(f)}} = {f.member}
<1> DEFINE R == ToSet(class.reads)
<1>1. <<Tag(f), f.member>> \in R
  BY DEF ReadsAgree
<1>2. ASSUME NEW t \in R, t[1] = Tag(f) PROVE t[2] = f.member
  <2>1. PICK g \in ToSet(msg.fields) : t = <<Tag(g), g.member>>
    BY DEF ReadsAgree
  <2>2. Tag(f) = Tag(g) /\ t[2] = g.member
    BY <1>2, <2>1
  <2>3. f = g
    BY <2>2, TagsDiffer
  <2>4. QED BY <2>2, <2>3
<1>3. <<Tag(f), f.member>>[1] = Tag(f) /\ <<Tag(f), f.member>>[2] = f.member
  OBVIOUS
<1> HIDE DEF R
<1>4. {t[2] : t \in {u \in R : u[1] = Tag(f)}} = {f.member}
  BY <1>1, <1>2, <1>3
<1>5. QED BY <1>4 DEF R

\* The members that are parsed.
LEMMA MergeWire ==
  ASSUME NEW msg, GoodFields(msg), NEW class, ReadsAgree(class, msg),
         NEW wire, NEW present, NEW value, IsWire(msg, wire, present, value)
  PROVE  /\ \A m : m \in DOMAIN MergePartial(class, Nothing, wire) <=> \E f \in present : m = f.member
         /\ \A f \in present : MergePartial(class, Nothing, wire)[f.member] = value[f]
<1> DEFINE F == ToSet(msg.fields)
           R == ToSet(class.reads)
           members(tag) == {t[2] : t \in {u \in R : u[1] = tag}}
           n == Len(wire)
           changes == [i \in DOMAIN wire |-> [m \in members(wire[i][1]) |-> wire[i][2]]]
           read == Changed(Nothing, changes)
<1>1. MergePartial(class, Nothing, wire) = read
  BY DEF MergePartial
<1>2. n \in Nat /\ DOMAIN changes = 1 .. n /\ DOMAIN wire = 1 .. n
  BY DEF IsWire
<1>3. ASSUME NEW i \in 1 .. n, NEW f \in present, wire[i] = <<Tag(f), value[f]>>
      PROVE  DOMAIN changes[i] = {f.member} /\ changes[i][f.member] = value[f]
  <2>1. f \in F
    BY DEF IsWire
  <2>2. members(Tag(f)) = {f.member}
    BY <2>1, TagMembers
  <2>3. wire[i][1] = Tag(f) /\ wire[i][2] = value[f]
    BY <1>3
  <2> HIDE DEF members
  <2>4. changes[i] = [m \in members(Tag(f)) |-> value[f]]
    BY <1>2, <2>3
  <2>5. QED BY <2>2, <2>4
<1>4. \A i \in 1 .. n : \E f \in present : f \in F /\ wire[i] = <<Tag(f), value[f]>>
  BY DEF IsWire
<1>5. \A f \in present : f \in F /\ \E i \in 1 .. n : wire[i] = <<Tag(f), value[f]>>
  BY DEF IsWire
<1>6. \A i, j \in 1 .. n : wire[i][1] = wire[j][1] => i = j
  BY DEF IsWire
<1> HIDE DEF changes, n
<1>7. DOMAIN read = {f.member : f \in present}
  <2>1. DOMAIN read = WithMembers(Nothing, changes, n)
    BY <1>2, ChangedMembers
  <2>2. DOMAIN Nothing = {}
    BY DEF Nothing
  <2>3. ASSUME NEW i \in 1 .. n PROVE DOMAIN changes[i] \subseteq {f.member : f \in present}
    BY <1>3, <1>4
  <2>4. ASSUME NEW f \in present PROVE \E i \in 1 .. n : f.member \in DOMAIN changes[i]
    BY <1>3, <1>5
  <2> HIDE DEF read
  <2>5. QED BY <2>1, <2>2, <2>3, <2>4 DEF WithMembers
<1>8. ASSUME NEW f \in present PROVE read[f.member] = value[f]
  <2>1. PICK i \in 1 .. n : wire[i] = <<Tag(f), value[f]>>
    BY <1>5
  <2>2. f.member \in DOMAIN changes[i] /\ changes[i][f.member] = value[f]
    BY <1>3, <2>1
  <2>3. ASSUME NEW j \in 1 .. n, f.member \in DOMAIN changes[j] PROVE j = i
    <3>1. PICK g \in present : g \in F /\ wire[j] = <<Tag(g), value[g]>>
      BY <1>4
    <3>2. f.member = g.member
      BY <1>3, <2>3, <3>1
    <3>3. f = g
      BY <1>5, <3>1, <3>2 DEF GoodFields
    <3>4. wire[j][1] = wire[i][1]
      BY <2>1, <3>1, <3>3
    <3>5. QED BY <3>4, <1>6
  <2> DEFINE m == f.member
  <2> HIDE DEF m
  <2>4. Numbered(changes) /\ i \in DOMAIN changes
    BY <1>2 DEF Numbered
  <2>5. PICK j \in DOMAIN changes :
          m \in DOMAIN changes[j] /\ Changed(Nothing, changes)[m] = changes[j][m]
    BY <2>2, <2>4, ChangedSome DEF m
  <2>6. j = i
    BY <1>2, <2>3, <2>5 DEF m
  <2>7. QED BY <2>2, <2>5, <2>6 DEF m
<1> HIDE DEF read
<1>9. \A m : m \in DOMAIN read <=> \E f \in present : m = f.member
  BY <1>7
<1>10. QED BY <1>1, <1>8, <1>9

\* One turn of the daemon's loop through the items of a Request.
ParseStep(top, o, item) ==
  LET call == {t[2] : t \in {u \in ToSet(top.reads) : u[1] = item[1]}} \cap DOMAIN top.calls
  IN  IF call = {} THEN MergePartial(top, o, <<item>>)
      ELSE LET c == CHOOSE m \in call : TRUE
               p == MutableCall(top, o, c)
           IN  Set(p, c, MergePartial(top.calls[c], p[c], item[2]))

ParseRun(it, top, wire, n) ==
  it = [s \in SUBSET (1 .. n) |->
          IF s = {} THEN Nothing ELSE ParseStep(top, it[s \ {Max(s)}], wire[Max(s)])]

\* MergePartialFromCodedStream has a run over every wire.
LEMMA ParseRunExists ==
  ASSUME NEW n \in Nat, NEW top, NEW wire
  PROVE  \E it : ParseRun(it, top, wire, n)
<1> DEFINE S == {k \in Nat : \E it : ParseRun(it, top, wire, k)}
<1>1. 0 \in S
  <2> DEFINE it == [s \in SUBSET (1 .. 0) |-> Nothing]
             N == [s \in SUBSET (1 .. 0) |->
                     IF s = {} THEN Nothing ELSE ParseStep(top, it[s \ {Max(s)}], wire[Max(s)])]
  <2>1. SUBSET (1 .. 0) = {{}}
    OBVIOUS
  <2>2. \A s \in SUBSET (1 .. 0) : it[s] = N[s]
    BY <2>1
  <2>3. it = N
    <3> HIDE DEF it
    <3>1. it = [s \in SUBSET (1 .. 0) |-> it[s]]
      BY DEF it
    <3> DEFINE D == SUBSET (1 .. 0)
    <3>2. N = [s \in D |-> N[s]]
      OBVIOUS
    <3> HIDE DEF N, D
    <3>3. QED BY <3>1, <3>2, <2>2 DEF D
  <2>4. ParseRun(it, top, wire, 0)
    BY <2>3 DEF ParseRun
  <2>5. QED BY <2>4
<1>2. ASSUME NEW k \in Nat, k \in S PROVE k + 1 \in S
  <2>1. PICK it : ParseRun(it, top, wire, k)
    BY <1>2
  <2> DEFINE D == SUBSET (1 .. k + 1)
             new == [s \in D |-> IF k + 1 \in s THEN ParseStep(top, it[s \ {k + 1}], wire[k + 1])
                                 ELSE it[s]]
             N == [s \in D |->
                     IF s = {} THEN Nothing ELSE ParseStep(top, new[s \ {Max(s)}], wire[Max(s)])]
  <2>2. ASSUME NEW s \in D PROVE new[s] = N[s]
    <3>1. s \subseteq 1 .. k + 1
      OBVIOUS
    <3>2. CASE k + 1 \in s
      <4>1. Max(s) = k + 1
        BY <3>1, <3>2, MaxIs
      <4>2. s \ {k + 1} \in SUBSET (1 .. k) /\ s \ {k + 1} \in D /\ k + 1 \notin s \ {k + 1}
        BY <3>1
      <4>3. new[s \ {k + 1}] = it[s \ {k + 1}]
        BY <4>2
      <4>4. N[s] = ParseStep(top, new[s \ {k + 1}], wire[k + 1])
        BY <3>2, <4>1
      <4>5. new[s] = ParseStep(top, it[s \ {k + 1}], wire[k + 1])
        BY <3>2
      <4> HIDE DEF new, N
      <4>6. QED BY <4>3, <4>4, <4>5
    <3>3. CASE k + 1 \notin s
      <4>1. s \in SUBSET (1 .. k)
        BY <3>1, <3>3
      <4>2. new[s] = it[s]
        BY <3>3
      <4>3. it[s] = IF s = {} THEN Nothing ELSE ParseStep(top, it[s \ {Max(s)}], wire[Max(s)])
        BY <2>1, <4>1 DEF ParseRun
      <4>4. N[s] = IF s = {} THEN Nothing ELSE ParseStep(top, new[s \ {Max(s)}], wire[Max(s)])
        OBVIOUS
      <4>5. s \ {Max(s)} \in D /\ k + 1 \notin s \ {Max(s)}
        BY <3>3
      <4>6. new[s \ {Max(s)}] = it[s \ {Max(s)}]
        BY <4>5
      <4> HIDE DEF new, N
      <4>7. QED BY <4>2, <4>3, <4>4, <4>6
    <3>4. QED BY <3>2, <3>3
  <2>3. new = [s \in D |-> new[s]] /\ N = [s \in D |-> N[s]]
    OBVIOUS
  <2>4. new = N
    <3> HIDE DEF new, N, D
    <3>1. QED BY <2>2, <2>3
  <2>5. ParseRun(new, top, wire, k + 1)
    BY <2>4 DEF ParseRun
  <2> HIDE DEF new
  <2>6. QED BY <2>5
<1> HIDE DEF S
<1>3. n \in S
  BY <1>1, <1>2, SetInduction
<1>4. QED BY <1>3 DEF S

\* It takes the items of the wire one by one.
LEMMA ParseSteps ==
  ASSUME NEW top, NEW wire, Len(wire) \in Nat, DOMAIN wire = 1 .. Len(wire)
  PROVE  \E F : /\ F[0] = Nothing
                /\ \A n \in 1 .. Len(wire) : F[n] = ParseStep(top, F[n - 1], wire[n])
                /\ TopParse(top, wire) = F[Len(wire)]
<1> DEFINE D == DOMAIN wire
           it == CHOOSE g : g = [s \in SUBSET D |->
                   IF s = {} THEN Nothing ELSE ParseStep(top, g[s \ {Max(s)}], wire[Max(s)])]
           run == CHOOSE g : ParseRun(g, top, wire, Len(wire))
           F == [n \in 0 .. Len(wire) |-> run[1 .. n]]
<1>1. Len(wire) \in Nat /\ D = 1 .. Len(wire)
  OBVIOUS
<1>2. TopParse(top, wire) = it[D]
  BY DEF TopParse, FoldLeft, MapThenFoldSet, ParseStep
<1>3. it = run
  BY <1>1 DEF ParseRun
<1>4. ParseRun(run, top, wire, Len(wire))
  BY <1>1, ParseRunExists
<1> HIDE DEF it, run
<1>5. \A s \in SUBSET (1 .. Len(wire)) :
        run[s] = IF s = {} THEN Nothing ELSE ParseStep(top, run[s \ {Max(s)}], wire[Max(s)])
  BY <1>4 DEF ParseRun
<1>6. F[0] = Nothing
  <2>1. 1 .. 0 = {} /\ {} \in SUBSET (1 .. Len(wire)) /\ 0 \in 0 .. Len(wire)
    BY <1>1
  <2>2. QED BY <2>1, <1>5
<1>7. ASSUME NEW n \in 1 .. Len(wire) PROVE F[n] = ParseStep(top, F[n - 1], wire[n])
  <2>1. /\ 1 .. n \in SUBSET (1 .. Len(wire)) /\ n \in 1 .. n
        /\ n - 1 \in 0 .. Len(wire) /\ n \in 0 .. Len(wire) /\ (1 .. n) \ {n} = 1 .. n - 1
        /\ n - 1 \in Nat /\ (n - 1) + 1 = n
    BY <1>1
  <2>2. Max(1 .. n) = n
    BY <2>1, MaxIs
  <2>3. run[1 .. n] = ParseStep(top, run[1 .. n - 1], wire[n])
    BY <2>1, <2>2, <1>5
  <2>4. F[n] = run[1 .. n] /\ F[n - 1] = run[1 .. n - 1]
    BY <2>1
  <2> HIDE DEF F
  <2>5. QED BY <2>3, <2>4
<1>8. F[Len(wire)] = run[1 .. Len(wire)]
  BY <1>1
<1> HIDE DEF F
<1>9. QED BY <1>1, <1>2, <1>3, <1>6, <1>7, <1>8

-----------------------------------------------------------------------------
(* The outer messages.                                                      *)

\* The members of the oneof are the fields that are not required.
GoodTop(top) ==
  /\ GoodFields(top)
  /\ \A f \in ToSet(top.fields) : f.required <=> f.member \notin DOMAIN top.calls
  /\ \A c \in DOMAIN top.calls : \E f \in ToSet(top.fields) : f.member = c

\* An outer message is null when a required field of it, or of the call in it,
\* is missing.
LEMMA TopUnpacksWire ==
  ASSUME NEW top, GoodTop(top), NEW wire, NEW present, NEW value,
         IsWire(top, wire, present, value)
  PROVE  TopUnpacks(top, wire) <=>
           /\ \A f \in ToSet(top.fields) : f.required => f \in present
           /\ \A f \in present \cap CallFields(top) : Unpacks(top.calls[f.member], value[f])
<1>1. Unpacks(top, wire) <=> \A f \in ToSet(top.fields) : f.required => f \in present
  BY UnpacksWire DEF GoodTop
<1>2. /\ \A it \in ToSet(wire) : \E f \in present : f \in ToSet(top.fields) /\ it = <<Tag(f), value[f]>>
      /\ \A f \in present : <<Tag(f), value[f]>> \in ToSet(wire)
  <2>1. ToSet(wire) = {wire[i] : i \in 1 .. Len(wire)}
    BY DEF ToSet, IsWire
  <2> DEFINE n == Len(wire)
  <2>2. /\ present \subseteq ToSet(top.fields)
        /\ \A i \in 1 .. n : \E f \in present : wire[i] = <<Tag(f), value[f]>>
        /\ \A f \in present : \E i \in 1 .. n : wire[i] = <<Tag(f), value[f]>>
    BY DEF IsWire
  <2>3. ASSUME NEW it \in ToSet(wire)
        PROVE  \E f \in present : f \in ToSet(top.fields) /\ it = <<Tag(f), value[f]>>
    <3>1. PICK i \in 1 .. n : it = wire[i]
      BY <2>1
    <3> HIDE DEF n
    <3>2. QED BY <3>1, <2>2
  <2>4. ASSUME NEW f \in present PROVE <<Tag(f), value[f]>> \in ToSet(wire)
    <3>1. PICK i \in 1 .. n : wire[i] = <<Tag(f), value[f]>>
      BY <2>2
    <3>2. wire[i] \in ToSet(wire)
      BY <2>1
    <3>3. QED BY <3>1, <3>2
  <2>5. QED BY <2>3, <2>4
<1>3. CallFields(top) \subseteq ToSet(top.fields)
  BY DEF CallFields
<1>4. (\A f \in CallFields(top), it \in ToSet(wire) :
         it[1] = Tag(f) => Unpacks(top.calls[f.member], it[2]))
      <=> \A f \in present \cap CallFields(top) : Unpacks(top.calls[f.member], value[f])
  <2>1. ASSUME NEW f \in CallFields(top), NEW it \in ToSet(wire), it[1] = Tag(f)
        PROVE  f \in present /\ it[2] = value[f]
    <3>1. PICK g \in present : g \in ToSet(top.fields) /\ it = <<Tag(g), value[g]>>
      BY <1>2
    <3>2. f = g
      BY <1>3, <2>1, <3>1, TagsDiffer DEF GoodTop
    <3>3. QED BY <3>1, <3>2
  <2>2. ASSUME NEW f \in present
        PROVE  \E it \in ToSet(wire) : it[1] = Tag(f) /\ it[2] = value[f]
    BY <1>2
  <2>3. QED BY <2>1, <2>2
<1>5. QED BY <1>1, <1>4 DEF TopUnpacks

\* What the interceptor finds in an answer.
LEMMA TopUnpackWire ==
  ASSUME NEW top, GoodTop(top), NEW wire, NEW present, NEW value,
         IsWire(top, wire, present, value),
         \A f, g \in present \cap CallFields(top) : f = g
  PROVE  LET o == TopUnpack(top, wire)
         IN  /\ present \cap CallFields(top) = {} => o.case = 0 /\ o.union = Nothing
             /\ \A f \in present \cap CallFields(top) :
                  o.case = f.id /\ o.union = Unpack(top.calls[f.member], value[f])
             /\ \A f \in present \ CallFields(top) : o.plain[f.member] = value[f]
<1> DEFINE F == ToSet(top.fields)
           C == CallFields(top)
           calls(tag) == {f \in CallFields(top) : Tag(f) = tag}
           members(tag) == {f.member : f \in {g \in PlainFields(top) : Tag(g) = tag}}
           required == {f.member : f \in {g \in ToSet(top.fields) : g.required}}
           changes == [i \in DOMAIN wire |-> [m \in members(wire[i][1]) |-> wire[i][2]]]
           base == [m \in required |-> 0]
           plain == Changed(base, changes)
           chosen == {i \in DOMAIN wire : calls(wire[i][1]) # {}}
           last == wire[Max(chosen)]
           call == CHOOSE f \in calls(last[1]) : TRUE
           n == Len(wire)
           o == TopUnpack(top, wire)
<1>1. o = IF chosen = {} THEN [plain |-> plain, case |-> 0, union |-> Nothing]
          ELSE [plain |-> plain, case |-> call.id, union |-> Unpack(top.calls[call.member], last[2])]
  BY DEF TopUnpack
<1>2. /\ n \in Nat /\ DOMAIN changes = 1 .. n /\ DOMAIN wire = 1 .. n
      /\ present \subseteq F /\ C \subseteq F /\ GoodFields(top)
  BY DEF IsWire, CallFields, GoodTop
<1>3. \A i \in 1 .. n : \E f \in present : f \in F /\ wire[i] = <<Tag(f), value[f]>>
  BY DEF IsWire
<1>4. \A f \in present : f \in F /\ \E i \in 1 .. n : wire[i] = <<Tag(f), value[f]>>
  BY DEF IsWire
<1>5. \A i, j \in 1 .. n : wire[i][1] = wire[j][1] => i = j
  BY DEF IsWire
<1> HIDE DEF n
<1>6. ASSUME NEW i \in 1 .. n, NEW f \in present, wire[i] = <<Tag(f), value[f]>>
      PROVE  /\ calls(wire[i][1]) = IF f \in C THEN {f} ELSE {}
             /\ f \notin C => DOMAIN changes[i] = {f.member} /\ changes[i][f.member] = value[f]
             /\ f \in C => DOMAIN changes[i] = {}
  <2>1. wire[i][1] = Tag(f) /\ wire[i][2] = value[f] /\ f \in F
    BY <1>2, <1>6
  <2>2. \A g \in F : Tag(g) = Tag(f) => g = f
    BY <1>2, <2>1, TagsDiffer
  <2>3. calls(Tag(f)) = IF f \in C THEN {f} ELSE {}
    BY <1>2, <2>1, <2>2
  <2>4. members(Tag(f)) = IF f \in C THEN {} ELSE {f.member}
    BY <1>2, <2>1, <2>2 DEF PlainFields
  <2> HIDE DEF members
  <2>5. changes[i] = [m \in members(Tag(f)) |-> value[f]]
    BY <1>2, <2>1
  <2>6. DOMAIN changes[i] = members(Tag(f))
    BY <2>5
  <2>7. f \notin C => changes[i][f.member] = value[f]
    BY <2>4, <2>5
  <2> HIDE DEF calls, changes, C
  <2>8. QED BY <2>1, <2>3, <2>4, <2>6, <2>7
<1> HIDE DEF changes, calls
<1>7. ASSUME present \cap C = {} PROVE o.case = 0 /\ o.union = Nothing
  <2>1. ASSUME NEW i \in 1 .. n PROVE calls(wire[i][1]) = {}
    <3>1. PICK f \in present : wire[i] = <<Tag(f), value[f]>>
      BY <1>3
    <3>2. f \notin C
      BY <1>7
    <3> HIDE DEF C
    <3>3. QED BY <3>1, <3>2, <1>6
  <2>2. chosen = {}
    BY <1>2, <2>1
  <2> HIDE DEF chosen, o, plain
  <2>3. QED BY <1>1, <2>2
<1>8. ASSUME NEW f \in present, f \in C
      PROVE  o.case = f.id /\ o.union = Unpack(top.calls[f.member], value[f])
  <2>1. PICK i \in 1 .. n : wire[i] = <<Tag(f), value[f]>>
    BY <1>4
  <2>2. calls(wire[i][1]) = {f} /\ wire[i][2] = value[f]
    <3>1. wire[i][2] = value[f]
      BY <2>1
    <3> HIDE DEF C
    <3>2. calls(wire[i][1]) = {f}
      BY <1>6, <1>8, <2>1
    <3>3. QED BY <3>1, <3>2
  <2>3. ASSUME NEW j \in 1 .. n, calls(wire[j][1]) # {} PROVE j = i
    <3>1. PICK g \in present : wire[j] = <<Tag(g), value[g]>>
      BY <1>3
    <3>2. g \in C
      <4> HIDE DEF C
      <4>1. QED BY <3>1, <1>6, <2>3
    <3>3. g = f
      BY <3>2, <1>8
    <3>4. wire[j][1] = wire[i][1]
      BY <3>1, <3>3, <2>1
    <3>5. QED BY <3>4, <1>5
  <2>4. chosen = {i}
    <3>1. i \in DOMAIN wire /\ calls(wire[i][1]) # {}
      BY <1>2, <2>2
    <3>2. \A j \in DOMAIN wire : calls(wire[j][1]) # {} => j = i
      BY <1>2, <2>3
    <3>3. QED BY <3>1, <3>2
  <2>5. Max(chosen) = i
    <3>1. Max({i}) = i
      <4>1. i \in Nat
        BY <1>2
      <4>2. QED BY <4>1, MaxOfOne
    <3> HIDE DEF chosen
    <3>2. QED BY <2>4, <3>1
  <2>6. last = wire[i]
    <3> HIDE DEF chosen
    <3>1. QED BY <2>5
  <2>7. call = f
    <3> HIDE DEF last
    <3>1. calls(last[1]) = {f}
      BY <2>2, <2>6
    <3>2. QED BY <3>1
  <2>8. chosen # {}
    BY <2>4
  <2> HIDE DEF chosen, o, plain, call, last
  <2>9. o.case = call.id /\ o.union = Unpack(top.calls[call.member], last[2])
    BY <1>1, <2>8
  <2>10. QED BY <2>2, <2>6, <2>7, <2>9
<1>9. ASSUME NEW f \in present, f \notin C
      PROVE  o.plain[f.member] = value[f]
  <2>1. PICK i \in 1 .. n : wire[i] = <<Tag(f), value[f]>>
    BY <1>4
  <2> DEFINE m == f.member
  <2>2. DOMAIN changes[i] = {m} /\ changes[i][m] = value[f]
    <3> HIDE DEF C
    <3>1. QED BY <1>6, <1>9, <2>1
  <2>3. ASSUME NEW j \in 1 .. n, m \in DOMAIN changes[j] PROVE j = i
    <3>1. PICK g \in present : g \in F /\ wire[j] = <<Tag(g), value[g]>>
      BY <1>3
    <3>2. g \notin C /\ m = g.member
      <4> HIDE DEF C
      <4>1. g \notin C
        BY <1>6, <2>3, <3>1
      <4>2. DOMAIN changes[j] = {g.member}
        BY <1>6, <3>1, <4>1
      <4>3. QED BY <2>3, <4>1, <4>2
    <3>3. f = g
      BY <1>2, <3>1, <3>2 DEF GoodFields
    <3>4. wire[j][1] = wire[i][1]
      BY <2>1, <3>1, <3>3
    <3>5. QED BY <3>4, <1>5
  <2> HIDE DEF m
  <2>4. plain[m] = changes[i][m]
    <3> HIDE DEF base
    <3>1. Numbered(changes) /\ i \in DOMAIN changes /\ m \in DOMAIN changes[i]
      BY <1>2, <2>2 DEF Numbered
    <3>2. PICK j \in DOMAIN changes :
            m \in DOMAIN changes[j] /\ Changed(base, changes)[m] = changes[j][m]
      BY <3>1, ChangedSome
    <3>3. QED BY <1>2, <2>3, <3>2
  <2> HIDE DEF plain, chosen, call, last, o
  <2>5. o.plain = plain
    BY <1>1
  <2>6. QED BY <2>2, <2>4, <2>5 DEF m
<1> HIDE DEF o, C
<1>10. QED BY <1>7, <1>8, <1>9 DEF C, o

\* A member outside the oneof is set; a member of the oneof is parsed.
LEMMA ParsePlain ==
  ASSUME NEW top, GoodTop(top), NEW class, ReadsAgree(class, top),
         DOMAIN class.calls = DOMAIN top.calls, NEW o, NEW v,
         NEW f \in ToSet(top.fields), f.member \notin DOMAIN top.calls
  PROVE  ParseStep(class, o, <<Tag(f), v>>) = Set(o, f.member, v)
<1> DEFINE R == ToSet(class.reads)
           item == <<Tag(f), v>>
           members(tag) == {t[2] : t \in {u \in R : u[1] = tag}}
           call == members(item[1]) \cap DOMAIN class.calls
           wire == <<item>>
           changes == [i \in DOMAIN wire |-> [m \in members(wire[i][1]) |-> wire[i][2]]]
<1>1. members(Tag(f)) = {f.member}
  BY TagMembers DEF GoodTop
<1>2. item[1] = Tag(f) /\ item[2] = v
  OBVIOUS
<1>3. call = {}
  <2> HIDE DEF members
  <2>1. QED BY <1>1, <1>2
<1>4. ParseStep(class, o, item) = MergePartial(class, o, wire)
  BY <1>3 DEF ParseStep
<1>5. MergePartial(class, o, wire) = Changed(o, changes)
  BY DEF MergePartial
<1>6. DOMAIN wire = {1} /\ wire[1] = item
  OBVIOUS
<1> HIDE DEF members, wire, item
<1>7. DOMAIN changes = {1} /\ changes[1] = [m \in {f.member} |-> v]
  BY <1>1, <1>2, <1>6
<1> HIDE DEF changes
<1> DEFINE of(x) == {i \in DOMAIN changes : x \in DOMAIN changes[i]}
           all == DOMAIN o \cup UNION {DOMAIN changes[i] : i \in DOMAIN changes}
           new(x) == IF of(x) = {} THEN o[x] ELSE changes[Max(of(x))][x]
<1>8. Changed(o, changes) = [x \in all |-> new(x)]
  BY DEF Changed
<1>9. all = DOMAIN o \cup {f.member}
  BY <1>7
<1>10. ASSUME NEW x PROVE new(x) = IF x = f.member THEN v ELSE o[x]
  <2>1. DOMAIN changes[1] = {f.member} /\ changes[1][f.member] = v
    BY <1>7
  <2>2. CASE x = f.member
    <3>1. of(x) = {1}
      BY <1>7, <2>1, <2>2
    <3>2. Max({1}) = 1
      BY MaxOfOne
    <3> HIDE DEF of
    <3>3. QED BY <2>1, <2>2, <3>1, <3>2
  <2>3. CASE x # f.member
    <3>1. of(x) = {}
      BY <1>7, <2>1, <2>3
    <3> HIDE DEF of
    <3>2. QED BY <2>3, <3>1
  <2>4. QED BY <2>2, <2>3
<1> HIDE DEF all, new
<1>11. [x \in all |-> new(x)] = [x \in DOMAIN o \cup {f.member} |-> IF x = f.member THEN v ELSE o[x]]
  BY <1>9, <1>10
<1>12. QED BY <1>4, <1>5, <1>8, <1>11 DEF Set, item

\* The member of the oneof that arrives clears the others of it.
LEMMA ParseCall ==
  ASSUME NEW top, GoodTop(top), NEW class, ReadsAgree(class, top),
         DOMAIN class.calls = DOMAIN top.calls, NEW o, NEW v,
         \A m \in DOMAIN o : m \notin DOMAIN top.calls,
         NEW f \in ToSet(top.fields), f.member \in DOMAIN top.calls
  PROVE  ParseStep(class, o, <<Tag(f), v>>)
           = Set(o, f.member, MergePartial(class.calls[f.member], Nothing, v))
<1> DEFINE R == ToSet(class.reads)
           item == <<Tag(f), v>>
           members(tag) == {t[2] : t \in {u \in R : u[1] = tag}}
           call == members(item[1]) \cap DOMAIN class.calls
           c == CHOOSE m \in call : TRUE
           p == MutableCall(class, o, c)
           r == ParseStep(class, o, item)
<1>1. members(Tag(f)) = {f.member}
  BY TagMembers DEF GoodTop
<1>2. item[1] = Tag(f) /\ item[2] = v
  OBVIOUS
<1>3. call = {f.member}
  <2> HIDE DEF members
  <2>1. QED BY <1>1, <1>2
<1>4. r = IF call = {} THEN MergePartial(class, o, <<item>>)
          ELSE Set(p, c, MergePartial(class.calls[c], p[c], item[2]))
  BY DEF ParseStep
<1>5. c = f.member
  <2> HIDE DEF call
  <2>1. QED BY <1>3
<1> DEFINE q == [m \in DOMAIN o \ DOMAIN class.calls |-> o[m]]
<1>6. p = Set(q, f.member, Nothing)
  <2> HIDE DEF c
  <2>1. f.member \notin DOMAIN o
    OBVIOUS
  <2>2. QED BY <1>5, <2>1 DEF MutableCall, Has
<1>7. DOMAIN q = DOMAIN o /\ \A m \in DOMAIN o : q[m] = o[m] /\ m # f.member
  OBVIOUS
<1> HIDE DEF q
<1>8. /\ DOMAIN p = DOMAIN o \cup {f.member} /\ p[f.member] = Nothing
      /\ \A m \in DOMAIN o : p[m] = o[m]
  <2> HIDE DEF p
  <2>1. p = [x \in DOMAIN q \cup {f.member} |-> IF x = f.member THEN Nothing ELSE q[x]]
    BY <1>6 DEF Set
  <2>2. QED BY <1>7, <2>1
<1>9. r = Set(p, f.member, MergePartial(class.calls[f.member], p[f.member], v))
  <2> HIDE DEF p, c, call, r, item
  <2>1. QED BY <1>2, <1>3, <1>4, <1>5
<1> HIDE DEF p, r
<1> DEFINE new == MergePartial(class.calls[f.member], Nothing, v)
<1>10. r = Set(p, f.member, new)
  BY <1>8, <1>9
<1> HIDE DEF new
<1>11. r = [x \in DOMAIN p \cup {f.member} |-> IF x = f.member THEN new ELSE p[x]]
  BY <1>10 DEF Set
<1>12. r = [x \in DOMAIN o \cup {f.member} |-> IF x = f.member THEN new ELSE o[x]]
  BY <1>7, <1>8, <1>11
<1>13. QED BY <1>12 DEF r, new, item, Set

\* What the daemon finds in a Request.
LEMMA TopParseWire ==
  ASSUME NEW top, GoodTop(top), NEW class, ReadsAgree(class, top),
         DOMAIN class.calls = DOMAIN top.calls,
         NEW wire, NEW present, NEW value, IsWire(top, wire, present, value),
         \A f, g \in present \cap CallFields(top) : f = g
  PROVE  LET o == TopParse(class, wire)
         IN  /\ \A m : m \in DOMAIN o <=> \E f \in present : m = f.member
             /\ \A f \in present : o[f.member] =
                  IF f \in CallFields(top) THEN MergePartial(class.calls[f.member], Nothing, value[f])
                  ELSE value[f]
<1> DEFINE T == ToSet(top.fields)
           C == CallFields(top)
           n == Len(wire)
           stored(f) == IF f \in C THEN MergePartial(class.calls[f.member], Nothing, value[f])
                        ELSE value[f]
<1>1. /\ n \in Nat /\ DOMAIN wire = 1 .. n /\ present \subseteq T
      /\ \A f \in T : f \in C <=> f.member \in DOMAIN top.calls
      /\ \A f, g \in T : f.member = g.member => f = g
  BY DEF IsWire, CallFields, GoodTop, GoodFields
<1>2. \A i \in 1 .. n : \E f \in present : wire[i] = <<Tag(f), value[f]>>
  BY DEF IsWire
<1>3. \A f \in present : \E i \in 1 .. n : wire[i] = <<Tag(f), value[f]>>
  BY DEF IsWire
<1>4. \A i, j \in 1 .. n : wire[i][1] = wire[j][1] => i = j
  BY DEF IsWire
<1>5. PICK F : /\ F[0] = Nothing
               /\ \A k \in 1 .. n : F[k] = ParseStep(class, F[k - 1], wire[k])
               /\ TopParse(class, wire) = F[n]
  BY <1>1, ParseSteps
<1> HIDE DEF n, C
<1> DEFINE Upto(k) == {f \in present : \E i \in 1 .. k : wire[i] = <<Tag(f), value[f]>>}
           Read(k) == /\ DOMAIN F[k] = {f.member : f \in Upto(k)}
                      /\ \A f \in Upto(k) : F[k][f.member] = stored(f)
           S == {k \in Nat : k <= n => Read(k)}
<1>6. 0 \in S
  <2>1. 1 .. 0 = {}
    OBVIOUS
  <2>2. Upto(0) = {}
    BY <2>1
  <2>3. DOMAIN Nothing = {}
    BY DEF Nothing
  <2> HIDE DEF Upto
  <2>4. Read(0)
    BY <1>5, <2>2, <2>3
  <2>5. QED BY <2>4
<1>7. ASSUME NEW k \in Nat, k \in S PROVE k + 1 \in S
  <2> SUFFICES ASSUME k + 1 <= n PROVE Read(k + 1)
    <3> HIDE DEF Read
    <3>1. k + 1 \in Nat
      OBVIOUS
    <3>2. QED BY <3>1
  <2>1. k <= n /\ k + 1 \in 1 .. n /\ (k + 1) - 1 = k
    BY <1>1
  <2>2. Read(k)
    <3> HIDE DEF Read
    <3>1. QED BY <1>7, <2>1
  <2>3. PICK g \in present : wire[k + 1] = <<Tag(g), value[g]>>
    BY <1>2, <2>1
  <2>4. F[k + 1] = ParseStep(class, F[k], <<Tag(g), value[g]>>)
    BY <1>5, <2>1, <2>3
  <2>5. g \in T
    BY <1>1
  <2>6. \A i \in 1 .. k + 1 : i \in 1 .. k \/ i = k + 1
    OBVIOUS
  <2>7. \A i \in 1 .. k : i \in 1 .. k + 1 /\ i # k + 1 /\ i \in 1 .. n
    BY <1>1, <2>1
  <2>8. \A f \in present : f \in Upto(k + 1) <=> f \in Upto(k) \/ f = g
    <3>1. g \in Upto(k + 1)
      <4>1. k + 1 \in 1 .. k + 1
        OBVIOUS
      <4>2. QED BY <2>3, <4>1
    <3>2. ASSUME NEW f \in present, f \in Upto(k) PROVE f \in Upto(k + 1)
      <4>1. PICK i \in 1 .. k : wire[i] = <<Tag(f), value[f]>>
        BY <3>2
      <4>2. QED BY <2>7, <4>1
    <3>3. ASSUME NEW f \in present, f \in Upto(k + 1), f # g PROVE f \in Upto(k)
      <4>1. PICK i \in 1 .. k + 1 : wire[i] = <<Tag(f), value[f]>>
        BY <3>3
      <4>2. CASE i = k + 1
        <5>1. Tag(f) = Tag(g)
          BY <2>3, <4>1, <4>2
        <5>2. f \in T
          BY <1>1
        <5>3. f = g
          BY <2>5, <5>1, <5>2, TagsDiffer DEF GoodTop
        <5>4. QED BY <3>3, <5>3
      <4>3. CASE i \in 1 .. k
        BY <4>1, <4>3
      <4>4. QED BY <2>6, <4>2, <4>3
    <3> HIDE DEF Upto
    <3>4. QED BY <3>1, <3>2, <3>3
  <2>9. g \notin Upto(k)
    <3> SUFFICES ASSUME g \in Upto(k) PROVE FALSE
      OBVIOUS
    <3>1. PICK i \in 1 .. k : wire[i] = <<Tag(g), value[g]>>
      OBVIOUS
    <3>2. wire[i][1] = wire[k + 1][1]
      BY <2>3, <3>1
    <3>3. QED BY <1>4, <2>1, <2>7, <3>2
  <2>10. \A j : Upto(j) \subseteq present
    OBVIOUS
  <2> HIDE DEF Upto
  <2>11. g.member \notin DOMAIN F[k]
    <3>1. \A f \in Upto(k) : f.member # g.member
      BY <1>1, <2>5, <2>9, <2>10
    <3>2. QED BY <2>2, <3>1
  <2>12. /\ DOMAIN F[k + 1] = DOMAIN F[k] \cup {g.member}
         /\ F[k + 1][g.member] = stored(g)
         /\ \A m \in DOMAIN F[k] : F[k + 1][m] = F[k][m]
    <3>1. CASE g \in C
      <4>1. \A f \in Upto(k) : f \notin C
        BY <2>9, <2>10, <3>1 DEF C
      <4>2. \A m \in DOMAIN F[k] : m \notin DOMAIN top.calls
        <5>1. \A f \in Upto(k) : f.member \notin DOMAIN top.calls
          BY <1>1, <2>10, <4>1
        <5>2. QED BY <2>2, <5>1
      <4>3. g.member \in DOMAIN top.calls
        BY <1>1, <2>5, <3>1
      <4>4. F[k + 1] = Set(F[k], g.member, MergePartial(class.calls[g.member], Nothing, value[g]))
        BY <2>4, <2>5, <4>2, <4>3, ParseCall
      <4>5. stored(g) = MergePartial(class.calls[g.member], Nothing, value[g])
        BY <3>1
      <4> HIDE DEF stored
      <4>6. F[k + 1] = [x \in DOMAIN F[k] \cup {g.member} |-> IF x = g.member THEN stored(g) ELSE F[k][x]]
        BY <4>4, <4>5 DEF Set
      <4>7. QED BY <2>11, <4>6
    <3>2. CASE g \notin C
      <4>1. g.member \notin DOMAIN top.calls
        BY <1>1, <2>5, <3>2
      <4>2. F[k + 1] = Set(F[k], g.member, value[g])
        BY <2>4, <2>5, <4>1, ParsePlain
      <4>3. stored(g) = value[g]
        BY <3>2
      <4> HIDE DEF stored
      <4>4. F[k + 1] = [x \in DOMAIN F[k] \cup {g.member} |-> IF x = g.member THEN value[g] ELSE F[k][x]]
        BY <4>2 DEF Set
      <4>5. QED BY <2>11, <4>3, <4>4
    <3>3. QED BY <3>1, <3>2
  <2> HIDE DEF stored
  <2>13. DOMAIN F[k + 1] = {f.member : f \in Upto(k + 1)}
    BY <2>2, <2>8, <2>10, <2>12
  <2>14. \A f \in Upto(k + 1) : F[k + 1][f.member] = stored(f)
    <3>1. ASSUME NEW f \in Upto(k) PROVE F[k + 1][f.member] = stored(f)
      <4>1. f.member \in DOMAIN F[k] /\ F[k][f.member] = stored(f)
        BY <2>2
      <4>2. QED BY <2>12, <4>1
    <3>2. QED BY <2>8, <2>10, <2>12, <3>1
  <2>15. QED BY <2>13, <2>14
<1>8. n \in S
  <2> HIDE DEF S
  <2>1. QED BY <1>1, <1>6, <1>7, SetInduction
<1>9. Read(n)
  <2> HIDE DEF Read
  <2>1. QED BY <1>1, <1>8
<1>10. Upto(n) = present
  BY <1>3
<1> HIDE DEF Upto, stored
<1>11. (\A m : m \in DOMAIN F[n] <=> \E f \in present : m = f.member) /\ \A f \in present : F[n][f.member] = stored(f)
  BY <1>9, <1>10
<1>12. QED BY <1>5, <1>11 DEF stored, C

-----------------------------------------------------------------------------
(* The tables of the two languages.                                         *)

Agree(class, msg) == /\ GoodFields(msg) /\ MaskAgrees(class, msg)
                     /\ WritesAgree(class, msg) /\ ReadsAgree(class, msg)

\* Row by row: the tables of both languages list the fields in the same order.
Rows(class, msg) ==
  /\ \A i \in 1 .. Len(msg.fields) :
        /\ msg.fields[i].id \in Nat
        /\ WriteTag(class.writes[i]) = Tag(msg.fields[i])
        /\ class.writes[i][3] = msg.fields[i].member
        /\ class.reads[i] = <<Tag(msg.fields[i]), msg.fields[i].member>>
  /\ \A i, j \in 1 .. Len(msg.fields) :
        msg.fields[i].id = msg.fields[j].id \/ msg.fields[i].member = msg.fields[j].member => i = j
\* The has-bits asked for, row by row.
Masked(class, msg) ==
  /\ \A i \in 1 .. Len(msg.fields) : msg.fields[i].required =>
        msg.fields[i].member \in DOMAIN class.bits /\ class.bits[msg.fields[i].member] \in class.mask
  /\ \A b \in class.mask : \E i \in 1 .. Len(msg.fields) :
        msg.fields[i].required /\ b = class.bits[msg.fields[i].member]
  /\ \A m, k \in DOMAIN class.bits : class.bits[m] = class.bits[k] => m = k

\* A sequence is one over its own elements.
LEMMA OwnSet ==
  ASSUME NEW S, NEW s \in Seq(S)
  PROVE  s \in Seq(ToSet(s))
<1>1. s = [i \in 1 .. Len(s) |-> s[i]] /\ Len(s) \in Nat
  OBVIOUS
<1>2. \A i \in 1 .. Len(s) : s[i] \in ToSet(s)
  BY DEF ToSet
<1>3. QED BY <1>1, <1>2

\* The number of the field, from its tag: what case the parser jumps to.
LEMMA TagDiv ==
  ASSUME NEW f, f.id \in Nat
  PROVE  Tag(f) \div 8 = f.id
<1>1. f.id \in Nat /\ WireType(f.type) \in {0, 2}
  BY DEF WireType
<1> DEFINE n == f.id
<1>2. n \in Nat
  BY <1>1
<1> HIDE DEF n
<1>3. (8 * n + 0) \div 8 = n /\ (8 * n + 2) \div 8 = n
  BY <1>2
<1>4. QED BY <1>1, <1>3 DEF Tag, n

\* Tables whose rows agree one by one agree.
LEMMA RowsAgree ==
  ASSUME NEW class, NEW msg, Rows(class, msg), Masked(class, msg),
         NEW S, msg.fields \in Seq(S),
         NEW T, class.writes \in Seq(T), NEW U, class.reads \in Seq(U),
         Len(class.writes) = Len(msg.fields), Len(class.reads) = Len(msg.fields)
  PROVE  Agree(class, msg)
<1> DEFINE n == Len(msg.fields)
           F == ToSet(msg.fields)
           W == ToSet(class.writes)
           R == ToSet(class.reads)
<1>1. n \in Nat /\ F = {msg.fields[i] : i \in 1 .. n}
  BY DEF ToSet
<1>2. W = {class.writes[i] : i \in 1 .. n} /\ R = {class.reads[i] : i \in 1 .. n}
  BY DEF ToSet
<1>3. \A i, j \in 1 .. n : msg.fields[i].id = msg.fields[j].id \/ msg.fields[i].member = msg.fields[j].member => i = j
  BY DEF Rows
<1>4. \A i \in 1 .. n : /\ msg.fields[i].id \in Nat
                        /\ WriteTag(class.writes[i]) = Tag(msg.fields[i])
                        /\ class.writes[i][3] = msg.fields[i].member
                        /\ class.reads[i] = <<Tag(msg.fields[i]), msg.fields[i].member>>
  BY DEF Rows
<1>5. GoodFields(msg)
  <2>1. msg.fields \in Seq(F)
    BY OwnSet
  <2>2. \A f \in F : f.id \in Nat /\ Tag(f) \div 8 = f.id
    BY <1>1, <1>4, TagDiv
  <2>3. \A i, j \in 1 .. n : msg.fields[i] = msg.fields[j] => i = j
    BY <1>3
  <2> HIDE DEF n, F
  <2>4. \A f, g \in F : f.id = g.id \/ f.member = g.member => f = g
    BY <1>1, <1>3
  <2>5. QED BY <2>1, <2>2, <2>3, <2>4 DEF GoodFields, n, F
<1>6. WritesAgree(class, msg)
  <2>1. class.writes \in Seq(W)
    BY OwnSet
  <2> HIDE DEF F, W, n
  <2>2. \A i, j \in 1 .. n : class.writes[i] = class.writes[j] => i = j
    BY <1>3, <1>4
  <2>3. \A w \in W : \E f \in F : WriteTag(w) = Tag(f) /\ w[3] = f.member
    BY <1>1, <1>2, <1>4
  <2>4. \A f \in F : \E w \in W : WriteTag(w) = Tag(f) /\ w[3] = f.member
    BY <1>1, <1>2, <1>4
  <2>5. \A w, x \in W : w[3] = x[3] => w = x
    BY <1>2, <1>3, <1>4
  <2>6. QED BY <2>1, <2>2, <2>3, <2>4, <2>5 DEF WritesAgree, F, W, n
<1>7. ReadsAgree(class, msg)
  <2> HIDE DEF F, R, n
  <2>1. \A f \in F : <<Tag(f), f.member>> \in R
    BY <1>1, <1>2, <1>4
  <2>2. ASSUME NEW t \in R PROVE \E f \in F : t = <<Tag(f), f.member>>
    <3>1. PICK i \in 1 .. n : t = class.reads[i]
      BY <1>2
    <3>2. msg.fields[i] \in F /\ t = <<Tag(msg.fields[i]), msg.fields[i].member>>
      BY <1>1, <1>4, <3>1
    <3>3. QED BY <3>2
  <2>3. QED BY <2>1, <2>2 DEF ReadsAgree, F, R
<1>8. MaskAgrees(class, msg)
  <2> DEFINE bits == class.bits
             set(members) == {bits[m] : m \in members \cap DOMAIN bits}
  <2>1. /\ \A f \in F : f.required => f.member \in DOMAIN bits /\ bits[f.member] \in class.mask
        /\ \A b \in class.mask : \E f \in F : f.required /\ b = bits[f.member]
        /\ \A m, k \in DOMAIN bits : bits[m] = bits[k] => m = k
    <3> HIDE DEF F
    <3>1. QED BY <1>1 DEF Masked
  <2>2. ASSUME NEW members, NEW f \in F, f.required
        PROVE  bits[f.member] \in set(members) <=> f.member \in members
    <3> DEFINE x == f.member
    <3>1. x \in DOMAIN bits /\ \A m, k \in DOMAIN bits : bits[m] = bits[k] => m = k
      BY <2>1, <2>2
    <3> HIDE DEF x, bits
    <3>2. QED BY <3>1 DEF x
  <2>3. ASSUME NEW members
        PROVE  class.mask \subseteq set(members) <=> \A f \in F : f.required => f.member \in members
    <3> DEFINE has == set(members)
    <3>1. \A f \in F : f.required => (bits[f.member] \in has <=> f.member \in members)
      BY <2>2
    <3> HIDE DEF has, F, bits
    <3>2. QED BY <2>1, <3>1 DEF has
  <2>4. QED BY <2>3 DEF MaskAgrees
<1>9. QED BY <1>5, <1>6, <1>7, <1>8 DEF Agree

\* Messages without fields
LEMMA EmptyAgrees ==
  ASSUME NEW msg, NEW class, msg.fields = << >>, class.reads = << >>, class.writes = << >>,
         class.mask = {}
  PROVE  Agree(class, msg)
<1>1. ToSet(msg.fields) = {} /\ ToSet(class.reads) = {} /\ ToSet(class.writes) = {}
  BY DEF ToSet
<1>2. GoodFields(msg)
  BY <1>1 DEF GoodFields
<1>3. WritesAgree(class, msg)
  BY <1>1 DEF WritesAgree
<1>4. QED BY <1>1, <1>2, <1>3 DEF Agree, ReadsAgree, MaskAgrees

\* Nine answers have nothing but a result.
LEMMA Response_SocketAgrees ==
  ASSUME NEW msg, NEW class, msg.fields = response__socket__fields,
         class.reads = Response_Socket_reads, class.writes = Response_Socket_writes,
         class.mask = Response_Socket_mask, class.bits = Response_Socket_bits
  PROVE  Agree(class, msg)
<1> DEFINE f == response__socket__fields
           w == Response_Socket_writes
           r == Response_Socket_reads
<1>1. /\ f[1].id = 1 /\ f[1].member = "ret" /\ Tag(f[1]) = 8 /\ f[1].required
      /\ f[2].id = 2 /\ f[2].member = "errno_" /\ Tag(f[2]) = 16 /\ ~ f[2].required
  BY DEF response__socket__fields, Tag, WireType, Required, Optional
<1>2. /\ WriteTag(w[1]) = 8 /\ w[1][3] = "ret" /\ r[1] = <<8, "ret">>
      /\ WriteTag(w[2]) = 16 /\ w[2][3] = "errno_" /\ r[2] = <<16, "errno_">>
  BY DEF Response_Socket_writes, Response_Socket_reads, WriteTag
<1>3. /\ Len(f) = 2 /\ f \in Seq({f[1], f[2]})
      /\ Len(w) = 2 /\ w \in Seq({w[1], w[2]})
      /\ Len(r) = 2 /\ r \in Seq({r[1], r[2]})
  BY DEF response__socket__fields, Response_Socket_writes, Response_Socket_reads
<1>4. /\ class.mask = {0} /\ DOMAIN class.bits = {"ret", "errno_"}
      /\ class.bits["ret"] = 0 /\ class.bits["errno_"] = 1
  BY DEF Response_Socket_mask, Response_Socket_bits
<1> HIDE DEF f, w, r
<1>5. Rows(class, msg)
  <2>1. \A i \in 1 .. 2 : WriteTag(w[i]) = Tag(f[i]) /\ w[i][3] = f[i].member
    BY <1>1, <1>2
  <2>2. \A i \in 1 .. 2 : r[i] = <<Tag(f[i]), f[i].member>>
    BY <1>1, <1>2
  <2>3. \A i, j \in 1 .. 2 :
          f[i].id \in Nat /\ (f[i].id = f[j].id \/ f[i].member = f[j].member => i = j)
    BY <1>1
  <2>4. QED BY <1>3, <2>1, <2>2, <2>3 DEF Rows, f, w, r
<1>6. Masked(class, msg)
  BY <1>1, <1>3, <1>4 DEF Masked, f
<1>7. QED BY <1>3, <1>5, <1>6, RowsAgree DEF f, w, r

\* The answers that carry more than their result.
LEMMA Response_AtstartAgrees ==
  ASSUME NEW msg, NEW class, msg.fields = response__atstart__fields,
         class.reads = Response_Atstart_reads, class.writes = Response_Atstart_writes,
         class.mask = Response_Atstart_mask, class.bits = Response_Atstart_bits
  PROVE  Agree(class, msg)
<1> DEFINE f == response__atstart__fields
           w == Response_Atstart_writes
           r == Response_Atstart_reads
<1>1. /\ f[1].id = 1 /\ f[1].member = "startfd" /\ Tag(f[1]) = 8 /\ f[1].required
      /\ f[2].id = 2 /\ f[2].member = "count" /\ Tag(f[2]) = 16 /\ ~ f[2].required
  BY DEF response__atstart__fields, Tag, WireType, Required, Optional
<1>2. /\ WriteTag(w[1]) = 8 /\ w[1][3] = "startfd" /\ r[1] = <<8, "startfd">>
      /\ WriteTag(w[2]) = 16 /\ w[2][3] = "count" /\ r[2] = <<16, "count">>
  BY DEF Response_Atstart_writes, Response_Atstart_reads, WriteTag
<1>3. /\ Len(f) = 2 /\ f \in Seq({f[1], f[2]})
      /\ Len(w) = 2 /\ w \in Seq({w[1], w[2]})
      /\ Len(r) = 2 /\ r \in Seq({r[1], r[2]})
  BY DEF response__atstart__fields, Response_Atstart_writes, Response_Atstart_reads
<1>4. /\ class.mask = {0} /\ DOMAIN class.bits = {"startfd", "count"}
      /\ class.bits["startfd"] = 0 /\ class.bits["count"] = 1
  BY DEF Response_Atstart_mask, Response_Atstart_bits
<1> HIDE DEF f, w, r
<1>5. Rows(class, msg)
  <2>1. \A i \in 1 .. 2 : WriteTag(w[i]) = Tag(f[i]) /\ w[i][3] = f[i].member
    BY <1>1, <1>2
  <2>2. \A i \in 1 .. 2 : r[i] = <<Tag(f[i]), f[i].member>>
    BY <1>1, <1>2
  <2>3. \A i, j \in 1 .. 2 :
          f[i].id \in Nat /\ (f[i].id = f[j].id \/ f[i].member = f[j].member => i = j)
    BY <1>1
  <2>4. QED BY <1>3, <2>1, <2>2, <2>3 DEF Rows, f, w, r
<1>6. Masked(class, msg)
  BY <1>1, <1>3, <1>4 DEF Masked, f
<1>7. QED BY <1>3, <1>5, <1>6, RowsAgree DEF f, w, r

LEMMA Response_GetpeernameAgrees ==
  ASSUME NEW msg, NEW class, msg.fields = response__getpeername__fields,
         class.reads = Response_Getpeername_reads, class.writes = Response_Getpeername_writes,
         class.mask = Response_Getpeername_mask, class.bits = Response_Getpeername_bits
  PROVE  Agree(class, msg)
<1> DEFINE f == response__getpeername__fields
           w == Response_Getpeername_writes
           r == Response_Getpeername_reads
<1>1. /\ f[1].id = 1 /\ f[1].member = "ret" /\ Tag(f[1]) = 8 /\ f[1].required
      /\ f[2].id = 2 /\ f[2].member = "errno_" /\ Tag(f[2]) = 16 /\ ~ f[2].required
      /\ f[3].id = 3 /\ f[3].member = "peername" /\ Tag(f[3]) = 26 /\ ~ f[3].required
  BY DEF response__getpeername__fields, Tag, WireType, Required, Optional
<1>2. /\ WriteTag(w[1]) = 8 /\ w[1][3] = "ret" /\ r[1] = <<8, "ret">>
      /\ WriteTag(w[2]) = 16 /\ w[2][3] = "errno_" /\ r[2] = <<16, "errno_">>
      /\ WriteTag(w[3]) = 26 /\ w[3][3] = "peername" /\ r[3] = <<26, "peername">>
  BY DEF Response_Getpeername_writes, Response_Getpeername_reads, WriteTag
<1>3. /\ Len(f) = 3 /\ f \in Seq({f[1], f[2], f[3]})
      /\ Len(w) = 3 /\ w \in Seq({w[1], w[2], w[3]})
      /\ Len(r) = 3 /\ r \in Seq({r[1], r[2], r[3]})
  BY DEF response__getpeername__fields, Response_Getpeername_writes, Response_Getpeername_reads
<1>4. /\ class.mask = {0} /\ DOMAIN class.bits = {"ret", "errno_", "peername"}
      /\ class.bits["ret"] = 0 /\ class.bits["errno_"] = 1 /\ class.bits["peername"] = 2
  BY DEF Response_Getpeername_mask, Response_Getpeername_bits
<1> HIDE DEF f, w, r
<1>5. Rows(class, msg)
  <2>1. \A i \in 1 .. 3 : WriteTag(w[i]) = Tag(f[i]) /\ w[i][3] = f[i].member
    BY <1>1, <1>2
  <2>2. \A i \in 1 .. 3 : r[i] = <<Tag(f[i]), f[i].member>>
    BY <1>1, <1>2
  <2>3. \A i, j \in 1 .. 3 :
          f[i].id \in Nat /\ (f[i].id = f[j].id \/ f[i].member = f[j].member => i = j)
    BY <1>1
  <2>4. QED BY <1>3, <2>1, <2>2, <2>3 DEF Rows, f, w, r
<1>6. Masked(class, msg)
  BY <1>1, <1>3, <1>4 DEF Masked, f
<1>7. QED BY <1>3, <1>5, <1>6, RowsAgree DEF f, w, r

LEMMA Response_GetsocknameAgrees ==
  ASSUME NEW msg, NEW class, msg.fields = response__getsockname__fields,
         class.reads = Response_Getsockname_reads, class.writes = Response_Getsockname_writes,
         class.mask = Response_Getsockname_mask, class.bits = Response_Getsockname_bits
  PROVE  Agree(class, msg)
<1> DEFINE f == response__getsockname__fields
           w == Response_Getsockname_writes
           r == Response_Getsockname_reads
<1>1. /\ f[1].id = 1 /\ f[1].member = "ret" /\ Tag(f[1]) = 8 /\ f[1].required
      /\ f[2].id = 2 /\ f[2].member = "errno_" /\ Tag(f[2]) = 16 /\ ~ f[2].required
      /\ f[3].id = 3 /\ f[3].member = "sockanme" /\ Tag(f[3]) = 26 /\ ~ f[3].required
  BY DEF response__getsockname__fields, Tag, WireType, Required, Optional
<1>2. /\ WriteTag(w[1]) = 8 /\ w[1][3] = "ret" /\ r[1] = <<8, "ret">>
      /\ WriteTag(w[2]) = 16 /\ w[2][3] = "errno_" /\ r[2] = <<16, "errno_">>
      /\ WriteTag(w[3]) = 26 /\ w[3][3] = "sockanme" /\ r[3] = <<26, "sockanme">>
  BY DEF Response_Getsockname_writes, Response_Getsockname_reads, WriteTag
<1>3. /\ Len(f) = 3 /\ f \in Seq({f[1], f[2], f[3]})
      /\ Len(w) = 3 /\ w \in Seq({w[1], w[2], w[3]})
      /\ Len(r) = 3 /\ r \in Seq({r[1], r[2], r[3]})
  BY DEF response__getsockname__fields, Response_Getsockname_writes, Response_Getsockname_reads
<1>4. /\ class.mask = {0} /\ DOMAIN class.bits = {"ret", "errno_", "sockanme"}
      /\ class.bits["ret"] = 0 /\ class.bits["errno_"] = 1 /\ class.bits["sockanme"] = 2
  BY DEF Response_Getsockname_mask, Response_Getsockname_bits
<1> HIDE DEF f, w, r
<1>5. Rows(class, msg)
  <2>1. \A i \in 1 .. 3 : WriteTag(w[i]) = Tag(f[i]) /\ w[i][3] = f[i].member
    BY <1>1, <1>2
  <2>2. \A i \in 1 .. 3 : r[i] = <<Tag(f[i]), f[i].member>>
    BY <1>1, <1>2
  <2>3. \A i, j \in 1 .. 3 :
          f[i].id \in Nat /\ (f[i].id = f[j].id \/ f[i].member = f[j].member => i = j)
    BY <1>1
  <2>4. QED BY <1>3, <2>1, <2>2, <2>3 DEF Rows, f, w, r
<1>6. Masked(class, msg)
  BY <1>1, <1>3, <1>4 DEF Masked, f
<1>7. QED BY <1>3, <1>5, <1>6, RowsAgree DEF f, w, r

LEMMA Response_RecvfromAgrees ==
  ASSUME NEW msg, NEW class, msg.fields = response__recvfrom__fields,
         class.reads = Response_Recvfrom_reads, class.writes = Response_Recvfrom_writes,
         class.mask = Response_Recvfrom_mask, class.bits = Response_Recvfrom_bits
  PROVE  Agree(class, msg)
<1> DEFINE f == response__recvfrom__fields
           w == Response_Recvfrom_writes
           r == Response_Recvfrom_reads
<1>1. /\ f[1].id = 1 /\ f[1].member = "ret" /\ Tag(f[1]) = 8 /\ f[1].required
      /\ f[2].id = 2 /\ f[2].member = "errno_" /\ Tag(f[2]) = 16 /\ ~ f[2].required
      /\ f[3].id = 3 /\ f[3].member = "buf" /\ Tag(f[3]) = 26 /\ ~ f[3].required
      /\ f[4].id = 4 /\ f[4].member = "addr" /\ Tag(f[4]) = 34 /\ ~ f[4].required
  BY DEF response__recvfrom__fields, Tag, WireType, Required, Optional
<1>2. /\ WriteTag(w[1]) = 8 /\ w[1][3] = "ret" /\ r[1] = <<8, "ret">>
      /\ WriteTag(w[2]) = 16 /\ w[2][3] = "errno_" /\ r[2] = <<16, "errno_">>
      /\ WriteTag(w[3]) = 26 /\ w[3][3] = "buf" /\ r[3] = <<26, "buf">>
      /\ WriteTag(w[4]) = 34 /\ w[4][3] = "addr" /\ r[4] = <<34, "addr">>
  BY DEF Response_Recvfrom_writes, Response_Recvfrom_reads, WriteTag
<1>3. /\ Len(f) = 4 /\ f \in Seq({f[1], f[2], f[3], f[4]})
      /\ Len(w) = 4 /\ w \in Seq({w[1], w[2], w[3], w[4]})
      /\ Len(r) = 4 /\ r \in Seq({r[1], r[2], r[3], r[4]})
  BY DEF response__recvfrom__fields, Response_Recvfrom_writes, Response_Recvfrom_reads
<1>4. /\ class.mask = {0} /\ DOMAIN class.bits = {"ret", "errno_", "buf", "addr"}
      /\ class.bits["ret"] = 0 /\ class.bits["errno_"] = 1 /\ class.bits["buf"] = 2 /\ class.bits["addr"] = 3
  BY DEF Response_Recvfrom_mask, Response_Recvfrom_bits
<1> HIDE DEF f, w, r
<1>5. Rows(class, msg)
  <2>1. \A i \in 1 .. 4 : WriteTag(w[i]) = Tag(f[i]) /\ w[i][3] = f[i].member
    BY <1>1, <1>2
  <2>2. \A i \in 1 .. 4 : r[i] = <<Tag(f[i]), f[i].member>>
    BY <1>1, <1>2
  <2>3. \A i, j \in 1 .. 4 :
          f[i].id \in Nat /\ (f[i].id = f[j].id \/ f[i].member = f[j].member => i = j)
    BY <1>1
  <2>4. QED BY <1>3, <2>1, <2>2, <2>3 DEF Rows, f, w, r
<1>6. Masked(class, msg)
  BY <1>1, <1>3, <1>4 DEF Masked, f
<1>7. QED BY <1>3, <1>5, <1>6, RowsAgree DEF f, w, r

\* The requests with fields.
LEMMA Request_SocketAgrees ==
  ASSUME NEW msg, NEW class, msg.fields = request__socket__fields,
         class.reads = Request_Socket_reads, class.writes = Request_Socket_writes,
         class.mask = Request_Socket_mask, class.bits = Request_Socket_bits
  PROVE  Agree(class, msg)
<1> DEFINE f == request__socket__fields
           w == Request_Socket_writes
           r == Request_Socket_reads
<1>1. /\ f[1].id = 1 /\ f[1].member = "domain" /\ Tag(f[1]) = 8 /\ f[1].required
      /\ f[2].id = 2 /\ f[2].member = "type" /\ Tag(f[2]) = 16 /\ f[2].required
      /\ f[3].id = 3 /\ f[3].member = "protocol" /\ Tag(f[3]) = 24 /\ f[3].required
  BY DEF request__socket__fields, Tag, WireType, Required
<1>2. /\ WriteTag(w[1]) = 8 /\ w[1][3] = "domain" /\ r[1] = <<8, "domain">>
      /\ WriteTag(w[2]) = 16 /\ w[2][3] = "type" /\ r[2] = <<16, "type">>
      /\ WriteTag(w[3]) = 24 /\ w[3][3] = "protocol" /\ r[3] = <<24, "protocol">>
  BY DEF Request_Socket_writes, Request_Socket_reads, WriteTag
<1>3. /\ Len(f) = 3 /\ f \in Seq({f[1], f[2], f[3]})
      /\ Len(w) = 3 /\ w \in Seq({w[1], w[2], w[3]})
      /\ Len(r) = 3 /\ r \in Seq({r[1], r[2], r[3]})
  BY DEF request__socket__fields, Request_Socket_writes, Request_Socket_reads
<1>4. /\ class.mask = {0, 1, 2} /\ DOMAIN class.bits = {"domain", "type", "protocol"}
      /\ class.bits["domain"] = 0 /\ class.bits["type"] = 1 /\ class.bits["protocol"] = 2
  BY DEF Request_Socket_mask, Request_Socket_bits
<1> HIDE DEF f, w, r
<1>5. Rows(class, msg)
  <2>1. \A i \in 1 .. 3 : WriteTag(w[i]) = Tag(f[i]) /\ w[i][3] = f[i].member
    BY <1>1, <1>2
  <2>2. \A i \in 1 .. 3 : r[i] = <<Tag(f[i]), f[i].member>>
    BY <1>1, <1>2
  <2>3. \A i, j \in 1 .. 3 :
          f[i].id \in Nat /\ (f[i].id = f[j].id \/ f[i].member = f[j].member => i = j)
    BY <1>1
  <2>4. QED BY <1>3, <2>1, <2>2, <2>3 DEF Rows, f, w, r
<1>6. Masked(class, msg)
  BY <1>1, <1>3, <1>4 DEF Masked, f
<1>7. QED BY <1>3, <1>5, <1>6, RowsAgree DEF f, w, r

LEMMA Request_ConnectAgrees ==
  ASSUME NEW msg, NEW class, msg.fields = request__connect__fields,
         class.reads = Request_Connect_reads, class.writes = Request_Connect_writes,
         class.mask = Request_Connect_mask, class.bits = Request_Connect_bits
  PROVE  Agree(class, msg)
<1> DEFINE f == request__connect__fields
           w == Request_Connect_writes
           r == Request_Connect_reads
<1>1. /\ f[1].id = 1 /\ f[1].member = "addr" /\ Tag(f[1]) = 10 /\ f[1].required
  BY DEF request__connect__fields, Tag, WireType, Required
<1>2. /\ WriteTag(w[1]) = 10 /\ w[1][3] = "addr" /\ r[1] = <<10, "addr">>
  BY DEF Request_Connect_writes, Request_Connect_reads, WriteTag
<1>3. /\ Len(f) = 1 /\ f \in Seq({f[1]})
      /\ Len(w) = 1 /\ w \in Seq({w[1]})
      /\ Len(r) = 1 /\ r \in Seq({r[1]})
  BY DEF request__connect__fields, Request_Connect_writes, Request_Connect_reads
<1>4. /\ class.mask = {0} /\ DOMAIN class.bits = {"addr"}
      /\ class.bits["addr"] = 0
  BY DEF Request_Connect_mask, Request_Connect_bits
<1> HIDE DEF f, w, r
<1>5. Rows(class, msg)
  <2>1. \A i \in 1 .. 1 : WriteTag(w[i]) = Tag(f[i]) /\ w[i][3] = f[i].member
    BY <1>1, <1>2
  <2>2. \A i \in 1 .. 1 : r[i] = <<Tag(f[i]), f[i].member>>
    BY <1>1, <1>2
  <2>3. \A i, j \in 1 .. 1 :
          f[i].id \in Nat /\ (f[i].id = f[j].id \/ f[i].member = f[j].member => i = j)
    BY <1>1
  <2>4. QED BY <1>3, <2>1, <2>2, <2>3 DEF Rows, f, w, r
<1>6. Masked(class, msg)
  BY <1>1, <1>3, <1>4 DEF Masked, f
<1>7. QED BY <1>3, <1>5, <1>6, RowsAgree DEF f, w, r

LEMMA Request_RecvfromAgrees ==
  ASSUME NEW msg, NEW class, msg.fields = request__recvfrom__fields,
         class.reads = Request_Recvfrom_reads, class.writes = Request_Recvfrom_writes,
         class.mask = Request_Recvfrom_mask, class.bits = Request_Recvfrom_bits
  PROVE  Agree(class, msg)
<1> DEFINE f == request__recvfrom__fields
           w == Request_Recvfrom_writes
           r == Request_Recvfrom_reads
<1>1. /\ f[1].id = 1 /\ f[1].member = "len" /\ Tag(f[1]) = 8 /\ f[1].required
      /\ f[2].id = 2 /\ f[2].member = "flags" /\ Tag(f[2]) = 16 /\ f[2].required
      /\ f[3].id = 3 /\ f[3].member = "requireaddr" /\ Tag(f[3]) = 24 /\ f[3].required
  BY DEF request__recvfrom__fields, Tag, WireType, Required
<1>2. /\ WriteTag(w[1]) = 8 /\ w[1][3] = "len" /\ r[1] = <<8, "len">>
      /\ WriteTag(w[2]) = 16 /\ w[2][3] = "flags" /\ r[2] = <<16, "flags">>
      /\ WriteTag(w[3]) = 24 /\ w[3][3] = "requireaddr" /\ r[3] = <<24, "requireaddr">>
  BY DEF Request_Recvfrom_writes, Request_Recvfrom_reads, WriteTag
<1>3. /\ Len(f) = 3 /\ f \in Seq({f[1], f[2], f[3]})
      /\ Len(w) = 3 /\ w \in Seq({w[1], w[2], w[3]})
      /\ Len(r) = 3 /\ r \in Seq({r[1], r[2], r[3]})
  BY DEF request__recvfrom__fields, Request_Recvfrom_writes, Request_Recvfrom_reads
<1>4. /\ class.mask = {0, 1, 2} /\ DOMAIN class.bits = {"len", "flags", "requireaddr"}
      /\ class.bits["len"] = 0 /\ class.bits["flags"] = 1 /\ class.bits["requireaddr"] = 2
  BY DEF Request_Recvfrom_mask, Request_Recvfrom_bits
<1> HIDE DEF f, w, r
<1>5. Rows(class, msg)
  <2>1. \A i \in 1 .. 3 : WriteTag(w[i]) = Tag(f[i]) /\ w[i][3] = f[i].member
    BY <1>1, <1>2
  <2>2. \A i \in 1 .. 3 : r[i] = <<Tag(f[i]), f[i].member>>
    BY <1>1, <1>2
  <2>3. \A i, j \in 1 .. 3 :
          f[i].id \in Nat /\ (f[i].id = f[j].id \/ f[i].member = f[j].member => i = j)
    BY <1>1
  <2>4. QED BY <1>3, <2>1, <2>2, <2>3 DEF Rows, f, w, r
<1>6. Masked(class, msg)
  BY <1>1, <1>3, <1>4 DEF Masked, f
<1>7. QED BY <1>3, <1>5, <1>6, RowsAgree DEF f, w, r

LEMMA Request_SendtoAgrees ==
  ASSUME NEW msg, NEW class, msg.fields = request__sendto__fields,
         class.reads = Request_Sendto_reads, class.writes = Request_Sendto_writes,
         class.mask = Request_Sendto_mask, class.bits = Request_Sendto_bits
  PROVE  Agree(class, msg)
<1> DEFINE f == request__sendto__fields
           w == Request_Sendto_writes
           r == Request_Sendto_reads
<1>1. /\ f[1].id = 1 /\ f[1].member = "buf" /\ Tag(f[1]) = 10 /\ f[1].required
      /\ f[2].id = 2 /\ f[2].member = "flags" /\ Tag(f[2]) = 16 /\ f[2].required
      /\ f[3].id = 3 /\ f[3].member = "addr" /\ Tag(f[3]) = 26 /\ ~ f[3].required
  BY DEF request__sendto__fields, Tag, WireType, Required, Optional
<1>2. /\ WriteTag(w[1]) = 10 /\ w[1][3] = "buf" /\ r[1] = <<10, "buf">>
      /\ WriteTag(w[2]) = 16 /\ w[2][3] = "flags" /\ r[2] = <<16, "flags">>
      /\ WriteTag(w[3]) = 26 /\ w[3][3] = "addr" /\ r[3] = <<26, "addr">>
  BY DEF Request_Sendto_writes, Request_Sendto_reads, WriteTag
<1>3. /\ Len(f) = 3 /\ f \in Seq({f[1], f[2], f[3]})
      /\ Len(w) = 3 /\ w \in Seq({w[1], w[2], w[3]})
      /\ Len(r) = 3 /\ r \in Seq({r[1], r[2], r[3]})
  BY DEF request__sendto__fields, Request_Sendto_writes, Request_Sendto_reads
<1>4. /\ class.mask = {0, 1} /\ DOMAIN class.bits = {"buf", "flags", "addr"}
      /\ class.bits["buf"] = 0 /\ class.bits["flags"] = 1 /\ class.bits["addr"] = 2
  BY DEF Request_Sendto_mask, Request_Sendto_bits
<1> HIDE DEF f, w, r
<1>5. Rows(class, msg)
  <2>1. \A i \in 1 .. 3 : WriteTag(w[i]) = Tag(f[i]) /\ w[i][3] = f[i].member
    BY <1>1, <1>2
  <2>2. \A i \in 1 .. 3 : r[i] = <<Tag(f[i]), f[i].member>>
    BY <1>1, <1>2
  <2>3. \A i, j \in 1 .. 3 :
          f[i].id \in Nat /\ (f[i].id = f[j].id \/ f[i].member = f[j].member => i = j)
    BY <1>1
  <2>4. QED BY <1>3, <2>1, <2>2, <2>3 DEF Rows, f, w, r
<1>6. Masked(class, msg)
  BY <1>1, <1>3, <1>4 DEF Masked, f
<1>7. QED BY <1>3, <1>5, <1>6, RowsAgree DEF f, w, r

LEMMA Request_AtstartAgrees ==
  ASSUME NEW msg, NEW class, msg.fields = request__atstart__fields,
         class.reads = Request_Atstart_reads, class.writes = Request_Atstart_writes,
         class.mask = Request_Atstart_mask, class.bits = Request_Atstart_bits
  PROVE  Agree(class, msg)
<1> DEFINE f == request__atstart__fields
           w == Request_Atstart_writes
           r == Request_Atstart_reads
<1>1. /\ f[1].id = 1 /\ f[1].member = "progname" /\ Tag(f[1]) = 10 /\ f[1].required
  BY DEF request__atstart__fields, Tag, WireType, Required
<1>2. /\ WriteTag(w[1]) = 10 /\ w[1][3] = "progname" /\ r[1] = <<10, "progname">>
  BY DEF Request_Atstart_writes, Request_Atstart_reads, WriteTag
<1>3. /\ Len(f) = 1 /\ f \in Seq({f[1]})
      /\ Len(w) = 1 /\ w \in Seq({w[1]})
      /\ Len(r) = 1 /\ r \in Seq({r[1]})
  BY DEF request__atstart__fields, Request_Atstart_writes, Request_Atstart_reads
<1>4. /\ class.mask = {0} /\ DOMAIN class.bits = {"progname"}
      /\ class.bits["progname"] = 0
  BY DEF Request_Atstart_mask, Request_Atstart_bits
<1> HIDE DEF f, w, r
<1>5. Rows(class, msg)
  <2>1. \A i \in 1 .. 1 : WriteTag(w[i]) = Tag(f[i]) /\ w[i][3] = f[i].member
    BY <1>1, <1>2
  <2>2. \A i \in 1 .. 1 : r[i] = <<Tag(f[i]), f[i].member>>
    BY <1>1, <1>2
  <2>3. \A i, j \in 1 .. 1 :
          f[i].id \in Nat /\ (f[i].id = f[j].id \/ f[i].member = f[j].member => i = j)
    BY <1>1
  <2>4. QED BY <1>3, <2>1, <2>2, <2>3 DEF Rows, f, w, r
<1>6. Masked(class, msg)
  BY <1>1, <1>3, <1>4 DEF Masked, f
<1>7. QED BY <1>3, <1>5, <1>6, RowsAgree DEF f, w, r

\* The outer messages.
LEMMA ResponseAgrees ==
  ASSUME NEW msg, NEW class, msg.fields = response__fields,
         class.reads = Response_reads, class.writes = Response_writes,
         class.mask = Response_mask, class.bits = Response_bits
  PROVE  Agree(class, msg)
<1> DEFINE f == response__fields
           w == Response_writes
           r == Response_reads
<1>1. /\ f[1].id = 1 /\ f[1].member = "socketcall" /\ Tag(f[1]) = 10 /\ ~ f[1].required
      /\ f[2].id = 2 /\ f[2].member = "connectcall" /\ Tag(f[2]) = 18 /\ ~ f[2].required
      /\ f[3].id = 3 /\ f[3].member = "closecall" /\ Tag(f[3]) = 26 /\ ~ f[3].required
      /\ f[4].id = 4 /\ f[4].member = "recvfromcall" /\ Tag(f[4]) = 34 /\ ~ f[4].required
      /\ f[5].id = 5 /\ f[5].member = "sendtocall" /\ Tag(f[5]) = 42 /\ ~ f[5].required
      /\ f[6].id = 6 /\ f[6].member = "pollcall" /\ Tag(f[6]) = 50 /\ ~ f[6].required
      /\ f[7].id = 7 /\ f[7].member = "selectcall" /\ Tag(f[7]) = 58 /\ ~ f[7].required
      /\ f[8].id = 8 /\ f[8].member = "getpeernamecall" /\ Tag(f[8]) = 66 /\ ~ f[8].required
      /\ f[9].id = 9 /\ f[9].member = "getsocknamecall" /\ Tag(f[9]) = 74 /\ ~ f[9].required
      /\ f[10].id = 10 /\ f[10].member = "getsockoptcall" /\ Tag(f[10]) = 82 /\ ~ f[10].required
      /\ f[11].id = 11 /\ f[11].member = "setsockoptcall" /\ Tag(f[11]) = 90 /\ ~ f[11].required
      /\ f[12].id = 12 /\ f[12].member = "fcntlcall" /\ Tag(f[12]) = 98 /\ ~ f[12].required
      /\ f[13].id = 15 /\ f[13].member = "retcode" /\ Tag(f[13]) = 120 /\ f[13].required
      /\ f[14].id = 16 /\ f[14].member = "atstartaction" /\ Tag(f[14]) = 130 /\ ~ f[14].required
  <2>1. /\ f[1].id = 1 /\ f[1].member = "socketcall" /\ Tag(f[1]) = 10 /\ ~ f[1].required
        /\ f[2].id = 2 /\ f[2].member = "connectcall" /\ Tag(f[2]) = 18 /\ ~ f[2].required
        /\ f[3].id = 3 /\ f[3].member = "closecall" /\ Tag(f[3]) = 26 /\ ~ f[3].required
        /\ f[4].id = 4 /\ f[4].member = "recvfromcall" /\ Tag(f[4]) = 34 /\ ~ f[4].required
        /\ f[5].id = 5 /\ f[5].member = "sendtocall" /\ Tag(f[5]) = 42 /\ ~ f[5].required
    BY DEF response__fields, Tag, WireType, Required, Optional, Oneof
  <2>2. /\ f[6].id = 6 /\ f[6].member = "pollcall" /\ Tag(f[6]) = 50 /\ ~ f[6].required
        /\ f[7].id = 7 /\ f[7].member = "selectcall" /\ Tag(f[7]) = 58 /\ ~ f[7].required
        /\ f[8].id = 8 /\ f[8].member = "getpeernamecall" /\ Tag(f[8]) = 66 /\ ~ f[8].required
        /\ f[9].id = 9 /\ f[9].member = "getsocknamecall" /\ Tag(f[9]) = 74 /\ ~ f[9].required
        /\ f[10].id = 10 /\ f[10].member = "getsockoptcall" /\ Tag(f[10]) = 82 /\ ~ f[10].required
    BY DEF response__fields, Tag, WireType, Required, Optional, Oneof
  <2>3. /\ f[11].id = 11 /\ f[11].member = "setsockoptcall" /\ Tag(f[11]) = 90 /\ ~ f[11].required
        /\ f[12].id = 12 /\ f[12].member = "fcntlcall" /\ Tag(f[12]) = 98 /\ ~ f[12].required
        /\ f[13].id = 15 /\ f[13].member = "retcode" /\ Tag(f[13]) = 120 /\ f[13].required
        /\ f[14].id = 16 /\ f[14].member = "atstartaction" /\ Tag(f[14]) = 130 /\ ~ f[14].required
    BY DEF response__fields, Tag, WireType, Required, Optional, Oneof
  <2>4. QED BY <2>1, <2>2, <2>3
<1>2. /\ WriteTag(w[1]) = 10 /\ w[1][3] = "socketcall" /\ r[1] = <<10, "socketcall">>
      /\ WriteTag(w[2]) = 18 /\ w[2][3] = "connectcall" /\ r[2] = <<18, "connectcall">>
      /\ WriteTag(w[3]) = 26 /\ w[3][3] = "closecall" /\ r[3] = <<26, "closecall">>
      /\ WriteTag(w[4]) = 34 /\ w[4][3] = "recvfromcall" /\ r[4] = <<34, "recvfromcall">>
      /\ WriteTag(w[5]) = 42 /\ w[5][3] = "sendtocall" /\ r[5] = <<42, "sendtocall">>
      /\ WriteTag(w[6]) = 50 /\ w[6][3] = "pollcall" /\ r[6] = <<50, "pollcall">>
      /\ WriteTag(w[7]) = 58 /\ w[7][3] = "selectcall" /\ r[7] = <<58, "selectcall">>
      /\ WriteTag(w[8]) = 66 /\ w[8][3] = "getpeernamecall" /\ r[8] = <<66, "getpeernamecall">>
      /\ WriteTag(w[9]) = 74 /\ w[9][3] = "getsocknamecall" /\ r[9] = <<74, "getsocknamecall">>
      /\ WriteTag(w[10]) = 82 /\ w[10][3] = "getsockoptcall" /\ r[10] = <<82, "getsockoptcall">>
      /\ WriteTag(w[11]) = 90 /\ w[11][3] = "setsockoptcall" /\ r[11] = <<90, "setsockoptcall">>
      /\ WriteTag(w[12]) = 98 /\ w[12][3] = "fcntlcall" /\ r[12] = <<98, "fcntlcall">>
      /\ WriteTag(w[13]) = 120 /\ w[13][3] = "retcode" /\ r[13] = <<120, "retcode">>
      /\ WriteTag(w[14]) = 130 /\ w[14][3] = "atstartaction" /\ r[14] = <<130, "atstartaction">>
  BY DEF Response_writes, Response_reads, WriteTag
<1>3. /\ Len(f) = 14 /\ f \in Seq({f[1], f[2], f[3], f[4], f[5], f[6], f[7],
                  f[8], f[9], f[10], f[11], f[12], f[13], f[14]})
      /\ Len(w) = 14 /\ w \in Seq({w[1], w[2], w[3], w[4], w[5], w[6], w[7],
                  w[8], w[9], w[10], w[11], w[12], w[13], w[14]})
      /\ Len(r) = 14 /\ r \in Seq({r[1], r[2], r[3], r[4], r[5], r[6], r[7],
                  r[8], r[9], r[10], r[11], r[12], r[13], r[14]})
  BY DEF response__fields, Response_writes, Response_reads
<1>4. /\ class.mask = {13} /\ DOMAIN class.bits = {"retcode"}
      /\ class.bits["retcode"] = 13
  BY DEF Response_mask, Response_bits
<1> HIDE DEF f, w, r
<1>5. Rows(class, msg)
  <2>1. \A i \in 1 .. 14 : WriteTag(w[i]) = Tag(f[i]) /\ w[i][3] = f[i].member
    BY <1>1, <1>2
  <2>2. \A i \in 1 .. 14 : r[i] = <<Tag(f[i]), f[i].member>>
    BY <1>1, <1>2
  <2>3. \A i, j \in 1 .. 14 :
          f[i].id \in Nat /\ (f[i].id = f[j].id \/ f[i].member = f[j].member => i = j)
    BY <1>1
  <2>4. QED BY <1>3, <2>1, <2>2, <2>3 DEF Rows, f, w, r
<1>6. Masked(class, msg)
  <2>1. /\ \A i \in 1 .. 14 : f[i].required => i = 13
        /\ f[13].required /\ f[13].member = "retcode" /\ 13 \in 1 .. 14
    BY <1>1
  <2>2. QED BY <1>3, <1>4, <2>1 DEF Masked, f
<1>7. QED BY <1>3, <1>5, <1>6, RowsAgree DEF f, w, r

LEMMA RequestAgrees ==
  ASSUME NEW msg, NEW class, msg.fields = request__fields,
         class.reads = Request_reads, class.writes = Request_writes,
         class.mask = Request_mask, class.bits = Request_bits
  PROVE  Agree(class, msg)
<1> DEFINE f == request__fields
           w == Request_writes
           r == Request_reads
<1>1. /\ f[1].id = 1 /\ f[1].member = "socketcall" /\ Tag(f[1]) = 10 /\ ~ f[1].required
      /\ f[2].id = 2 /\ f[2].member = "connectcall" /\ Tag(f[2]) = 18 /\ ~ f[2].required
      /\ f[3].id = 3 /\ f[3].member = "closecall" /\ Tag(f[3]) = 26 /\ ~ f[3].required
      /\ f[4].id = 4 /\ f[4].member = "recvfromcall" /\ Tag(f[4]) = 34 /\ ~ f[4].required
      /\ f[5].id = 5 /\ f[5].member = "sendtocall" /\ Tag(f[5]) = 42 /\ ~ f[5].required
      /\ f[6].id = 6 /\ f[6].member = "pollcall" /\ Tag(f[6]) = 50 /\ ~ f[6].required
      /\ f[7].id = 7 /\ f[7].member = "selectcall" /\ Tag(f[7]) = 58 /\ ~ f[7].required
      /\ f[8].id = 8 /\ f[8].member = "getpeernamecall" /\ Tag(f[8]) = 66 /\ ~ f[8].required
      /\ f[9].id = 9 /\ f[9].member = "getsocknamecall" /\ Tag(f[9]) = 74 /\ ~ f[9].required
      /\ f[10].id = 10 /\ f[10].member = "getsockoptcall" /\ Tag(f[10]) = 82 /\ ~ f[10].required
      /\ f[11].id = 11 /\ f[11].member = "setsockoptcall" /\ Tag(f[11]) = 90 /\ ~ f[11].required
      /\ f[12].id = 12 /\ f[12].member = "fcntlcall" /\ Tag(f[12]) = 98 /\ ~ f[12].required
      /\ f[13].id = 15 /\ f[13].member = "pid" /\ Tag(f[13]) = 120 /\ f[13].required
      /\ f[14].id = 16 /\ f[14].member = "atstartaction" /\ Tag(f[14]) = 130 /\ ~ f[14].required
  <2>1. /\ f[1].id = 1 /\ f[1].member = "socketcall" /\ Tag(f[1]) = 10 /\ ~ f[1].required
        /\ f[2].id = 2 /\ f[2].member = "connectcall" /\ Tag(f[2]) = 18 /\ ~ f[2].required
        /\ f[3].id = 3 /\ f[3].member = "closecall" /\ Tag(f[3]) = 26 /\ ~ f[3].required
        /\ f[4].id = 4 /\ f[4].member = "recvfromcall" /\ Tag(f[4]) = 34 /\ ~ f[4].required
        /\ f[5].id = 5 /\ f[5].member = "sendtocall" /\ Tag(f[5]) = 42 /\ ~ f[5].required
    BY DEF request__fields, Tag, WireType, Required, Optional, Oneof
  <2>2. /\ f[6].id = 6 /\ f[6].member = "pollcall" /\ Tag(f[6]) = 50 /\ ~ f[6].required
        /\ f[7].id = 7 /\ f[7].member = "selectcall" /\ Tag(f[7]) = 58 /\ ~ f[7].required
        /\ f[8].id = 8 /\ f[8].member = "getpeernamecall" /\ Tag(f[8]) = 66 /\ ~ f[8].required
        /\ f[9].id = 9 /\ f[9].member = "getsocknamecall" /\ Tag(f[9]) = 74 /\ ~ f[9].required
        /\ f[10].id = 10 /\ f[10].member = "getsockoptcall" /\ Tag(f[10]) = 82 /\ ~ f[10].required
    BY DEF request__fields, Tag, WireType, Required, Optional, Oneof
  <2>3. /\ f[11].id = 11 /\ f[11].member = "setsockoptcall" /\ Tag(f[11]) = 90 /\ ~ f[11].required
        /\ f[12].id = 12 /\ f[12].member = "fcntlcall" /\ Tag(f[12]) = 98 /\ ~ f[12].required
        /\ f[13].id = 15 /\ f[13].member = "pid" /\ Tag(f[13]) = 120 /\ f[13].required
        /\ f[14].id = 16 /\ f[14].member = "atstartaction" /\ Tag(f[14]) = 130 /\ ~ f[14].required
    BY DEF request__fields, Tag, WireType, Required, Optional, Oneof
  <2>4. QED BY <2>1, <2>2, <2>3
<1>2. /\ WriteTag(w[1]) = 10 /\ w[1][3] = "socketcall" /\ r[1] = <<10, "socketcall">>
      /\ WriteTag(w[2]) = 18 /\ w[2][3] = "connectcall" /\ r[2] = <<18, "connectcall">>
      /\ WriteTag(w[3]) = 26 /\ w[3][3] = "closecall" /\ r[3] = <<26, "closecall">>
      /\ WriteTag(w[4]) = 34 /\ w[4][3] = "recvfromcall" /\ r[4] = <<34, "recvfromcall">>
      /\ WriteTag(w[5]) = 42 /\ w[5][3] = "sendtocall" /\ r[5] = <<42, "sendtocall">>
      /\ WriteTag(w[6]) = 50 /\ w[6][3] = "pollcall" /\ r[6] = <<50, "pollcall">>
      /\ WriteTag(w[7]) = 58 /\ w[7][3] = "selectcall" /\ r[7] = <<58, "selectcall">>
      /\ WriteTag(w[8]) = 66 /\ w[8][3] = "getpeernamecall" /\ r[8] = <<66, "getpeernamecall">>
      /\ WriteTag(w[9]) = 74 /\ w[9][3] = "getsocknamecall" /\ r[9] = <<74, "getsocknamecall">>
      /\ WriteTag(w[10]) = 82 /\ w[10][3] = "getsockoptcall" /\ r[10] = <<82, "getsockoptcall">>
      /\ WriteTag(w[11]) = 90 /\ w[11][3] = "setsockoptcall" /\ r[11] = <<90, "setsockoptcall">>
      /\ WriteTag(w[12]) = 98 /\ w[12][3] = "fcntlcall" /\ r[12] = <<98, "fcntlcall">>
      /\ WriteTag(w[13]) = 120 /\ w[13][3] = "pid" /\ r[13] = <<120, "pid">>
      /\ WriteTag(w[14]) = 130 /\ w[14][3] = "atstartaction" /\ r[14] = <<130, "atstartaction">>
  BY DEF Request_writes, Request_reads, WriteTag
<1>3. /\ Len(f) = 14 /\ f \in Seq({f[1], f[2], f[3], f[4], f[5], f[6], f[7],
                  f[8], f[9], f[10], f[11], f[12], f[13], f[14]})
      /\ Len(w) = 14 /\ w \in Seq({w[1], w[2], w[3], w[4], w[5], w[6], w[7],
                  w[8], w[9], w[10], w[11], w[12], w[13], w[14]})
      /\ Len(r) = 14 /\ r \in Seq({r[1], r[2], r[3], r[4], r[5], r[6], r[7],
                  r[8], r[9], r[10], r[11], r[12], r[13], r[14]})
  BY DEF request__fields, Request_writes, Request_reads
<1>4. /\ class.mask = {13} /\ DOMAIN class.bits = {"pid"}
      /\ class.bits["pid"] = 13
  BY DEF Request_mask, Request_bits
<1> HIDE DEF f, w, r
<1>5. Rows(class, msg)
  <2>1. \A i \in 1 .. 14 : WriteTag(w[i]) = Tag(f[i]) /\ w[i][3] = f[i].member
    BY <1>1, <1>2
  <2>2. \A i \in 1 .. 14 : r[i] = <<Tag(f[i]), f[i].member>>
    BY <1>1, <1>2
  <2>3. \A i, j \in 1 .. 14 :
          f[i].id \in Nat /\ (f[i].id = f[j].id \/ f[i].member = f[j].member => i = j)
    BY <1>1
  <2>4. QED BY <1>3, <2>1, <2>2, <2>3 DEF Rows, f, w, r
<1>6. Masked(class, msg)
  <2>1. /\ \A i \in 1 .. 14 : f[i].required => i = 13
        /\ f[13].required /\ f[13].member = "pid" /\ 13 \in 1 .. 14
    BY <1>1
  <2>2. QED BY <1>3, <1>4, <2>1 DEF Masked, f
<1>7. QED BY <1>3, <1>5, <1>6, RowsAgree DEF f, w, r

-----------------------------------------------------------------------------
(* The structs of the answers.                                              *)

Fits(f, s) ==
  /\ \A i, j \in 1 .. Len(s) : s[i][1] = s[j][1] => i = j
  /\ \A i \in 1 .. Len(f) : \E j \in 1 .. Len(s) : s[j][1] = f[i].member
  /\ \A i \in 1 .. Len(f) : ~ f[i].required =>
       /\ \E j \in 1 .. Len(s) : s[j] = <<f[i].quantifier, "protobuf_c_boolean">>
       /\ \A j \in 1 .. Len(f) : /\ f[i].quantifier # f[j].member
                                 /\ ~ f[j].required /\ f[i].quantifier = f[j].quantifier => i = j

\* A struct with a member for each field, and a flag for each optional one,
\* holds what a message holds.
LEMMA StructFits ==
  ASSUME NEW msg, Fits(msg.fields, msg.struct), NEW T, msg.fields \in Seq(T), NEW U, msg.struct \in Seq(U)
  PROVE  GoodStruct(msg)
<1> DEFINE S == ToSet(msg.struct)
           F == ToSet(msg.fields)
           init == InitValue(msg.struct)
           at(m) == CHOOSE s \in S : s[1] = m
           n == Len(msg.fields)
           k == Len(msg.struct)
<1>1. S = {msg.struct[i] : i \in 1 .. k} /\ F = {msg.fields[i] : i \in 1 .. n}
  BY DEF ToSet
<1>2. /\ \A i, j \in 1 .. k : msg.struct[i][1] = msg.struct[j][1] => i = j
      /\ \A i \in 1 .. n : \E j \in 1 .. k : msg.struct[j][1] = msg.fields[i].member
      /\ \A i \in 1 .. n : ~ msg.fields[i].required =>
            \E j \in 1 .. k : msg.struct[j] = <<msg.fields[i].quantifier, "protobuf_c_boolean">>
      /\ \A i, j \in 1 .. n : ~ msg.fields[i].required =>
            /\ msg.fields[i].quantifier # msg.fields[j].member
            /\ ~ msg.fields[j].required /\ msg.fields[i].quantifier = msg.fields[j].quantifier => i = j
  BY DEF Fits
<1> HIDE DEF n, k
<1>3. \A s, t \in S : s[1] = t[1] => s = t
  <2> HIDE DEF S
  <2>1. QED BY <1>1, <1>2
<1>4. \A f \in F : \E s \in S : s[1] = f.member
  <2> HIDE DEF S, F
  <2>1. QED BY <1>1, <1>2
<1>5. ASSUME NEW f \in F, ~ f.required PROVE <<f.quantifier, "protobuf_c_boolean">> \in S
  <2> HIDE DEF S, F
  <2>1. PICK i \in 1 .. n : f = msg.fields[i]
    BY <1>1, <1>5
  <2>2. PICK j \in 1 .. k : msg.struct[j] = <<f.quantifier, "protobuf_c_boolean">>
    BY <1>2, <1>5, <2>1
  <2>3. QED BY <1>1, <2>2
<1>6. ASSUME NEW f \in F, ~ f.required, NEW g \in F
      PROVE  f.quantifier # g.member /\ (~ g.required /\ f.quantifier = g.quantifier => f = g)
  <2> HIDE DEF S, F
  <2>1. PICK i \in 1 .. n : f = msg.fields[i]
    BY <1>1, <1>6
  <2>2. PICK j \in 1 .. n : g = msg.fields[j]
    BY <1>1, <1>6
  <2>3. QED BY <1>2, <1>6, <2>1, <2>2
<1>7. init = [m \in {s[1] : s \in S} |-> Zero(at(m)[2])]
  BY DEF InitValue
<1>8. ASSUME NEW f \in F PROVE f.member \in DOMAIN init
  <2> DEFINE D == {s[1] : s \in S}
  <2>1. f.member \in D
    <3>1. PICK s \in S : s[1] = f.member
      BY <1>4
    <3> HIDE DEF S, F
    <3>2. QED BY <3>1
  <2> HIDE DEF at, D
  <2>2. QED BY <1>7, <2>1 DEF D
<1>9. ASSUME NEW f \in F, ~ f.required
      PROVE  f.quantifier \in DOMAIN init /\ init[f.quantifier] = FALSE
  <2> DEFINE q == f.quantifier
             s == <<q, "protobuf_c_boolean">>
  <2>1. s \in S
    BY <1>5, <1>9
  <2>2. s[1] = q /\ s[2] = "protobuf_c_boolean"
    OBVIOUS
  <2> HIDE DEF s, q
  <2>3. at(q) = s
    <3> HIDE DEF S
    <3>1. QED BY <2>1, <2>2, <1>3
  <2> HIDE DEF at
  <2>4. q \in DOMAIN init /\ init[q] = Zero("protobuf_c_boolean")
    BY <1>7, <2>1, <2>2, <2>3
  <2>5. Zero("protobuf_c_boolean") = FALSE
    BY DEF Zero
  <2> HIDE DEF init
  <2>6. QED BY <2>4, <2>5 DEF q
<1> HIDE DEF init, F
<1>10. QED BY <1>6, <1>8, <1>9 DEF GoodStruct, init, F

\* The structs of the answers, one by one.
LEMMA Response__SocketFits ==
  ASSUME NEW msg, msg.fields = response__socket__fields, msg.struct = Response__Socket
  PROVE  GoodStruct(msg)
<1> DEFINE f == response__socket__fields
           s == Response__Socket
<1>1. /\ f[1].member = "ret" /\ f[1].required
      /\ f[2].member = "errno_" /\ ~ f[2].required /\ f[2].quantifier = "has_errno_"
  BY DEF response__socket__fields, Required, Optional
<1>2. /\ s[1] = <<"ret", "int32_t">>
      /\ s[2] = <<"has_errno_", "protobuf_c_boolean">>
      /\ s[3] = <<"errno_", "int32_t">>
  BY DEF Response__Socket
<1>3. Len(f) = 2 /\ Len(s) = 3 /\ f \in Seq({f[1], f[2]})
      /\ s \in Seq({s[1], s[2], s[3]})
  BY DEF response__socket__fields, Response__Socket
<1> HIDE DEF f, s
<1>4. \A i, j \in 1 .. Len(s) : s[i][1] = s[j][1] => i = j
  BY <1>2, <1>3
<1>5. /\ \E i \in 1 .. 3 : s[i][1] = "ret"
      /\ \E i \in 1 .. 3 : s[i][1] = "errno_"
      /\ \E i \in 1 .. 3 : s[i] = <<"has_errno_", "protobuf_c_boolean">>
  BY <1>2
<1>6. \A i \in 1 .. Len(f) : \E j \in 1 .. Len(s) : s[j][1] = f[i].member
  BY <1>1, <1>3, <1>5
<1>7. \A i \in 1 .. Len(f) : ~ f[i].required =>
        /\ \E j \in 1 .. Len(s) : s[j] = <<f[i].quantifier, "protobuf_c_boolean">>
        /\ \A j \in 1 .. Len(f) : /\ f[i].quantifier # f[j].member
                                  /\ ~ f[j].required /\ f[i].quantifier = f[j].quantifier => i = j
  BY <1>1, <1>3, <1>5
<1>8. Fits(f, s)
  BY <1>4, <1>6, <1>7 DEF Fits
<1>9. QED BY <1>3, <1>8, StructFits DEF f, s

LEMMA Response__AtstartFits ==
  ASSUME NEW msg, msg.fields = response__atstart__fields, msg.struct = Response__Atstart
  PROVE  GoodStruct(msg)
<1> DEFINE f == response__atstart__fields
           s == Response__Atstart
<1>1. /\ f[1].member = "startfd" /\ f[1].required
      /\ f[2].member = "count" /\ ~ f[2].required /\ f[2].quantifier = "has_count"
  BY DEF response__atstart__fields, Required, Optional
<1>2. /\ s[1] = <<"startfd", "int32_t">>
      /\ s[2] = <<"has_count", "protobuf_c_boolean">>
      /\ s[3] = <<"count", "int32_t">>
  BY DEF Response__Atstart
<1>3. Len(f) = 2 /\ Len(s) = 3 /\ f \in Seq({f[1], f[2]})
      /\ s \in Seq({s[1], s[2], s[3]})
  BY DEF response__atstart__fields, Response__Atstart
<1> HIDE DEF f, s
<1>4. \A i, j \in 1 .. Len(s) : s[i][1] = s[j][1] => i = j
  BY <1>2, <1>3
<1>5. /\ \E i \in 1 .. 3 : s[i][1] = "startfd"
      /\ \E i \in 1 .. 3 : s[i][1] = "count"
      /\ \E i \in 1 .. 3 : s[i] = <<"has_count", "protobuf_c_boolean">>
  BY <1>2
<1>6. \A i \in 1 .. Len(f) : \E j \in 1 .. Len(s) : s[j][1] = f[i].member
  BY <1>1, <1>3, <1>5
<1>7. \A i \in 1 .. Len(f) : ~ f[i].required =>
        /\ \E j \in 1 .. Len(s) : s[j] = <<f[i].quantifier, "protobuf_c_boolean">>
        /\ \A j \in 1 .. Len(f) : /\ f[i].quantifier # f[j].member
                                  /\ ~ f[j].required /\ f[i].quantifier = f[j].quantifier => i = j
  BY <1>1, <1>3, <1>5
<1>8. Fits(f, s)
  BY <1>4, <1>6, <1>7 DEF Fits
<1>9. QED BY <1>3, <1>8, StructFits DEF f, s

LEMMA Response__GetpeernameFits ==
  ASSUME NEW msg, msg.fields = response__getpeername__fields, msg.struct = Response__Getpeername
  PROVE  GoodStruct(msg)
<1> DEFINE f == response__getpeername__fields
           s == Response__Getpeername
<1>1. /\ f[1].member = "ret" /\ f[1].required
      /\ f[2].member = "errno_" /\ ~ f[2].required /\ f[2].quantifier = "has_errno_"
      /\ f[3].member = "peername" /\ ~ f[3].required /\ f[3].quantifier = "has_peername"
  BY DEF response__getpeername__fields, Required, Optional
<1>2. /\ s[1] = <<"ret", "int32_t">>
      /\ s[2] = <<"has_errno_", "protobuf_c_boolean">>
      /\ s[3] = <<"errno_", "int32_t">>
      /\ s[4] = <<"has_peername", "protobuf_c_boolean">>
      /\ s[5] = <<"peername", "ProtobufCBinaryData">>
  BY DEF Response__Getpeername
<1>3. Len(f) = 3 /\ Len(s) = 5 /\ f \in Seq({f[1], f[2], f[3]})
      /\ s \in Seq({s[1], s[2], s[3], s[4], s[5]})
  BY DEF response__getpeername__fields, Response__Getpeername
<1> HIDE DEF f, s
<1>4. \A i, j \in 1 .. Len(s) : s[i][1] = s[j][1] => i = j
  BY <1>2, <1>3
<1>5. /\ \E i \in 1 .. 5 : s[i][1] = "ret"
      /\ \E i \in 1 .. 5 : s[i][1] = "errno_"
      /\ \E i \in 1 .. 5 : s[i][1] = "peername"
      /\ \E i \in 1 .. 5 : s[i] = <<"has_errno_", "protobuf_c_boolean">>
      /\ \E i \in 1 .. 5 : s[i] = <<"has_peername", "protobuf_c_boolean">>
  BY <1>2
<1>6. \A i \in 1 .. Len(f) : \E j \in 1 .. Len(s) : s[j][1] = f[i].member
  BY <1>1, <1>3, <1>5
<1>7. \A i \in 1 .. Len(f) : ~ f[i].required =>
        /\ \E j \in 1 .. Len(s) : s[j] = <<f[i].quantifier, "protobuf_c_boolean">>
        /\ \A j \in 1 .. Len(f) : /\ f[i].quantifier # f[j].member
                                  /\ ~ f[j].required /\ f[i].quantifier = f[j].quantifier => i = j
  BY <1>1, <1>3, <1>5
<1>8. Fits(f, s)
  BY <1>4, <1>6, <1>7 DEF Fits
<1>9. QED BY <1>3, <1>8, StructFits DEF f, s

LEMMA Response__GetsocknameFits ==
  ASSUME NEW msg, msg.fields = response__getsockname__fields, msg.struct = Response__Getsockname
  PROVE  GoodStruct(msg)
<1> DEFINE f == response__getsockname__fields
           s == Response__Getsockname
<1>1. /\ f[1].member = "ret" /\ f[1].required
      /\ f[2].member = "errno_" /\ ~ f[2].required /\ f[2].quantifier = "has_errno_"
      /\ f[3].member = "sockanme" /\ ~ f[3].required /\ f[3].quantifier = "has_sockanme"
  BY DEF response__getsockname__fields, Required, Optional
<1>2. /\ s[1] = <<"ret", "int32_t">>
      /\ s[2] = <<"has_errno_", "protobuf_c_boolean">>
      /\ s[3] = <<"errno_", "int32_t">>
      /\ s[4] = <<"has_sockanme", "protobuf_c_boolean">>
      /\ s[5] = <<"sockanme", "ProtobufCBinaryData">>
  BY DEF Response__Getsockname
<1>3. Len(f) = 3 /\ Len(s) = 5 /\ f \in Seq({f[1], f[2], f[3]})
      /\ s \in Seq({s[1], s[2], s[3], s[4], s[5]})
  BY DEF response__getsockname__fields, Response__Getsockname
<1> HIDE DEF f, s
<1>4. \A i, j \in 1 .. Len(s) : s[i][1] = s[j][1] => i = j
  BY <1>2, <1>3
<1>5. /\ \E i \in 1 .. 5 : s[i][1] = "ret"
      /\ \E i \in 1 .. 5 : s[i][1] = "errno_"
      /\ \E i \in 1 .. 5 : s[i][1] = "sockanme"
      /\ \E i \in 1 .. 5 : s[i] = <<"has_errno_", "protobuf_c_boolean">>
      /\ \E i \in 1 .. 5 : s[i] = <<"has_sockanme", "protobuf_c_boolean">>
  BY <1>2
<1>6. \A i \in 1 .. Len(f) : \E j \in 1 .. Len(s) : s[j][1] = f[i].member
  BY <1>1, <1>3, <1>5
<1>7. \A i \in 1 .. Len(f) : ~ f[i].required =>
        /\ \E j \in 1 .. Len(s) : s[j] = <<f[i].quantifier, "protobuf_c_boolean">>
        /\ \A j \in 1 .. Len(f) : /\ f[i].quantifier # f[j].member
                                  /\ ~ f[j].required /\ f[i].quantifier = f[j].quantifier => i = j
  BY <1>1, <1>3, <1>5
<1>8. Fits(f, s)
  BY <1>4, <1>6, <1>7 DEF Fits
<1>9. QED BY <1>3, <1>8, StructFits DEF f, s

LEMMA Response__RecvfromFits ==
  ASSUME NEW msg, msg.fields = response__recvfrom__fields, msg.struct = Response__Recvfrom
  PROVE  GoodStruct(msg)
<1> DEFINE f == response__recvfrom__fields
           s == Response__Recvfrom
<1>1. /\ f[1].member = "ret" /\ f[1].required
      /\ f[2].member = "errno_" /\ ~ f[2].required /\ f[2].quantifier = "has_errno_"
      /\ f[3].member = "buf" /\ ~ f[3].required /\ f[3].quantifier = "has_buf"
      /\ f[4].member = "addr" /\ ~ f[4].required /\ f[4].quantifier = "has_addr"
  BY DEF response__recvfrom__fields, Required, Optional
<1>2. /\ s[1] = <<"ret", "int32_t">>
      /\ s[2] = <<"has_errno_", "protobuf_c_boolean">>
      /\ s[3] = <<"errno_", "int32_t">>
      /\ s[4] = <<"has_buf", "protobuf_c_boolean">>
      /\ s[5] = <<"buf", "ProtobufCBinaryData">>
      /\ s[6] = <<"has_addr", "protobuf_c_boolean">>
      /\ s[7] = <<"addr", "ProtobufCBinaryData">>
  BY DEF Response__Recvfrom
<1>3. Len(f) = 4 /\ Len(s) = 7 /\ f \in Seq({f[1], f[2], f[3], f[4]})
      /\ s \in Seq({s[1], s[2], s[3], s[4], s[5], s[6], s[7]})
  BY DEF response__recvfrom__fields, Response__Recvfrom
<1> HIDE DEF f, s
<1>4. \A i, j \in 1 .. Len(s) : s[i][1] = s[j][1] => i = j
  BY <1>2, <1>3
<1>5. /\ \E i \in 1 .. 7 : s[i][1] = "ret"
      /\ \E i \in 1 .. 7 : s[i][1] = "errno_"
      /\ \E i \in 1 .. 7 : s[i][1] = "buf"
      /\ \E i \in 1 .. 7 : s[i][1] = "addr"
      /\ \E i \in 1 .. 7 : s[i] = <<"has_errno_", "protobuf_c_boolean">>
      /\ \E i \in 1 .. 7 : s[i] = <<"has_buf", "protobuf_c_boolean">>
      /\ \E i \in 1 .. 7 : s[i] = <<"has_addr", "protobuf_c_boolean">>
  BY <1>2
<1>6. \A i \in 1 .. Len(f) : \E j \in 1 .. Len(s) : s[j][1] = f[i].member
  BY <1>1, <1>3, <1>5
<1>7. \A i \in 1 .. Len(f) : ~ f[i].required =>
        /\ \E j \in 1 .. Len(s) : s[j] = <<f[i].quantifier, "protobuf_c_boolean">>
        /\ \A j \in 1 .. Len(f) : /\ f[i].quantifier # f[j].member
                                  /\ ~ f[j].required /\ f[i].quantifier = f[j].quantifier => i = j
  BY <1>1, <1>3, <1>5
<1>8. Fits(f, s)
  BY <1>4, <1>6, <1>7 DEF Fits
<1>9. QED BY <1>3, <1>8, StructFits DEF f, s

-----------------------------------------------------------------------------
(* Both languages, all messages.                                            *)

Calls == {"socketcall", "connectcall", "closecall", "recvfromcall", "sendtocall", "pollcall",
         "selectcall", "getpeernamecall", "getsocknamecall", "getsockoptcall",
         "setsockoptcall", "fcntlcall", "atstartaction"}

\* The thirteen calls of an answer,
LEMMA ResponseDomains ==
  /\ DOMAIN Response.calls = Calls /\ DOMAIN Response__C.calls = Calls /\ DOMAIN Response__ReturningCase = Calls
  /\ Response__C.calls = response__calls /\ Response.calls = Response_calls
BY DEF Calls, Response, Response__C, Response__ReturningCase, Response_calls, response__calls

\* whose tables in the two languages agree,
LEMMA ResponseTables ==
  ASSUME NEW c \in Calls
  PROVE  Agree(Response.calls[c], response__calls[c]) /\ GoodStruct(response__calls[c])
<1> DEFINE class == Response_calls[c]
           msg == response__calls[c]
<1>1. CASE c = "socketcall"
  <2>1. /\ msg.fields = response__socket__fields /\ class.reads = Response_Socket_reads /\ msg.struct = Response__Socket
        /\ class.writes = Response_Socket_writes /\ class.mask = Response_Socket_mask /\ class.bits = Response_Socket_bits
    BY <1>1 DEF Response_calls, response__calls, Class, Message
  <2> HIDE DEF msg, class
  <2>2. Agree(class, msg) /\ GoodStruct(msg)
    BY <2>1, Response_SocketAgrees, Response__SocketFits
  <2>3. QED BY <2>2, ResponseDomains DEF msg, class
<1>2. CASE c = "connectcall"
  <2>1. /\ msg.fields = response__socket__fields /\ class.reads = Response_Socket_reads /\ msg.struct = Response__Socket
        /\ class.writes = Response_Socket_writes /\ class.mask = Response_Socket_mask /\ class.bits = Response_Socket_bits
    BY <1>2 DEF Response_calls, response__calls, Class, Message, response__connect__fields,
                Response__Connect, Response_Connect_reads, Response_Connect_writes,
                Response_Connect_mask, Response_Connect_bits, response__socket__fields,
                Response__Socket, Response_Socket_reads, Response_Socket_writes,
                Response_Socket_mask, Response_Socket_bits
  <2> HIDE DEF msg, class
  <2>2. Agree(class, msg) /\ GoodStruct(msg)
    BY <2>1, Response_SocketAgrees, Response__SocketFits
  <2>3. QED BY <2>2, ResponseDomains DEF msg, class
<1>3. CASE c = "closecall"
  <2>1. /\ msg.fields = response__socket__fields /\ class.reads = Response_Socket_reads /\ msg.struct = Response__Socket
        /\ class.writes = Response_Socket_writes /\ class.mask = Response_Socket_mask /\ class.bits = Response_Socket_bits
    BY <1>3 DEF Response_calls, response__calls, Class, Message, response__close__fields,
                Response__Close, Response_Close_reads, Response_Close_writes,
                Response_Close_mask, Response_Close_bits, response__socket__fields,
                Response__Socket, Response_Socket_reads, Response_Socket_writes,
                Response_Socket_mask, Response_Socket_bits
  <2> HIDE DEF msg, class
  <2>2. Agree(class, msg) /\ GoodStruct(msg)
    BY <2>1, Response_SocketAgrees, Response__SocketFits
  <2>3. QED BY <2>2, ResponseDomains DEF msg, class
<1>4. CASE c = "recvfromcall"
  <2>1. /\ msg.fields = response__recvfrom__fields /\ class.reads = Response_Recvfrom_reads /\ msg.struct = Response__Recvfrom
        /\ class.writes = Response_Recvfrom_writes /\ class.mask = Response_Recvfrom_mask /\ class.bits = Response_Recvfrom_bits
    BY <1>4 DEF Response_calls, response__calls, Class, Message
  <2> HIDE DEF msg, class
  <2>2. Agree(class, msg) /\ GoodStruct(msg)
    BY <2>1, Response_RecvfromAgrees, Response__RecvfromFits
  <2>3. QED BY <2>2, ResponseDomains DEF msg, class
<1>5. CASE c = "sendtocall"
  <2>1. /\ msg.fields = response__socket__fields /\ class.reads = Response_Socket_reads /\ msg.struct = Response__Socket
        /\ class.writes = Response_Socket_writes /\ class.mask = Response_Socket_mask /\ class.bits = Response_Socket_bits
    BY <1>5 DEF Response_calls, response__calls, Class, Message, response__sendto__fields,
                Response__Sendto, Response_Sendto_reads, Response_Sendto_writes,
                Response_Sendto_mask, Response_Sendto_bits, response__socket__fields,
                Response__Socket, Response_Socket_reads, Response_Socket_writes,
                Response_Socket_mask, Response_Socket_bits
  <2> HIDE DEF msg, class
  <2>2. Agree(class, msg) /\ GoodStruct(msg)
    BY <2>1, Response_SocketAgrees, Response__SocketFits
  <2>3. QED BY <2>2, ResponseDomains DEF msg, class
<1>6. CASE c = "pollcall"
  <2>1. /\ msg.fields = response__socket__fields /\ class.reads = Response_Socket_reads /\ msg.struct = Response__Socket
        /\ class.writes = Response_Socket_writes /\ class.mask = Response_Socket_mask /\ class.bits = Response_Socket_bits
    BY <1>6 DEF Response_calls, response__calls, Class, Message, response__poll__fields,
                Response__Poll, Response_Poll_reads, Response_Poll_writes, Response_Poll_mask,
                Response_Poll_bits, response__socket__fields, Response__Socket,
                Response_Socket_reads, Response_Socket_writes, Response_Socket_mask,
                Response_Socket_bits
  <2> HIDE DEF msg, class
  <2>2. Agree(class, msg) /\ GoodStruct(msg)
    BY <2>1, Response_SocketAgrees, Response__SocketFits
  <2>3. QED BY <2>2, ResponseDomains DEF msg, class
<1>7. CASE c = "selectcall"
  <2>1. /\ msg.fields = response__socket__fields /\ class.reads = Response_Socket_reads /\ msg.struct = Response__Socket
        /\ class.writes = Response_Socket_writes /\ class.mask = Response_Socket_mask /\ class.bits = Response_Socket_bits
    BY <1>7 DEF Response_calls, response__calls, Class, Message, response__select__fields,
                Response__Select, Response_Select_reads, Response_Select_writes,
                Response_Select_mask, Response_Select_bits, response__socket__fields,
                Response__Socket, Response_Socket_reads, Response_Socket_writes,
                Response_Socket_mask, Response_Socket_bits
  <2> HIDE DEF msg, class
  <2>2. Agree(class, msg) /\ GoodStruct(msg)
    BY <2>1, Response_SocketAgrees, Response__SocketFits
  <2>3. QED BY <2>2, ResponseDomains DEF msg, class
<1>8. CASE c = "getpeernamecall"
  <2>1. /\ msg.fields = response__getpeername__fields /\ class.reads = Response_Getpeername_reads /\ msg.struct = Response__Getpeername
        /\ class.writes = Response_Getpeername_writes /\ class.mask = Response_Getpeername_mask /\ class.bits = Response_Getpeername_bits
    BY <1>8 DEF Response_calls, response__calls, Class, Message
  <2> HIDE DEF msg, class
  <2>2. Agree(class, msg) /\ GoodStruct(msg)
    BY <2>1, Response_GetpeernameAgrees, Response__GetpeernameFits
  <2>3. QED BY <2>2, ResponseDomains DEF msg, class
<1>9. CASE c = "getsocknamecall"
  <2>1. /\ msg.fields = response__getsockname__fields /\ class.reads = Response_Getsockname_reads /\ msg.struct = Response__Getsockname
        /\ class.writes = Response_Getsockname_writes /\ class.mask = Response_Getsockname_mask /\ class.bits = Response_Getsockname_bits
    BY <1>9 DEF Response_calls, response__calls, Class, Message
  <2> HIDE DEF msg, class
  <2>2. Agree(class, msg) /\ GoodStruct(msg)
    BY <2>1, Response_GetsocknameAgrees, Response__GetsocknameFits
  <2>3. QED BY <2>2, ResponseDomains DEF msg, class
<1>10. CASE c = "getsockoptcall"
  <2>1. /\ msg.fields = response__socket__fields /\ class.reads = Response_Socket_reads /\ msg.struct = Response__Socket
        /\ class.writes = Response_Socket_writes /\ class.mask = Response_Socket_mask /\ class.bits = Response_Socket_bits
    BY <1>10 DEF Response_calls, response__calls, Class, Message, response__getsockopt__fields,
                 Response__Getsockopt, Response_Getsockopt_reads, Response_Getsockopt_writes,
                 Response_Getsockopt_mask, Response_Getsockopt_bits, response__socket__fields,
                 Response__Socket, Response_Socket_reads, Response_Socket_writes,
                 Response_Socket_mask, Response_Socket_bits
  <2> HIDE DEF msg, class
  <2>2. Agree(class, msg) /\ GoodStruct(msg)
    BY <2>1, Response_SocketAgrees, Response__SocketFits
  <2>3. QED BY <2>2, ResponseDomains DEF msg, class
<1>11. CASE c = "setsockoptcall"
  <2>1. /\ msg.fields = response__socket__fields /\ class.reads = Response_Socket_reads /\ msg.struct = Response__Socket
        /\ class.writes = Response_Socket_writes /\ class.mask = Response_Socket_mask /\ class.bits = Response_Socket_bits
    BY <1>11 DEF Response_calls, response__calls, Class, Message, response__setsockopt__fields,
                 Response__Setsockopt, Response_Setsockopt_reads, Response_Setsockopt_writes,
                 Response_Setsockopt_mask, Response_Setsockopt_bits, response__socket__fields,
                 Response__Socket, Response_Socket_reads, Response_Socket_writes,
                 Response_Socket_mask, Response_Socket_bits
  <2> HIDE DEF msg, class
  <2>2. Agree(class, msg) /\ GoodStruct(msg)
    BY <2>1, Response_SocketAgrees, Response__SocketFits
  <2>3. QED BY <2>2, ResponseDomains DEF msg, class
<1>12. CASE c = "fcntlcall"
  <2>1. /\ msg.fields = response__socket__fields /\ class.reads = Response_Socket_reads /\ msg.struct = Response__Socket
        /\ class.writes = Response_Socket_writes /\ class.mask = Response_Socket_mask /\ class.bits = Response_Socket_bits
    BY <1>12 DEF Response_calls, response__calls, Class, Message, response__fcntl__fields,
                 Response__Fcntl, Response_Fcntl_reads, Response_Fcntl_writes,
                 Response_Fcntl_mask, Response_Fcntl_bits, response__socket__fields,
                 Response__Socket, Response_Socket_reads, Response_Socket_writes,
                 Response_Socket_mask, Response_Socket_bits
  <2> HIDE DEF msg, class
  <2>2. Agree(class, msg) /\ GoodStruct(msg)
    BY <2>1, Response_SocketAgrees, Response__SocketFits
  <2>3. QED BY <2>2, ResponseDomains DEF msg, class
<1>13. CASE c = "atstartaction"
  <2>1. /\ msg.fields = response__atstart__fields /\ class.reads = Response_Atstart_reads /\ msg.struct = Response__Atstart
        /\ class.writes = Response_Atstart_writes /\ class.mask = Response_Atstart_mask /\ class.bits = Response_Atstart_bits
    BY <1>13 DEF Response_calls, response__calls, Class, Message
  <2> HIDE DEF msg, class
  <2>2. Agree(class, msg) /\ GoodStruct(msg)
    BY <2>1, Response_AtstartAgrees, Response__AtstartFits
  <2>3. QED BY <2>2, ResponseDomains DEF msg, class
<1>14. QED BY <1>1, <1>2, <1>3, <1>4, <1>5, <1>6, <1>7, <1>8, <1>9, <1>10, <1>11, <1>12, <1>13 DEF Calls

\* as do those of the message around them.
LEMMA ResponseTop ==
  /\ GoodTop(Response__C) /\ Agree(Response, Response__C)
  /\ \A f \in CallFields(Response__C) : f.id = Response__ReturningCase[f.member] /\ f.id \in Nat \ {0}
  /\ \A c \in Calls : \E f \in CallFields(Response__C) : f.member = c
  /\ \A f \in PlainFields(Response__C) : f.required /\ f.member = "retcode"
  /\ \E f \in PlainFields(Response__C) : f.member = "retcode"
  /\ \A f \in CallFields(Response__C) : ~ f.required
<1> DEFINE f == response__fields
           C == Response__C.calls
           F == ToSet(f)
<1>1. /\ f[1].id = 1 /\ f[1].member = "socketcall" /\ ~ f[1].required
      /\ f[2].id = 2 /\ f[2].member = "connectcall" /\ ~ f[2].required
      /\ f[3].id = 3 /\ f[3].member = "closecall" /\ ~ f[3].required
      /\ f[4].id = 4 /\ f[4].member = "recvfromcall" /\ ~ f[4].required
      /\ f[5].id = 5 /\ f[5].member = "sendtocall" /\ ~ f[5].required
      /\ f[6].id = 6 /\ f[6].member = "pollcall" /\ ~ f[6].required
      /\ f[7].id = 7 /\ f[7].member = "selectcall" /\ ~ f[7].required
      /\ f[8].id = 8 /\ f[8].member = "getpeernamecall" /\ ~ f[8].required
      /\ f[9].id = 9 /\ f[9].member = "getsocknamecall" /\ ~ f[9].required
      /\ f[10].id = 10 /\ f[10].member = "getsockoptcall" /\ ~ f[10].required
      /\ f[11].id = 11 /\ f[11].member = "setsockoptcall" /\ ~ f[11].required
      /\ f[12].id = 12 /\ f[12].member = "fcntlcall" /\ ~ f[12].required
      /\ f[13].id = 15 /\ f[13].member = "retcode" /\ f[13].required
      /\ f[14].id = 16 /\ f[14].member = "atstartaction" /\ ~ f[14].required
  BY DEF response__fields, Required, Optional, Oneof
<1>2. Len(f) = 14 /\ F = {f[i] : i \in 1 .. 14}
  BY DEF response__fields, ToSet
<1>3. DOMAIN C = Calls
  BY ResponseDomains
<1>4. /\ Response__ReturningCase["socketcall"] = 1 /\ Response__ReturningCase["connectcall"] = 2 /\ Response__ReturningCase["closecall"] = 3
      /\ Response__ReturningCase["recvfromcall"] = 4 /\ Response__ReturningCase["sendtocall"] = 5 /\ Response__ReturningCase["pollcall"] = 6
      /\ Response__ReturningCase["selectcall"] = 7 /\ Response__ReturningCase["getpeernamecall"] = 8 /\ Response__ReturningCase["getsocknamecall"] = 9
      /\ Response__ReturningCase["getsockoptcall"] = 10 /\ Response__ReturningCase["setsockoptcall"] = 11 /\ Response__ReturningCase["fcntlcall"] = 12
      /\ Response__ReturningCase["atstartaction"] = 16
  BY DEF Response__ReturningCase
<1>5. Response__C.fields = f
  BY DEF Response__C
<1>6. Agree(Response, Response__C)
  BY ResponseAgrees DEF Response, Response__C
<1> HIDE DEF f, C, F
<1>7. \A i \in 1 .. 14 : /\ f[i].required <=> f[i].member \notin Calls
                         /\ f[i].required <=> i = 13
                         /\ i # 13 => /\ f[i].id = Response__ReturningCase[f[i].member]
                                      /\ f[i].id \in Nat \ {0}
  BY <1>1, <1>4 DEF Calls
<1>8. \A c \in Calls : \E i \in 1 .. 14 : f[i].member = c /\ i # 13
  BY <1>1 DEF Calls
<1>9. CallFields(Response__C) = {f[i] : i \in 1 .. 14 \ {13}}
  BY <1>2, <1>3, <1>5, <1>7 DEF CallFields, F, C
<1>10. PlainFields(Response__C) = {f[13]}
  BY <1>2, <1>5, <1>7, <1>9 DEF PlainFields, F
<1>11. GoodTop(Response__C)
  BY <1>2, <1>3, <1>5, <1>6, <1>7, <1>8 DEF GoodTop, Agree, F, C
<1>12. QED BY <1>1, <1>6, <1>7, <1>8, <1>9, <1>10, <1>11

\* The same for a request.
LEMMA RequestDomains ==
  /\ DOMAIN Request.calls = Calls /\ DOMAIN Request__C.calls = Calls /\ DOMAIN Request__CallingCase = Calls
  /\ Request__C.calls = request__calls /\ Request.calls = Request_calls
BY DEF Calls, Request, Request__C, Request__CallingCase, Request_calls, request__calls

\* The calls of a request, in the two languages.
LEMMA RequestTables ==
  ASSUME NEW c \in Calls
  PROVE  Agree(Request.calls[c], request__calls[c])
<1> DEFINE class == Request_calls[c]
           msg == request__calls[c]
<1>1. CASE c = "socketcall"
  <2>1. /\ msg.fields = request__socket__fields /\ class.reads = Request_Socket_reads
        /\ class.writes = Request_Socket_writes /\ class.mask = Request_Socket_mask /\ class.bits = Request_Socket_bits
    BY <1>1 DEF Request_calls, request__calls, Class, Message
  <2> HIDE DEF msg, class
  <2>2. Agree(class, msg)
    BY <2>1, Request_SocketAgrees
  <2>3. QED BY <2>2, RequestDomains DEF msg, class
<1>2. CASE c = "connectcall"
  <2>1. /\ msg.fields = request__connect__fields /\ class.reads = Request_Connect_reads
        /\ class.writes = Request_Connect_writes /\ class.mask = Request_Connect_mask /\ class.bits = Request_Connect_bits
    BY <1>2 DEF Request_calls, request__calls, Class, Message
  <2> HIDE DEF msg, class
  <2>2. Agree(class, msg)
    BY <2>1, Request_ConnectAgrees
  <2>3. QED BY <2>2, RequestDomains DEF msg, class
<1>3. CASE c = "closecall"
  <2>1. msg.fields = << >> /\ class.reads = << >> /\ class.writes = << >> /\ class.mask = {}
    BY <1>3 DEF Request_calls, request__calls, Class, Message, request__close__fields,
                Request_Close_reads, Request_Close_writes, Request_Close_mask
  <2> HIDE DEF msg, class
  <2>2. Agree(class, msg)
    BY <2>1, EmptyAgrees
  <2>3. QED BY <2>2, RequestDomains DEF msg, class
<1>4. CASE c = "recvfromcall"
  <2>1. /\ msg.fields = request__recvfrom__fields /\ class.reads = Request_Recvfrom_reads
        /\ class.writes = Request_Recvfrom_writes /\ class.mask = Request_Recvfrom_mask /\ class.bits = Request_Recvfrom_bits
    BY <1>4 DEF Request_calls, request__calls, Class, Message
  <2> HIDE DEF msg, class
  <2>2. Agree(class, msg)
    BY <2>1, Request_RecvfromAgrees
  <2>3. QED BY <2>2, RequestDomains DEF msg, class
<1>5. CASE c = "sendtocall"
  <2>1. /\ msg.fields = request__sendto__fields /\ class.reads = Request_Sendto_reads
        /\ class.writes = Request_Sendto_writes /\ class.mask = Request_Sendto_mask /\ class.bits = Request_Sendto_bits
    BY <1>5 DEF Request_calls, request__calls, Class, Message
  <2> HIDE DEF msg, class
  <2>2. Agree(class, msg)
    BY <2>1, Request_SendtoAgrees
  <2>3. QED BY <2>2, RequestDomains DEF msg, class
<1>6. CASE c = "pollcall"
  <2>1. msg.fields = << >> /\ class.reads = << >> /\ class.writes = << >> /\ class.mask = {}
    BY <1>6 DEF Request_calls, request__calls, Class, Message, request__poll__fields,
                Request_Poll_reads, Request_Poll_writes, Request_Poll_mask
  <2> HIDE DEF msg, class
  <2>2. Agree(class, msg)
    BY <2>1, EmptyAgrees
  <2>3. QED BY <2>2, RequestDomains DEF msg, class
<1>7. CASE c = "selectcall"
  <2>1. msg.fields = << >> /\ class.reads = << >> /\ class.writes = << >> /\ class.mask = {}
    BY <1>7 DEF Request_calls, request__calls, Class, Message, request__select__fields,
                Request_Select_reads, Request_Select_writes, Request_Select_mask
  <2> HIDE DEF msg, class
  <2>2. Agree(class, msg)
    BY <2>1, EmptyAgrees
  <2>3. QED BY <2>2, RequestDomains DEF msg, class
<1>8. CASE c = "getpeernamecall"
  <2>1. msg.fields = << >> /\ class.reads = << >> /\ class.writes = << >> /\ class.mask = {}
    BY <1>8 DEF Request_calls, request__calls, Class, Message, request__getpeername__fields,
                Request_Getpeername_reads, Request_Getpeername_writes, Request_Getpeername_mask
  <2> HIDE DEF msg, class
  <2>2. Agree(class, msg)
    BY <2>1, EmptyAgrees
  <2>3. QED BY <2>2, RequestDomains DEF msg, class
<1>9. CASE c = "getsocknamecall"
  <2>1. msg.fields = << >> /\ class.reads = << >> /\ class.writes = << >> /\ class.mask = {}
    BY <1>9 DEF Request_calls, request__calls, Class, Message, request__getsockname__fields,
                Request_Getsockname_reads, Request_Getsockname_writes, Request_Getsockname_mask
  <2> HIDE DEF msg, class
  <2>2. Agree(class, msg)
    BY <2>1, EmptyAgrees
  <2>3. QED BY <2>2, RequestDomains DEF msg, class
<1>10. CASE c = "getsockoptcall"
  <2>1. msg.fields = << >> /\ class.reads = << >> /\ class.writes = << >> /\ class.mask = {}
    BY <1>10 DEF Request_calls, request__calls, Class, Message, request__getsockopt__fields,
                 Request_Getsockopt_reads, Request_Getsockopt_writes, Request_Getsockopt_mask
  <2> HIDE DEF msg, class
  <2>2. Agree(class, msg)
    BY <2>1, EmptyAgrees
  <2>3. QED BY <2>2, RequestDomains DEF msg, class
<1>11. CASE c = "setsockoptcall"
  <2>1. msg.fields = << >> /\ class.reads = << >> /\ class.writes = << >> /\ class.mask = {}
    BY <1>11 DEF Request_calls, request__calls, Class, Message, request__setsockopt__fields,
                 Request_Setsockopt_reads, Request_Setsockopt_writes, Request_Setsockopt_mask
  <2> HIDE DEF msg, class
  <2>2. Agree(class, msg)
    BY <2>1, EmptyAgrees
  <2>3. QED BY <2>2, RequestDomains DEF msg, class
<1>12. CASE c = "fcntlcall"
  <2>1. msg.fields = << >> /\ class.reads = << >> /\ class.writes = << >> /\ class.mask = {}
    BY <1>12 DEF Request_calls, request__calls, Class, Message, request__fcntl__fields,
                 Request_Fcntl_reads, Request_Fcntl_writes, Request_Fcntl_mask
  <2> HIDE DEF msg, class
  <2>2. Agree(class, msg)
    BY <2>1, EmptyAgrees
  <2>3. QED BY <2>2, RequestDomains DEF msg, class
<1>13. CASE c = "atstartaction"
  <2>1. /\ msg.fields = request__atstart__fields /\ class.reads = Request_Atstart_reads
        /\ class.writes = Request_Atstart_writes /\ class.mask = Request_Atstart_mask /\ class.bits = Request_Atstart_bits
    BY <1>13 DEF Request_calls, request__calls, Class, Message
  <2> HIDE DEF msg, class
  <2>2. Agree(class, msg)
    BY <2>1, Request_AtstartAgrees
  <2>3. QED BY <2>2, RequestDomains DEF msg, class
<1>14. QED BY <1>1, <1>2, <1>3, <1>4, <1>5, <1>6, <1>7, <1>8, <1>9, <1>10, <1>11, <1>12, <1>13 DEF Calls

\* The message around them.
LEMMA RequestTop ==
  /\ GoodTop(Request__C) /\ Agree(Request, Request__C)
  /\ \A f \in CallFields(Request__C) : f.id = Request__CallingCase[f.member] /\ f.id \in Nat \ {0}
  /\ \A c \in Calls : \E f \in CallFields(Request__C) : f.member = c
  /\ \A f \in PlainFields(Request__C) : f.required /\ f.member = "pid"
  /\ \E f \in PlainFields(Request__C) : f.member = "pid"
  /\ \A f \in CallFields(Request__C) : ~ f.required
<1> DEFINE f == request__fields
           C == Request__C.calls
           F == ToSet(f)
<1>1. /\ f[1].id = 1 /\ f[1].member = "socketcall" /\ ~ f[1].required
      /\ f[2].id = 2 /\ f[2].member = "connectcall" /\ ~ f[2].required
      /\ f[3].id = 3 /\ f[3].member = "closecall" /\ ~ f[3].required
      /\ f[4].id = 4 /\ f[4].member = "recvfromcall" /\ ~ f[4].required
      /\ f[5].id = 5 /\ f[5].member = "sendtocall" /\ ~ f[5].required
      /\ f[6].id = 6 /\ f[6].member = "pollcall" /\ ~ f[6].required
      /\ f[7].id = 7 /\ f[7].member = "selectcall" /\ ~ f[7].required
      /\ f[8].id = 8 /\ f[8].member = "getpeernamecall" /\ ~ f[8].required
      /\ f[9].id = 9 /\ f[9].member = "getsocknamecall" /\ ~ f[9].required
      /\ f[10].id = 10 /\ f[10].member = "getsockoptcall" /\ ~ f[10].required
      /\ f[11].id = 11 /\ f[11].member = "setsockoptcall" /\ ~ f[11].required
      /\ f[12].id = 12 /\ f[12].member = "fcntlcall" /\ ~ f[12].required
      /\ f[13].id = 15 /\ f[13].member = "pid" /\ f[13].required
      /\ f[14].id = 16 /\ f[14].member = "atstartaction" /\ ~ f[14].required
  BY DEF request__fields, Required, Optional, Oneof
<1>2. Len(f) = 14 /\ F = {f[i] : i \in 1 .. 14}
  BY DEF request__fields, ToSet
<1>3. DOMAIN C = Calls
  BY RequestDomains
<1>4. /\ Request__CallingCase["socketcall"] = 1 /\ Request__CallingCase["connectcall"] = 2 /\ Request__CallingCase["closecall"] = 3
      /\ Request__CallingCase["recvfromcall"] = 4 /\ Request__CallingCase["sendtocall"] = 5 /\ Request__CallingCase["pollcall"] = 6
      /\ Request__CallingCase["selectcall"] = 7 /\ Request__CallingCase["getpeernamecall"] = 8 /\ Request__CallingCase["getsocknamecall"] = 9
      /\ Request__CallingCase["getsockoptcall"] = 10 /\ Request__CallingCase["setsockoptcall"] = 11 /\ Request__CallingCase["fcntlcall"] = 12
      /\ Request__CallingCase["atstartaction"] = 16
  BY DEF Request__CallingCase
<1>5. Request__C.fields = f
  BY DEF Request__C
<1>6. Agree(Request, Request__C)
  BY RequestAgrees DEF Request, Request__C
<1> HIDE DEF f, C, F
<1>7. \A i \in 1 .. 14 : /\ f[i].required <=> f[i].member \notin Calls
                         /\ f[i].required <=> i = 13
                         /\ i # 13 => /\ f[i].id = Request__CallingCase[f[i].member]
                                      /\ f[i].id \in Nat \ {0}
  BY <1>1, <1>4 DEF Calls
<1>8. \A c \in Calls : \E i \in 1 .. 14 : f[i].member = c /\ i # 13
  BY <1>1 DEF Calls
<1>9. CallFields(Request__C) = {f[i] : i \in 1 .. 14 \ {13}}
  BY <1>2, <1>3, <1>5, <1>7 DEF CallFields, F, C
<1>10. PlainFields(Request__C) = {f[13]}
  BY <1>2, <1>5, <1>7, <1>9 DEF PlainFields, F
<1>11. GoodTop(Request__C)
  BY <1>2, <1>3, <1>5, <1>6, <1>7, <1>8 DEF GoodTop, Agree, F, C
<1>12. QED BY <1>1, <1>6, <1>7, <1>8, <1>9, <1>10, <1>11

-----------------------------------------------------------------------------
(* A message of one class, there and back.                                  *)

\* Composed in C++, read in C.
LEMMA Delivered ==
  ASSUME NEW class, NEW msg, Agree(class, msg), GoodStruct(msg), NEW obj
  PROVE  /\ Unpacks(msg, Serialize(class, obj)) <=> IsInitialized(class, obj)
         /\ \A f \in ToSet(msg.fields) :
              /\ Unpack(msg, Serialize(class, obj))[f.member]
                   = IF Has(obj, f.member) THEN obj[f.member] ELSE InitValue(msg.struct)[f.member]
              /\ ~ f.required => Unpack(msg, Serialize(class, obj))[f.quantifier] = Has(obj, f.member)
<1> DEFINE F == ToSet(msg.fields)
           wire == Serialize(class, obj)
           present == {f \in F : Has(obj, f.member)}
           value == [f \in present |-> obj[f.member]]
<1>1. /\ GoodFields(msg) /\ GoodStruct(msg) /\ WritesAgree(class, msg) /\ MaskAgrees(class, msg)
  BY DEF Agree
<1>2. IsWire(msg, wire, present, value)
  BY <1>1, SerializeWire
<1>3. \A f \in F : f \in present <=> Has(obj, f.member)
  OBVIOUS
<1>4. \A f \in present : value[f] = obj[f.member]
  OBVIOUS
<1> HIDE DEF wire, present, value
<1>5. Unpacks(msg, wire) <=> \A f \in F : f.required => f \in present
  BY <1>1, <1>2, UnpacksWire
<1>6. IsInitialized(class, obj) <=> \A f \in F : f.required => f.member \in DOMAIN obj
  BY <1>1 DEF IsInitialized, MaskAgrees
<1>7. Unpacks(msg, wire) <=> IsInitialized(class, obj)
  BY <1>3, <1>5, <1>6 DEF Has
<1>8. \A f \in F :
        /\ Unpack(msg, wire)[f.member]
             = IF f \in present THEN value[f] ELSE InitValue(msg.struct)[f.member]
        /\ ~ f.required => Unpack(msg, wire)[f.quantifier] = (f \in present)
  BY <1>1, <1>2, UnpackWire
<1>9. \A f \in F : (f \in present) = Has(obj, f.member)
  BY <1>3 DEF Has
<1>10. QED BY <1>3, <1>4, <1>7, <1>8, <1>9 DEF wire

\* Packed in C, parsed in C++.
LEMMA Received ==
  ASSUME NEW class, NEW msg, Agree(class, msg), NEW obj
  PROVE  /\ IsInitialized(class, MergePartial(class, Nothing, Pack(msg, obj)))
         /\ \A f \in ToSet(msg.fields) :
              /\ Has(MergePartial(class, Nothing, Pack(msg, obj)), f.member)
                   <=> f.required \/ obj[f.quantifier]
              /\ Has(MergePartial(class, Nothing, Pack(msg, obj)), f.member) =>
                   MergePartial(class, Nothing, Pack(msg, obj))[f.member] = obj[f.member]
<1> DEFINE F == ToSet(msg.fields)
           wire == Pack(msg, obj)
           read == MergePartial(class, Nothing, wire)
           present == {f \in F : f.required \/ obj[f.quantifier]}
           value == [f \in present |-> obj[f.member]]
<1>1. /\ GoodFields(msg) /\ ReadsAgree(class, msg) /\ MaskAgrees(class, msg)
      /\ \A f, g \in F : f.member = g.member => f = g
  BY DEF Agree, GoodFields
<1>2. IsWire(msg, wire, present, value)
  BY <1>1, PackWire
<1>3. \A f \in F : f \in present <=> f.required \/ obj[f.quantifier]
  OBVIOUS
<1>4. present \subseteq F /\ \A f \in present : value[f] = obj[f.member]
  OBVIOUS
<1> HIDE DEF wire, present, value, F
<1>5. (\A m : m \in DOMAIN read <=> \E f \in present : m = f.member) /\ \A f \in present : read[f.member] = value[f]
  BY <1>1, <1>2, MergeWire
<1> HIDE DEF read
<1>6. \A f \in F : f.member \in DOMAIN read <=> f \in present
  BY <1>1, <1>4, <1>5
<1>7. IsInitialized(class, read)
  <2>1. \A f \in F : f.required => f.member \in DOMAIN read
    BY <1>3, <1>6
  <2>2. QED BY <1>1, <2>1 DEF IsInitialized, MaskAgrees, F
<1>8. \A f \in F : Has(read, f.member) <=> f.required \/ obj[f.quantifier]
  BY <1>3, <1>6 DEF Has
<1>9. \A f \in F : Has(read, f.member) => read[f.member] = obj[f.member]
  BY <1>4, <1>5, <1>6 DEF Has
<1>10. QED BY <1>7, <1>8, <1>9 DEF read, wire, F

-----------------------------------------------------------------------------
(* A whole answer.                                                          *)

\* What response__unpack finds is what the handler had put in.
LEMMA AnswerDelivered ==
  ASSUME NEW obj, \A c, d \in Call(Response, obj) : c = d
  PROVE  LET wire == TopSerialize(Response, obj)
             read == TopUnpack(Response__C, wire)
         IN  /\ TopUnpacks(Response__C, wire) <=> TopInitialized(Response, obj)
             /\ TopInitialized(Response, obj) => read.plain["retcode"] = obj["retcode"]
             /\ Call(Response, obj) = {} => read.case = 0
             /\ \A c \in Call(Response, obj) :
                  /\ read.case = Response__ReturningCase[c]
                  /\ read.union = Unpack(response__calls[c], Serialize(Response.calls[c], obj[c]))
<1> DEFINE top == Response__C
           F == ToSet(top.fields)
           C == CallFields(top)
           inner == [m \in DOMAIN obj |-> IF m \in DOMAIN Response.calls
                                          THEN Serialize(Response.calls[m], obj[m]) ELSE obj[m]]
           wire == TopSerialize(Response, obj)
           read == TopUnpack(top, wire)
           present == {f \in F : Has(inner, f.member)}
           value == [f \in present |-> inner[f.member]]
<1>1. /\ GoodTop(top) /\ GoodFields(top) /\ WritesAgree(Response, top) /\ MaskAgrees(Response, top)
  BY ResponseTop DEF Agree
<1>2. DOMAIN Response.calls = Calls /\ top.calls = response__calls
  BY ResponseDomains
<1>3. wire = Serialize(Response, inner)
  BY DEF TopSerialize
<1>4. /\ DOMAIN inner = DOMAIN obj
      /\ \A m \in DOMAIN obj \cap Calls : inner[m] = Serialize(Response.calls[m], obj[m])
      /\ \A m \in DOMAIN obj \ Calls : inner[m] = obj[m]
  BY <1>2
<1> HIDE DEF inner
<1>5. IsWire(top, wire, present, value)
  BY <1>1, <1>3, SerializeWire
<1>6. /\ present \subseteq F /\ \A f \in present : value[f] = inner[f.member]
      /\ \A f \in F : f \in present <=> f.member \in DOMAIN obj
  BY <1>4 DEF Has
<1>7. Call(Response, obj) = DOMAIN obj \cap Calls
  BY <1>2 DEF Call
<1>8. /\ C \subseteq F /\ PlainFields(top) = F \ C
      /\ \A f \in F : f \in C <=> f.member \in Calls
  BY <1>2, ResponseDomains DEF CallFields, PlainFields
<1> HIDE DEF present, value, wire, top, F, C
<1>9. \A f, g \in F : f.member = g.member => f = g
  BY <1>1 DEF GoodFields, F
<1>10. \A f, g \in present \cap C : f = g
  BY <1>6, <1>7, <1>8, <1>9
<1>11. TopUnpacks(top, wire) <=>
         /\ \A f \in F : f.required => f \in present
         /\ \A f \in present \cap C : Unpacks(response__calls[f.member], value[f])
  BY <1>1, <1>2, <1>5, TopUnpacksWire DEF F, C
<1>12. IsInitialized(Response, obj) <=> \A f \in F : f.required => f \in present
  <2>1. IsInitialized(Response, obj) <=> \A f \in F : f.required => f.member \in DOMAIN obj
    BY <1>1 DEF IsInitialized, MaskAgrees, F
  <2>2. QED BY <1>6, <2>1
<1>13. \A c \in Calls : Unpacks(response__calls[c], Serialize(Response.calls[c], obj[c]))
                          <=> IsInitialized(Response.calls[c], obj[c])
  BY ResponseTables, Delivered
<1>14. \A c \in Calls : \E f \in C : f.member = c
  BY ResponseTop DEF C, top
<1>15. (\A f \in present \cap C : Unpacks(response__calls[f.member], value[f]))
         <=> \A c \in Call(Response, obj) : IsInitialized(Response.calls[c], obj[c])
  <2>1. ASSUME NEW f \in present \cap C
        PROVE  f.member \in Call(Response, obj)
               /\ (Unpacks(response__calls[f.member], value[f])
                     <=> IsInitialized(Response.calls[f.member], obj[f.member]))
    <3>1. f.member \in DOMAIN obj \cap Calls
      BY <1>6, <1>8
    <3>2. value[f] = Serialize(Response.calls[f.member], obj[f.member])
      BY <1>4, <1>6, <3>1
    <3>3. QED BY <1>7, <1>13, <3>1, <3>2
  <2>2. ASSUME NEW c \in Call(Response, obj) PROVE \E f \in present \cap C : f.member = c
    BY <1>6, <1>7, <1>8, <1>14
  <2>3. QED BY <2>1, <2>2
<1>16. TopUnpacks(top, wire) <=> TopInitialized(Response, obj)
  BY <1>11, <1>12, <1>15 DEF TopInitialized
<1>17. /\ present \cap C = {} => read.case = 0
       /\ \A f \in present \cap C : read.case = f.id /\ read.union = Unpack(top.calls[f.member], value[f])
       /\ \A f \in present \ C : read.plain[f.member] = value[f]
  BY <1>1, <1>5, <1>10, TopUnpackWire DEF C
<1> HIDE DEF read
<1>18. ASSUME TopInitialized(Response, obj) PROVE read.plain["retcode"] = obj["retcode"]
  <2>1. PICK f \in F \ C : f.member = "retcode" /\ f.required
    BY <1>8, ResponseTop DEF top
  <2>2. f \in present
    BY <1>12, <1>18, <2>1 DEF TopInitialized
  <2>3. "retcode" \in DOMAIN obj \ Calls
    BY <1>6, <2>1, <2>2 DEF Calls
  <2>4. value[f] = obj["retcode"]
    BY <1>4, <1>6, <2>1, <2>2, <2>3
  <2>5. QED BY <1>17, <2>1, <2>2, <2>4
<1>19. ASSUME Call(Response, obj) = {} PROVE read.case = 0
  <2>1. present \cap C = {}
    BY <1>6, <1>7, <1>8, <1>19
  <2>2. QED BY <1>17, <2>1
<1>20. ASSUME NEW c \in Call(Response, obj)
       PROVE  /\ read.case = Response__ReturningCase[c]
              /\ read.union = Unpack(response__calls[c], Serialize(Response.calls[c], obj[c]))
  <2>1. PICK f \in C : f.member = c
    BY <1>7, <1>14
  <2>2. f \in present \cap C
    BY <1>6, <1>7, <1>8, <2>1
  <2>3. value[f] = Serialize(Response.calls[c], obj[c])
    BY <1>4, <1>6, <1>7, <2>1, <2>2
  <2>4. f.id = Response__ReturningCase[c]
    BY <2>1, ResponseTop DEF C, top
  <2>5. QED BY <1>2, <1>17, <2>1, <2>2, <2>3, <2>4
<1>21. QED BY <1>16, <1>18, <1>19, <1>20 DEF read, wire, top

-----------------------------------------------------------------------------
(* A whole request.                                                         *)

\* What the daemon parses is what the interceptor had packed, and complete.
LEMMA RequestReceived ==
  ASSUME NEW obj
  PROVE  LET read == TopParse(Request, TopPack(Request__C, obj))
         IN  /\ TopInitialized(Request, read)
             /\ read["pid"] = obj.plain["pid"]
             /\ \A c : c \in Call(Request, read) <=> c \in Calls /\ obj.case = Request__CallingCase[c]
             /\ \A c \in Call(Request, read) :
                  read[c] = MergePartial(Request.calls[c], Nothing, Pack(request__calls[c], obj.union))
<1> DEFINE top == Request__C
           F == ToSet(top.fields)
           C == CallFields(top)
           content(f) == IF f.member \in DOMAIN top.calls
                         THEN Pack(top.calls[f.member], obj.union) ELSE obj.plain[f.member]
           present == {f \in F : f.required \/ obj.case = f.id}
           value == [f \in present |-> content(f)]
           items == [f \in present |-> <<Tag(f), value[f]>>]
           wire == TopPack(top, obj)
           read == TopParse(Request, wire)
<1>1. /\ GoodTop(top) /\ GoodFields(top) /\ ReadsAgree(Request, top) /\ MaskAgrees(Request, top)
  BY RequestTop DEF Agree
<1>2. DOMAIN Request.calls = Calls /\ DOMAIN top.calls = Calls /\ top.calls = request__calls
  BY RequestDomains
<1>3. wire = Written(top.fields, items)
  <2>1. items = [f \in present |-> <<Tag(f), content(f)>>]
    OBVIOUS
  <2>2. QED BY <2>1 DEF TopPack
<1>4. /\ present \subseteq F /\ \A f \in present : value[f] = content(f)
      /\ \A f \in F : f \in present <=> f.required \/ obj.case = f.id
  OBVIOUS
<1>5. IsWire(top, wire, present, value)
  <2>1. present \in SUBSET F
    OBVIOUS
  <2> HIDE DEF present, value, wire
  <2>2. QED BY <1>1, <1>3, <2>1, WrittenWire
<1>6. /\ C \subseteq F /\ PlainFields(top) = F \ C
      /\ \A f \in F : f \in C <=> f.member \in Calls
  BY <1>2 DEF CallFields, PlainFields
<1>7. /\ \A f \in C : content(f) = Pack(request__calls[f.member], obj.union)
      /\ \A f \in F \ C : content(f) = obj.plain[f.member]
  <2> HIDE DEF F, C
  <2>1. QED BY <1>2, <1>6
<1> HIDE DEF present, value, items, wire, top, F, C, content
<1>8. \A f, g \in F : f.id = g.id \/ f.member = g.member => f = g
  BY <1>1 DEF GoodFields, F
<1>9. /\ \A f \in C : ~ f.required /\ f.id = Request__CallingCase[f.member]
      /\ \A f \in F \ C : f.required /\ f.member = "pid"
      /\ \A c \in Calls : \E f \in C : f.member = c
      /\ \E f \in F \ C : f.member = "pid"
  BY <1>6, RequestTop DEF C, top
<1>10. \A f, g \in present \cap C : f = g
  BY <1>4, <1>6, <1>8, <1>9
<1>11. /\ \A m : m \in DOMAIN read <=> \E f \in present : m = f.member
       /\ \A f \in present : read[f.member] =
            IF f \in C THEN MergePartial(Request.calls[f.member], Nothing, value[f]) ELSE value[f]
  BY <1>1, <1>2, <1>5, <1>10, TopParseWire DEF C
<1> HIDE DEF read
<1>12. Call(Request, read) = DOMAIN read \cap Calls
  BY <1>2 DEF Call
<1>13. \A c : c \in Call(Request, read) <=> c \in Calls /\ obj.case = Request__CallingCase[c]
  <2>1. ASSUME NEW c \in Calls, c \in DOMAIN read PROVE obj.case = Request__CallingCase[c]
    <3>1. PICK f \in present : c = f.member
      BY <1>11, <2>1
    <3>2. f \in C
      BY <1>4, <1>6, <3>1
    <3>3. QED BY <1>4, <1>6, <1>9, <3>1, <3>2
  <2>2. ASSUME NEW c \in Calls, obj.case = Request__CallingCase[c] PROVE c \in DOMAIN read
    <3>1. PICK f \in C : f.member = c
      BY <1>9
    <3>2. f \in present
      BY <1>4, <1>6, <1>9, <2>2, <3>1
    <3>3. QED BY <1>11, <3>1, <3>2
  <2>3. QED BY <1>12, <2>1, <2>2
<1>14. ASSUME NEW c \in Call(Request, read)
       PROVE  read[c] = MergePartial(Request.calls[c], Nothing, Pack(request__calls[c], obj.union))
  <2>1. c \in DOMAIN read /\ c \in Calls
    BY <1>12
  <2>2. PICK f \in present : c = f.member
    BY <1>11, <2>1
  <2>3. f \in C
    BY <1>4, <1>6, <2>1, <2>2
  <2>4. value[f] = Pack(request__calls[c], obj.union)
    BY <1>4, <1>7, <2>2, <2>3
  <2>5. QED BY <1>11, <2>2, <2>3, <2>4
<1>15. read["pid"] = obj.plain["pid"]
  <2>1. PICK f \in F \ C : f.member = "pid" /\ f.required
    BY <1>9
  <2>2. f \in present
    BY <1>4, <2>1
  <2>3. QED BY <1>4, <1>7, <1>11, <2>1, <2>2
<1>16. TopInitialized(Request, read)
  <2>1. IsInitialized(Request, read)
    <3>1. \A f \in F : f.required => f.member \in DOMAIN read
      BY <1>4, <1>11
    <3>2. QED BY <1>1, <3>1 DEF IsInitialized, MaskAgrees, F
  <2>2. ASSUME NEW c \in Call(Request, read) PROVE IsInitialized(Request.calls[c], read[c])
    <3>1. c \in Calls
      BY <1>12
    <3>2. Agree(Request.calls[c], request__calls[c])
      BY <3>1, RequestTables
    <3>3. QED BY <1>14, <3>2, Received
  <2>3. QED BY <2>1, <2>2 DEF TopInitialized
<1>17. QED BY <1>13, <1>14, <1>15, <1>16 DEF read, wire, top

-----------------------------------------------------------------------------
(* The layout of the structs.                                               *)

\* Where the next member may begin, and the members behind one another.
LayoutStep(fields, n, f) == Align(n, f[2]) + Size(f[2])
End(fields) == LET end(n, f) == Align(n, f[2]) + Size(f[2]) IN FoldLeft(end, BaseSize, fields)

LayoutRun(it, fields, n) ==
  it = [s \in SUBSET (1 .. n) |->
          IF s = {} THEN BaseSize ELSE LayoutStep(fields, it[s \ {Max(s)}], fields[Max(s)])]

\* The compiler lays out a struct member by member.
LEMMA LayoutRunExists ==
  ASSUME NEW n \in Nat, NEW fields
  PROVE  \E it : LayoutRun(it, fields, n)
<1> DEFINE S == {k \in Nat : \E it : LayoutRun(it, fields, k)}
<1>1. 0 \in S
  <2> DEFINE it == [s \in SUBSET (1 .. 0) |-> BaseSize]
             N == [s \in SUBSET (1 .. 0) |->
                     IF s = {} THEN BaseSize ELSE LayoutStep(fields, it[s \ {Max(s)}], fields[Max(s)])]
  <2>1. SUBSET (1 .. 0) = {{}}
    OBVIOUS
  <2>2. \A s \in SUBSET (1 .. 0) : it[s] = N[s]
    BY <2>1
  <2>3. it = N
    <3> HIDE DEF it
    <3>1. it = [s \in SUBSET (1 .. 0) |-> it[s]]
      BY DEF it
    <3> DEFINE D == SUBSET (1 .. 0)
    <3>2. N = [s \in D |-> N[s]]
      OBVIOUS
    <3> HIDE DEF N, D
    <3>3. QED BY <3>1, <3>2, <2>2 DEF D
  <2>4. LayoutRun(it, fields, 0)
    BY <2>3 DEF LayoutRun
  <2>5. QED BY <2>4
<1>2. ASSUME NEW k \in Nat, k \in S PROVE k + 1 \in S
  <2>1. PICK it : LayoutRun(it, fields, k)
    BY <1>2
  <2> DEFINE D == SUBSET (1 .. k + 1)
             new == [s \in D |-> IF k + 1 \in s THEN LayoutStep(fields, it[s \ {k + 1}], fields[k + 1])
                                 ELSE it[s]]
             N == [s \in D |->
                     IF s = {} THEN BaseSize ELSE LayoutStep(fields, new[s \ {Max(s)}], fields[Max(s)])]
  <2>2. ASSUME NEW s \in D PROVE new[s] = N[s]
    <3>1. s \subseteq 1 .. k + 1
      OBVIOUS
    <3>2. CASE k + 1 \in s
      <4>1. Max(s) = k + 1
        BY <3>1, <3>2, MaxIs
      <4>2. s \ {k + 1} \in SUBSET (1 .. k) /\ s \ {k + 1} \in D /\ k + 1 \notin s \ {k + 1}
        BY <3>1
      <4>3. new[s \ {k + 1}] = it[s \ {k + 1}]
        BY <4>2
      <4>4. N[s] = LayoutStep(fields, new[s \ {k + 1}], fields[k + 1])
        BY <3>2, <4>1
      <4>5. new[s] = LayoutStep(fields, it[s \ {k + 1}], fields[k + 1])
        BY <3>2
      <4> HIDE DEF new, N
      <4>6. QED BY <4>3, <4>4, <4>5
    <3>3. CASE k + 1 \notin s
      <4>1. s \in SUBSET (1 .. k)
        BY <3>1, <3>3
      <4>2. new[s] = it[s]
        BY <3>3
      <4>3. it[s] = IF s = {} THEN BaseSize ELSE LayoutStep(fields, it[s \ {Max(s)}], fields[Max(s)])
        BY <2>1, <4>1 DEF LayoutRun
      <4>4. N[s] = IF s = {} THEN BaseSize ELSE LayoutStep(fields, new[s \ {Max(s)}], fields[Max(s)])
        OBVIOUS
      <4>5. s \ {Max(s)} \in D /\ k + 1 \notin s \ {Max(s)}
        BY <3>3
      <4>6. new[s \ {Max(s)}] = it[s \ {Max(s)}]
        BY <4>5
      <4> HIDE DEF new, N
      <4>7. QED BY <4>2, <4>3, <4>4, <4>6
    <3>4. QED BY <3>2, <3>3
  <2>3. new = [s \in D |-> new[s]] /\ N = [s \in D |-> N[s]]
    OBVIOUS
  <2>4. new = N
    <3> HIDE DEF new, N, D
    <3>1. QED BY <2>2, <2>3
  <2>5. LayoutRun(new, fields, k + 1)
    BY <2>4 DEF LayoutRun
  <2> HIDE DEF new
  <2>6. QED BY <2>5
<1> HIDE DEF S
<1>3. n \in S
  BY <1>1, <1>2, SetInduction
<1>4. QED BY <1>3 DEF S

\* Each member begins where the one before has ended, aligned.
LEMMA LayoutSteps ==
  ASSUME NEW Fields, NEW fields \in Seq(Fields)
  PROVE  \E F : /\ F[0] = BaseSize
                /\ \A n \in 1 .. Len(fields) : F[n] = LayoutStep(fields, F[n - 1], fields[n])
                /\ End(fields) = F[Len(fields)]
<1> DEFINE D == DOMAIN fields
           it == CHOOSE g : g = [s \in SUBSET D |->
                   IF s = {} THEN BaseSize ELSE LayoutStep(fields, g[s \ {Max(s)}], fields[Max(s)])]
           run == CHOOSE g : LayoutRun(g, fields, Len(fields))
           F == [n \in 0 .. Len(fields) |-> run[1 .. n]]
<1>1. Len(fields) \in Nat /\ D = 1 .. Len(fields)
  OBVIOUS
<1>2. End(fields) = it[D]
  BY DEF End, FoldLeft, MapThenFoldSet, LayoutStep
<1>3. it = run
  BY <1>1 DEF LayoutRun
<1>4. LayoutRun(run, fields, Len(fields))
  BY <1>1, LayoutRunExists
<1> HIDE DEF it, run
<1>5. \A s \in SUBSET (1 .. Len(fields)) :
        run[s] = IF s = {} THEN BaseSize ELSE LayoutStep(fields, run[s \ {Max(s)}], fields[Max(s)])
  BY <1>4 DEF LayoutRun
<1>6. F[0] = BaseSize
  <2>1. 1 .. 0 = {} /\ {} \in SUBSET (1 .. Len(fields)) /\ 0 \in 0 .. Len(fields)
    BY <1>1
  <2>2. QED BY <2>1, <1>5
<1>7. ASSUME NEW n \in 1 .. Len(fields) PROVE F[n] = LayoutStep(fields, F[n - 1], fields[n])
  <2>1. /\ 1 .. n \in SUBSET (1 .. Len(fields)) /\ n \in 1 .. n
        /\ n - 1 \in 0 .. Len(fields) /\ n \in 0 .. Len(fields) /\ (1 .. n) \ {n} = 1 .. n - 1
        /\ n - 1 \in Nat /\ (n - 1) + 1 = n
    BY <1>1
  <2>2. Max(1 .. n) = n
    BY <2>1, MaxIs
  <2>3. run[1 .. n] = LayoutStep(fields, run[1 .. n - 1], fields[n])
    BY <2>1, <2>2, <1>5
  <2>4. F[n] = run[1 .. n] /\ F[n - 1] = run[1 .. n - 1]
    BY <2>1
  <2> HIDE DEF F
  <2>5. QED BY <2>3, <2>4
<1>8. F[Len(fields)] = run[1 .. Len(fields)]
  BY <1>1
<1> HIDE DEF F
<1>9. QED BY <1>1, <1>2, <1>3, <1>6, <1>7, <1>8

\* ends tells where each member ends.
LaidOut(struct, ends) ==
  /\ \A i, j \in 1 .. Len(struct) : struct[i][1] = struct[j][1] => i = j
  /\ ends[0] = BaseSize
  /\ \A i \in 1 .. Len(struct) : ends[i] = Align(ends[i - 1], struct[i][2]) + Size(struct[i][2])

\* The offset of a member, from the ends of those before it.
LEMMA OffsetIs ==
  ASSUME NEW T, NEW struct \in Seq(T), NEW k \in 1 .. Len(struct), NEW ends, LaidOut(struct, ends)
  PROVE  Offset(struct, struct[k][1]) = Align(ends[k - 1], struct[k][2])
<1> DEFINE at == CHOOSE i \in DOMAIN struct : struct[i][1] = struct[k][1]
           before == SubSeq(struct, 1, k - 1)
<1>1. at = k
  BY DEF LaidOut
<1>2. Offset(struct, struct[k][1]) = Align(End(SubSeq(struct, 1, at - 1)), struct[at][2])
  BY DEF Offset, End
<1> HIDE DEF at
<1>3. /\ before \in Seq(T) /\ Len(before) = k - 1 /\ k - 1 \in Nat
      /\ \A i \in 1 .. k - 1 : before[i] = struct[i] /\ i \in 1 .. Len(struct)
  OBVIOUS
<1> HIDE DEF before
<1>4. PICK F : /\ F[0] = BaseSize
               /\ \A i \in 1 .. Len(before) : F[i] = LayoutStep(before, F[i - 1], before[i])
               /\ End(before) = F[Len(before)]
  BY <1>3, LayoutSteps
<1> DEFINE S == {i \in Nat : i <= k - 1 => F[i] = ends[i]}
<1>5. 0 \in S
  BY <1>4 DEF LaidOut
<1>6. ASSUME NEW i \in Nat, i \in S PROVE i + 1 \in S
  <2> SUFFICES ASSUME i + 1 <= k - 1 PROVE F[i + 1] = ends[i + 1]
    OBVIOUS
  <2>1. i + 1 \in 1 .. k - 1 /\ (i + 1) - 1 = i /\ F[i] = ends[i]
    BY <1>6
  <2>2. F[i + 1] = LayoutStep(before, F[i], before[i + 1])
    BY <1>3, <1>4, <2>1
  <2>3. ends[i + 1] = Align(ends[i], struct[i + 1][2]) + Size(struct[i + 1][2])
    BY <1>3, <2>1 DEF LaidOut
  <2>4. QED BY <1>3, <2>1, <2>2, <2>3 DEF LayoutStep
<1>7. k - 1 \in S
  <2> HIDE DEF S
  <2>1. QED BY <1>3, <1>5, <1>6, SetInduction
<1>8. End(before) = ends[k - 1]
  BY <1>3, <1>4, <1>7
<1>9. QED BY <1>1, <1>2, <1>8 DEF before

\* The layout of the structs whose pointers the interceptor reads through
\* another type: offsets, names and types of their members.
LEMMA LayoutSendto ==
  /\ Offset(Response__Sendto, "ret") = 24
  /\ Offset(Response__Sendto, "has_errno_") = 28
  /\ Offset(Response__Sendto, "errno_") = 32
  /\ Len(Response__Sendto) = 3 /\ ToSet(Response__Sendto) = {Response__Sendto[i] : i \in 1 .. 3}
  /\ Response__Sendto[1] = <<"ret", "int32_t">>
  /\ Response__Sendto[2] = <<"has_errno_", "protobuf_c_boolean">>
  /\ Response__Sendto[3] = <<"errno_", "int32_t">>
<1> DEFINE s == Response__Sendto
           ends == [i \in 0 .. 3 |-> CASE i = 0 -> 24 [] i = 1 -> 28 [] i = 2 -> 32 [] i = 3 -> 36]
<1>1. /\ s[1] = <<"ret", "int32_t">>
      /\ s[2] = <<"has_errno_", "protobuf_c_boolean">>
      /\ s[3] = <<"errno_", "int32_t">>
  BY DEF Response__Sendto
<1>2. Len(s) = 3 /\ s \in Seq({s[1], s[2], s[3]})
  BY DEF Response__Sendto
<1>3. ToSet(s) = {s[i] : i \in 1 .. 3}
  BY <1>2 DEF ToSet
<1>4. /\ ends[0] = 24 /\ ends[1] = 28 /\ ends[2] = 32 /\ ends[3] = 36
  OBVIOUS
<1> HIDE DEF s, ends
<1>5. \A i, j \in 1 .. 3 : s[i][1] = s[j][1] => i = j
  BY <1>1
<1>6. \A i \in 1 .. 3 : ends[i] = Align(ends[i - 1], s[i][2]) + Size(s[i][2])
  <2>1. ends[1] = Align(ends[0], s[1][2]) + Size(s[1][2]) /\ 1 - 1 = 0
    BY <1>1, <1>4 DEF Align, Size
  <2>2. ends[2] = Align(ends[1], s[2][2]) + Size(s[2][2]) /\ 2 - 1 = 1
    BY <1>1, <1>4 DEF Align, Size
  <2>3. ends[3] = Align(ends[2], s[3][2]) + Size(s[3][2]) /\ 3 - 1 = 2
    BY <1>1, <1>4 DEF Align, Size
  <2>4. QED BY <2>1, <2>2, <2>3
<1>7. \A i \in 1 .. 3 : Offset(s, s[i][1]) = Align(ends[i - 1], s[i][2])
  <2>1. LaidOut(s, ends)
    BY <1>2, <1>4, <1>5, <1>6 DEF LaidOut, BaseSize
  <2>2. QED BY <1>2, <2>1, OffsetIs
<1>8. Offset(s, "ret") = 24
  <2>1. Offset(s, s[1][1]) = Align(ends[1 - 1], s[1][2]) /\ 1 - 1 = 0
    BY <1>7
  <2>2. QED BY <1>1, <1>4, <2>1 DEF Align, Size
<1>9. Offset(s, "has_errno_") = 28
  <2>1. Offset(s, s[2][1]) = Align(ends[2 - 1], s[2][2]) /\ 2 - 1 = 1
    BY <1>7
  <2>2. QED BY <1>1, <1>4, <2>1 DEF Align, Size
<1>10. Offset(s, "errno_") = 32
  <2>1. Offset(s, s[3][1]) = Align(ends[3 - 1], s[3][2]) /\ 3 - 1 = 2
    BY <1>7
  <2>2. QED BY <1>1, <1>4, <2>1 DEF Align, Size
<1>11. QED BY <1>1, <1>2, <1>3, <1>8, <1>9, <1>10 DEF s

LEMMA LayoutRecvfrom ==
  /\ Offset(Response__Recvfrom, "ret") = 24
  /\ Offset(Response__Recvfrom, "has_errno_") = 28
  /\ Offset(Response__Recvfrom, "errno_") = 32
  /\ Offset(Response__Recvfrom, "has_buf") = 36
  /\ Offset(Response__Recvfrom, "buf") = 40
  /\ Offset(Response__Recvfrom, "has_addr") = 56
  /\ Offset(Response__Recvfrom, "addr") = 64
  /\ Len(Response__Recvfrom) = 7 /\ ToSet(Response__Recvfrom) = {Response__Recvfrom[i] : i \in 1 .. 7}
  /\ Response__Recvfrom[1] = <<"ret", "int32_t">>
  /\ Response__Recvfrom[2] = <<"has_errno_", "protobuf_c_boolean">>
  /\ Response__Recvfrom[3] = <<"errno_", "int32_t">>
  /\ Response__Recvfrom[4] = <<"has_buf", "protobuf_c_boolean">>
  /\ Response__Recvfrom[5] = <<"buf", "ProtobufCBinaryData">>
  /\ Response__Recvfrom[6] = <<"has_addr", "protobuf_c_boolean">>
  /\ Response__Recvfrom[7] = <<"addr", "ProtobufCBinaryData">>
<1> DEFINE s == Response__Recvfrom
           ends == [i \in 0 .. 7 |-> CASE i = 0 -> 24 [] i = 1 -> 28 [] i = 2 -> 32 [] i = 3 -> 36 [] i = 4 -> 40 [] i = 5 -> 56 [] i = 6 -> 60 [] i = 7 -> 80]
<1>1. /\ s[1] = <<"ret", "int32_t">>
      /\ s[2] = <<"has_errno_", "protobuf_c_boolean">>
      /\ s[3] = <<"errno_", "int32_t">>
      /\ s[4] = <<"has_buf", "protobuf_c_boolean">>
      /\ s[5] = <<"buf", "ProtobufCBinaryData">>
      /\ s[6] = <<"has_addr", "protobuf_c_boolean">>
      /\ s[7] = <<"addr", "ProtobufCBinaryData">>
  BY DEF Response__Recvfrom
<1>2. Len(s) = 7 /\ s \in Seq({s[1], s[2], s[3], s[4], s[5], s[6], s[7]})
  BY DEF Response__Recvfrom
<1>3. ToSet(s) = {s[i] : i \in 1 .. 7}
  BY <1>2 DEF ToSet
<1>4. /\ ends[0] = 24 /\ ends[1] = 28 /\ ends[2] = 32 /\ ends[3] = 36 /\ ends[4] = 40 /\ ends[5] = 56 /\ ends[6] = 60 /\ ends[7] = 80
  OBVIOUS
<1> HIDE DEF s, ends
<1>5. \A i, j \in 1 .. 7 : s[i][1] = s[j][1] => i = j
  BY <1>1
<1>6. \A i \in 1 .. 7 : ends[i] = Align(ends[i - 1], s[i][2]) + Size(s[i][2])
  <2>1. ends[1] = Align(ends[0], s[1][2]) + Size(s[1][2]) /\ 1 - 1 = 0
    BY <1>1, <1>4 DEF Align, Size
  <2>2. ends[2] = Align(ends[1], s[2][2]) + Size(s[2][2]) /\ 2 - 1 = 1
    BY <1>1, <1>4 DEF Align, Size
  <2>3. ends[3] = Align(ends[2], s[3][2]) + Size(s[3][2]) /\ 3 - 1 = 2
    BY <1>1, <1>4 DEF Align, Size
  <2>4. ends[4] = Align(ends[3], s[4][2]) + Size(s[4][2]) /\ 4 - 1 = 3
    BY <1>1, <1>4 DEF Align, Size
  <2>5. ends[5] = Align(ends[4], s[5][2]) + Size(s[5][2]) /\ 5 - 1 = 4
    BY <1>1, <1>4 DEF Align, Size
  <2>6. ends[6] = Align(ends[5], s[6][2]) + Size(s[6][2]) /\ 6 - 1 = 5
    BY <1>1, <1>4 DEF Align, Size
  <2>7. ends[7] = Align(ends[6], s[7][2]) + Size(s[7][2]) /\ 7 - 1 = 6
    BY <1>1, <1>4 DEF Align, Size
  <2>8. QED BY <2>1, <2>2, <2>3, <2>4, <2>5, <2>6, <2>7
<1>7. \A i \in 1 .. 7 : Offset(s, s[i][1]) = Align(ends[i - 1], s[i][2])
  <2>1. LaidOut(s, ends)
    BY <1>2, <1>4, <1>5, <1>6 DEF LaidOut, BaseSize
  <2>2. QED BY <1>2, <2>1, OffsetIs
<1>8. Offset(s, "ret") = 24
  <2>1. Offset(s, s[1][1]) = Align(ends[1 - 1], s[1][2]) /\ 1 - 1 = 0
    BY <1>7
  <2>2. QED BY <1>1, <1>4, <2>1 DEF Align, Size
<1>9. Offset(s, "has_errno_") = 28
  <2>1. Offset(s, s[2][1]) = Align(ends[2 - 1], s[2][2]) /\ 2 - 1 = 1
    BY <1>7
  <2>2. QED BY <1>1, <1>4, <2>1 DEF Align, Size
<1>10. Offset(s, "errno_") = 32
  <2>1. Offset(s, s[3][1]) = Align(ends[3 - 1], s[3][2]) /\ 3 - 1 = 2
    BY <1>7
  <2>2. QED BY <1>1, <1>4, <2>1 DEF Align, Size
<1>11. Offset(s, "has_buf") = 36
  <2>1. Offset(s, s[4][1]) = Align(ends[4 - 1], s[4][2]) /\ 4 - 1 = 3
    BY <1>7
  <2>2. QED BY <1>1, <1>4, <2>1 DEF Align, Size
<1>12. Offset(s, "buf") = 40
  <2>1. Offset(s, s[5][1]) = Align(ends[5 - 1], s[5][2]) /\ 5 - 1 = 4
    BY <1>7
  <2>2. QED BY <1>1, <1>4, <2>1 DEF Align, Size
<1>13. Offset(s, "has_addr") = 56
  <2>1. Offset(s, s[6][1]) = Align(ends[6 - 1], s[6][2]) /\ 6 - 1 = 5
    BY <1>7
  <2>2. QED BY <1>1, <1>4, <2>1 DEF Align, Size
<1>14. Offset(s, "addr") = 64
  <2>1. Offset(s, s[7][1]) = Align(ends[7 - 1], s[7][2]) /\ 7 - 1 = 6
    BY <1>7
  <2>2. QED BY <1>1, <1>4, <2>1 DEF Align, Size
<1>15. QED BY <1>1, <1>2, <1>3, <1>8, <1>9, <1>10, <1>11, <1>12, <1>13, <1>14 DEF s

LEMMA LayoutGetpeername ==
  /\ Offset(Response__Getpeername, "ret") = 24
  /\ Offset(Response__Getpeername, "has_errno_") = 28
  /\ Offset(Response__Getpeername, "errno_") = 32
  /\ Offset(Response__Getpeername, "has_peername") = 36
  /\ Offset(Response__Getpeername, "peername") = 40
  /\ Len(Response__Getpeername) = 5 /\ ToSet(Response__Getpeername) = {Response__Getpeername[i] : i \in 1 .. 5}
  /\ Response__Getpeername[1] = <<"ret", "int32_t">>
  /\ Response__Getpeername[2] = <<"has_errno_", "protobuf_c_boolean">>
  /\ Response__Getpeername[3] = <<"errno_", "int32_t">>
  /\ Response__Getpeername[4] = <<"has_peername", "protobuf_c_boolean">>
  /\ Response__Getpeername[5] = <<"peername", "ProtobufCBinaryData">>
<1> DEFINE s == Response__Getpeername
           ends == [i \in 0 .. 5 |-> CASE i = 0 -> 24 [] i = 1 -> 28 [] i = 2 -> 32 [] i = 3 -> 36 [] i = 4 -> 40 [] i = 5 -> 56]
<1>1. /\ s[1] = <<"ret", "int32_t">>
      /\ s[2] = <<"has_errno_", "protobuf_c_boolean">>
      /\ s[3] = <<"errno_", "int32_t">>
      /\ s[4] = <<"has_peername", "protobuf_c_boolean">>
      /\ s[5] = <<"peername", "ProtobufCBinaryData">>
  BY DEF Response__Getpeername
<1>2. Len(s) = 5 /\ s \in Seq({s[1], s[2], s[3], s[4], s[5]})
  BY DEF Response__Getpeername
<1>3. ToSet(s) = {s[i] : i \in 1 .. 5}
  BY <1>2 DEF ToSet
<1>4. /\ ends[0] = 24 /\ ends[1] = 28 /\ ends[2] = 32 /\ ends[3] = 36 /\ ends[4] = 40 /\ ends[5] = 56
  OBVIOUS
<1> HIDE DEF s, ends
<1>5. \A i, j \in 1 .. 5 : s[i][1] = s[j][1] => i = j
  BY <1>1
<1>6. \A i \in 1 .. 5 : ends[i] = Align(ends[i - 1], s[i][2]) + Size(s[i][2])
  <2>1. ends[1] = Align(ends[0], s[1][2]) + Size(s[1][2]) /\ 1 - 1 = 0
    BY <1>1, <1>4 DEF Align, Size
  <2>2. ends[2] = Align(ends[1], s[2][2]) + Size(s[2][2]) /\ 2 - 1 = 1
    BY <1>1, <1>4 DEF Align, Size
  <2>3. ends[3] = Align(ends[2], s[3][2]) + Size(s[3][2]) /\ 3 - 1 = 2
    BY <1>1, <1>4 DEF Align, Size
  <2>4. ends[4] = Align(ends[3], s[4][2]) + Size(s[4][2]) /\ 4 - 1 = 3
    BY <1>1, <1>4 DEF Align, Size
  <2>5. ends[5] = Align(ends[4], s[5][2]) + Size(s[5][2]) /\ 5 - 1 = 4
    BY <1>1, <1>4 DEF Align, Size
  <2>6. QED BY <2>1, <2>2, <2>3, <2>4, <2>5
<1>7. \A i \in 1 .. 5 : Offset(s, s[i][1]) = Align(ends[i - 1], s[i][2])
  <2>1. LaidOut(s, ends)
    BY <1>2, <1>4, <1>5, <1>6 DEF LaidOut, BaseSize
  <2>2. QED BY <1>2, <2>1, OffsetIs
<1>8. Offset(s, "ret") = 24
  <2>1. Offset(s, s[1][1]) = Align(ends[1 - 1], s[1][2]) /\ 1 - 1 = 0
    BY <1>7
  <2>2. QED BY <1>1, <1>4, <2>1 DEF Align, Size
<1>9. Offset(s, "has_errno_") = 28
  <2>1. Offset(s, s[2][1]) = Align(ends[2 - 1], s[2][2]) /\ 2 - 1 = 1
    BY <1>7
  <2>2. QED BY <1>1, <1>4, <2>1 DEF Align, Size
<1>10. Offset(s, "errno_") = 32
  <2>1. Offset(s, s[3][1]) = Align(ends[3 - 1], s[3][2]) /\ 3 - 1 = 2
    BY <1>7
  <2>2. QED BY <1>1, <1>4, <2>1 DEF Align, Size
<1>11. Offset(s, "has_peername") = 36
  <2>1. Offset(s, s[4][1]) = Align(ends[4 - 1], s[4][2]) /\ 4 - 1 = 3
    BY <1>7
  <2>2. QED BY <1>1, <1>4, <2>1 DEF Align, Size
<1>12. Offset(s, "peername") = 40
  <2>1. Offset(s, s[5][1]) = Align(ends[5 - 1], s[5][2]) /\ 5 - 1 = 4
    BY <1>7
  <2>2. QED BY <1>1, <1>4, <2>1 DEF Align, Size
<1>13. QED BY <1>1, <1>2, <1>3, <1>8, <1>9, <1>10, <1>11, <1>12 DEF s

LEMMA LayoutGetsockname ==
  /\ Offset(Response__Getsockname, "ret") = 24
  /\ Offset(Response__Getsockname, "has_errno_") = 28
  /\ Offset(Response__Getsockname, "errno_") = 32
  /\ Offset(Response__Getsockname, "has_sockanme") = 36
  /\ Offset(Response__Getsockname, "sockanme") = 40
  /\ Len(Response__Getsockname) = 5 /\ ToSet(Response__Getsockname) = {Response__Getsockname[i] : i \in 1 .. 5}
  /\ Response__Getsockname[1] = <<"ret", "int32_t">>
  /\ Response__Getsockname[2] = <<"has_errno_", "protobuf_c_boolean">>
  /\ Response__Getsockname[3] = <<"errno_", "int32_t">>
  /\ Response__Getsockname[4] = <<"has_sockanme", "protobuf_c_boolean">>
  /\ Response__Getsockname[5] = <<"sockanme", "ProtobufCBinaryData">>
<1> DEFINE s == Response__Getsockname
           ends == [i \in 0 .. 5 |-> CASE i = 0 -> 24 [] i = 1 -> 28 [] i = 2 -> 32 [] i = 3 -> 36 [] i = 4 -> 40 [] i = 5 -> 56]
<1>1. /\ s[1] = <<"ret", "int32_t">>
      /\ s[2] = <<"has_errno_", "protobuf_c_boolean">>
      /\ s[3] = <<"errno_", "int32_t">>
      /\ s[4] = <<"has_sockanme", "protobuf_c_boolean">>
      /\ s[5] = <<"sockanme", "ProtobufCBinaryData">>
  BY DEF Response__Getsockname
<1>2. Len(s) = 5 /\ s \in Seq({s[1], s[2], s[3], s[4], s[5]})
  BY DEF Response__Getsockname
<1>3. ToSet(s) = {s[i] : i \in 1 .. 5}
  BY <1>2 DEF ToSet
<1>4. /\ ends[0] = 24 /\ ends[1] = 28 /\ ends[2] = 32 /\ ends[3] = 36 /\ ends[4] = 40 /\ ends[5] = 56
  OBVIOUS
<1> HIDE DEF s, ends
<1>5. \A i, j \in 1 .. 5 : s[i][1] = s[j][1] => i = j
  BY <1>1
<1>6. \A i \in 1 .. 5 : ends[i] = Align(ends[i - 1], s[i][2]) + Size(s[i][2])
  <2>1. ends[1] = Align(ends[0], s[1][2]) + Size(s[1][2]) /\ 1 - 1 = 0
    BY <1>1, <1>4 DEF Align, Size
  <2>2. ends[2] = Align(ends[1], s[2][2]) + Size(s[2][2]) /\ 2 - 1 = 1
    BY <1>1, <1>4 DEF Align, Size
  <2>3. ends[3] = Align(ends[2], s[3][2]) + Size(s[3][2]) /\ 3 - 1 = 2
    BY <1>1, <1>4 DEF Align, Size
  <2>4. ends[4] = Align(ends[3], s[4][2]) + Size(s[4][2]) /\ 4 - 1 = 3
    BY <1>1, <1>4 DEF Align, Size
  <2>5. ends[5] = Align(ends[4], s[5][2]) + Size(s[5][2]) /\ 5 - 1 = 4
    BY <1>1, <1>4 DEF Align, Size
  <2>6. QED BY <2>1, <2>2, <2>3, <2>4, <2>5
<1>7. \A i \in 1 .. 5 : Offset(s, s[i][1]) = Align(ends[i - 1], s[i][2])
  <2>1. LaidOut(s, ends)
    BY <1>2, <1>4, <1>5, <1>6 DEF LaidOut, BaseSize
  <2>2. QED BY <1>2, <2>1, OffsetIs
<1>8. Offset(s, "ret") = 24
  <2>1. Offset(s, s[1][1]) = Align(ends[1 - 1], s[1][2]) /\ 1 - 1 = 0
    BY <1>7
  <2>2. QED BY <1>1, <1>4, <2>1 DEF Align, Size
<1>9. Offset(s, "has_errno_") = 28
  <2>1. Offset(s, s[2][1]) = Align(ends[2 - 1], s[2][2]) /\ 2 - 1 = 1
    BY <1>7
  <2>2. QED BY <1>1, <1>4, <2>1 DEF Align, Size
<1>10. Offset(s, "errno_") = 32
  <2>1. Offset(s, s[3][1]) = Align(ends[3 - 1], s[3][2]) /\ 3 - 1 = 2
    BY <1>7
  <2>2. QED BY <1>1, <1>4, <2>1 DEF Align, Size
<1>11. Offset(s, "has_sockanme") = 36
  <2>1. Offset(s, s[4][1]) = Align(ends[4 - 1], s[4][2]) /\ 4 - 1 = 3
    BY <1>7
  <2>2. QED BY <1>1, <1>4, <2>1 DEF Align, Size
<1>12. Offset(s, "sockanme") = 40
  <2>1. Offset(s, s[5][1]) = Align(ends[5 - 1], s[5][2]) /\ 5 - 1 = 4
    BY <1>7
  <2>2. QED BY <1>1, <1>4, <2>1 DEF Align, Size
<1>13. QED BY <1>1, <1>2, <1>3, <1>8, <1>9, <1>10, <1>11, <1>12 DEF s

-----------------------------------------------------------------------------
(* The pointers of the union: what a read of a member hits when it goes      *)
(* through the struct of another answer, or of the same.                    *)

LEMMA SendtoAlias == Aliases(Response__Sendto, Response__Recvfrom, "ret") = {"ret"}
<1> DEFINE s == Response__Sendto
           u == Response__Recvfrom
           at == CHOOSE f \in ToSet(u) : f[1] = "ret"
<1>1. TypeOf(u, "ret") = "int32_t"
  <2>1. at = u[1]
    BY LayoutRecvfrom
  <2>2. QED BY <2>1, LayoutRecvfrom DEF TypeOf
<1>2. Offset(u, "ret") = 24
  BY LayoutRecvfrom
<1> DEFINE hit(f) == f[2] = "int32_t" /\ Offset(s, f[1]) = 24
<1>3. Aliases(s, u, "ret") = {f[1] : f \in {g \in ToSet(s) : hit(g)}}
  BY <1>1, <1>2 DEF Aliases
<1>4. \A i \in 1 .. 3 : hit(s[i]) <=> i = 1
  BY LayoutSendto
<1>5. ToSet(s) = {s[i] : i \in 1 .. 3} /\ s[1][1] = "ret"
  BY LayoutSendto
<1> HIDE DEF s, u, hit
<1>6. {g \in ToSet(s) : hit(g)} = {s[1]}
  BY <1>4, <1>5
<1>7. QED BY <1>3, <1>5, <1>6 DEF s, u

LEMMA PeernameAlias == Aliases(Response__Getpeername, Response__Recvfrom, "buf") = {"peername"}
<1> DEFINE s == Response__Getpeername
           u == Response__Recvfrom
           at == CHOOSE f \in ToSet(u) : f[1] = "buf"
<1>1. TypeOf(u, "buf") = "ProtobufCBinaryData"
  <2>1. at = u[5]
    BY LayoutRecvfrom
  <2>2. QED BY <2>1, LayoutRecvfrom DEF TypeOf
<1>2. Offset(u, "buf") = 40
  BY LayoutRecvfrom
<1> DEFINE hit(f) == f[2] = "ProtobufCBinaryData" /\ Offset(s, f[1]) = 40
<1>3. Aliases(s, u, "buf") = {f[1] : f \in {g \in ToSet(s) : hit(g)}}
  BY <1>1, <1>2 DEF Aliases
<1>4. \A i \in 1 .. 5 : hit(s[i]) <=> i = 5
  BY LayoutGetpeername
<1>5. ToSet(s) = {s[i] : i \in 1 .. 5} /\ s[5][1] = "peername"
  BY LayoutGetpeername
<1> HIDE DEF s, u, hit
<1>6. {g \in ToSet(s) : hit(g)} = {s[5]}
  BY <1>4, <1>5
<1>7. QED BY <1>3, <1>5, <1>6 DEF s, u

LEMMA SocknameAlias == Aliases(Response__Getsockname, Response__Recvfrom, "buf") = {"sockanme"}
<1> DEFINE s == Response__Getsockname
           u == Response__Recvfrom
           at == CHOOSE f \in ToSet(u) : f[1] = "buf"
<1>1. TypeOf(u, "buf") = "ProtobufCBinaryData"
  <2>1. at = u[5]
    BY LayoutRecvfrom
  <2>2. QED BY <2>1, LayoutRecvfrom DEF TypeOf
<1>2. Offset(u, "buf") = 40
  BY LayoutRecvfrom
<1> DEFINE hit(f) == f[2] = "ProtobufCBinaryData" /\ Offset(s, f[1]) = 40
<1>3. Aliases(s, u, "buf") = {f[1] : f \in {g \in ToSet(s) : hit(g)}}
  BY <1>1, <1>2 DEF Aliases
<1>4. \A i \in 1 .. 5 : hit(s[i]) <=> i = 5
  BY LayoutGetsockname
<1>5. ToSet(s) = {s[i] : i \in 1 .. 5} /\ s[5][1] = "sockanme"
  BY LayoutGetsockname
<1> HIDE DEF s, u, hit
<1>6. {g \in ToSet(s) : hit(g)} = {s[5]}
  BY <1>4, <1>5
<1>7. QED BY <1>3, <1>5, <1>6 DEF s, u

LEMMA ResultAlias == Aliases(Response__Getsockname, Response__Getpeername, "ret") = {"ret"}
<1> DEFINE s == Response__Getsockname
           u == Response__Getpeername
           at == CHOOSE f \in ToSet(u) : f[1] = "ret"
<1>1. TypeOf(u, "ret") = "int32_t"
  <2>1. at = u[1]
    BY LayoutGetpeername
  <2>2. QED BY <2>1, LayoutGetpeername DEF TypeOf
<1>2. Offset(u, "ret") = 24
  BY LayoutGetpeername
<1> DEFINE hit(f) == f[2] = "int32_t" /\ Offset(s, f[1]) = 24
<1>3. Aliases(s, u, "ret") = {f[1] : f \in {g \in ToSet(s) : hit(g)}}
  BY <1>1, <1>2 DEF Aliases
<1>4. \A i \in 1 .. 5 : hit(s[i]) <=> i = 1
  BY LayoutGetsockname
<1>5. ToSet(s) = {s[i] : i \in 1 .. 5} /\ s[1][1] = "ret"
  BY LayoutGetsockname
<1> HIDE DEF s, u, hit
<1>6. {g \in ToSet(s) : hit(g)} = {s[1]}
  BY <1>4, <1>5
<1>7. QED BY <1>3, <1>5, <1>6 DEF s, u

LEMMA ReceivedAlias == Aliases(Response__Recvfrom, Response__Recvfrom, "ret") = {"ret"}
<1> DEFINE s == Response__Recvfrom
           u == Response__Recvfrom
           at == CHOOSE f \in ToSet(u) : f[1] = "ret"
<1>1. TypeOf(u, "ret") = "int32_t"
  <2>1. at = u[1]
    BY LayoutRecvfrom
  <2>2. QED BY <2>1, LayoutRecvfrom DEF TypeOf
<1>2. Offset(u, "ret") = 24
  BY LayoutRecvfrom
<1> DEFINE hit(f) == f[2] = "int32_t" /\ Offset(s, f[1]) = 24
<1>3. Aliases(s, u, "ret") = {f[1] : f \in {g \in ToSet(s) : hit(g)}}
  BY <1>1, <1>2 DEF Aliases
<1>4. \A i \in 1 .. 7 : hit(s[i]) <=> i = 1
  BY LayoutRecvfrom
<1>5. ToSet(s) = {s[i] : i \in 1 .. 7} /\ s[1][1] = "ret"
  BY LayoutRecvfrom
<1> HIDE DEF s, u, hit
<1>6. {g \in ToSet(s) : hit(g)} = {s[1]}
  BY <1>4, <1>5
<1>7. QED BY <1>3, <1>5, <1>6 DEF s, u

LEMMA BufAlias == Aliases(Response__Recvfrom, Response__Recvfrom, "buf") = {"buf"}
<1> DEFINE s == Response__Recvfrom
           u == Response__Recvfrom
           at == CHOOSE f \in ToSet(u) : f[1] = "buf"
<1>1. TypeOf(u, "buf") = "ProtobufCBinaryData"
  <2>1. at = u[5]
    BY LayoutRecvfrom
  <2>2. QED BY <2>1, LayoutRecvfrom DEF TypeOf
<1>2. Offset(u, "buf") = 40
  BY LayoutRecvfrom
<1> DEFINE hit(f) == f[2] = "ProtobufCBinaryData" /\ Offset(s, f[1]) = 40
<1>3. Aliases(s, u, "buf") = {f[1] : f \in {g \in ToSet(s) : hit(g)}}
  BY <1>1, <1>2 DEF Aliases
<1>4. \A i \in 1 .. 7 : hit(s[i]) <=> i = 5
  BY LayoutRecvfrom
<1>5. ToSet(s) = {s[i] : i \in 1 .. 7} /\ s[5][1] = "buf"
  BY LayoutRecvfrom
<1> HIDE DEF s, u, hit
<1>6. {g \in ToSet(s) : hit(g)} = {s[5]}
  BY <1>4, <1>5
<1>7. QED BY <1>3, <1>5, <1>6 DEF s, u

LEMMA AddrAlias == Aliases(Response__Recvfrom, Response__Recvfrom, "addr") = {"addr"}
<1> DEFINE s == Response__Recvfrom
           u == Response__Recvfrom
           at == CHOOSE f \in ToSet(u) : f[1] = "addr"
<1>1. TypeOf(u, "addr") = "ProtobufCBinaryData"
  <2>1. at = u[7]
    BY LayoutRecvfrom
  <2>2. QED BY <2>1, LayoutRecvfrom DEF TypeOf
<1>2. Offset(u, "addr") = 64
  BY LayoutRecvfrom
<1> DEFINE hit(f) == f[2] = "ProtobufCBinaryData" /\ Offset(s, f[1]) = 64
<1>3. Aliases(s, u, "addr") = {f[1] : f \in {g \in ToSet(s) : hit(g)}}
  BY <1>1, <1>2 DEF Aliases
<1>4. \A i \in 1 .. 7 : hit(s[i]) <=> i = 7
  BY LayoutRecvfrom
<1>5. ToSet(s) = {s[i] : i \in 1 .. 7} /\ s[7][1] = "addr"
  BY LayoutRecvfrom
<1> HIDE DEF s, u, hit
<1>6. {g \in ToSet(s) : hit(g)} = {s[7]}
  BY <1>4, <1>5
<1>7. QED BY <1>3, <1>5, <1>6 DEF s, u

LEMMA SentAlias == Aliases(Response__Sendto, Response__Sendto, "ret") = {"ret"}
<1> DEFINE s == Response__Sendto
           u == Response__Sendto
           at == CHOOSE f \in ToSet(u) : f[1] = "ret"
<1>1. TypeOf(u, "ret") = "int32_t"
  <2>1. at = u[1]
    BY LayoutSendto
  <2>2. QED BY <2>1, LayoutSendto DEF TypeOf
<1>2. Offset(u, "ret") = 24
  BY LayoutSendto
<1> DEFINE hit(f) == f[2] = "int32_t" /\ Offset(s, f[1]) = 24
<1>3. Aliases(s, u, "ret") = {f[1] : f \in {g \in ToSet(s) : hit(g)}}
  BY <1>1, <1>2 DEF Aliases
<1>4. \A i \in 1 .. 3 : hit(s[i]) <=> i = 1
  BY LayoutSendto
<1>5. ToSet(s) = {s[i] : i \in 1 .. 3} /\ s[1][1] = "ret"
  BY LayoutSendto
<1> HIDE DEF s, u, hit
<1>6. {g \in ToSet(s) : hit(g)} = {s[1]}
  BY <1>4, <1>5
<1>7. QED BY <1>3, <1>5, <1>6 DEF s, u

LEMMA ProgressAlias == Aliases(Response__Recvfrom, Response__Sendto, "ret") = {"ret"}
<1> DEFINE s == Response__Recvfrom
           u == Response__Sendto
           at == CHOOSE f \in ToSet(u) : f[1] = "ret"
<1>1. TypeOf(u, "ret") = "int32_t"
  <2>1. at = u[1]
    BY LayoutSendto
  <2>2. QED BY <2>1, LayoutSendto DEF TypeOf
<1>2. Offset(u, "ret") = 24
  BY LayoutSendto
<1> DEFINE hit(f) == f[2] = "int32_t" /\ Offset(s, f[1]) = 24
<1>3. Aliases(s, u, "ret") = {f[1] : f \in {g \in ToSet(s) : hit(g)}}
  BY <1>1, <1>2 DEF Aliases
<1>4. \A i \in 1 .. 7 : hit(s[i]) <=> i = 1
  BY LayoutRecvfrom
<1>5. ToSet(s) = {s[i] : i \in 1 .. 7} /\ s[1][1] = "ret"
  BY LayoutRecvfrom
<1> HIDE DEF s, u, hit
<1>6. {g \in ToSet(s) : hit(g)} = {s[1]}
  BY <1>4, <1>5
<1>7. QED BY <1>3, <1>5, <1>6 DEF s, u
=============================================================================
