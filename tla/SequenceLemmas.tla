--------------------------- MODULE SequenceLemmas ---------------------------
(***************************************************************************)
(* Facts about sequences for the proofs of several modules: induction in   *)
(* the form of a least counterexample, the removal at an index, and the    *)
(* operations of TunnelAgent (push, shift, splice at an element) on        *)
(* sequences without repetition, as the pools of sockets are.              *)
(***************************************************************************)
EXTENDS Naturals, Sequences, SequencesExt, SequenceTheorems, WellFoundedInduction, TLAPS

\* Induction over the numbers, with a set of numbers for the predicate: the theorems
\* of the library that take the predicate as an operator cannot be instantiated
LEMMA LeastNat ==
    ASSUME NEW T \in SUBSET Nat, T # {} PROVE \E n \in T : \A m \in T : n <= m
<1> DEFINE R == {p \in Nat \X Nat : p[1] < p[2]}
<1>1. IsWellFoundedOn(R, Nat)
  BY NatLessThanWellFounded DEF OpToRel
<1>2. \A m, n \in Nat : m < n => <<m, n>> \in R
  <2> SUFFICES ASSUME NEW m \in Nat, NEW n \in Nat, m < n PROVE <<m, n>> \in R
    OBVIOUS
  <2> <<m, n>> \in Nat \X Nat /\ <<m, n>>[1] = m /\ <<m, n>>[2] = n
    OBVIOUS
  <2> QED BY Zenon DEF R
<1> HIDE DEF R
<1>3. PICK n \in T : \A m \in T : ~(<<m, n>> \in R)
  BY <1>1, WFMin
<1>4. ASSUME NEW m \in T PROVE n <= m
  <2>1. m \in Nat /\ n \in Nat /\ ~(m < n)
    BY <1>2, <1>3
  <2> QED BY <2>1
<1> QED BY <1>4

LEMMA NatInd ==
    ASSUME NEW T \in SUBSET Nat, 0 \in T, \A n \in T : n + 1 \in T
    PROVE  T = Nat
<1> SUFFICES ASSUME T # Nat PROVE FALSE
  OBVIOUS
<1>1. Nat \ T # {} /\ Nat \ T \in SUBSET Nat
  OBVIOUS
<1>2. PICK n \in Nat \ T : \A m \in Nat \ T : n <= m
  BY <1>1, LeastNat
<1>3. n - 1 \in Nat /\ ~(n <= n - 1) /\ (n - 1) + 1 = n
  BY <1>2
<1>4. n - 1 \in T
  BY <1>2, <1>3
<1> QED BY <1>2, <1>3, <1>4


In(x, seq) == \E i \in 1..Len(seq) : seq[i] = x
NoDup(seq) == \A i, j \in 1..Len(seq) : seq[i] = seq[j] => i = j

\* push: the element is added to what the sequence holds
LEMMA AppendNoDup ==
    ASSUME NEW S, NEW seq \in Seq(S), NEW e \in S, NoDup(seq), ~In(e, seq)
    PROVE  /\ Append(seq, e) \in Seq(S)
           /\ NoDup(Append(seq, e))
           /\ \A x : In(x, Append(seq, e)) <=> In(x, seq) \/ x = e
<1>1. /\ Append(seq, e) \in Seq(S)
      /\ Len(seq) \in Nat
      /\ Len(Append(seq, e)) = Len(seq) + 1
      /\ \A i \in 1..Len(seq) : Append(seq, e)[i] = seq[i]
      /\ Append(seq, e)[Len(seq) + 1] = e
  OBVIOUS
<1>2. NoDup(Append(seq, e))
  <2> SUFFICES ASSUME NEW i \in 1..(Len(seq) + 1), NEW j \in 1..(Len(seq) + 1),
                      Append(seq, e)[i] = Append(seq, e)[j]
               PROVE  i = j
    BY <1>1 DEF NoDup
  <2>1. CASE i \in 1..Len(seq) /\ j \in 1..Len(seq)
    BY <2>1, <1>1 DEF NoDup
  <2>2. CASE i = Len(seq) + 1 \/ j = Len(seq) + 1
    BY <2>2, <1>1 DEF In
  <2> QED BY <2>1, <2>2, <1>1
<1>3. ASSUME NEW x PROVE In(x, Append(seq, e)) <=> In(x, seq) \/ x = e
  <2>1. In(x, seq) => In(x, Append(seq, e))
    BY <1>1 DEF In
  <2>2. x = e => In(x, Append(seq, e))
    BY <1>1 DEF In
  <2>3. In(x, Append(seq, e)) => In(x, seq) \/ x = e
    BY <1>1 DEF In
  <2> QED BY <2>1, <2>2, <2>3
<1> QED BY <1>1, <1>2, <1>3

\* shift: the front leaves, and only it
LEMMA TailNoDup ==
    ASSUME NEW S, NEW seq \in Seq(S), seq # << >>, NoDup(seq)
    PROVE  /\ Head(seq) \in S
           /\ In(Head(seq), seq)
           /\ Tail(seq) \in Seq(S)
           /\ NoDup(Tail(seq))
           /\ \A x : In(x, Tail(seq)) <=> In(x, seq) /\ x # Head(seq)
<1>1. /\ Len(seq) \in Nat /\ Len(seq) # 0
      /\ Head(seq) = seq[1] /\ Head(seq) \in S
      /\ Tail(seq) \in Seq(S)
      /\ Len(Tail(seq)) = Len(seq) - 1
      /\ \A i \in 1..(Len(seq) - 1) : Tail(seq)[i] = seq[i + 1]
  BY HeadTailProperties
<1>2. NoDup(Tail(seq))
  BY <1>1 DEF NoDup
<1>3. In(Head(seq), seq)
  BY <1>1 DEF In
<1>4. ASSUME NEW x PROVE In(x, Tail(seq)) <=> In(x, seq) /\ x # Head(seq)
  <2>1. ASSUME In(x, Tail(seq)) PROVE In(x, seq) /\ x # Head(seq)
    <3>1. PICK i \in 1..(Len(seq) - 1) : seq[i + 1] = x
      BY <2>1, <1>1 DEF In
    <3>2. i + 1 \in 1..Len(seq) /\ 1 \in 1..Len(seq) /\ i + 1 # 1
      BY <1>1
    <3> QED BY <3>1, <3>2, <1>1 DEF In, NoDup
  <2>2. ASSUME In(x, seq), x # Head(seq) PROVE In(x, Tail(seq))
    <3>1. PICK i \in 1..Len(seq) : seq[i] = x
      BY <2>2 DEF In
    <3>2. i - 1 \in 1..(Len(seq) - 1) /\ (i - 1) + 1 = i
      BY <3>1, <2>2, <1>1
    <3>3. Tail(seq)[i - 1] = x
      BY <3>1, <3>2, <1>1
    <3> QED BY <3>2, <3>3, <1>1 DEF In
  <2> QED BY <2>1, <2>2
<1> QED BY <1>1, <1>2, <1>3, <1>4

\* splice at an index: the later elements move up
LEMMA RemoveAtFacts ==
    ASSUME NEW S, NEW seq \in Seq(S), NEW k \in 1..Len(seq)
    PROVE  /\ RemoveAt(seq, k) \in Seq(S)
           /\ Len(RemoveAt(seq, k)) = Len(seq) - 1
           /\ \A i \in 1..(Len(seq) - 1) :
                  RemoveAt(seq, k)[i] = IF i < k THEN seq[i] ELSE seq[i + 1]
<1> DEFINE left == SubSeq(seq, 1, k - 1)
           right == SubSeq(seq, k + 1, Len(seq))
           rest == RemoveAt(seq, k)
<1>0. Len(seq) \in Nat /\ \A i \in 1..Len(seq) : seq[i] \in S
  OBVIOUS
<1>1. /\ left \in Seq(S) /\ Len(left) = k - 1
      /\ \A i \in 1..(k - 1) : left[i] = seq[i]
  BY <1>0, SubSeqProperties
<1>2. /\ right \in Seq(S) /\ Len(right) = Len(seq) - k
      /\ \A i \in 1..(Len(seq) - k) : right[i] = seq[k + i]
  BY <1>0, SubSeqProperties
<1>3. rest = left \o right
  BY DEF RemoveAt
<1> HIDE DEF left, right, rest
<1>4. /\ left \o right \in Seq(S)
      /\ Len(left \o right) = Len(left) + Len(right)
      /\ \A i \in 1..(Len(left) + Len(right)) : (left \o right)[i] =
            IF i <= Len(left) THEN left[i] ELSE right[i - Len(left)]
  BY <1>1, <1>2, ConcatProperties
<1>5. Len(rest) = Len(seq) - 1
  <2>1. Len(rest) = Len(left) + Len(right)
    BY <1>3, <1>4
  <2>2. Len(left) = k - 1 /\ Len(right) = Len(seq) - k
    BY <1>1, <1>2
  <2>3. k \in Int /\ Len(seq) \in Int
    BY <1>0
  <2> QED BY <2>1, <2>2, <2>3
<1>6. ASSUME NEW i \in 1..(Len(seq) - 1)
      PROVE  rest[i] = IF i < k THEN seq[i] ELSE seq[i + 1]
  <2>1. CASE i < k
    BY <2>1, <1>0, <1>1, <1>2, <1>3, <1>4
  <2>2. CASE ~(i < k)
    <3>1. i - (k - 1) \in 1..(Len(seq) - k) /\ k + (i - (k - 1)) = i + 1
      BY <2>2, <1>0
    <3>2. i \in 1..(Len(left) + Len(right)) /\ ~(i <= Len(left))
      BY <2>2, <1>0, <1>1, <1>2
    <3>3. rest[i] = right[i - (k - 1)]
      BY <3>2, <1>1, <1>3, <1>4
    <3>4. right[i - (k - 1)] = seq[i + 1]
      BY <3>1, <1>2
    <3> QED BY <2>2, <3>3, <3>4
  <2> QED BY <2>1, <2>2
<1>7. rest \in Seq(S)
  BY <1>3, <1>4
<1> QED BY <1>5, <1>6, <1>7 DEF rest

\* splice at the element's index: the element leaves, and only it
LEMMA RemoveFirstNoDup ==
    ASSUME NEW S, NEW seq \in Seq(S), NEW e, NoDup(seq)
    PROVE  /\ RemoveFirst(seq, e) \in Seq(S)
           /\ NoDup(RemoveFirst(seq, e))
           /\ \A x : In(x, RemoveFirst(seq, e)) <=> In(x, seq) /\ x # e
           /\ \/ RemoveFirst(seq, e) = seq
              \/ \E k \in 1..Len(seq) :
                    RemoveFirst(seq, e) =
                      [j \in 1..(Len(seq) - 1) |-> IF j < k THEN seq[j] ELSE seq[j + 1]]
<1>0. Len(seq) \in Nat /\ \A i \in 1..Len(seq) : seq[i] \in S
  OBVIOUS
<1>1. CASE ~In(e, seq)
  <2>1. RemoveFirst(seq, e) = seq
    BY <1>1 DEF RemoveFirst, In
  <2> QED BY <1>1, <2>1
<1>2. CASE In(e, seq)
  <2>1. PICK k \in 1..Len(seq) : seq[k] = e
    BY <1>2 DEF In
  <2>2. {i \in 1..Len(seq) : seq[i] = e} = {k}
    BY <2>1 DEF NoDup
  <2>3. Min({k}) = k
    BY <2>1, <1>0 DEF Min
  <2>4. SelectInSeq(seq, LAMBDA v : v = e) = k
    BY <2>2, <2>3 DEF SelectInSeq
  <2> DEFINE rest == RemoveFirst(seq, e)
  <2>5. rest = RemoveAt(seq, k)
    BY <2>1, <2>4 DEF RemoveFirst
  <2>6. /\ rest \in Seq(S)
        /\ Len(rest) = Len(seq) - 1
        /\ \A i \in 1..(Len(seq) - 1) : rest[i] = IF i < k THEN seq[i] ELSE seq[i + 1]
    BY <2>1, <2>5, RemoveAtFacts
  <2> HIDE DEF rest
  <2>7. NoDup(rest)
    BY <2>6, <2>1, <1>0 DEF NoDup
  <2>8. ASSUME NEW x PROVE In(x, rest) <=> In(x, seq) /\ x # e
    <3>1. ASSUME In(x, rest) PROVE In(x, seq) /\ x # e
      <4>1. PICK i \in 1..(Len(seq) - 1) : x = IF i < k THEN seq[i] ELSE seq[i + 1]
        BY <3>1, <2>6 DEF In
      <4>2. CASE i < k
        BY <4>1, <4>2, <2>1, <1>0 DEF In, NoDup
      <4>3. CASE ~(i < k)
        <5>1. i + 1 \in 1..Len(seq) /\ i + 1 # k /\ x = seq[i + 1]
          BY <4>1, <4>3, <2>1, <1>0
        <5> QED BY <5>1, <2>1 DEF In, NoDup
      <4> QED BY <4>2, <4>3
    <3>2. ASSUME In(x, seq), x # e PROVE In(x, rest)
      <4>1. PICK i \in 1..Len(seq) : seq[i] = x
        BY <3>2 DEF In
      <4>2. CASE i < k
        <5>1. i \in 1..(Len(seq) - 1) /\ rest[i] = x
          BY <4>1, <4>2, <2>6, <2>1, <1>0
        <5> QED BY <5>1, <2>6 DEF In
      <4>3. CASE i > k
        <5>1. i - 1 \in 1..(Len(seq) - 1) /\ ~(i - 1 < k) /\ (i - 1) + 1 = i
          BY <4>1, <4>3, <2>1, <1>0
        <5>2. rest[i - 1] = x
          BY <5>1, <4>1, <2>6
        <5> QED BY <5>1, <5>2, <2>6 DEF In
      <4>4. i # k
        BY <4>1, <2>1, <3>2
      <4> QED BY <4>2, <4>3, <4>4, <2>1, <1>0
    <3> QED BY <3>1, <3>2
  <2>9. rest = [j \in 1..(Len(seq) - 1) |-> IF j < k THEN seq[j] ELSE seq[j + 1]]
    <3>1. rest = [j \in 1..Len(rest) |-> rest[j]]
      BY <2>6
    <3> QED BY <3>1, <2>6
  <2> QED BY <2>1, <2>6, <2>7, <2>8, <2>9 DEF rest
<1> QED BY <1>1, <1>2

-----------------------------------------------------------------------------
(* FlattenSeq *)

\* f[i] is the concatenation of the first i elements of ss, for i up to n
Joins(S, ss, n, f) ==
    /\ f \in [0..n -> Seq(S)]
    /\ f[0] = << >>
    /\ \A i \in 1..n : f[i] = f[i - 1] \o ss[i]

LEMMA JoinsStep ==
    ASSUME NEW S, NEW ss \in Seq(Seq(S)), NEW n \in Nat, n + 1 <= Len(ss),
           NEW f, Joins(S, ss, n, f)
    PROVE  \E g : Joins(S, ss, n + 1, g)
<1>1. n + 1 \in 1..Len(ss) /\ n \in 0..n
  OBVIOUS
<1>2. f[n] \in Seq(S) /\ ss[n + 1] \in Seq(S)
  BY <1>1, ElementOfSeq DEF Joins
<1> DEFINE t == f[n] \o ss[n + 1]
           g == [i \in 0..(n + 1) |-> IF i = n + 1 THEN t ELSE f[i]]
<1>3. t \in Seq(S)
  BY <1>2, ConcatProperties
<1>4. g[n + 1] = t /\ \A i \in 0..n : g[i] = f[i]
  <2> HIDE DEF t
  <2>1. n + 1 \in 0..(n + 1) /\ \A i \in 0..n : i \in 0..(n + 1) /\ i # n + 1
    OBVIOUS
  <2> QED BY <2>1
<1>5. g \in [0..(n + 1) -> Seq(S)]
  <2> HIDE DEF t
  <2>1. \A i \in 0..(n + 1) : (IF i = n + 1 THEN t ELSE f[i]) \in Seq(S)
    BY <1>3 DEF Joins
  <2> QED BY <2>1
<1> HIDE DEF g
<1>6. ASSUME NEW i \in 1..(n + 1) PROVE g[i] = g[i - 1] \o ss[i]
  <2>1. CASE i = n + 1
    <3>1. i - 1 = n
      BY <2>1
    <3>2. g[n] = f[n]
      BY <1>1, <1>4
    <3> QED BY <1>4, <2>1, <3>1, <3>2
  <2>2. CASE i # n + 1
    <3>1. i \in 1..n /\ i \in 0..n /\ i - 1 \in 0..n
      BY <2>2
    <3> QED BY <1>4, <3>1 DEF Joins
  <2> QED BY <2>1, <2>2
<1>7. g[0] = << >>
  BY <1>4 DEF Joins
<1> QED BY <1>5, <1>6, <1>7 DEF Joins

LEMMA JoinsExist ==
    ASSUME NEW S, NEW ss \in Seq(Seq(S)) PROVE \E f : Joins(S, ss, Len(ss), f)
<1> DEFINE T == {n \in Nat : n <= Len(ss) => \E f : Joins(S, ss, n, f)}
<1>0. Len(ss) \in Nat
  BY LenProperties
<1>1. 0 \in T
  <2> DEFINE f == [i \in 0..0 |-> << >>]
  <2>1. f \in [0..0 -> Seq(S)] /\ f[0] = << >> /\ 1..0 = {}
    BY EmptySeq
  <2> HIDE DEF f
  <2>2. Joins(S, ss, 0, f)
    BY <2>1 DEF Joins
  <2> QED BY <2>2
<1>2. ASSUME NEW n \in T PROVE n + 1 \in T
  <2>1. n \in Nat /\ (n + 1 <= Len(ss) => n <= Len(ss))
    BY <1>0
  <2>2. n + 1 <= Len(ss) => \E f : Joins(S, ss, n + 1, f)
    BY <2>1, JoinsStep
  <2> QED BY <2>1, <2>2
<1>3. T = Nat
  <2> HIDE DEF T
  <2>1. T \in SUBSET Nat
    BY DEF T
  <2> QED BY <1>1, <1>2, <2>1, NatInd
<1>4. Len(ss) <= Len(ss)
  BY <1>0
<1> QED BY <1>0, <1>3, <1>4

\* There is one such function
LEMMA JoinsUnique ==
    ASSUME NEW S, NEW ss, NEW tt, NEW n \in Nat, \A i \in 1..n : ss[i] = tt[i],
           NEW f, Joins(S, ss, n, f), NEW m \in Nat, n <= m, NEW g, Joins(S, tt, m, g)
    PROVE  f[n] = g[n]
<1> DEFINE U == {i \in Nat : i <= n => f[i] = g[i]}
<1>1. 0 \in U
  BY DEF Joins
<1>2. ASSUME NEW i \in U PROVE i + 1 \in U
  <2> SUFFICES ASSUME i + 1 <= n PROVE f[i + 1] = g[i + 1]
    OBVIOUS
  <2>1. /\ i \in Nat /\ i <= n /\ i + 1 \in 1..n /\ i + 1 \in 1..m
        /\ (i + 1) - 1 = i
    OBVIOUS
  <2>2. f[i] = g[i] /\ ss[i + 1] = tt[i + 1]
    BY <2>1
  <2>3. f[i + 1] = f[i] \o ss[i + 1] /\ g[i + 1] = g[i] \o tt[i + 1]
    BY <2>1 DEF Joins
  <2> QED BY <2>2, <2>3
<1>3. U = Nat
  <2> HIDE DEF U
  <2>1. U \in SUBSET Nat
    BY DEF U
  <2> QED BY <1>1, <1>2, <2>1, NatInd
<1>4. n <= n
  OBVIOUS
<1> QED BY <1>3, <1>4

\* FlattenSeq is its last value
LEMMA FlattenIsJoin ==
    ASSUME NEW S, NEW ss \in Seq(Seq(S)), NEW f, Joins(S, ss, Len(ss), f)
    PROVE  FlattenSeq(ss) = f[Len(ss)]
<1>0. Len(ss) \in Nat /\ \A i \in 1..Len(ss) : ss[i] \in Seq(S)
  BY LenProperties, ElementOfSeq
<1>1. CASE Len(ss) = 0
  <2>1. FlattenSeq(ss) = << >>
    BY <1>1, EmptySeq DEF FlattenSeq
  <2> QED BY <1>1, <2>1 DEF Joins
<1>2. CASE Len(ss) # 0
  <2> DEFINE Step(h) == [i \in 1..Len(ss) |-> IF i = 1 THEN ss[i] ELSE h[i - 1] \o ss[i]]
             g == [i \in 1..Len(ss) |-> f[i]]
             flatten == CHOOSE h : h = Step(h)
  <2>1. ASSUME NEW i \in 1..Len(ss)
        PROVE  f[i] = IF i = 1 THEN ss[i] ELSE g[i - 1] \o ss[i]
    <3>1. f[i] = f[i - 1] \o ss[i] /\ ss[i] \in Seq(S)
      BY <1>0 DEF Joins
    <3>2. CASE i = 1
      <4>1. i - 1 = 0 /\ f[0] = << >>
        BY <3>2 DEF Joins
      <4> QED BY <3>1, <3>2, <4>1, ConcatEmptySeq
    <3>3. CASE i # 1
      <4>1. i - 1 \in 1..Len(ss)
        BY <1>0, <3>3
      <4> QED BY <3>1, <3>3, <4>1
    <3> QED BY <3>2, <3>3
  <2>2. g = Step(g)
    BY <2>1
  <2>3. flatten = Step(flatten)
    <3> HIDE DEF Step
    <3> QED BY <2>2
  <2>4. FlattenSeq(ss) = flatten[Len(ss)]
    BY <1>2 DEF FlattenSeq
  <2> HIDE DEF flatten
  <2>5. /\ flatten[1] = ss[1]
        /\ \A i \in 2..Len(ss) : flatten[i] = flatten[i - 1] \o ss[i]
    <3>1. \A i \in 1..Len(ss) : flatten[i] = IF i = 1 THEN ss[i] ELSE flatten[i - 1] \o ss[i]
      BY <2>3
    <3>2. 1 \in 1..Len(ss) /\ \A i \in 2..Len(ss) : i \in 1..Len(ss) /\ i # 1
      BY <1>0, <1>2
    <3> QED BY <3>1, <3>2
  <2> DEFINE U == {n \in Nat : n + 1 <= Len(ss) => flatten[n + 1] = f[n + 1]}
  <2>6. 0 \in U
    <3>1. 1 \in 1..Len(ss)
      BY <1>0, <1>2
    <3>2. f[1] = ss[1]
      BY <2>1, <3>1
    <3> QED BY <2>5, <3>2
  <2>7. ASSUME NEW n \in U PROVE n + 1 \in U
    <3> SUFFICES ASSUME (n + 1) + 1 <= Len(ss) PROVE flatten[(n + 1) + 1] = f[(n + 1) + 1]
      OBVIOUS
    <3>1. /\ n + 1 <= Len(ss) /\ (n + 1) + 1 \in 2..Len(ss) /\ (n + 1) + 1 \in 1..Len(ss)
          /\ ((n + 1) + 1) - 1 = n + 1
      BY <1>0
    <3>2. flatten[n + 1] = f[n + 1]
      BY <3>1
    <3>3. f[(n + 1) + 1] = f[n + 1] \o ss[(n + 1) + 1]
      BY <3>1 DEF Joins
    <3> QED BY <2>5, <3>1, <3>2, <3>3
  <2>8. U = Nat
    <3> HIDE DEF U
    <3>1. U \in SUBSET Nat
      BY DEF U
    <3> QED BY <2>6, <2>7, <3>1, NatInd
  <2>9. /\ Len(ss) - 1 \in Nat /\ (Len(ss) - 1) + 1 = Len(ss)
        /\ (Len(ss) - 1) + 1 <= Len(ss)
    BY <1>0, <1>2
  <2>10. flatten[Len(ss)] = f[Len(ss)]
    <3>1. Len(ss) - 1 \in U
      BY <2>8, <2>9
    <3> QED BY <2>9, <3>1
  <2> QED BY <2>4, <2>10
<1> QED BY <1>1, <1>2

LEMMA FlattenType ==
    ASSUME NEW S, NEW ss \in Seq(Seq(S)) PROVE FlattenSeq(ss) \in Seq(S)
<1>1. Len(ss) \in 0..Len(ss)
  BY LenProperties
<1>2. PICK f : Joins(S, ss, Len(ss), f)
  BY JoinsExist
<1>3. FlattenSeq(ss) = f[Len(ss)]
  BY <1>2, FlattenIsJoin
<1> QED BY <1>1, <1>2, <1>3 DEF Joins

LEMMA FlattenEmpty == FlattenSeq(<< >>) = << >>
BY DEF FlattenSeq

LEMMA FlattenAppend ==
    ASSUME NEW S, NEW ss \in Seq(Seq(S)), NEW t \in Seq(S)
    PROVE  FlattenSeq(Append(ss, t)) = FlattenSeq(ss) \o t
<1> DEFINE tt == Append(ss, t)
<1>0. Len(ss) \in Nat
  BY LenProperties
<1>1. /\ tt \in Seq(Seq(S)) /\ Len(tt) = Len(ss) + 1
      /\ tt[Len(ss) + 1] = t
      /\ \A i \in 1..Len(ss) : ss[i] = tt[i]
  BY AppendProperties
<1> HIDE DEF tt
<1>2. PICK f : Joins(S, ss, Len(ss), f)
  BY JoinsExist
<1>3. PICK g : Joins(S, tt, Len(tt), g)
  BY <1>1, JoinsExist
<1>4. FlattenSeq(ss) = f[Len(ss)]
  BY <1>2, FlattenIsJoin
<1>5. FlattenSeq(tt) = g[Len(tt)]
  BY <1>1, <1>3, FlattenIsJoin
<1>6. Len(tt) \in 1..Len(tt) /\ Len(tt) - 1 = Len(ss) /\ Len(tt) \in Nat /\ Len(ss) <= Len(tt)
  BY <1>0, <1>1
<1>7. g[Len(tt)] = g[Len(ss)] \o t
  BY <1>1, <1>3, <1>6 DEF Joins
<1>8. f[Len(ss)] = g[Len(ss)]
  <2> DEFINE n == Len(ss)
             m == Len(tt)
  <2>1. /\ n \in Nat /\ m \in Nat /\ n <= m
        /\ \A i \in 1..n : ss[i] = tt[i]
        /\ Joins(S, ss, n, f) /\ Joins(S, tt, m, g)
    BY <1>0, <1>1, <1>2, <1>3, <1>6
  <2> HIDE DEF n, m
  <2>2. f[n] = g[n]
    BY <2>1, JoinsUnique
  <2> QED BY <2>2 DEF n
<1> QED BY <1>4, <1>5, <1>7, <1>8 DEF tt

\* Stated of a set, so that it can be cited where sequences of sequences are about
Associative(S) == \A x, y, t \in Seq(S) : (x \o y) \o t = x \o (y \o t)

LEMMA ConcatIsAssociative == ASSUME NEW S PROVE Associative(S)
BY ConcatAssociative DEF Associative

LEMMA AppendConcat ==
    ASSUME NEW S, NEW x \in Seq(S), NEW y \in Seq(S), NEW t \in S
    PROVE  x \o Append(y, t) = Append(x \o y, t)
<1>1. <<t>> \in Seq(S) /\ x \o y \in Seq(S)
  OBVIOUS
<1>2. (x \o y) \o <<t>> = x \o (y \o <<t>>)
  BY <1>1, ConcatAssociative
<1> QED BY <1>1, <1>2, AppendIsConcat

LEMMA FlattenConcatStep ==
    ASSUME NEW S, NEW a \in Seq(Seq(S)), NEW d \in Seq(Seq(S)), NEW t \in Seq(S),
           FlattenSeq(a \o d) = FlattenSeq(a) \o FlattenSeq(d)
    PROVE  FlattenSeq(a \o Append(d, t)) = FlattenSeq(a) \o FlattenSeq(Append(d, t))
<1>1. a \o d \in Seq(Seq(S)) /\ a \o Append(d, t) = Append(a \o d, t)
  <2> DEFINE T == Seq(S)
  <2>1. t \in T /\ a \in Seq(T) /\ d \in Seq(T)
    OBVIOUS
  <2> HIDE DEF T
  <2>2. a \o d \in Seq(T)
    BY <2>1, ConcatProperties
  <2>3. a \o Append(d, t) = Append(a \o d, t)
    BY <2>1, AppendConcat
  <2> QED BY <2>2, <2>3 DEF T
<1>2. FlattenSeq(a \o Append(d, t)) = (FlattenSeq(a) \o FlattenSeq(d)) \o t
  BY <1>1, FlattenAppend
<1>3. FlattenSeq(Append(d, t)) = FlattenSeq(d) \o t
  BY FlattenAppend
<1> DEFINE x == FlattenSeq(a)
           y == FlattenSeq(d)
<1>4. x \in Seq(S) /\ y \in Seq(S)
  BY FlattenType
<1>5. (x \o y) \o t = x \o (y \o t)
  <2>1. Associative(S)
    BY ConcatIsAssociative
  <2> HIDE DEF x, y
  <2> QED BY <1>4, <2>1 DEF Associative
<1> QED BY <1>2, <1>3, <1>5

LEMMA FlattenConcat ==
    ASSUME NEW S, NEW a \in Seq(Seq(S)), NEW b \in Seq(Seq(S))
    PROVE  FlattenSeq(a \o b) = FlattenSeq(a) \o FlattenSeq(b)
<1> DEFINE Good(c) == FlattenSeq(a \o c) = FlattenSeq(a) \o FlattenSeq(c)
           U == {n \in Nat : \A c \in Seq(Seq(S)) : Len(c) = n => Good(c)}
<1>1. 0 \in U
  <2> SUFFICES ASSUME NEW c \in Seq(Seq(S)), Len(c) = 0 PROVE Good(c)
    OBVIOUS
  <2>1. c = << >>
    BY EmptySeq
  <2> QED BY <2>1, ConcatEmptySeq, FlattenEmpty, FlattenType
<1>2. ASSUME NEW n \in U PROVE n + 1 \in U
  <2> SUFFICES ASSUME NEW c \in Seq(Seq(S)), Len(c) = n + 1 PROVE Good(c)
    OBVIOUS
  <2>1. n \in Nat /\ c # << >>
    BY EmptySeq
  <2>2. PICK d \in Seq(Seq(S)), t \in Seq(S) : c = Append(d, t)
    BY <2>1, SequenceEmptyOrAppend
  <2>3. Len(d) = n
    BY <2>1, <2>2, AppendProperties, LenProperties
  <2>4. FlattenSeq(a \o d) = FlattenSeq(a) \o FlattenSeq(d)
    BY <2>3
  <2>5. FlattenSeq(a \o Append(d, t)) = FlattenSeq(a) \o FlattenSeq(Append(d, t))
    <3> HIDE DEF U
    <3> QED BY <2>4, FlattenConcatStep
  <2> QED BY <2>2, <2>5
<1>3. U = Nat
  <2> HIDE DEF U
  <2>1. U \subseteq Nat
    BY DEF U
  <2> QED BY <1>1, <1>2, <2>1, NatInd
<1> QED BY <1>3, LenProperties

\* Induction over the sequences, with a set of sequences for the predicate
LEMMA SeqInd ==
    ASSUME NEW S, NEW T \in SUBSET Seq(S), << >> \in T,
           \A e \in S, s \in T : <<e>> \o s \in T
    PROVE  T = Seq(S)
<1> DEFINE U == {n \in Nat : \A s \in Seq(S) : Len(s) = n => s \in T}
<1>1. 0 \in U
  BY EmptySeq
<1>2. ASSUME NEW n \in U PROVE n + 1 \in U
  <2> SUFFICES ASSUME NEW s \in Seq(S), Len(s) = n + 1 PROVE s \in T
    OBVIOUS
  <2>1. n \in Nat /\ s # << >>
    BY EmptySeq
  <2>2. /\ Head(s) \in S /\ Tail(s) \in Seq(S)
        /\ Len(Tail(s)) = n
        /\ s = <<Head(s)>> \o Tail(s)
    BY <2>1
  <2>3. Tail(s) \in T
    BY <2>2
  <2> QED BY <2>2, <2>3
<1>3. U = Nat
  <2> HIDE DEF U
  <2>1. U \in SUBSET Nat
    BY DEF U
  <2> QED BY <1>1, <1>2, <2>1, NatInd
<1> QED BY <1>3, LenProperties

\* What G makes of each element, one after another
Gather(G, seq) == FlattenSeq([i \in 1..Len(seq) |-> G[seq[i]]])

LEMMA MapConcat ==
    ASSUME NEW S, NEW V, NEW G \in [S -> V], NEW s \in Seq(S), NEW t \in Seq(S)
    PROVE  [i \in 1..Len(s \o t) |-> G[(s \o t)[i]]] =
               [i \in 1..Len(s) |-> G[s[i]]] \o [i \in 1..Len(t) |-> G[t[i]]]
<1> DEFINE x == [i \in 1..Len(s) |-> G[s[i]]]
           y == [i \in 1..Len(t) |-> G[t[i]]]
           z == [i \in 1..Len(s \o t) |-> G[(s \o t)[i]]]
<1>1. /\ s \o t \in Seq(S) /\ Len(s \o t) = Len(s) + Len(t)
      /\ Len(s) \in Nat /\ Len(t) \in Nat
      /\ \A i \in 1..(Len(s) + Len(t)) : (s \o t)[i] =
            IF i <= Len(s) THEN s[i] ELSE t[i - Len(s)]
  BY ConcatProperties, LenProperties
<1>2. /\ \A i \in 1..Len(s) : G[s[i]] \in V
      /\ \A i \in 1..Len(t) : G[t[i]] \in V
      /\ \A i \in 1..Len(s \o t) : G[(s \o t)[i]] \in V
  BY <1>1, ElementOfSeq
<1>3. /\ x \in Seq(V) /\ y \in Seq(V) /\ z \in Seq(V)
      /\ Len(x) = Len(s) /\ Len(y) = Len(t) /\ Len(z) = Len(s) + Len(t)
  BY <1>1, <1>2
<1>4. /\ \A i \in 1..Len(s) : x[i] = G[s[i]]
      /\ \A i \in 1..Len(t) : y[i] = G[t[i]]
      /\ \A i \in 1..(Len(s) + Len(t)) : z[i] = G[(s \o t)[i]]
  BY <1>1
<1> HIDE DEF x, y, z
<1>5. /\ x \o y \in Seq(V) /\ Len(x \o y) = Len(x) + Len(y)
      /\ \A i \in 1..(Len(x) + Len(y)) : (x \o y)[i] =
            IF i <= Len(x) THEN x[i] ELSE y[i - Len(x)]
  <2> x \in Seq(V) /\ y \in Seq(V)
    BY <1>3
  <2> QED OBVIOUS
<1>6. ASSUME NEW i \in 1..Len(z) PROVE z[i] = (x \o y)[i]
  <2>1. i \in 1..(Len(s) + Len(t)) /\ i \in 1..(Len(x) + Len(y))
    BY <1>3
  <2>2. z[i] = G[(s \o t)[i]]
    BY <1>4, <2>1
  <2>3. CASE i <= Len(s)
    <3>1. i \in 1..Len(s)
      BY <1>1, <2>3
    <3>2. (s \o t)[i] = s[i] /\ (x \o y)[i] = x[i]
      BY <1>1, <1>3, <1>5, <2>1, <2>3
    <3> QED BY <1>4, <2>2, <3>1, <3>2
  <2>4. CASE ~(i <= Len(s))
    <3>1. i - Len(s) \in 1..Len(t)
      BY <1>1, <2>1, <2>4
    <3>2. (s \o t)[i] = t[i - Len(s)]
      BY <1>1, <2>1, <2>4
    <3>3. (x \o y)[i] = y[i - Len(s)]
      BY <1>3, <1>5, <2>1, <2>4
    <3> QED BY <1>4, <2>2, <3>1, <3>2, <3>3
  <2> QED BY <2>3, <2>4
<1>7. z = x \o y
  <2>1. Len(z) = Len(x \o y)
    BY <1>3, <1>5
  <2> QED BY <1>3, <1>5, <1>6, <2>1, SeqEqual
<1> QED BY <1>7 DEF x, y, z

LEMMA GatherFacts ==
    ASSUME NEW S, NEW T, NEW G \in [S -> Seq(T)]
    PROVE  /\ \A s \in Seq(S) : Gather(G, s) \in Seq(T)
           /\ Gather(G, << >>) = << >>
           /\ \A s, t \in Seq(S) : Gather(G, s \o t) = Gather(G, s) \o Gather(G, t)
           /\ \A e \in S : Gather(G, <<e>>) = G[e]
<1> DEFINE M(s) == [i \in 1..Len(s) |-> G[s[i]]]
<1>1. ASSUME NEW s \in Seq(S) PROVE M(s) \in Seq(Seq(T)) /\ Len(M(s)) = Len(s)
  <2>1. Len(s) \in Nat /\ \A i \in 1..Len(s) : G[s[i]] \in Seq(T)
    BY LenProperties, ElementOfSeq
  <2> QED BY <2>1, LenProperties
<1>2. ASSUME NEW s \in Seq(S) PROVE Gather(G, s) \in Seq(T)
  BY <1>1, FlattenType DEF Gather
<1>3. Gather(G, << >>) = << >>
  <2>1. M(<< >>) = << >>
    OBVIOUS
  <2> QED BY <2>1, FlattenEmpty DEF Gather
<1>4. ASSUME NEW s \in Seq(S), NEW t \in Seq(S) PROVE M(s \o t) = M(s) \o M(t)
  <2> DEFINE V == Seq(T)
  <2>1. G \in [S -> V]
    OBVIOUS
  <2> HIDE DEF V
  <2> QED BY <2>1, MapConcat
<1>5. ASSUME NEW s \in Seq(S), NEW t \in Seq(S)
      PROVE  Gather(G, s \o t) = Gather(G, s) \o Gather(G, t)
  <2> DEFINE x == M(s)
             y == M(t)
  <2>1. x \in Seq(Seq(T)) /\ y \in Seq(Seq(T)) /\ M(s \o t) = x \o y
    BY <1>1, <1>4
  <2> HIDE DEF x, y
  <2>2. FlattenSeq(x \o y) = FlattenSeq(x) \o FlattenSeq(y)
    BY <2>1, FlattenConcat
  <2> QED BY <2>1, <2>2 DEF Gather, x, y
<1>6. ASSUME NEW e \in S PROVE Gather(G, <<e>>) = G[e]
  <2>1. M(<<e>>) = Append(<< >>, G[e]) /\ G[e] \in Seq(T) /\ << >> \in Seq(Seq(T))
    OBVIOUS
  <2>2. FlattenSeq(Append(<< >>, G[e])) = << >> \o G[e]
    BY <2>1, FlattenAppend, FlattenEmpty
  <2> QED BY <2>1, <2>2, ConcatEmptySeq DEF Gather
<1> QED BY <1>2, <1>3, <1>5, <1>6
=============================================================================
