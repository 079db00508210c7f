------------------------ MODULE UdpFrameCodecProofs ------------------------
(***************************************************************************)
(* What the frame parser computes, for every radix, every set of headers   *)
(* that JSON.parse accepts and every stream of bytes.                      *)
(***************************************************************************)
EXTENDS UdpFrameCodec, SequenceLemmas

Bytes == Seq(Byte)

\* What follows the first k bytes
Rest(buffer, k) == SubSeq(buffer, k + 1, Len(buffer))

-----------------------------------------------------------------------------
(* Bytes *)

\* A length on two bytes is read back as it was written
LEMMA LengthsSurvive ==
    ASSUME NEW n \in Nat, n < Radix * Radix
    PROVE  /\ UInt16BE(n) \in Bytes /\ Len(UInt16BE(n)) = 2
           /\ UInt16BE(n)[1] * Radix + UInt16BE(n)[2] = n
<1> DEFINE q == n \div Radix
           r == n % Radix
<1>1. Radix \in Nat /\ Radix > 0
  BY RadixAssumption
<1>2. q \in Nat /\ r \in 0..(Radix - 1) /\ n = q * Radix + r
  BY <1>1
<1>3. q < Radix
  <2> SUFFICES ASSUME q >= Radix PROVE FALSE
    BY <1>1, <1>2
  <2> HIDE DEF q, r
  <2>1. q * Radix >= Radix * Radix
    BY <1>1, <1>2
  <2> QED BY <1>1, <1>2, <2>1
<1>4. q \in Byte /\ r \in Byte
  BY <1>1, <1>2, <1>3 DEF Byte
<1>5. UInt16BE(n) = <<q, r>>
  BY DEF UInt16BE
<1> HIDE DEF q, r
<1>6. <<q, r>> \in Seq(Byte) /\ Len(<<q, r>>) = 2 /\ <<q, r>>[1] = q /\ <<q, r>>[2] = r
  BY <1>4
<1>7. <<q, r>>[1] * Radix + <<q, r>>[2] = n
  BY <1>2, <1>6
<1> HIDE DEF UInt16BE
<1> QED BY <1>5, <1>6, <1>7 DEF Bytes

LEMMA ReadIsShort ==
    ASSUME NEW b \in Bytes, NEW k \in Nat, k + 2 <= Len(b)
    PROVE  /\ readUInt16BE(b, k) \in Nat
           /\ readUInt16BE(b, k) < Radix * Radix
<1>1. Radix \in Nat /\ Radix > 0
  BY RadixAssumption
<1>2. Len(b) \in Nat /\ k + 1 \in 1..Len(b) /\ k + 2 \in 1..Len(b)
  BY LenProperties DEF Bytes
<1>3. PICK x \in Byte, y \in Byte : b[k + 1] = x /\ b[k + 2] = y
  BY <1>2, ElementOfSeq DEF Bytes
<1>4. x \in Nat /\ y \in Nat /\ x <= Radix - 1 /\ y <= Radix - 1
  BY <1>1 DEF Byte
<1>5. x * Radix <= (Radix - 1) * Radix /\ (Radix - 1) * Radix = Radix * Radix - Radix
  BY <1>1, <1>4
<1>6. x * Radix \in Nat /\ Radix * Radix \in Nat
  BY <1>1, <1>4
<1>7. readUInt16BE(b, k) = x * Radix + y
  BY <1>3 DEF readUInt16BE
<1> QED BY <1>1, <1>4, <1>5, <1>6, <1>7

\* The lengths in front of a buffer, and that a frame takes some of it
LEMMA LengthFacts ==
    ASSUME NEW b \in Bytes, Len(b) >= HEADER_SIZE
    PROVE  /\ HeaderLen(b) \in Nat /\ HeaderLen(b) < Radix * Radix
           /\ TotalLen(b) \in Nat /\ TotalLen(b) >= HEADER_SIZE + HeaderLen(b)
           /\ TotalLen(b) < HEADER_SIZE + HeaderLen(b) + Radix * Radix
<1>1. Len(b) \in Nat /\ 1 + 2 <= Len(b) /\ 3 + 2 <= Len(b)
  BY LenProperties DEF Bytes, HEADER_SIZE
<1>2. /\ readUInt16BE(b, 1) \in Nat /\ readUInt16BE(b, 1) < Radix * Radix
      /\ readUInt16BE(b, 3) \in Nat /\ readUInt16BE(b, 3) < Radix * Radix
  BY <1>1, ReadIsShort
<1>3. Radix * Radix \in Nat
  BY RadixAssumption
<1> HIDE DEF HeaderLen
<1>4. HeaderLen(b) = readUInt16BE(b, 1)
  BY DEF HeaderLen
<1>5. TotalLen(b) = HEADER_SIZE + HeaderLen(b) + readUInt16BE(b, 3)
  BY DEF TotalLen
<1> QED BY <1>2, <1>3, <1>4, <1>5 DEF HEADER_SIZE

\* A part of a buffer
LEMMA SliceFacts ==
    ASSUME NEW b \in Bytes, NEW m \in 0..Len(b), NEW n \in m..Len(b)
    PROVE  /\ SubSeq(b, m + 1, n) \in Bytes
           /\ Len(SubSeq(b, m + 1, n)) = n - m
           /\ \A i \in 1..(n - m) : SubSeq(b, m + 1, n)[i] = b[m + i]
<1>1. Len(b) \in Nat /\ \A i \in 1..Len(b) : b[i] \in Byte
  BY LenProperties, ElementOfSeq DEF Bytes
<1>2. m + 1 \in Int /\ n \in Int /\ \A i \in (m + 1)..n : b[i] \in Byte
  BY <1>1
<1> DEFINE c == SubSeq(b, m + 1, n)
<1>3. /\ c \in Seq(Byte) /\ Len(c) = IF m + 1 <= n THEN n - (m + 1) + 1 ELSE 0
      /\ \A i \in 1..(n - (m + 1) + 1) : c[i] = b[(m + 1) + i - 1]
  BY <1>2, SubSeqProperties
<1> HIDE DEF c
<1>4. Len(c) = n - m
  BY <1>1, <1>3
<1>5. ASSUME NEW i \in 1..(n - m) PROVE c[i] = b[m + i]
  <2>1. i \in 1..(n - (m + 1) + 1) /\ (m + 1) + i - 1 = m + i
    BY <1>1
  <2> QED BY <1>3, <2>1
<1> QED BY <1>3, <1>4, <1>5 DEF c, Bytes

LEMMA RestFacts ==
    ASSUME NEW b \in Bytes, NEW k \in 0..Len(b)
    PROVE  /\ Rest(b, k) \in Bytes
           /\ Len(Rest(b, k)) = Len(b) - k
           /\ \A i \in 1..(Len(b) - k) : Rest(b, k)[i] = b[k + i]
<1>1. Len(b) \in k..Len(b)
  BY LenProperties DEF Bytes
<1> QED BY <1>1, SliceFacts DEF Rest

LEMMA RestOfRest ==
    ASSUME NEW b \in Bytes, NEW k \in 0..Len(b), NEW j \in 0..(Len(b) - k)
    PROVE  Rest(Rest(b, k), j) = Rest(b, k + j)
<1>0. Len(b) \in Nat /\ k + j \in 0..Len(b)
  BY LenProperties DEF Bytes
<1> DEFINE c == Rest(b, k)
           d == Rest(c, j)
           e == Rest(b, k + j)
<1>1. /\ c \in Bytes /\ Len(c) = Len(b) - k
      /\ \A i \in 1..(Len(b) - k) : c[i] = b[k + i]
  BY RestFacts
<1>2. /\ e \in Bytes /\ Len(e) = Len(b) - (k + j)
      /\ \A i \in 1..(Len(b) - (k + j)) : e[i] = b[(k + j) + i]
  BY <1>0, RestFacts
<1> HIDE DEF c, e
<1>3. /\ d \in Bytes /\ Len(d) = Len(c) - j
      /\ \A i \in 1..(Len(c) - j) : d[i] = c[j + i]
  BY <1>1, RestFacts
<1> HIDE DEF d
<1>4. Len(d) = Len(e)
  BY <1>0, <1>1, <1>2, <1>3
<1>5. ASSUME NEW i \in 1..Len(d) PROVE d[i] = e[i]
  <2>1. i \in 1..(Len(c) - j) /\ j + i \in 1..(Len(b) - k) /\ i \in 1..(Len(b) - (k + j))
    BY <1>0, <1>1, <1>3
  <2>2. k + (j + i) = (k + j) + i
    BY <1>0
  <2> QED BY <1>1, <1>2, <1>3, <2>1, <2>2
<1>6. d = e
  BY <1>2, <1>3, <1>4, <1>5, SeqEqual DEF Bytes
<1> QED BY <1>6 DEF c, d, e

\* The frame in front of a buffer
LEMMA FirstFrameFacts ==
    ASSUME NEW b \in Bytes, StartsWithFrame(b)
    PROVE  /\ FirstFrame(b) \in Frame
           /\ TotalLen(b) \in 1..Len(b)
<1>1. Len(b) \in Nat /\ Len(b) >= HEADER_SIZE /\ Len(b) >= TotalLen(b)
  BY LenProperties DEF Bytes, StartsWithFrame
<1>2. /\ HeaderLen(b) \in Nat /\ HeaderLen(b) < Radix * Radix
      /\ TotalLen(b) \in Nat /\ TotalLen(b) >= HEADER_SIZE + HeaderLen(b)
      /\ TotalLen(b) < HEADER_SIZE + HeaderLen(b) + Radix * Radix
  BY <1>1, LengthFacts
<1>3. Radix * Radix \in Nat
  BY RadixAssumption
<1>4. TotalLen(b) \in 1..Len(b)
  BY <1>1, <1>2 DEF HEADER_SIZE
<1>5. b[1] \in Byte
  BY <1>1, ElementOfSeq DEF HEADER_SIZE, Bytes
<1> DEFINE h == HeaderLen(b)
           t == TotalLen(b)
           header == SubSeq(b, HEADER_SIZE + 1, HEADER_SIZE + h)
           payload == SubSeq(b, HEADER_SIZE + h + 1, t)
<1>6. FirstFrame(b) = [type |-> b[1], header |-> header, payload |-> payload]
  BY DEF FirstFrame
<1> HIDE DEF h, t
<1>8. /\ h \in Nat /\ h < Radix * Radix /\ t \in Nat
      /\ t >= HEADER_SIZE + h /\ t < HEADER_SIZE + h + Radix * Radix /\ t <= Len(b)
  BY <1>1, <1>2 DEF h, t
<1>9. header \in Bytes /\ Len(header) = h
  <2> DEFINE m == HEADER_SIZE
             n == HEADER_SIZE + h
  <2>1. m \in 0..Len(b) /\ n \in m..Len(b) /\ n - m = h
    BY <1>1, <1>8 DEF HEADER_SIZE
  <2> HIDE DEF m, n
  <2>2. SubSeq(b, m + 1, n) \in Bytes /\ Len(SubSeq(b, m + 1, n)) = n - m
    BY <2>1, SliceFacts
  <2> QED BY <2>1, <2>2 DEF m, n
<1>10. payload \in Bytes /\ Len(payload) = t - (HEADER_SIZE + h)
  <2>1. HEADER_SIZE + h \in 0..Len(b) /\ t \in (HEADER_SIZE + h)..Len(b)
    BY <1>1, <1>8 DEF HEADER_SIZE
  <2> QED BY <2>1, SliceFacts
<1> HIDE DEF header, payload
<1>11. header \in Short /\ payload \in Short
  BY <1>3, <1>8, <1>9, <1>10 DEF Short, Bytes, HEADER_SIZE
<1> QED BY <1>4, <1>5, <1>6, <1>11 DEF Frame

-----------------------------------------------------------------------------
(* The equation of the parser: it takes the first frame of its buffer and  *)
(* goes on with the rest                                                   *)

Result == [frames : Seq(Frame), buffer : Bytes]

\* The first frame of a buffer before what the rest gives
Prepend(buffer, next) ==
    IF FirstFrame(buffer).header \in Json
      THEN [next EXCEPT !.frames = << FirstFrame(buffer) >> \o @]
      ELSE next

\* What the parser finds from offset k, when split is what it finds further on
At(buffer, split, k) ==
    IF StartsWithFrame(Rest(buffer, k))
      THEN Prepend(Rest(buffer, k), split[k + TotalLen(Rest(buffer, k))])
      ELSE [frames |-> << >>, buffer |-> Rest(buffer, k)]

Solves(buffer, split) == \A k \in 0..Len(buffer) : split[k] = At(buffer, split, k)

LEMMA PrependType ==
    ASSUME NEW b \in Bytes, StartsWithFrame(b), NEW next \in Result
    PROVE  Prepend(b, next) \in Result
<1> DEFINE f == FirstFrame(b)
<1>1. f \in Frame
  BY FirstFrameFacts
<1> HIDE DEF f
<1>2. << f >> \o next.frames \in Seq(Frame)
  BY <1>1 DEF Result
<1>3. [next EXCEPT !.frames = << f >> \o @] \in Result
  BY <1>2 DEF Result
<1> QED BY <1>3 DEF Prepend, f

\* Solved from Len(b) - n on
SolvesFrom(b, n, split) ==
    /\ split \in [(Len(b) - n)..Len(b) -> Result]
    /\ \A k \in (Len(b) - n)..Len(b) : split[k] = At(b, split, k)

LEMMA AtFacts ==
    ASSUME NEW b \in Bytes, NEW k \in 0..Len(b)
    PROVE  /\ StartsWithFrame(Rest(b, k)) => k + TotalLen(Rest(b, k)) \in (k + 1)..Len(b)
           /\ \A split : (\A i \in (k + 1)..Len(b) : split[i] \in Result)
                             => At(b, split, k) \in Result
           /\ \A split, other : (\A i \in (k + 1)..Len(b) : split[i] = other[i])
                             => At(b, split, k) = At(b, other, k)
<1> DEFINE rest == Rest(b, k)
<1>1. rest \in Bytes /\ Len(rest) = Len(b) - k /\ Len(b) \in Nat
  BY RestFacts, LenProperties DEF Bytes
<1>2. StartsWithFrame(rest) => k + TotalLen(rest) \in (k + 1)..Len(b)
  <2>1. StartsWithFrame(rest) => TotalLen(rest) \in 1..Len(rest)
    BY <1>1, FirstFrameFacts
  <2> HIDE DEF rest
  <2> QED BY <1>1, <2>1
<1>3. ASSUME NEW split, \A i \in (k + 1)..Len(b) : split[i] \in Result
      PROVE  At(b, split, k) \in Result
  <2>1. CASE StartsWithFrame(rest)
    <3>1. split[k + TotalLen(rest)] \in Result
      BY <1>2, <1>3, <2>1
    <3>2. Prepend(rest, split[k + TotalLen(rest)]) \in Result
      BY <1>1, <2>1, <3>1, PrependType
    <3> QED BY <2>1, <3>2 DEF At
  <2>2. CASE ~StartsWithFrame(rest)
    <3>1. At(b, split, k) = [frames |-> << >>, buffer |-> rest]
      BY <2>2 DEF At
    <3>2. << >> \in Seq(Frame)
      BY EmptySeq
    <3> HIDE DEF rest
    <3> QED BY <1>1, <3>1, <3>2 DEF Result
  <2> QED BY <2>1, <2>2
<1>4. ASSUME NEW split, NEW other, \A i \in (k + 1)..Len(b) : split[i] = other[i]
      PROVE  At(b, split, k) = At(b, other, k)
  BY <1>2, <1>4 DEF At
<1> QED BY <1>2, <1>3, <1>4

LEMMA SolvesFromStep ==
    ASSUME NEW b \in Bytes, NEW n \in Nat, n + 1 <= Len(b),
           NEW f, SolvesFrom(b, n, f)
    PROVE  \E g : SolvesFrom(b, n + 1, g)
<1>0. Len(b) \in Nat
  BY LenProperties DEF Bytes
<1> DEFINE N == Len(b)
           m == N - (n + 1)
           v == At(b, f, m)
           g == [k \in m..N |-> IF k = m THEN v ELSE f[k]]
<1>1. /\ m \in 0..N /\ m + 1 = N - n /\ m \in m..N /\ N \in Nat
      /\ \A k \in (m + 1)..N : k \in m..N /\ k # m
      /\ \A k \in m..N : k # m => k \in (m + 1)..N
  BY <1>0
<1> HIDE DEF m
<1>2. \A k \in (m + 1)..N : f[k] \in Result /\ f[k] = At(b, f, k)
  BY <1>1 DEF SolvesFrom
<1>3. v \in Result
  BY <1>1, <1>2, AtFacts
<1> HIDE DEF v
<1>4. g[m] = v /\ \A k \in (m + 1)..N : g[k] = f[k]
  BY <1>1
<1>5. g \in [m..N -> Result]
  <2>1. \A k \in m..N : (IF k = m THEN v ELSE f[k]) \in Result
    BY <1>1, <1>2, <1>3
  <2> QED BY <2>1
<1> HIDE DEF g
<1>6. ASSUME NEW k \in m..N PROVE g[k] = At(b, g, k)
  <2>1. k \in 0..N /\ \A i \in (k + 1)..N : i \in (m + 1)..N
    BY <1>1
  <2>2. At(b, g, k) = At(b, f, k)
    BY <1>4, <2>1, AtFacts
  <2>3. CASE k = m
    BY <1>4, <2>2, <2>3 DEF v
  <2>4. CASE k # m
    BY <1>1, <1>2, <1>4, <2>2, <2>4
  <2> QED BY <2>3, <2>4
<1>7. SolvesFrom(b, n + 1, g)
  BY <1>5, <1>6 DEF SolvesFrom, m
<1> QED BY <1>7

LEMMA SolutionExists ==
    ASSUME NEW b \in Bytes
    PROVE  \E f \in [0..Len(b) -> Result] : Solves(b, f)
<1> DEFINE T == {n \in Nat : n <= Len(b) => \E f : SolvesFrom(b, n, f)}
<1>0. Len(b) \in Nat /\ Len(b) <= Len(b) /\ Len(b) - Len(b) = 0 /\ Len(b) - 0 = Len(b)
  BY LenProperties DEF Bytes
<1>1. 0 \in T
  <2> DEFINE N == Len(b)
             v == At(b, << >>, N)
             f == [k \in N..N |-> v]
  <2>1. N \in 0..N /\ N \in N..N /\ (N + 1)..N = {} /\ \A k \in N..N : k = N
    BY <1>0
  <2> HIDE DEF N
  <2>2. v \in Result /\ \A split : At(b, split, N) = v
    BY <2>1, AtFacts DEF N
  <2> HIDE DEF v
  <2>3. f \in [N..N -> Result] /\ f[N] = v
    BY <2>1, <2>2
  <2> HIDE DEF f
  <2>4. SolvesFrom(b, 0, f)
    BY <1>0, <2>1, <2>2, <2>3 DEF SolvesFrom, N
  <2> QED BY <2>4
<1>2. ASSUME NEW n \in T PROVE n + 1 \in T
  <2>1. n \in Nat /\ (n + 1 <= Len(b) => n <= Len(b))
    BY <1>0
  <2>2. n + 1 <= Len(b) => \E f : SolvesFrom(b, n + 1, f)
    BY <2>1, SolvesFromStep
  <2> QED BY <2>1, <2>2
<1>3. T = Nat
  <2> HIDE DEF T
  <2>1. T \in SUBSET Nat
    BY DEF T
  <2> QED BY <1>1, <1>2, <2>1, NatInd
<1>4. PICK f : SolvesFrom(b, Len(b), f)
  BY <1>0, <1>3
<1>5. f \in [0..Len(b) -> Result] /\ Solves(b, f)
  BY <1>0, <1>4 DEF SolvesFrom, Solves
<1> QED BY <1>5

\* What the parser finds in the rest of a buffer does not depend on what it has left
\* behind; with k = 0 it says that there is one solution
LEMMA SolutionOfRest ==
    ASSUME NEW b \in Bytes, NEW f, Solves(b, f),
           NEW k \in 0..Len(b), NEW h, Solves(Rest(b, k), h)
    PROVE  \A j \in 0..(Len(b) - k) : h[j] = f[k + j]
<1> DEFINE c == Rest(b, k)
           M == Len(b) - k
<1>0. Len(b) \in Nat /\ M \in Nat /\ c \in Bytes /\ Len(c) = M
  BY RestFacts, LenProperties DEF Bytes
<1> DEFINE Bad == {n \in Nat : n <= M /\ h[M - n] # f[k + (M - n)]}
<1>1. Bad = {}
  <2> SUFFICES ASSUME Bad # {} PROVE FALSE
    OBVIOUS
  <2>1. PICK n \in Bad : \A m \in Bad : n <= m
    BY LeastNat
  <2> DEFINE j == M - n
  <2>2. n \in Nat /\ n <= M /\ h[j] # f[k + j]
    BY <2>1
  <2>3. j \in 0..M /\ k + j \in 0..Len(b) /\ j \in 0..Len(c)
    BY <1>0, <2>2
  <2>4. ASSUME NEW i \in (j + 1)..M PROVE h[i] = f[k + i]
    <3>1. M - i \in Nat /\ M - i <= M /\ M - (M - i) = i /\ ~(n <= M - i)
      BY <1>0, <2>2
    <3>2. M - i \notin Bad
      BY <2>1, <3>1
    <3> QED BY <3>1, <3>2
  <2> HIDE DEF Bad, j, M, c
  <2>5. Rest(c, j) = Rest(b, k + j)
    BY <2>3, RestOfRest DEF c, M
  <2> DEFINE rest == Rest(c, j)
             t == TotalLen(rest)
  <2>6. h[j] = IF StartsWithFrame(rest) THEN Prepend(rest, h[j + t])
                  ELSE [frames |-> << >>, buffer |-> rest]
    BY <2>3 DEF Solves, At, c
  <2>7. f[k + j] = IF StartsWithFrame(rest) THEN Prepend(rest, f[(k + j) + t])
                  ELSE [frames |-> << >>, buffer |-> rest]
    BY <2>3, <2>5 DEF Solves, At
  <2>8. StartsWithFrame(rest) => j + t \in (j + 1)..M
    BY <1>0, <2>3, AtFacts
  <2> HIDE DEF t, rest
  <2>9. StartsWithFrame(rest) => h[j + t] = f[(k + j) + t]
    <3> SUFFICES ASSUME StartsWithFrame(rest) PROVE h[j + t] = f[(k + j) + t]
      OBVIOUS
    <3>1. j + t \in (j + 1)..M /\ j \in Int /\ k \in Int /\ M \in Int
      BY <1>0, <2>3, <2>8
    <3>2. h[j + t] = f[k + (j + t)]
      BY <2>4, <3>1
    <3>3. k + (j + t) = (k + j) + t
      <4>1. t \in Int
        <5>1. StartsWithFrame(rest) => t \in Nat
          BY <1>0, <2>3, RestFacts, FirstFrameFacts DEF t, rest
        <5> QED BY <5>1
      <4> QED BY <3>1, <4>1
    <3> QED BY <3>2, <3>3
  <2> QED BY <2>2, <2>6, <2>7, <2>9
<1>2. ASSUME NEW j \in 0..M PROVE h[j] = f[k + j]
  <2>1. M - j \in Nat /\ M - j <= M /\ M - (M - j) = j
    BY <1>0
  <2>2. M - j \notin Bad
    BY <1>1
  <2> QED BY <2>1, <2>2
<1> QED BY <1>2

LEMMA WholeIsRest == ASSUME NEW b \in Bytes PROVE Rest(b, 0) = b
BY SubSeqFull DEF Rest, Bytes

LEMMA ParseSolves ==
    ASSUME NEW b \in Bytes
    PROVE  \E f \in [0..Len(b) -> Result] : Solves(b, f) /\ parse(b) = f[0]
<1> DEFINE Step(g) == [k \in 0..Len(b) |-> At(b, g, k)]
           split == CHOOSE g : g = Step(g)
<1>0. Len(b) \in Nat
  BY LenProperties DEF Bytes
<1>1. PICK f \in [0..Len(b) -> Result] : Solves(b, f)
  BY SolutionExists
<1>2. f = Step(f)
  BY <1>1 DEF Solves
<1>3. split = Step(split)
  <2> HIDE DEF Step
  <2> QED BY <1>2
<1>4. parse(b) = split[0]
  BY DEF parse, At, Prepend, Rest
<1> HIDE DEF split
<1>5. Solves(b, split)
  BY <1>3 DEF Solves
<1>6. split[0] = f[0]
  <2>1. Solves(Rest(b, 0), split) /\ 0 \in 0..Len(b) /\ 0 \in 0..(Len(b) - 0)
    BY <1>0, <1>5, WholeIsRest
  <2>2. split[0] = f[0 + 0]
    BY <1>1, <2>1, SolutionOfRest
  <2> QED BY <2>2
<1> QED BY <1>1, <1>4, <1>6

LEMMA ParseType == ASSUME NEW b \in Bytes PROVE parse(b) \in Result
<1>1. 0 \in 0..Len(b)
  BY LenProperties DEF Bytes
<1> QED BY <1>1, ParseSolves

\* The parser takes the first frame and goes on with the rest, or keeps what it has
LEMMA ParseEquation ==
    ASSUME NEW b \in Bytes
    PROVE  parse(b) =
               IF StartsWithFrame(b) THEN Prepend(b, parse(Rest(b, TotalLen(b))))
                  ELSE [frames |-> << >>, buffer |-> b]
<1>0. Len(b) \in Nat /\ 0 \in 0..Len(b)
  BY LenProperties DEF Bytes
<1>1. PICK f \in [0..Len(b) -> Result] : Solves(b, f) /\ parse(b) = f[0]
  BY ParseSolves
<1>2. parse(b) = IF StartsWithFrame(b) THEN Prepend(b, f[0 + TotalLen(b)])
                    ELSE [frames |-> << >>, buffer |-> b]
  BY <1>0, <1>1, WholeIsRest DEF Solves, At
<1>3. CASE StartsWithFrame(b)
  <2> DEFINE t == TotalLen(b)
  <2>1. t \in 0..Len(b) /\ 0 + t = t /\ t + 0 = t /\ 0 \in 0..(Len(b) - t)
    BY <1>0, <1>3, FirstFrameFacts
  <2>2. Rest(b, t) \in Bytes
    BY <2>1, RestFacts
  <2>3. PICK h \in [0..Len(Rest(b, t)) -> Result] :
            Solves(Rest(b, t), h) /\ parse(Rest(b, t)) = h[0]
    BY <2>2, ParseSolves
  <2> HIDE DEF t
  <2>4. h[0] = f[t + 0]
    BY <1>1, <2>1, <2>3, SolutionOfRest
  <2> QED BY <1>2, <1>3, <2>1, <2>3, <2>4 DEF t
<1>4. CASE ~StartsWithFrame(b)
  BY <1>2, <1>4
<1> QED BY <1>3, <1>4

-----------------------------------------------------------------------------
(* Chunks *)

LEMMA ConcatFacts ==
    ASSUME NEW a \in Bytes, NEW b \in Bytes
    PROVE  /\ a \o b \in Bytes /\ Len(a \o b) = Len(a) + Len(b)
           /\ Len(a) \in Nat /\ Len(b) \in Nat
           /\ \A i \in 1..Len(a) : (a \o b)[i] = a[i]
           /\ \A i \in 1..Len(b) : (a \o b)[Len(a) + i] = b[i]
BY ConcatProperties, LenProperties DEF Bytes

\* The frame in front of a buffer stays the same when more comes
LEMMA FrameStays ==
    ASSUME NEW a \in Bytes, NEW b \in Bytes, StartsWithFrame(a)
    PROVE  /\ StartsWithFrame(a \o b)
           /\ TotalLen(a \o b) = TotalLen(a)
           /\ FirstFrame(a \o b) = FirstFrame(a)
           /\ Rest(a \o b, TotalLen(a)) = Rest(a, TotalLen(a)) \o b
<1> DEFINE c == a \o b
           h == HeaderLen(a)
           t == TotalLen(a)
<1>1. /\ c \in Bytes /\ Len(c) = Len(a) + Len(b)
      /\ Len(a) \in Nat /\ Len(b) \in Nat
      /\ \A i \in 1..Len(a) : c[i] = a[i]
      /\ \A i \in 1..Len(b) : c[Len(a) + i] = b[i]
  BY ConcatFacts
<1> HIDE DEF c
<1>2. Len(a) >= HEADER_SIZE /\ Len(a) >= t
  BY DEF StartsWithFrame
<1>3. /\ c[1] = a[1] /\ c[1 + 1] = a[1 + 1] /\ c[1 + 2] = a[1 + 2]
      /\ c[3 + 1] = a[3 + 1] /\ c[3 + 2] = a[3 + 2]
  BY <1>1, <1>2 DEF HEADER_SIZE
<1>4. HeaderLen(c) = h /\ TotalLen(c) = t
  BY <1>3 DEF HeaderLen, TotalLen, readUInt16BE
<1>5. /\ h \in Nat /\ t \in 1..Len(a) /\ t >= HEADER_SIZE + h
  BY <1>2, LengthFacts, FirstFrameFacts
<1> HIDE DEF h, t
<1>6. StartsWithFrame(c)
  <2>1. Len(c) >= HEADER_SIZE /\ Len(c) >= t
    BY <1>1, <1>2, <1>5 DEF HEADER_SIZE
  <2> QED BY <1>4, <2>1 DEF StartsWithFrame
<1>7. ASSUME NEW m \in 0..Len(a), NEW n \in m..Len(a)
      PROVE  SubSeq(c, m + 1, n) = SubSeq(a, m + 1, n)
  <2> DEFINE x == SubSeq(c, m + 1, n)
             y == SubSeq(a, m + 1, n)
  <2>1. m \in 0..Len(c) /\ n \in m..Len(c)
    BY <1>1
  <2>2. /\ x \in Bytes /\ Len(x) = n - m
        /\ \A i \in 1..(n - m) : x[i] = c[m + i]
    BY <1>1, <2>1, SliceFacts
  <2>3. /\ y \in Bytes /\ Len(y) = n - m
        /\ \A i \in 1..(n - m) : y[i] = a[m + i]
    BY SliceFacts
  <2>4. \A i \in 1..(n - m) : m + i \in 1..Len(a)
    BY <1>1
  <2> HIDE DEF x, y
  <2>5. \A i \in 1..Len(x) : x[i] = y[i]
    BY <1>1, <2>2, <2>3, <2>4
  <2>6. x = y
    BY <2>2, <2>3, <2>5, SeqEqual DEF Bytes
  <2> QED BY <2>6 DEF x, y
<1>8. FirstFrame(c) = FirstFrame(a)
  <2>1. SubSeq(c, HEADER_SIZE + 1, HEADER_SIZE + h) = SubSeq(a, HEADER_SIZE + 1, HEADER_SIZE + h)
    <3> DEFINE m == HEADER_SIZE
               n == HEADER_SIZE + h
    <3>1. m \in 0..Len(a) /\ n \in m..Len(a)
      BY <1>1, <1>2, <1>5 DEF HEADER_SIZE
    <3> HIDE DEF m, n
    <3>2. SubSeq(c, m + 1, n) = SubSeq(a, m + 1, n)
      BY <1>7, <3>1
    <3> QED BY <3>2 DEF m, n
  <2>2. SubSeq(c, HEADER_SIZE + h + 1, t) = SubSeq(a, HEADER_SIZE + h + 1, t)
    <3> DEFINE m == HEADER_SIZE + h
    <3>1. m \in 0..Len(a) /\ t \in m..Len(a)
      BY <1>1, <1>2, <1>5 DEF HEADER_SIZE
    <3> HIDE DEF m
    <3>2. SubSeq(c, m + 1, t) = SubSeq(a, m + 1, t)
      BY <1>7, <3>1
    <3> QED BY <3>2 DEF m
  <2> QED BY <1>3, <1>4, <2>1, <2>2 DEF FirstFrame, h, t
<1>9. Rest(c, t) = Rest(a, t) \o b
  <2> DEFINE x == Rest(c, t)
             y == Rest(a, t)
             z == y \o b
  <2>1. t \in 0..Len(a) /\ t \in 0..Len(c)
    BY <1>1, <1>5
  <2>2. /\ x \in Bytes /\ Len(x) = Len(c) - t
        /\ \A i \in 1..(Len(c) - t) : x[i] = c[t + i]
    BY <1>1, <2>1, RestFacts
  <2>3. /\ y \in Bytes /\ Len(y) = Len(a) - t
        /\ \A i \in 1..(Len(a) - t) : y[i] = a[t + i]
    BY <2>1, RestFacts
  <2> HIDE DEF x, y
  <2>4. /\ z \in Bytes /\ Len(z) = Len(y) + Len(b)
        /\ \A i \in 1..Len(y) : z[i] = y[i]
        /\ \A i \in 1..Len(b) : z[Len(y) + i] = b[i]
    BY <2>3, ConcatFacts
  <2> HIDE DEF z
  <2>5. Len(x) = Len(z)
    BY <1>1, <2>1, <2>2, <2>3, <2>4
  <2>6. ASSUME NEW i \in 1..Len(x) PROVE x[i] = z[i]
    <3>1. i \in 1..(Len(c) - t) /\ x[i] = c[t + i]
      BY <2>2
    <3>2. CASE i <= Len(a) - t
      <4>1. i \in 1..(Len(a) - t) /\ t + i \in 1..Len(a) /\ i \in 1..Len(y)
        BY <1>1, <2>1, <2>3, <3>2
      <4> QED BY <1>1, <2>3, <2>4, <3>1, <4>1
    <3>3. CASE ~(i <= Len(a) - t)
      <4> DEFINE j == i - (Len(a) - t)
      <4>1. j \in 1..Len(b) /\ t + i = Len(a) + j /\ i = Len(y) + j
        BY <1>1, <2>1, <2>3, <3>1, <3>3
      <4> HIDE DEF j
      <4>2. x[i] = c[Len(a) + j] /\ z[i] = z[Len(y) + j]
        BY <3>1, <4>1
      <4> QED BY <1>1, <2>4, <4>1, <4>2
    <3> QED BY <3>2, <3>3
  <2>7. x = z
    BY <2>2, <2>4, <2>5, <2>6, SeqEqual DEF Bytes
  <2> QED BY <2>7 DEF x, y, z
<1> QED BY <1>4, <1>6, <1>8, <1>9 DEF c, t

\* However a stream of bytes is cut, and whatever the bytes are, the parser finds
\* in the second part, behind what it kept of the first, what it would find in
\* the whole
ParsedInParts(a, b) ==
    /\ parse(a \o b).frames = parse(a).frames \o parse(parse(a).buffer \o b).frames
    /\ parse(a \o b).buffer = parse(parse(a).buffer \o b).buffer

LEMMA PartsStep ==
    ASSUME NEW a \in Bytes, NEW b \in Bytes, StartsWithFrame(a),
           ParsedInParts(Rest(a, TotalLen(a)), b)
    PROVE  ParsedInParts(a, b)
<1> DEFINE rest == Rest(a, TotalLen(a))
           f == FirstFrame(a)
           p == parse(rest)
           q == parse(rest \o b)
           r == parse(p.buffer \o b)
<1>1. f \in Frame /\ TotalLen(a) \in 0..Len(a)
  BY FirstFrameFacts
<1>2. rest \in Bytes /\ rest \o b \in Bytes /\ a \o b \in Bytes
  BY <1>1, RestFacts, ConcatFacts
<1>3. p \in Result /\ q \in Result
  BY <1>2, ParseType
<1>4. r \in Result
  BY <1>3, ConcatFacts, ParseType DEF Result
<1>5. parse(a) = Prepend(a, p)
  BY ParseEquation
<1>6. parse(a \o b) = Prepend(a, q)
  <2>1. StartsWithFrame(a \o b) /\ FirstFrame(a \o b) = f
        /\ Rest(a \o b, TotalLen(a \o b)) = rest \o b
    BY FrameStays
  <2>2. parse(a \o b) = Prepend(a \o b, q)
    BY <1>2, <2>1, ParseEquation
  <2> QED BY <2>1, <2>2 DEF Prepend
<1>7. q.frames = p.frames \o r.frames /\ q.buffer = r.buffer
  BY DEF ParsedInParts
<1> HIDE DEF f, p, q
<1>8. /\ p.frames \in Seq(Frame) /\ r.frames \in Seq(Frame)
  BY <1>3, <1>4 DEF Result
<1>9. CASE f.header \in Json
  <2>1. /\ parse(a).frames = << f >> \o p.frames /\ parse(a).buffer = p.buffer
        /\ parse(a \o b).frames = << f >> \o q.frames /\ parse(a \o b).buffer = q.buffer
    BY <1>3, <1>5, <1>6, <1>9 DEF Prepend, Result, f
  <2>2. (<< f >> \o p.frames) \o r.frames = << f >> \o (p.frames \o r.frames)
    <3>1. Associative(Frame) /\ << f >> \in Seq(Frame)
      BY <1>1, ConcatIsAssociative
    <3> HIDE DEF r
    <3> QED BY <1>8, <3>1 DEF Associative
  <2> QED BY <1>7, <2>1, <2>2 DEF ParsedInParts
<1>10. CASE f.header \notin Json
  BY <1>5, <1>6, <1>7, <1>10 DEF Prepend, ParsedInParts, f
<1> QED BY <1>9, <1>10

\* However a stream of bytes is cut into chunks, and whatever the bytes are, the
\* parser hands on the frames it would find in the whole: what it finds in a chunk
\* behind the bytes it kept continues what it found before, and no byte is lost or
\* read twice (createFrameParser)
THEOREM ChunksDoNotMatter == \A a, b \in Bytes : ParsedInParts(a, b)
<1> SUFFICES ASSUME NEW b \in Bytes PROVE \A a \in Bytes : ParsedInParts(a, b)
  OBVIOUS
<1> DEFINE Bad == {n \in Nat : \E a \in Bytes : Len(a) = n /\ ~ParsedInParts(a, b)}
<1>1. Bad = {}
  <2> SUFFICES ASSUME Bad # {} PROVE FALSE
    OBVIOUS
  <2>1. PICK n \in Bad : \A m \in Bad : n <= m
    BY LeastNat
  <2>2. PICK a \in Bytes : Len(a) = n /\ ~ParsedInParts(a, b)
    BY <2>1
  <2>3. CASE StartsWithFrame(a)
    <3> DEFINE rest == Rest(a, TotalLen(a))
    <3>1. TotalLen(a) \in 1..Len(a) /\ Len(a) \in Nat
      BY <2>3, FirstFrameFacts, LenProperties DEF Bytes
    <3>2. rest \in Bytes /\ Len(rest) = Len(a) - TotalLen(a)
      BY <3>1, RestFacts
    <3> HIDE DEF rest
    <3>3. Len(rest) \in Nat /\ ~(n <= Len(rest))
      BY <2>2, <3>1, <3>2
    <3>4. ParsedInParts(rest, b)
      BY <2>1, <3>2, <3>3
    <3> QED BY <2>2, <2>3, <3>4, PartsStep DEF rest
  <2>4. CASE ~StartsWithFrame(a)
    <3>1. parse(a).frames = << >> /\ parse(a).buffer = a
      BY <2>4, ParseEquation
    <3>2. parse(a \o b).frames \in Seq(Frame)
      BY ConcatFacts, ParseType DEF Result
    <3>3. << >> \o parse(a \o b).frames = parse(a \o b).frames
      BY <3>2, ConcatEmptySeq
    <3> QED BY <2>2, <3>1, <3>3 DEF ParsedInParts
  <2> QED BY <2>3, <2>4
<1> QED BY <1>1, LenProperties DEF Bytes

-----------------------------------------------------------------------------
(* Frames that were encoded *)

\* The bytes of the type and of the lengths, the header, the payload
LEMMA EncodeFacts ==
    ASSUME NEW f \in Frame
    PROVE  \E m \in Bytes :
               /\ Len(m) = HEADER_SIZE /\ m[1] = f.type
               /\ m[2] * Radix + m[3] = Len(f.header)
               /\ m[4] * Radix + m[5] = Len(f.payload)
               /\ f.header \in Bytes /\ f.payload \in Bytes
               /\ encodeFrame(f) = (m \o f.header) \o f.payload
<1>1. /\ f.type \in Byte /\ f.header \in Bytes /\ f.payload \in Bytes
      /\ Len(f.header) \in Nat /\ Len(f.header) < Radix * Radix
      /\ Len(f.payload) \in Nat /\ Len(f.payload) < Radix * Radix
  BY LenProperties DEF Frame, Short, Bytes
<1> DEFINE u == UInt16BE(Len(f.header))
           v == UInt16BE(Len(f.payload))
           t == << f.type >>
           m == (t \o u) \o v
<1>2. /\ u \in Bytes /\ Len(u) = 2 /\ u[1] * Radix + u[2] = Len(f.header)
      /\ v \in Bytes /\ Len(v) = 2 /\ v[1] * Radix + v[2] = Len(f.payload)
  BY <1>1, LengthsSurvive
<1>3. t \in Bytes /\ Len(t) = 1 /\ t[1] = f.type
  BY <1>1 DEF Bytes
<1>4. encodeFrame(f) = (m \o f.header) \o f.payload
  BY DEF encodeFrame
<1> HIDE DEF u, v, t
<1> DEFINE w == t \o u
<1>5. /\ w \in Bytes /\ Len(w) = 3
      /\ w[1] = t[1] /\ w[2] = u[1] /\ w[3] = u[2]
  <2>1. /\ w \in Bytes /\ Len(w) = Len(t) + Len(u)
        /\ \A i \in 1..Len(t) : w[i] = t[i]
        /\ \A i \in 1..Len(u) : w[Len(t) + i] = u[i]
    BY <1>2, <1>3, ConcatFacts
  <2> HIDE DEF w
  <2>2. 1 \in 1..Len(t) /\ 1 \in 1..Len(u) /\ 2 \in 1..Len(u)
    BY <1>2, <1>3
  <2> QED BY <1>2, <1>3, <2>1, <2>2
<1>6. /\ m \in Bytes /\ Len(m) = 5
      /\ m[1] = w[1] /\ m[2] = w[2] /\ m[3] = w[3] /\ m[4] = v[1] /\ m[5] = v[2]
  <2>1. m = w \o v
    OBVIOUS
  <2> HIDE DEF w, m
  <2>2. /\ m \in Bytes /\ Len(m) = Len(w) + Len(v)
        /\ \A i \in 1..Len(w) : m[i] = w[i]
        /\ \A i \in 1..Len(v) : m[Len(w) + i] = v[i]
    BY <1>2, <1>5, <2>1, ConcatFacts
  <2>3. /\ 1 \in 1..Len(w) /\ 2 \in 1..Len(w) /\ 3 \in 1..Len(w)
        /\ 1 \in 1..Len(v) /\ 2 \in 1..Len(v)
    BY <1>2, <1>5
  <2> QED BY <1>2, <1>5, <2>2, <2>3
<1> HIDE DEF m, w
<1> QED BY <1>1, <1>2, <1>3, <1>4, <1>5, <1>6 DEF HEADER_SIZE

\* The middle of three parts
LEMMA SliceOfConcat ==
    ASSUME NEW a \in Bytes, NEW b \in Bytes, NEW c \in Bytes,
           NEW d, d = (a \o b) \o c
    PROVE  SubSeq(d, Len(a) + 1, Len(a) + Len(b)) = b
<1> DEFINE ab == a \o b
           m == Len(a)
           n == Len(a) + Len(b)
<1>1. /\ ab \in Bytes /\ Len(ab) = n /\ m \in Nat /\ Len(b) \in Nat
      /\ \A i \in 1..Len(b) : ab[m + i] = b[i]
  BY ConcatFacts
<1> HIDE DEF ab
<1>2. /\ d \in Bytes /\ Len(d) = n + Len(c) /\ Len(c) \in Nat
      /\ \A i \in 1..n : d[i] = ab[i]
  BY <1>1, ConcatFacts DEF ab
<1> DEFINE x == SubSeq(d, m + 1, n)
<1>3. n \in Nat /\ n - m = Len(b) /\ m \in 0..Len(d) /\ n \in m..Len(d)
  BY <1>1, <1>2
<1>4. /\ x \in Bytes /\ Len(x) = n - m
      /\ \A i \in 1..(n - m) : x[i] = d[m + i]
  BY <1>2, <1>3, SliceFacts
<1> HIDE DEF x, m, n
<1>5. ASSUME NEW i \in 1..Len(b) PROVE x[i] = b[i]
  <2>1. m + i \in 1..n
    BY <1>1, <1>3
  <2> QED BY <1>1, <1>2, <1>3, <1>4, <2>1
<1>6. x = b
  BY <1>3, <1>4, <1>5, SeqEqual DEF Bytes
<1> QED BY <1>6 DEF x, m, n

\* A frame is read as it was written, and what follows it is left
LEMMA FrameSurvives ==
    ASSUME NEW f \in Frame
    PROVE  /\ encodeFrame(f) \in Bytes
           /\ StartsWithFrame(encodeFrame(f))
           /\ TotalLen(encodeFrame(f)) = Len(encodeFrame(f))
           /\ FirstFrame(encodeFrame(f)) = f
<1> DEFINE b == encodeFrame(f)
           h == f.header
           p == f.payload
<1>1. PICK m \in Bytes :
          /\ Len(m) = HEADER_SIZE /\ m[1] = f.type
          /\ m[2] * Radix + m[3] = Len(h)
          /\ m[4] * Radix + m[5] = Len(p)
          /\ h \in Bytes /\ p \in Bytes
          /\ b = (m \o h) \o p
  BY EncodeFacts
<1> HIDE DEF b, h, p
<1> DEFINE mh == m \o h
<1>2. /\ mh \in Bytes /\ Len(mh) = HEADER_SIZE + Len(h)
      /\ Len(h) \in Nat /\ Len(p) \in Nat
      /\ \A i \in 1..Len(m) : mh[i] = m[i]
  BY <1>1, ConcatFacts
<1>3. b = mh \o p
  BY <1>1
<1> HIDE DEF mh
<1>4. /\ b \in Bytes /\ Len(b) = Len(mh) + Len(p)
      /\ \A i \in 1..Len(mh) : b[i] = mh[i]
  <2>1. mh \in Bytes /\ p \in Bytes
    BY <1>1, <1>2
  <2>2. /\ mh \o p \in Bytes /\ Len(mh \o p) = Len(mh) + Len(p)
        /\ \A i \in 1..Len(mh) : (mh \o p)[i] = mh[i]
    BY <2>1, ConcatFacts
  <2> QED BY <1>3, <2>2
<1>5. b[1] = m[1] /\ b[2] = m[2] /\ b[3] = m[3] /\ b[4] = m[4] /\ b[5] = m[5]
  <2>1. \A i \in 1..5 : i \in 1..Len(m) /\ i \in 1..Len(mh)
    BY <1>1, <1>2 DEF HEADER_SIZE
  <2>2. \A i \in 1..5 : b[i] = m[i]
    BY <1>2, <1>4, <2>1
  <2> QED BY <2>2
<1>6. HeaderLen(b) = Len(h) /\ readUInt16BE(b, 3) = Len(p)
  <2>1. HeaderLen(b) = b[2] * Radix + b[3] /\ readUInt16BE(b, 3) = b[4] * Radix + b[5]
    BY DEF HeaderLen, readUInt16BE
  <2> QED BY <1>1, <1>5, <2>1
<1>7. TotalLen(b) = Len(b)
  <2>1. TotalLen(b) = HEADER_SIZE + Len(h) + Len(p)
    BY <1>6 DEF TotalLen
  <2> QED BY <1>2, <1>4, <2>1
<1>8. StartsWithFrame(b)
  BY <1>2, <1>4, <1>7 DEF StartsWithFrame, HEADER_SIZE
<1>9. SubSeq(b, HEADER_SIZE + 1, HEADER_SIZE + Len(h)) = h
  BY <1>1, SliceOfConcat
<1>10. SubSeq(b, HEADER_SIZE + Len(h) + 1, Len(b)) = p
  <2> DEFINE e == << >>
  <2>1. e \in Bytes /\ b \o e = b /\ mh \in Bytes /\ p \in Bytes
    BY <1>1, <1>2, <1>4, ConcatEmptySeq DEF Bytes
  <2>2. b = (mh \o p) \o e
    BY <1>3, <2>1
  <2> HIDE DEF e
  <2>3. SubSeq(b, Len(mh) + 1, Len(mh) + Len(p)) = p
    BY <2>1, <2>2, SliceOfConcat
  <2> QED BY <1>2, <1>4, <2>3
<1>11. FirstFrame(b) = [type |-> b[1], header |-> h, payload |-> p]
  BY <1>6, <1>7, <1>9, <1>10 DEF FirstFrame
<1>12. f = [type |-> f.type, header |-> h, payload |-> p]
  BY DEF Frame, h, p
<1> QED BY <1>1, <1>4, <1>5, <1>7, <1>8, <1>11, <1>12 DEF b

\* The frames the parser hands on: those with a header JSON.parse accepts
Kept(f) == IF f.header \in Json THEN << f >> ELSE << >>
WellFormed(frames) == FlattenSeq([i \in 1..Len(frames) |-> Kept(frames[i])])

LEMMA StreamFacts ==
    /\ \A fs \in Seq(Frame) : Stream(fs) \in Bytes
    /\ Stream(<< >>) = << >>
    /\ \A fs, gs \in Seq(Frame) : Stream(fs \o gs) = Stream(fs) \o Stream(gs)
    /\ \A f \in Frame : Stream(<< f >>) = encodeFrame(f)
<1> DEFINE G == [f \in Frame |-> encodeFrame(f)]
<1>1. G \in [Frame -> Seq(Byte)] /\ \A f \in Frame : G[f] = encodeFrame(f)
  BY FrameSurvives DEF Bytes
<1> HIDE DEF G
<1>2. \A fs \in Seq(Frame) : Stream(fs) = Gather(G, fs)
  <2> SUFFICES ASSUME NEW fs \in Seq(Frame) PROVE Stream(fs) = Gather(G, fs)
    OBVIOUS
  <2>1. \A i \in 1..Len(fs) : G[fs[i]] = encodeFrame(fs[i])
    BY <1>1, ElementOfSeq
  <2>2. [i \in 1..Len(fs) |-> encodeFrame(fs[i])] = [i \in 1..Len(fs) |-> G[fs[i]]]
    BY <2>1, Zenon
  <2> QED BY <2>2, Zenon DEF Stream, Gather
<1>3. << >> \in Seq(Frame)
  BY EmptySeq
<1>4. /\ \A fs, gs \in Seq(Frame) : fs \o gs \in Seq(Frame)
      /\ \A f \in Frame : << f >> \in Seq(Frame)
  BY ConcatProperties
<1>5. /\ \A s \in Seq(Frame) : Gather(G, s) \in Seq(Byte)
      /\ Gather(G, << >>) = << >>
      /\ \A s, t \in Seq(Frame) : Gather(G, s \o t) = Gather(G, s) \o Gather(G, t)
      /\ \A e \in Frame : Gather(G, <<e>>) = G[e]
  BY <1>1, GatherFacts
<1> QED BY <1>1, <1>2, <1>3, <1>4, <1>5, Zenon DEF Bytes

LEMMA WellFormedFacts ==
    /\ \A fs \in Seq(Frame) : WellFormed(fs) \in Seq(Frame)
    /\ WellFormed(<< >>) = << >>
    /\ \A fs, gs \in Seq(Frame) : WellFormed(fs \o gs) = WellFormed(fs) \o WellFormed(gs)
    /\ \A f \in Frame : WellFormed(<< f >>) = Kept(f)
<1> DEFINE G == [f \in Frame |-> Kept(f)]
<1>1. G \in [Frame -> Seq(Frame)] /\ \A f \in Frame : G[f] = Kept(f)
  BY DEF Kept
<1> HIDE DEF G
<1>2. \A fs \in Seq(Frame) : WellFormed(fs) = Gather(G, fs)
  <2> SUFFICES ASSUME NEW fs \in Seq(Frame) PROVE WellFormed(fs) = Gather(G, fs)
    OBVIOUS
  <2>1. \A i \in 1..Len(fs) : G[fs[i]] = Kept(fs[i])
    BY <1>1, ElementOfSeq
  <2>2. [i \in 1..Len(fs) |-> Kept(fs[i])] = [i \in 1..Len(fs) |-> G[fs[i]]]
    BY <2>1, Zenon
  <2> QED BY <2>2, Zenon DEF WellFormed, Gather
<1>3. << >> \in Seq(Frame)
  BY EmptySeq
<1>4. /\ \A fs, gs \in Seq(Frame) : fs \o gs \in Seq(Frame)
      /\ \A f \in Frame : << f >> \in Seq(Frame)
  BY ConcatProperties
<1>5. /\ \A s \in Seq(Frame) : Gather(G, s) \in Seq(Frame)
      /\ Gather(G, << >>) = << >>
      /\ \A s, t \in Seq(Frame) : Gather(G, s \o t) = Gather(G, s) \o Gather(G, t)
      /\ \A e \in Frame : Gather(G, <<e>>) = G[e]
  BY <1>1, GatherFacts
<1> QED BY <1>1, <1>2, <1>3, <1>4, <1>5, Zenon

LEMMA OneFrameMore ==
    ASSUME NEW f \in Frame, NEW fs \in Seq(Frame)
    PROVE  /\ << f >> \o fs \in Seq(Frame)
           /\ Stream(<< f >> \o fs) = encodeFrame(f) \o Stream(fs)
           /\ WellFormed(<< f >> \o fs) = Kept(f) \o WellFormed(fs)
<1> DEFINE o == << f >>
<1>1. o \in Seq(Frame) /\ Stream(o) = encodeFrame(f) /\ WellFormed(o) = Kept(f)
  <2>1. o \in Seq(Frame)
    OBVIOUS
  <2> QED BY <2>1, StreamFacts, WellFormedFacts
<1> HIDE DEF o
<1>2. o \o fs \in Seq(Frame)
  BY <1>1, ConcatProperties
<1>3. Stream(o \o fs) = Stream(o) \o Stream(fs)
  BY <1>1, StreamFacts
<1>4. WellFormed(o \o fs) = WellFormed(o) \o WellFormed(fs)
  BY <1>1, WellFormedFacts
<1> QED BY <1>1, <1>2, <1>3, <1>4 DEF o

LEMMA FrameIsParsed ==
    ASSUME NEW f \in Frame, NEW x \in Bytes
    PROVE  /\ parse(encodeFrame(f) \o x).frames = Kept(f) \o parse(x).frames
           /\ parse(encodeFrame(f) \o x).buffer = parse(x).buffer
<1> DEFINE a == encodeFrame(f)
           p == parse(x)
<1>1. /\ a \in Bytes /\ StartsWithFrame(a) /\ TotalLen(a) = Len(a) /\ FirstFrame(a) = f
  BY FrameSurvives
<1> HIDE DEF a
<1>2. Rest(a, Len(a)) \o x = x
  <2>1. Len(a) \in 0..Len(a)
    BY <1>1, LenProperties DEF Bytes
  <2>2. Rest(a, Len(a)) \in Bytes /\ Len(Rest(a, Len(a))) = Len(a) - Len(a)
    BY <1>1, <2>1, RestFacts
  <2>3. Rest(a, Len(a)) = << >>
    BY <2>1, <2>2, EmptySeq DEF Bytes
  <2> QED BY <2>3, ConcatEmptySeq DEF Bytes
<1>3. /\ StartsWithFrame(a \o x) /\ FirstFrame(a \o x) = f
      /\ Rest(a \o x, TotalLen(a \o x)) = x
  BY <1>1, <1>2, FrameStays
<1>4. parse(a \o x) = Prepend(a \o x, p)
  <2>1. a \o x \in Bytes
    BY <1>1, ConcatFacts
  <2> QED BY <1>3, <2>1, ParseEquation
<1>5. p \in Result /\ p.frames \in Seq(Frame)
  BY ParseType DEF Result
<1> HIDE DEF p
<1>6. CASE f.header \in Json
  <2>1. parse(a \o x) = [p EXCEPT !.frames = << f >> \o p.frames]
    BY <1>3, <1>4, <1>6 DEF Prepend
  <2>2. parse(a \o x).frames = << f >> \o p.frames /\ parse(a \o x).buffer = p.buffer
    BY <1>5, <2>1 DEF Result
  <2> QED BY <1>6, <2>2 DEF Kept, a, p
<1>7. CASE f.header \notin Json
  <2>1. parse(a \o x) = p
    BY <1>3, <1>4, <1>7 DEF Prepend
  <2>2. << >> \o p.frames = p.frames
    BY <1>5, ConcatEmptySeq
  <2> QED BY <1>7, <2>1, <2>2 DEF Kept, a, p
<1> QED BY <1>6, <1>7

\* Frames, whatever follows them, are handed on in order, once each and as they were
\* encoded, but for those with a malformed header (encodeFrame, createFrameParser)
THEOREM FramesSurvive ==
    \A fs \in Seq(Frame) : \A x \in Bytes :
        /\ parse(Stream(fs) \o x).frames = WellFormed(fs) \o parse(x).frames
        /\ parse(Stream(fs) \o x).buffer = parse(x).buffer
<1> DEFINE Good(fs) ==
        \A x \in Bytes :
            /\ parse(Stream(fs) \o x).frames = WellFormed(fs) \o parse(x).frames
            /\ parse(Stream(fs) \o x).buffer = parse(x).buffer
           T == {fs \in Seq(Frame) : Good(fs)}
<1>1. << >> \in T
  <2>1. << >> \in Seq(Frame)
    BY EmptySeq
  <2>2. ASSUME NEW x \in Bytes
        PROVE  /\ parse(Stream(<< >>) \o x).frames = WellFormed(<< >>) \o parse(x).frames
               /\ parse(Stream(<< >>) \o x).buffer = parse(x).buffer
    <3>1. << >> \o x = x /\ parse(x).frames \in Seq(Frame)
      BY ParseType, ConcatEmptySeq DEF Result, Bytes
    <3>2. << >> \o parse(x).frames = parse(x).frames
      BY <3>1, ConcatEmptySeq
    <3> QED BY <3>1, <3>2, StreamFacts, WellFormedFacts, Zenon
  <2> QED BY <2>1, <2>2
<1>2. ASSUME NEW f \in Frame, NEW fs \in T PROVE << f >> \o fs \in T
  <2>1. fs \in Seq(Frame) /\ << f >> \o fs \in Seq(Frame)
    BY OneFrameMore
  <2>2. ASSUME NEW x \in Bytes
        PROVE  /\ parse(Stream(<< f >> \o fs) \o x).frames
                      = WellFormed(<< f >> \o fs) \o parse(x).frames
               /\ parse(Stream(<< f >> \o fs) \o x).buffer = parse(x).buffer
    <3> DEFINE a == encodeFrame(f)
               s == Stream(fs)
               w == WellFormed(fs)
               p == parse(x).frames
               k == Kept(f)
    <3>1. Stream(<< f >> \o fs) = a \o s /\ WellFormed(<< f >> \o fs) = k \o w
      BY <2>1, OneFrameMore
    <3>2. a \in Bytes /\ s \in Bytes /\ s \o x \in Bytes
      BY <2>1, FrameSurvives, StreamFacts, ConcatFacts
    <3>3. k \in Seq(Frame) /\ w \in Seq(Frame) /\ p \in Seq(Frame)
      BY <2>1, WellFormedFacts, ParseType DEF Kept, Result
    <3>4. parse(s \o x).frames = w \o p /\ parse(s \o x).buffer = parse(x).buffer
      OBVIOUS
    <3>5. /\ parse(a \o (s \o x)).frames = k \o parse(s \o x).frames
          /\ parse(a \o (s \o x)).buffer = parse(s \o x).buffer
      BY <3>2, FrameIsParsed
    <3> HIDE DEF a, s, w, p, k, T
    <3>6. (a \o s) \o x = a \o (s \o x)
      <4>1. Associative(Byte)
        BY ConcatIsAssociative
      <4> QED BY <3>2, <4>1 DEF Associative, Bytes
    <3>7. (k \o w) \o p = k \o (w \o p)
      <4>1. Associative(Frame)
        BY ConcatIsAssociative
      <4> QED BY <3>3, <4>1 DEF Associative
    <3>8. parse((a \o s) \o x).frames = (k \o w) \o p
      BY <3>4, <3>5, <3>6, <3>7, Zenon
    <3>9. parse((a \o s) \o x).buffer = parse(x).buffer
      BY <3>4, <3>5, <3>6, Zenon
    <3> QED BY <3>1, <3>8, <3>9 DEF p
  <2> QED BY <2>1, <2>2
<1>3. T = Seq(Frame)
  <2> HIDE DEF T
  <2>1. T \in SUBSET Seq(Frame)
    BY DEF T
  <2> QED BY <1>1, <1>2, <2>1, SeqInd
<1> QED BY <1>3

\* A part of a frame is kept until the rest comes
LEMMA PartIsKept ==
    ASSUME NEW f \in Frame, NEW c \in Bytes, NEW y \in Bytes,
           c \o y = encodeFrame(f), Len(c) < Len(encodeFrame(f))
    PROVE  parse(c) = [frames |-> << >>, buffer |-> c]
<1>1. ASSUME StartsWithFrame(c) PROVE FALSE
  <2>1. TotalLen(encodeFrame(f)) = TotalLen(c)
    BY <1>1, FrameStays
  <2>2. TotalLen(c) \in 1..Len(c) /\ TotalLen(encodeFrame(f)) = Len(encodeFrame(f))
    BY <1>1, FirstFrameFacts, FrameSurvives
  <2>3. Len(c) \in Nat
    BY LenProperties DEF Bytes
  <2> QED BY <2>1, <2>2, <2>3
<1> QED BY <1>1, ParseEquation

\* Two ways to cut the same bytes: the longer first part starts with the shorter
Differ(a, b, c, d) == \E x \in Bytes : Len(x) = Len(a) - Len(c) /\ a = c \o x /\ x \o b = d

LEMMA TwoCuts ==
    ASSUME NEW a \in Bytes, NEW b \in Bytes, NEW c \in Bytes, NEW d \in Bytes,
           a \o b = c \o d, Len(c) <= Len(a)
    PROVE  Differ(a, b, c, d)
<1> DEFINE x == Rest(a, Len(c))
           ab == a \o b
           cx == c \o x
<1>1. /\ ab \in Bytes /\ Len(ab) = Len(a) + Len(b) /\ Len(a) \in Nat /\ Len(b) \in Nat
      /\ \A i \in 1..Len(a) : ab[i] = a[i]
  BY ConcatFacts
<1>2. /\ ab = c \o d /\ Len(c) \in Nat
      /\ \A i \in 1..Len(c) : ab[i] = c[i]
  BY ConcatFacts
<1>3. Len(c) \in 0..Len(a)
  BY <1>1, <1>2
<1>4. /\ x \in Bytes /\ Len(x) = Len(a) - Len(c)
      /\ \A i \in 1..(Len(a) - Len(c)) : x[i] = a[Len(c) + i]
  BY <1>3, RestFacts
<1> HIDE DEF x, ab
<1>5. /\ cx \in Bytes /\ Len(cx) = Len(c) + Len(x)
      /\ \A i \in 1..Len(c) : cx[i] = c[i]
      /\ \A i \in 1..Len(x) : cx[Len(c) + i] = x[i]
  BY <1>4, ConcatFacts
<1> HIDE DEF cx
<1>6. ASSUME NEW i \in 1..Len(a) PROVE a[i] = cx[i]
  <2>1. CASE i <= Len(c)
    <3>1. i \in 1..Len(c)
      BY <1>1, <1>2, <2>1
    <3> QED BY <1>1, <1>2, <1>5, <3>1
  <2>2. CASE ~(i <= Len(c))
    <3> DEFINE j == i - Len(c)
    <3>1. j \in 1..(Len(a) - Len(c)) /\ i = Len(c) + j
      BY <1>1, <1>2, <2>2
    <3> HIDE DEF j
    <3> QED BY <1>4, <1>5, <3>1
  <2> QED BY <2>1, <2>2
<1>7. a = cx
  <2>1. Len(a) = Len(cx)
    BY <1>1, <1>2, <1>4, <1>5
  <2> QED BY <1>5, <1>6, <2>1, SeqEqual DEF Bytes
<1>8. x \o b = d
  <2> DEFINE xb == x \o b
  <2>1. (c \o x) \o b = c \o xb /\ xb \in Bytes
    <3>1. Associative(Byte)
      BY ConcatIsAssociative
    <3> QED BY <1>4, <3>1, ConcatFacts DEF Associative, Bytes
  <2> HIDE DEF xb
  <2>2. c \o xb = c \o d
    BY <1>2, <1>7, <2>1 DEF ab, cx
  <2>3. \A u, v, w \in Seq(Byte) : u \o v = u \o w => v = w
    BY ConcatSimplifications
  <2>4. xb = d
    BY <2>1, <2>2, <2>3 DEF Bytes
  <2> QED BY <2>4 DEF xb
<1> QED BY <1>4, <1>7, <1>8 DEF cx, Differ

\* The bytes r are n whole frames of fs and a part of the next
WholeFrames(fs, r, n) ==
    \E c \in Bytes :
        /\ r = Stream(SubSeq(fs, 1, n)) \o c
        /\ \/ n = Len(fs) /\ c = << >>
           \/ /\ n < Len(fs) /\ Len(c) < Len(encodeFrame(fs[n + 1]))
              /\ \E y \in Bytes : c \o y = encodeFrame(fs[n + 1])

LEMMA WholeFramesStep ==
    ASSUME NEW f \in Frame, NEW fs \in Seq(Frame), NEW r \in Bytes,
           NEW n \in 0..Len(fs), WholeFrames(fs, r, n)
    PROVE  WholeFrames(<< f >> \o fs, encodeFrame(f) \o r, n + 1)
<1> DEFINE gs == << f >> \o fs
           e == encodeFrame(f)
<1>1. /\ gs \in Seq(Frame) /\ Len(gs) = Len(fs) + 1 /\ Len(fs) \in Nat
      /\ gs[1] = f
      /\ \A i \in 1..Len(fs) : gs[i + 1] = fs[i]
  <2> DEFINE o == << f >>
  <2>1. o \in Seq(Frame) /\ Len(o) = 1 /\ o[1] = f
    OBVIOUS
  <2> HIDE DEF o
  <2>2. /\ o \o fs \in Seq(Frame) /\ Len(o \o fs) = Len(o) + Len(fs) /\ Len(fs) \in Nat
        /\ \A i \in 1..(Len(o) + Len(fs)) : (o \o fs)[i] =
              IF i <= Len(o) THEN o[i] ELSE fs[i - Len(o)]
    BY <2>1, ConcatProperties, LenProperties
  <2>3. ASSUME NEW i \in 1..Len(fs) PROVE (o \o fs)[i + 1] = fs[i]
    <3>1. i + 1 \in 1..(Len(o) + Len(fs)) /\ ~(i + 1 <= Len(o)) /\ (i + 1) - Len(o) = i
      BY <2>1, <2>2
    <3> QED BY <2>2, <3>1
  <2>4. 1 \in 1..(Len(o) + Len(fs)) /\ 1 <= Len(o)
    BY <2>1, <2>2
  <2>5. (o \o fs)[1] = f
    BY <2>1, <2>2, <2>4
  <2> QED BY <2>1, <2>2, <2>3, <2>5 DEF o
<1> HIDE DEF gs
<1>2. e \in Bytes
  BY FrameSurvives
<1> DEFINE first == SubSeq(fs, 1, n)
<1>3. first \in Seq(Frame)
  <2>1. \A i \in 1..n : fs[i] \in Frame
    BY <1>1
  <2> QED BY <1>1, <2>1, SubSeqProperties
<1>4. SubSeq(gs, 1, n + 1) = << f >> \o first
  <2>1. 1 \in 1..Len(gs) /\ n + 1 \in 1..Len(gs)
    BY <1>1
  <2>2. SubSeq(gs, 1, n + 1) = << gs[1] >> \o SubSeq(gs, 1 + 1, n + 1)
    BY <1>1, <2>1, SubSeqRecursiveFirst
  <2> DEFINE s == SubSeq(gs, 1 + 1, n + 1)
  <2>3. /\ s \in Seq(Frame) /\ Len(s) = n
        /\ \A i \in 1..n : s[i] = gs[i + 1]
    <3>1. \A i \in (1 + 1)..(n + 1) : gs[i] \in Frame
      BY <1>1
    <3>2. /\ s \in Seq(Frame) /\ Len(s) = IF 1 + 1 <= n + 1 THEN (n + 1) - (1 + 1) + 1 ELSE 0
          /\ \A i \in 1..((n + 1) - (1 + 1) + 1) : s[i] = gs[(1 + 1) + i - 1]
      BY <1>1, <3>1, SubSeqProperties
    <3> HIDE DEF s
    <3>3. Len(s) = n
      BY <1>1, <3>2
    <3>4. \A i \in 1..n : i \in 1..((n + 1) - (1 + 1) + 1) /\ (1 + 1) + i - 1 = i + 1
      BY <1>1
    <3> QED BY <3>2, <3>3, <3>4
  <2>4. /\ Len(first) = n
        /\ \A i \in 1..n : first[i] = fs[i]
    <3>1. \A i \in 1..n : fs[i] \in Frame
      BY <1>1
    <3>2. /\ Len(first) = IF 1 <= n THEN n - 1 + 1 ELSE 0
          /\ \A i \in 1..(n - 1 + 1) : first[i] = fs[1 + i - 1]
      BY <1>1, <3>1, SubSeqProperties
    <3> HIDE DEF first
    <3>3. Len(first) = n
      BY <1>1, <3>2
    <3>4. \A i \in 1..n : i \in 1..(n - 1 + 1) /\ 1 + i - 1 = i
      BY <1>1
    <3> QED BY <3>2, <3>3, <3>4
  <2> HIDE DEF s, first
  <2>5. \A i \in 1..Len(s) : s[i] = first[i]
    BY <1>1, <2>3, <2>4
  <2>6. s = first
    BY <1>3, <2>3, <2>4, <2>5, SeqEqual
  <2> QED BY <1>1, <2>2, <2>6 DEF s
<1>5. PICK c \in Bytes :
          /\ r = Stream(first) \o c
          /\ \/ n = Len(fs) /\ c = << >>
             \/ /\ n < Len(fs) /\ Len(c) < Len(encodeFrame(fs[n + 1]))
                /\ \E y \in Bytes : c \o y = encodeFrame(fs[n + 1])
  BY DEF WholeFrames
<1> HIDE DEF first, e
<1>6. Stream(<< f >> \o first) = e \o Stream(first) /\ Stream(first) \in Bytes
  BY <1>3, OneFrameMore, StreamFacts DEF e
<1>7. e \o r = Stream(SubSeq(gs, 1, n + 1)) \o c
  <2> DEFINE s == Stream(first)
  <2>1. Associative(Byte) /\ s \in Bytes
    BY <1>6, ConcatIsAssociative
  <2> HIDE DEF s
  <2>2. (e \o s) \o c = e \o (s \o c)
    BY <1>2, <2>1 DEF Associative, Bytes
  <2> QED BY <1>4, <1>5, <1>6, <2>2 DEF s
<1>8. \/ n + 1 = Len(gs) /\ c = << >>
      \/ /\ n + 1 < Len(gs) /\ Len(c) < Len(encodeFrame(gs[(n + 1) + 1]))
         /\ \E y \in Bytes : c \o y = encodeFrame(gs[(n + 1) + 1])
  <2>1. CASE n = Len(fs) /\ c = << >>
    BY <1>1, <2>1
  <2>2. CASE /\ n < Len(fs) /\ Len(c) < Len(encodeFrame(fs[n + 1]))
             /\ \E y \in Bytes : c \o y = encodeFrame(fs[n + 1])
    <3>1. n + 1 \in 1..Len(fs) /\ n + 1 < Len(gs)
      BY <1>1, <2>2
    <3>2. gs[(n + 1) + 1] = fs[n + 1]
      BY <1>1, <3>1
    <3> QED BY <2>2, <3>1, <3>2
  <2> QED BY <1>5, <2>1, <2>2
<1> QED BY <1>7, <1>8 DEF WholeFrames, gs, e

\* Wherever a stream of frames is cut, some of them are whole
LEMMA StreamCut ==
    ASSUME NEW fs \in Seq(Frame), NEW r \in Bytes, NEW t \in Bytes, r \o t = Stream(fs)
    PROVE  \E n \in 0..Len(fs) : WholeFrames(fs, r, n)
<1> DEFINE T == {gs \in Seq(Frame) : \A a, b \in Bytes :
                    a \o b = Stream(gs) => \E n \in 0..Len(gs) : WholeFrames(gs, a, n)}
<1>1. << >> \in T
  <2> DEFINE gs == << >>
  <2>1. gs \in Seq(Frame) /\ Len(gs) = 0 /\ 0 \in 0..Len(gs) /\ SubSeq(gs, 1, 0) = gs
    BY SubSeqEmpty, EmptySeq
  <2>2. Stream(gs) = << >> /\ << >> \in Bytes
    BY StreamFacts, EmptySeq DEF Bytes
  <2> HIDE DEF gs
  <2>3. ASSUME NEW a \in Bytes, NEW b \in Bytes, a \o b = Stream(gs)
        PROVE  WholeFrames(gs, a, 0)
    <3>1. a = << >>
      BY <2>2, <2>3, ConcatSimplifications DEF Bytes
    <3>2. << >> = << >> \o << >>
      BY ConcatEmptySeq
    <3>3. a = Stream(SubSeq(gs, 1, 0)) \o << >>
      BY <2>1, <2>2, <3>1, <3>2, Zenon
    <3> QED BY <2>1, <2>2, <3>3 DEF WholeFrames
  <2>4. gs \in T
    BY <2>1, <2>3
  <2> QED BY <2>4 DEF gs
<1>2. ASSUME NEW f \in Frame, NEW gs \in T PROVE << f >> \o gs \in T
  <2> DEFINE hs == << f >> \o gs
             e == encodeFrame(f)
  <2>1. /\ gs \in Seq(Frame) /\ hs \in Seq(Frame) /\ Len(hs) = Len(gs) + 1
        /\ Len(gs) \in Nat /\ hs[1] = f
    OBVIOUS
  <2>2. Stream(hs) = e \o Stream(gs) /\ e \in Bytes /\ Stream(gs) \in Bytes
    BY <2>1, OneFrameMore, FrameSurvives, StreamFacts
  <2>3. ASSUME NEW a \in Bytes, NEW b \in Bytes, a \o b = Stream(hs)
        PROVE  \E n \in 0..Len(hs) : WholeFrames(hs, a, n)
    <3>0. Len(a) \in Nat /\ Len(e) \in Nat
      BY <2>2, LenProperties DEF Bytes
    <3>1. CASE Len(e) <= Len(a)
      <4> DEFINE g == Stream(gs)
      <4>0. g \in Bytes /\ e \in Bytes /\ a \o b = e \o g
        BY <2>2, <2>3
      <4> HIDE DEF T, hs, e, g
      <4>1. PICK x \in Bytes : a = e \o x /\ x \o b = g
        <5>1. Differ(a, b, e, g)
          BY <3>1, <4>0, TwoCuts
        <5> QED BY <5>1 DEF Differ
      <4>2. PICK n \in 0..Len(gs) : WholeFrames(gs, x, n)
        BY <4>1 DEF T, g
      <4>3. WholeFrames(hs, a, n + 1)
        BY <2>1, <4>1, <4>2, WholeFramesStep DEF hs, e
      <4>4. n + 1 \in 0..Len(hs)
        BY <2>1
      <4> QED BY <4>3, <4>4
    <3>2. CASE ~(Len(e) <= Len(a))
      <4> DEFINE g == Stream(gs)
      <4>0. g \in Bytes /\ e \in Bytes /\ e \o g = a \o b
        BY <2>2, <2>3
      <4> HIDE DEF T, hs, e, g
      <4>1. Len(a) <= Len(e) /\ Len(a) < Len(e)
        BY <3>0, <3>2
      <4>2. PICK y \in Bytes : e = a \o y
        <5>1. Differ(e, g, a, b)
          BY <4>0, <4>1, TwoCuts
        <5> QED BY <5>1 DEF Differ
      <4>3. SubSeq(hs, 1, 0) = << >> /\ Stream(<< >>) = << >> /\ << >> \o a = a
        BY SubSeqEmpty, StreamFacts, ConcatEmptySeq DEF Bytes
      <4>4. a = Stream(SubSeq(hs, 1, 0)) \o a
        BY <4>3, Zenon
      <4>5. 0 < Len(hs) /\ hs[0 + 1] = f /\ 0 \in 0..Len(hs)
        BY <2>1
      <4>6. Len(a) < Len(encodeFrame(hs[0 + 1])) /\ a \o y = encodeFrame(hs[0 + 1])
        BY <4>1, <4>2, <4>5 DEF e
      <4>7. WholeFrames(hs, a, 0)
        BY <4>4, <4>5, <4>6 DEF WholeFrames
      <4> QED BY <4>5, <4>7
    <3> QED BY <3>1, <3>2
  <2>4. hs \in T
    <3> HIDE DEF hs
    <3> QED BY <2>1, <2>3
  <2> QED BY <2>4
<1>3. T = Seq(Frame)
  <2> HIDE DEF T
  <2>1. T \in SUBSET Seq(Frame)
    BY DEF T
  <2> QED BY <1>1, <1>2, <2>1, SeqInd
<1> QED BY <1>3
=============================================================================
