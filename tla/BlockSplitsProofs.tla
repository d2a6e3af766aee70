-------------------------- MODULE BlockSplitsProofs --------------------------
(***************************************************************************)
(* Proofs about the blocks of a metablock, for streams of any length, any  *)
(* least block length, any number of types and contexts, and all of the    *)
(* splitters: no index is out of bounds, the remembered entropies are      *)
(* those of the histograms they stand for, a decoder that keeps its own    *)
(* count and its own last two types reads every block switch, and finds    *)
(* for each symbol, by the context map it read, a code that counted it.    *)
(*                                                                         *)
(* GreedyOK is what holds while a greedy splitter counts, StoreOK what     *)
(* holds while symbols are stored.  The lengths of the blocks are summed   *)
(* by a function of their ends, which Reaches says exists: it grows with   *)
(* the blocks, so that nothing has to be said of a sum over a sequence.    *)
(*                                                                         *)
(* CountsOK (what is counted is in the histogram of its block's type) and  *)
(* CodesOK (the map leads to a code that counted the symbol) come after    *)
(* them.  The map is sent by move to front and runs of zeros: both are     *)
(* followed as functions of the position, and MapIsRead says that what the *)
(* decoder reads back is the map.                                          *)
(***************************************************************************)
EXTENDS BlockSplits, FiniteSetTheorems, SequenceTheorems, TLAPS

-----------------------------------------------------------------------------
(* Rounding a length up to whole blocks.                                      *)

(* A position is its whole rounds and its place in the ring.               *)
LEMMA DivMod ==
    ASSUME NEW C \in Nat \ {0}, NEW x \in Nat
    PROVE  /\ x \div C \in Nat /\ x % C \in 0..(C - 1)
           /\ x = (C * (x \div C)) + (x % C)
  OBVIOUS

(* One round more is at least C positions more.                            *)
LEMMA RoundsApart ==
    ASSUME NEW C \in Nat \ {0}, NEW a \in Nat, NEW b \in Nat, a < b
    PROVE  C * a + C <= C * b
<1>1. PICK d \in Nat : b = a + 1 + d
  <2>1. b - a - 1 \in Nat /\ b = a + 1 + (b - a - 1)
    OBVIOUS
  <2> QED
    BY <2>1
<1>2. C * b = C * a + C + C * d
  BY <1>1
<1>3. C * d >= 0 /\ C * a \in Nat
  OBVIOUS
<1> QED
  BY <1>2, <1>3

(* A position determines its whole rounds and its place.                   *)
LEMMA DivModUnique ==
    ASSUME NEW C \in Nat \ {0}, NEW x \in Nat, NEW q \in Nat,
           NEW r \in 0..(C - 1), x = C * q + r
    PROVE  x % C = r /\ x \div C = q
<1>1. PICK b \in Nat, s \in 0..(C - 1) :
         x = C * b + s /\ s = x % C /\ b = x \div C
  <2>1. /\ x \div C \in Nat /\ x % C \in 0..(C - 1)
        /\ x = (C * (x \div C)) + (x % C)
    BY DivMod
  <2> QED
    BY <2>1
<1>2. C * q \in Nat /\ C * b \in Nat
  OBVIOUS
<1>3. ~(q < b)
  <2> SUFFICES ASSUME q < b PROVE FALSE
    OBVIOUS
  <2>1. C * q + C <= C * b
    BY RoundsApart
  <2> QED
    BY <1>1, <1>2, <2>1
<1>4. ~(b < q)
  <2> SUFFICES ASSUME b < q PROVE FALSE
    OBVIOUS
  <2>1. C * b + C <= C * q
    BY RoundsApart
  <2> QED
    BY <1>1, <1>2, <2>1
<1>5. b = q
  BY <1>3, <1>4
<1> QED
  BY <1>1, <1>5

(* A position inside the first round is its own place.                     *)
LEMMA ModSmall ==
    ASSUME NEW C \in Nat \ {0}, NEW x \in 0..(C - 1)
    PROVE  x % C = x
<1>1. x \in Nat /\ x = C * 0 + x
  OBVIOUS
<1> QED
  BY <1>1, DivModUnique

-----------------------------------------------------------------------------

(* What a greedy splitter holds.                                           *)
Histogram == [HistogramContexts -> SUBSET Nat]
TypesWithRoom == 0 .. (Smaller(MaxBlocks, TypeLimit + 1) - 1)
SplitType ==
    [blockSize : Nat, target : Nat, merged : Nat, curr : Nat,
     last : Nat \X Nat, entropyOf : Histogram \X Histogram,
     histograms : [TypesWithRoom -> Histogram],
     types : Seq(Nat), lengths : Seq(Nat), numTypes : Nat]

(* The blocks and what is counted for the next one reach n symbols.        *)
EndsOf(e, lengths) ==
    /\ e \in [0 .. Len(lengths) -> Int] /\ e[0] = 0
    /\ \A k \in 1 .. Len(lengths) : e[k] = e[k - 1] + lengths[k]
Reaches(lengths, n) == \E e : EndsOf(e, lengths) /\ n <= e[Len(lengths)]

(* The types of the blocks: the first is 0, all are in use, and more than  *)
(* one block means more than one type.                                     *)
TypesInUse(s) ==
    /\ Len(s.types) = Len(s.lengths)
    /\ s.numTypes >= 1
    /\ s.types # <<>> => s.types[1] = 0
    /\ \A k \in 1 .. Len(s.types) : s.types[k] \in 0 .. (s.numTypes - 1)
    /\ s.numTypes = 1 => Len(s.types) <= 1

(* The last two types, their histograms and the entropies remembered of    *)
(* them; the histogram being filled is that of a type yet to come.         *)
LastTwo(s) ==
    /\ s.numTypes <= TypeLimit /\ s.numTypes <= Len(s.types)
    /\ s.curr = s.numTypes
    /\ s.last[1] = s.types[Len(s.types)]
    /\ Len(s.types) > 1 => s.last[2] = s.types[Len(s.types) - 1]
    /\ Len(s.types) = 1 => s.last[2] = 0 /\ s.numTypes = 1
    /\ s.numTypes > 1 => s.last[1] # s.last[2]
    /\ \A j \in {1, 2} : s.entropyOf[j] = s.histograms[s.last[j]]

SplitOK(s) ==
    /\ s \in SplitType
    /\ s.target >= MinBlock
    /\ s.types = <<>> => /\ s.curr = 0 /\ s.numTypes = 0
                         /\ s.lengths = <<>> /\ s.last = <<0, 0>>
    /\ s.types # <<>> => TypesInUse(s) /\ LastTwo(s)

(* Every block but the padded last one took MinBlock symbols at least.     *)
GreedyOK ==
    /\ SplitOK(split)
    /\ Len(split.types) * MinBlock + split.blockSize <= count
    /\ Reaches(split.lengths, count - split.blockSize)

(* The encoder is in the block that holds the next symbol, or at its end,  *)
(* and the decoder where the encoder is.                                   *)
StoreOK ==
    /\ TypesInUse(split) /\ split.numTypes \in Nat
    /\ split.types \in Seq(Nat) /\ split.lengths \in Seq(Nat)
    /\ split.types = <<>> => contexts = <<>>
    /\ enc = [block |-> enc.block, left |-> enc.left, lastType |-> enc.lastType,
              secondLast |-> enc.secondLast, histogram |-> enc.histogram]
    /\ dec = [type |-> enc.lastType, secondLast |-> enc.secondLast,
              misread |-> FALSE, histogram |-> dec.histogram,
              left |-> enc.left, map |-> dec.map]
    /\ split.types # <<>> =>
          /\ enc.block \in 1 .. Len(split.types)
          /\ enc.lastType = split.types[enc.block]
          /\ enc.secondLast = IF enc.block = 1 THEN 1 ELSE split.types[enc.block - 1]
          /\ \E e : /\ EndsOf(e, split.lengths)
                    /\ Len(contexts) <= e[Len(split.lengths)]
                    /\ enc.left = e[enc.block] - count

IInv ==
    /\ contexts \in Seq(Contexts)
    /\ count \in 0 .. Len(contexts)
    /\ phase \in {"split", "store"}
    /\ phase = "split" /\ Greedy => GreedyOK
    /\ phase = "split" /\ ~Greedy => split = NewSplit
    /\ phase = "store" => StoreOK

-----------------------------------------------------------------------------
(* Numbers.                                                                *)
LEMMA LeastNumber ==
    ASSUME NEW T \in SUBSET Nat, T # {}
    PROVE  \E n \in T : \A m \in T : n <= m
<1> DEFINE Below == {1 .. n : n \in T}
           Order == StrictSubsetOrdering(Nat)
<1>1. IsWellFoundedOn(Order, FiniteSubsetsOf(Nat))
  BY FS_StrictSubsetOrderingWellFounded
<1>2. Below \subseteq FiniteSubsetsOf(Nat) /\ Below # {}
  <2>1. ASSUME NEW n \in T
        PROVE  1 .. n \in SUBSET Nat /\ IsFiniteSet(1 .. n)
    BY FS_Interval
  <2> QED
    BY <2>1 DEF FiniteSubsetsOf
<1>3. \E x \in Below : \A y \in Below : <<y, x>> \notin Order
  <2> HIDE DEF Below, Order
  <2> QED
    BY <1>1, <1>2, WFMin
<1>4. PICK n \in T : \A y \in Below : <<y, 1 .. n>> \notin Order
  BY <1>3
<1>5. ASSUME NEW m \in T, m < n
      PROVE  FALSE
  <2>1. 1 .. m \subseteq 1 .. n /\ n \in 1 .. n /\ n \notin 1 .. m
    BY <1>5
  <2>2. <<1 .. m, 1 .. n>> \in Order
    BY <2>1 DEF StrictSubsetOrdering
  <2> QED
    BY <1>4, <2>2
<1> QED
  BY <1>5

(* A function of 1 .. n is a sequence of n elements.                       *)
LEMMA SequenceOf ==
    ASSUME NEW n \in Nat, NEW S, NEW q \in [1 .. n -> S]
    PROVE  q \in Seq(S) /\ Len(q) = n
  OBVIOUS

(* Induction, for a set of numbers.                                           *)
LEMMA UpTo ==
    ASSUME NEW n \in Nat, NEW P, 0 \in P, \A k \in 0 .. (n - 1) : k \in P => k + 1 \in P
    PROVE  \A k \in 0 .. n : k \in P
<1> SUFFICES ASSUME NEW k \in 0 .. n, k \notin P
             PROVE  FALSE
  OBVIOUS
<1> DEFINE T == {m \in 0 .. n : m \notin P}
<1>1. PICK m \in T : \A j \in T : m <= j
  <2>1. T \in SUBSET Nat /\ T # {}
    OBVIOUS
  <2> HIDE DEF T
  <2> QED
    BY <2>1, LeastNumber
<1>2. m # 0 /\ m \in 0 .. n /\ m \notin P
  OBVIOUS
<1>3. m - 1 \in 0 .. (n - 1) /\ m - 1 \notin T
  BY <1>1, <1>2
<1>4. m - 1 \in P /\ (m - 1) + 1 = m
  BY <1>2, <1>3
<1> QED
  BY <1>2, <1>3, <1>4

(* What is computed step by step, each from the one before, exists.           *)
Steps(S, first, n, step) ==
    \E g \in [0 .. n -> S] : /\ g[0] = first
                             /\ \A k \in 1 .. n : g[k] = step[<<g[k - 1], k>>]

(* A sequence that starts at first and steps by step n times exists.         *)
LEMMA StepsExist ==
    ASSUME NEW S, NEW first \in S, NEW n \in Nat, NEW step, step \in [S \X (1 .. n) -> S]
    PROVE  Steps(S, first, n, step)
<1> DEFINE To(g, m) == g[0] = first /\ \A k \in 1 .. m : g[k] = step[<<g[k - 1], k>>]
           P == {m \in 0 .. n : \E g \in [0 .. m -> S] : To(g, m)}
<1>1. 0 \in P
  <2> DEFINE g == [k \in 0 .. 0 |-> first]
  <2>1. g \in [0 .. 0 -> S] /\ To(g, 0)
    OBVIOUS
  <2> HIDE DEF g, To
  <2>2. \E h \in [0 .. 0 -> S] : To(h, 0)
    BY <2>1
  <2> QED
    BY <2>2
<1>2. ASSUME NEW m \in 0 .. (n - 1), m \in P
      PROVE  m + 1 \in P
  <2>1. PICK g \in [0 .. m -> S] : To(g, m)
    BY <1>2
  <2> DEFINE h == [k \in 0 .. (m + 1) |-> IF k <= m THEN g[k] ELSE step[<<g[m], m + 1>>]]
  <2>2. h \in [0 .. (m + 1) -> S]
    <3>1. g[m] \in S /\ m + 1 \in 1 .. n
      OBVIOUS
    <3>2. step[<<g[m], m + 1>>] \in S
      BY <3>1
    <3> QED
      BY <3>2
  <2>3. h[0] = first
    BY <2>1
  <2>4. ASSUME NEW k \in 1 .. (m + 1)
        PROVE  h[k] = step[<<h[k - 1], k>>]
    <3>1. CASE k <= m
      <4>1. h[k] = g[k] /\ h[k - 1] = g[k - 1] /\ k \in 1 .. m
        BY <3>1
      <4> QED
        BY <2>1, <4>1
    <3>2. CASE ~ (k <= m)
      <4>1. k = m + 1 /\ k - 1 = m
        BY <3>2
      <4>2. h[k] = step[<<g[m], m + 1>>] /\ h[k - 1] = g[m]
        BY <4>1
      <4> QED
        BY <4>1, <4>2
    <3> QED
      BY <3>1, <3>2
  <2> HIDE DEF h
  <2> QED
    BY <2>2, <2>3, <2>4
<1>3. \A k \in 0 .. n : k \in P
  <2> HIDE DEF P
  <2> QED
    BY <1>1, <1>2, UpTo
<1>4. n \in P
  <2>1. n \in 0 .. n
    OBVIOUS
  <2> HIDE DEF P
  <2> QED
    BY <1>3, <2>1
<1> QED
  BY <1>4 DEF Steps

-----------------------------------------------------------------------------
(* Powers of two.                                                             *)
PowersTo(g, n) == /\ g \in [0 .. n -> Nat] /\ g[0] = 1
                  /\ \A k \in 1 .. n : g[k] = 2 * g[k - 1]

(* The powers of two up to n exist, as a function.                           *)
LEMMA PowersExist == \A n \in Nat : \E g : PowersTo(g, n)
<1> SUFFICES ASSUME NEW n \in Nat
             PROVE  \E g : PowersTo(g, n)
  OBVIOUS
<1> DEFINE step == [x \in Nat \X (1 .. n) |-> 2 * x[1]]
<1>1. step \in [Nat \X (1 .. n) -> Nat] /\ 1 \in Nat
  OBVIOUS
<1>2. \A a \in Nat, k \in 1 .. n : step[<<a, k>>] = 2 * a
  OBVIOUS
<1> HIDE DEF step
<1>3. PICK g \in [0 .. n -> Nat] : g[0] = 1 /\ \A k \in 1 .. n : g[k] = step[<<g[k - 1], k>>]
  <2> DEFINE S == Nat  one == 1
  <2>1. one \in S /\ step \in [S \X (1 .. n) -> S]
    BY <1>1
  <2> HIDE DEF S, one
  <2>2. Steps(S, one, n, step)
    BY <2>1, StepsExist
  <2> QED
    BY <2>2 DEF Steps, S, one
<1>4. ASSUME NEW k \in 1 .. n
      PROVE  g[k] = 2 * g[k - 1]
  <2>1. k - 1 \in 0 .. n
    OBVIOUS
  <2>2. g[k - 1] \in Nat
    BY <2>1
  <2>3. g[k] = step[<<g[k - 1], k>>]
    BY <1>3
  <2> QED
    BY <1>2, <2>2, <2>3
<1> QED
  BY <1>3, <1>4 DEF PowersTo

(* There is but one way to count them.                                        *)
LEMMA PowersAgree ==
    ASSUME NEW n \in Nat, NEW m \in Nat, m <= n, NEW g, NEW h, PowersTo(g, n), PowersTo(h, m)
    PROVE  g[m] = h[m]
<1> DEFINE P == {k \in 0 .. m : g[k] = h[k]}
<1>1. 0 \in P
  BY DEF PowersTo
<1>2. ASSUME NEW k \in 0 .. (m - 1), k \in P
      PROVE  k + 1 \in P
  <2>1. k + 1 \in 1 .. m /\ k + 1 \in 1 .. n /\ (k + 1) - 1 = k
    OBVIOUS
  <2>2. g[k + 1] = 2 * g[k] /\ h[k + 1] = 2 * h[k]
    BY <2>1 DEF PowersTo
  <2> QED
    BY <1>2, <2>1, <2>2
<1>3. \A k \in 0 .. m : k \in P
  <2> HIDE DEF P
  <2> QED
    BY <1>1, <1>2, UpTo
<1> QED
  BY <1>3

(* Pow2 is the function its recursive definition says.                       *)
LEMMA Pow2Defined ==
    /\ Pow2 = [n \in Nat |-> IF n = 0 THEN 1 ELSE 2 * Pow2[n - 1]]
    /\ Pow2 \in [Nat -> Nat]
<1> DEFINE G(n) == CHOOSE g : PowersTo(g, n)
           F == [n \in Nat |-> G(n)[n]]
<1>1. ASSUME NEW n \in Nat
      PROVE  PowersTo(G(n), n)
  BY PowersExist
<1>2. F \in [Nat -> Nat]
  <2>1. ASSUME NEW n \in Nat
        PROVE  G(n)[n] \in Nat
    <3>1. PowersTo(G(n), n) /\ n \in 0 .. n
      BY <1>1
    <3> HIDE DEF G
    <3> QED
      BY <3>1 DEF PowersTo
  <2> HIDE DEF G
  <2> QED
    BY <2>1
<1>3. F = [n \in Nat |-> IF n = 0 THEN 1 ELSE 2 * F[n - 1]]
  <2>1. ASSUME NEW n \in Nat
        PROVE  F[n] = IF n = 0 THEN 1 ELSE 2 * F[n - 1]
    <3>1. CASE n = 0
      BY <1>1, <3>1 DEF PowersTo
    <3>2. CASE n # 0
      <4>1. n - 1 \in Nat /\ n - 1 <= n /\ n \in 1 .. n
        BY <3>2
      <4>2. PowersTo(G(n), n) /\ PowersTo(G(n - 1), n - 1)
        BY <1>1, <4>1
      <4> DEFINE g == G(n)  h == G(n - 1)
      <4>3. F[n] = g[n] /\ F[n - 1] = h[n - 1]
        BY <4>1
      <4> HIDE DEF G, F, g, h
      <4>4. PowersTo(g, n) /\ PowersTo(h, n - 1)
        BY <4>2 DEF g, h
      <4>5. g[n - 1] = h[n - 1]
        BY <4>1, <4>4, PowersAgree
      <4>6. g[n] = 2 * g[n - 1]
        BY <4>1, <4>4 DEF PowersTo
      <4> QED
        BY <3>2, <4>3, <4>5, <4>6
    <3> QED
      BY <3>1, <3>2
  <2> HIDE DEF F
  <2>2. DOMAIN F = Nat
    BY <1>2
  <2> DEFINE R == [n \in Nat |-> IF n = 0 THEN 1 ELSE 2 * F[n - 1]]
  <2>3. F = [n \in Nat |-> F[n]]
    BY <1>2
  <2> QED
    BY <2>1, <2>3
<1> HIDE DEF F
<1>4. Pow2 = [n \in Nat |-> IF n = 0 THEN 1 ELSE 2 * Pow2[n - 1]]
  BY <1>3 DEF Pow2
<1> DEFINE P(n) == {k \in 0 .. n : Pow2[k] = F[k]}
<1>5. ASSUME NEW n \in Nat
      PROVE  Pow2[n] = F[n]
  <2>1. 0 \in P(n)
    <3>1. F[0] = 1
      BY <1>3
    <3>2. Pow2[0] = 1
      BY <1>4
    <3> QED
      BY <3>1, <3>2
  <2>2. ASSUME NEW k \in 0 .. (n - 1), k \in P(n)
        PROVE  k + 1 \in P(n)
    <3>1. k + 1 \in Nat /\ k + 1 # 0 /\ (k + 1) - 1 = k
      OBVIOUS
    <3>2. F[k + 1] = 2 * F[k]
      BY <1>3, <3>1
    <3>3. Pow2[k + 1] = 2 * Pow2[k]
      BY <1>4, <3>1
    <3> QED
      BY <2>2, <3>1, <3>2, <3>3
  <2> DEFINE Q == P(n)
  <2>3. \A k \in 0 .. n : k \in Q
    <3>1. 0 \in Q /\ \A k \in 0 .. (n - 1) : k \in Q => k + 1 \in Q
      BY <2>1, <2>2
    <3> HIDE DEF Q
    <3> QED
      BY <3>1, UpTo
  <2> QED
    BY <2>3
<1>6. Pow2 \in [Nat -> Nat]
  <2>1. \A n \in Nat : Pow2[n] \in Nat
    BY <1>2, <1>5
  <2>2. Pow2 = [n \in Nat |-> Pow2[n]]
    BY <1>4, Zenon
  <2> QED
    BY <2>1, <2>2
<1> QED
  BY <1>4, <1>6

(* What Pow2 is: positive, doubling, and beyond its exponent.                *)
LEMMA Powers ==
    /\ Pow2[0] = 1
    /\ \A n \in Nat : /\ Pow2[n] \in Nat \ {0} /\ Pow2[n + 1] = 2 * Pow2[n]
                      /\ n < Pow2[n]
<1>1. Pow2[0] = 1
  BY Pow2Defined
<1>2. ASSUME NEW n \in Nat
      PROVE  Pow2[n] \in Nat /\ Pow2[n + 1] = 2 * Pow2[n]
  <2>1. n + 1 \in Nat /\ n + 1 # 0 /\ (n + 1) - 1 = n
    OBVIOUS
  <2> QED
    BY <2>1, Pow2Defined
<1>3. ASSUME NEW n \in Nat
      PROVE  n < Pow2[n]
  <2> DEFINE P == {k \in 0 .. n : k < Pow2[k]}
  <2>1. 0 \in P
    BY <1>1
  <2>2. ASSUME NEW k \in 0 .. (n - 1), k \in P
        PROVE  k + 1 \in P
    <3> DEFINE a == Pow2[k]  b == Pow2[k + 1]
    <3>1. a \in Nat /\ b = 2 * a /\ k < a
      BY <1>2, <2>2
    <3> HIDE DEF a, b
    <3>2. k + 1 < b /\ k + 1 \in 0 .. n
      BY <3>1
    <3> QED
      BY <3>2 DEF b
  <2>3. \A k \in 0 .. n : k \in P
    <3> HIDE DEF P
    <3> QED
      BY <2>1, <2>2, UpTo
  <2> QED
    BY <2>3
<1>4. ASSUME NEW n \in Nat
      PROVE  Pow2[n] # 0
  BY <1>2, <1>3
<1> QED
  BY <1>1, <1>2, <1>3, <1>4

(* Pow2 is monotone.                                                         *)
LEMMA SmallerPower ==
    ASSUME NEW j \in Nat, NEW k \in Nat, j <= k
    PROVE  Pow2[j] <= Pow2[k]
<1> DEFINE n == k - j
           P == {d \in 0 .. n : Pow2[j] <= Pow2[j + d]}
<1>1. n \in Nat /\ j + n = k
  OBVIOUS
<1>2. 0 \in P
  BY <1>1, Powers
<1>3. ASSUME NEW d \in 0 .. (n - 1), d \in P
      PROVE  d + 1 \in P
  <2> DEFINE a == Pow2[j + d]  b == Pow2[j + (d + 1)]  c == Pow2[j]
  <2>1. j + d \in Nat /\ j + (d + 1) = (j + d) + 1
    OBVIOUS
  <2>2. a \in Nat /\ b = 2 * a /\ c \in Nat /\ c <= a
    BY <1>3, <2>1, Powers
  <2> HIDE DEF a, b, c
  <2>3. c <= b /\ d + 1 \in 0 .. n
    BY <1>1, <2>2
  <2> QED
    BY <2>3 DEF b, c
<1>4. \A d \in 0 .. n : d \in P
  <2> HIDE DEF P, n
  <2> QED
    BY <1>1, <1>2, <1>3, UpTo
<1>5. n \in P
  BY <1>1, <1>4
<1> QED
  BY <1>1, <1>5

(* The logarithm of a number above 0.                                         *)
LEMMA LogarithmIs ==
    ASSUME NEW n \in Nat \ {0}
    PROVE  /\ Log2Floor(n) \in Nat
           /\ Pow2[Log2Floor(n)] <= n /\ n < Pow2[Log2Floor(n) + 1]
<1> DEFINE T == {k \in Nat : n < Pow2[k + 1]}
<1>1. PICK k \in T : \A j \in T : k <= j
  <2>1. n \in T
    <3> DEFINE a == Pow2[n]  b == Pow2[n + 1]
    <3>1. n < a /\ a \in Nat /\ b = 2 * a
      BY Powers
    <3> HIDE DEF a, b
    <3>2. n < b
      BY <3>1
    <3> QED
      BY <3>2 DEF b
  <2>2. T \in SUBSET Nat /\ T # {}
    BY <2>1
  <2> HIDE DEF T
  <2> QED
    BY <2>2, LeastNumber
<1>2. Pow2[k] <= n
  <2>1. CASE k = 0
    BY <2>1, Powers
  <2>2. CASE k # 0
    <3>1. k - 1 \in Nat /\ k - 1 \notin T /\ (k - 1) + 1 = k
      BY <1>1, <2>2
    <3>2. ~ (n < Pow2[k]) /\ Pow2[k] \in Nat
      BY <3>1, Powers
    <3> QED
      BY <3>2
  <2> QED
    BY <2>1, <2>2
<1>3. k \in 0 .. n
  <2> DEFINE a == Pow2[k]
  <2>1. k < a /\ a <= n /\ a \in Nat
    BY <1>2, Powers
  <2> HIDE DEF a
  <2> QED
    BY <2>1
<1>4. \E j \in 0 .. n : Pow2[j] <= n /\ n < Pow2[j + 1]
  BY <1>2, <1>3
<1>5. /\ Log2Floor(n) \in 0 .. n
      /\ Pow2[Log2Floor(n)] <= n /\ n < Pow2[Log2Floor(n) + 1]
  BY <1>4 DEF Log2Floor
<1> QED
  BY <1>5

-----------------------------------------------------------------------------
(* The list that moves what was used to the front.                            *)
LEMMA GreatestIs ==
    ASSUME NEW N \in Nat, NEW T \in SUBSET (0 .. N), T # {}
    PROVE  Max(T) \in T /\ \A x \in T : x <= Max(T)
<1> DEFINE D == {N - x : x \in T}
<1>1. PICK d \in D : \A e \in D : d <= e
  <2>1. D \in SUBSET Nat
    <3>1. \A x \in T : N - x \in Nat
      OBVIOUS
    <3> QED
      BY <3>1
  <2>2. D # {}
    OBVIOUS
  <2> HIDE DEF D
  <2> QED
    BY <2>1, <2>2, LeastNumber
<1>2. PICK x \in T : d = N - x
  OBVIOUS
<1>3. ASSUME NEW y \in T
      PROVE  x >= y
  <2>1. N - y \in D /\ x \in Nat /\ y \in Nat
    OBVIOUS
  <2>2. N - x <= N - y
    BY <1>1, <1>2, <2>1
  <2> QED
    BY <2>1, <2>2
<1>4. Max(T) \in T /\ \A y \in T : Max(T) >= y
  BY <1>3 DEF Max
<1>5. \A y \in T : y \in Nat
  OBVIOUS
<1> QED
  BY <1>4, <1>5

Lists(m) == {list \in [1 .. m -> 0 .. (m - 1)] :
                \A v \in 0 .. (m - 1) : \E k \in 1 .. m : list[k] = v}
Sorted(m) == [k \in 1 .. m |-> k - 1]

(* The sorted list is a list of the values.                                  *)
LEMMA SortedIsList ==
    ASSUME NEW m \in Nat
    PROVE  Sorted(m) \in Lists(m)
<1>1. Sorted(m) \in [1 .. m -> 0 .. (m - 1)]
  BY DEF Sorted
<1>2. ASSUME NEW v \in 0 .. (m - 1)
      PROVE  \E k \in 1 .. m : Sorted(m)[k] = v
  <2>1. v + 1 \in 1 .. m /\ Sorted(m)[v + 1] = v
    BY DEF Sorted
  <2> QED
    BY <2>1
<1> QED
  BY <1>1, <1>2 DEF Lists

(* IndexOf finds every value a list has, which is how MoveToFrontTransform    *)
(* uses it.                                                                   *)
LEMMA IndexIs ==
    ASSUME NEW m \in Nat, NEW list \in Lists(m), NEW v \in 0 .. (m - 1)
    PROVE  IndexOf(list, v) \in 1 .. m /\ list[IndexOf(list, v)] = v
<1>1. \E k \in DOMAIN list : list[k] = v
  BY DEF Lists
<1>2. DOMAIN list = 1 .. m
  BY DEF Lists
<1> QED
  BY <1>1, <1>2 DEF IndexOf

(* Moving a value of a list to its front leaves a list of the same values.   *)
LEMMA UsedIsList ==
    ASSUME NEW m \in Nat, NEW list \in Lists(m), NEW v \in 0 .. (m - 1)
    PROVE  Used(list, v) \in Lists(m)
<1> DEFINE p == IndexOf(list, v)
           new == Used(list, v)
<1>1. p \in 1 .. m /\ list[p] = v
  BY IndexIs
<1>2. list \in [1 .. m -> 0 .. (m - 1)] /\ DOMAIN list = 1 .. m
  BY DEF Lists
<1>3. new = [j \in 1 .. m |-> IF j = 1 THEN list[p]
                              ELSE IF j <= p THEN list[j - 1] ELSE list[j]]
  BY <1>2 DEF Used, ToFront
<1> HIDE DEF p, new
<1>4. new \in [1 .. m -> 0 .. (m - 1)]
  <2>1. ASSUME NEW j \in 1 .. m
        PROVE  (IF j = 1 THEN list[p] ELSE IF j <= p THEN list[j - 1] ELSE list[j]) \in 0 .. (m - 1)
    <3>1. list[p] \in 0 .. (m - 1) /\ list[j] \in 0 .. (m - 1)
      BY <1>1, <1>2
    <3>2. j # 1 => list[j - 1] \in 0 .. (m - 1)
      BY <1>2
    <3> QED
      BY <3>1, <3>2
  <2> QED
    BY <1>3, <2>1
<1>5. ASSUME NEW w \in 0 .. (m - 1)
      PROVE  \E k \in 1 .. m : new[k] = w
  <2>1. PICK k \in 1 .. m : list[k] = w
    BY DEF Lists
  <2>2. CASE k = p
    <3>1. 1 \in 1 .. m /\ new[1] = w
      BY <1>1, <1>3, <2>1, <2>2
    <3> QED
      BY <3>1
  <2>3. CASE k < p
    <3>1. k + 1 \in 1 .. m /\ k + 1 # 1 /\ k + 1 <= p /\ (k + 1) - 1 = k
      BY <1>1, <2>3
    <3>2. new[k + 1] = w
      BY <1>3, <2>1, <3>1
    <3> QED
      BY <3>1, <3>2
  <2>4. CASE k > p
    <3>1. k # 1 /\ ~ (k <= p)
      BY <1>1, <2>4
    <3>2. new[k] = w
      BY <1>3, <2>1, <3>1
    <3> QED
      BY <3>2
  <2> QED
    BY <1>1, <2>2, <2>3, <2>4
<1> QED
  BY <1>4, <1>5 DEF Lists, new

(* The lists of the encoder, and what it makes of a map with them.            *)
EncoderLists(e, cmap, m) ==
    /\ e \in [0 .. Len(cmap) -> Lists(m)] /\ e[0] = Sorted(m)
    /\ \A n \in 1 .. Len(cmap) : e[n] = Used(e[n - 1], cmap[n])

(* MoveToFrontTransform writes where each value is in the list the values     *)
(* before it leave.                                                           *)
LEMMA TransformIs ==
    ASSUME NEW c \in Nat, NEW cmap \in Seq(0 .. (c - 1)), cmap # <<>>
    PROVE  \E m \in 1 .. c : \E e :
              /\ cmap \in Seq(0 .. (m - 1))
              /\ EncoderLists(e, cmap, m)
              /\ MoveToFrontTransform(cmap)
                   = [n \in 1 .. Len(cmap) |-> IndexOf(e[n - 1], cmap[n]) - 1]
<1> DEFINE L == Len(cmap)
           m == Max(Range(cmap)) + 1
<1>1. /\ L \in Nat \ {0} /\ cmap \in [1 .. L -> 0 .. (c - 1)] /\ c - 1 \in Nat
  <2>1. L \in Nat /\ cmap \in [1 .. L -> 0 .. (c - 1)] /\ L # 0
    OBVIOUS
  <2>2. cmap[1] \in 0 .. (c - 1)
    BY <2>1
  <2> QED
    BY <2>1, <2>2
<1>2. m \in 1 .. c /\ \A k \in 1 .. L : cmap[k] \in 0 .. (m - 1)
  <2>1. Range(cmap) \in SUBSET (0 .. (c - 1)) /\ \A k \in 1 .. L : cmap[k] \in Range(cmap)
    BY <1>1 DEF Range
  <2>2. Range(cmap) # {}
    BY <1>1, <2>1
  <2>3. Max(Range(cmap)) \in Range(cmap) /\ \A x \in Range(cmap) : x <= Max(Range(cmap))
    BY <1>1, <2>1, <2>2, GreatestIs
  <2> DEFINE x == Max(Range(cmap))
  <2>4. x \in 0 .. (c - 1) /\ \A k \in 1 .. L : cmap[k] \in 0 .. (c - 1) /\ cmap[k] <= x
    BY <1>1, <2>1, <2>3
  <2> HIDE DEF x
  <2>5. x + 1 \in 1 .. c /\ \A k \in 1 .. L : cmap[k] \in 0 .. ((x + 1) - 1)
    BY <1>1, <2>4
  <2> QED
    BY <2>5 DEF x
<1> HIDE DEF m
<1>3. cmap \in Seq(0 .. (m - 1)) /\ m \in Nat
  BY <1>1, <1>2
<1> DEFINE step == [x \in Lists(m) \X (1 .. L) |-> Used(x[1], cmap[x[2]])]
           G(e) == [n \in 0 .. L |-> IF n = 0 THEN Sorted(m) ELSE Used(e[n - 1], cmap[n])]
<1>4. \A list \in Lists(m), k \in 1 .. L :
         step[<<list, k>>] = Used(list, cmap[k]) /\ Used(list, cmap[k]) \in Lists(m)
  <2>1. ASSUME NEW list \in Lists(m), NEW k \in 1 .. L
        PROVE  step[<<list, k>>] = Used(list, cmap[k]) /\ Used(list, cmap[k]) \in Lists(m)
    BY <1>2, <1>3, UsedIsList
  <2> QED
    BY <2>1
<1>5. step \in [Lists(m) \X (1 .. L) -> Lists(m)]
  <2>1. \A x \in Lists(m) \X (1 .. L) : step[x] \in Lists(m)
    BY <1>4
  <2> QED
    BY <2>1
<1> HIDE DEF step
<1>6. \E e \in [0 .. L -> Lists(m)] : e[0] = Sorted(m) /\ \A n \in 1 .. L : e[n] = step[<<e[n - 1], n>>]
  <2> DEFINE S == Lists(m)  first == Sorted(m)
  <2>1. first \in S /\ step \in [S \X (1 .. L) -> S] /\ L \in Nat
    BY <1>1, <1>3, <1>5, SortedIsList
  <2> HIDE DEF S, first, L
  <2>2. Steps(S, first, L, step)
    BY <2>1, StepsExist
  <2> QED
    BY <2>2 DEF Steps, S, first
<1>7. PICK e \in [0 .. L -> Lists(m)] : e[0] = Sorted(m) /\ \A n \in 1 .. L : e[n] = step[<<e[n - 1], n>>]
  BY <1>6
<1>8. \A n \in 1 .. L : e[n] = Used(e[n - 1], cmap[n])
  <2>1. ASSUME NEW n \in 1 .. L
        PROVE  e[n] = Used(e[n - 1], cmap[n])
    <3>1. e[n - 1] \in Lists(m)
      BY <1>1
    <3> QED
      BY <1>4, <1>7, <3>1
  <2> QED
    BY <2>1
<1>9. e = G(e)
  <2>1. \A n \in 0 .. L : e[n] = G(e)[n]
    BY <1>1, <1>7, <1>8
  <2>2. e = [n \in 0 .. L |-> e[n]]
    OBVIOUS
  <2> QED
    BY <2>1, <2>2
<1> DEFINE f == CHOOSE g : g = G(g)
<1>10. f = G(f)
  BY <1>9
<1>11. \A n \in 0 .. L : f[n] = e[n]
  <2> DEFINE P == {n \in 0 .. L : f[n] = e[n]}
  <2> HIDE DEF f
  <2>1. 0 \in P
    <3>1. 0 \in 0 .. L
      BY <1>1
    <3>2. f[0] = Sorted(m)
      BY <1>10, <3>1
    <3> QED
      BY <1>7, <3>1, <3>2
  <2>2. ASSUME NEW n \in 0 .. (L - 1), n \in P
        PROVE  n + 1 \in P
    <3>1. n + 1 \in 1 .. L /\ n + 1 \in 0 .. L /\ n + 1 # 0 /\ (n + 1) - 1 = n
      BY <1>1
    <3>2. f[n + 1] = Used(f[n], cmap[n + 1])
      BY <1>10, <3>1
    <3>3. e[n + 1] = Used(e[n], cmap[n + 1])
      BY <1>8, <3>1
    <3> QED
      BY <2>2, <3>1, <3>2, <3>3
  <2>3. \A n \in 0 .. L : n \in P
    <3> HIDE DEF P, L
    <3> QED
      BY <1>1, <2>1, <2>2, UpTo
  <2> QED
    BY <2>3
<1>12. MoveToFrontTransform(cmap) = [n \in 1 .. L |-> IndexOf(f[n - 1], cmap[n]) - 1]
  BY DEF MoveToFrontTransform, m, Sorted
<1>13. MoveToFrontTransform(cmap) = [n \in 1 .. L |-> IndexOf(e[n - 1], cmap[n]) - 1]
  <2>1. \A n \in 1 .. L : f[n - 1] = e[n - 1]
    <3>1. \A n \in 1 .. L : n - 1 \in 0 .. L
      BY <1>1
    <3> QED
      BY <1>11, <3>1
  <2> HIDE DEF f
  <2> QED
    BY <1>12, <2>1
<1>14. EncoderLists(e, cmap, m)
  BY <1>7, <1>8 DEF EncoderLists
<1> QED
  BY <1>2, <1>3, <1>13, <1>14

(* The lists of the decoder, and what it makes of the values it reads.        *)
DecoderLists(d, values, c) ==
    /\ d \in [0 .. Len(values) -> [1 .. c -> Nat]] /\ d[0] = Sorted(c)
    /\ \A n \in 1 .. Len(values) : d[n] = ToFront(d[n - 1], values[n] + 1)

(* What moving an entry to the front does to every place of a list.          *)
LEMMA ToFrontType ==
    ASSUME NEW c \in Nat, NEW list \in [1 .. c -> Nat], NEW p \in 1 .. c
    PROVE  /\ ToFront(list, p) \in [1 .. c -> Nat]
           /\ ToFront(list, p)[1] = list[p]
           /\ \A j \in 2 .. c : ToFront(list, p)[j] = IF j <= p THEN list[j - 1] ELSE list[j]
<1> DEFINE new == ToFront(list, p)
<1>1. new = [j \in 1 .. c |-> IF j = 1 THEN list[p]
                              ELSE IF j <= p THEN list[j - 1] ELSE list[j]]
  BY DEF ToFront
<1> HIDE DEF new
<1>2. ASSUME NEW j \in 1 .. c
      PROVE  (IF j = 1 THEN list[p] ELSE IF j <= p THEN list[j - 1] ELSE list[j]) \in Nat
  <2>1. list[p] \in Nat /\ list[j] \in Nat
    OBVIOUS
  <2>2. j # 1 => list[j - 1] \in Nat
    OBVIOUS
  <2> QED
    BY <2>1, <2>2
<1>3. new \in [1 .. c -> Nat]
  BY <1>1, <1>2
<1>4. new[1] = list[p]
  <2>1. 1 \in 1 .. c
    OBVIOUS
  <2> QED
    BY <1>1, <2>1
<1>5. \A j \in 2 .. c : new[j] = IF j <= p THEN list[j - 1] ELSE list[j]
  <2>1. \A j \in 2 .. c : j \in 1 .. c /\ j # 1
    OBVIOUS
  <2> QED
    BY <1>1, <2>1
<1> QED
  BY <1>3, <1>4, <1>5 DEF new

(* The decoder's map: each value picks an entry of the list the values before *)
(* it leave.                                                                  *)
LEMMA ReadMapIs ==
    ASSUME NEW c \in Nat, c # 1, NEW sent, ReadValues(sent) \in Seq(0 .. (c - 1))
    PROVE  \E d : /\ DecoderLists(d, ReadValues(sent), c)
                  /\ \A size : ReadMap(sent, size, c)
                        = [n \in 1 .. Len(ReadValues(sent)) |-> d[n - 1][ReadValues(sent)[n] + 1]]
<1> DEFINE values == ReadValues(sent)
           L == Len(values)
           S == [1 .. c -> Nat]
           first == Sorted(c)
<1>1. L \in Nat /\ \A k \in 1 .. L : values[k] \in 0 .. (c - 1) /\ values[k] + 1 \in 1 .. c
  <2>1. values \in Seq(0 .. (c - 1))
    OBVIOUS
  <2> HIDE DEF values
  <2> QED
    BY <2>1
<1> DEFINE step == [x \in S \X (1 .. L) |-> ToFront(x[1], values[x[2]] + 1)]
           G(e) == [n \in 0 .. L |-> IF n = 0 THEN first ELSE ToFront(e[n - 1], values[n] + 1)]
           f == CHOOSE g : g = G(g)
<1>2. first \in S
  BY DEF Sorted
<1>3. \A size : ReadMap(sent, size, c) = [n \in 1 .. L |-> f[n - 1][values[n] + 1]]
  BY DEF ReadMap, Sorted
<1> HIDE DEF values, L
<1>4. \A list \in S, k \in 1 .. L :
         step[<<list, k>>] = ToFront(list, values[k] + 1) /\ ToFront(list, values[k] + 1) \in S
  <2>1. ASSUME NEW list \in S, NEW k \in 1 .. L
        PROVE  step[<<list, k>>] = ToFront(list, values[k] + 1) /\ ToFront(list, values[k] + 1) \in S
    BY <1>1, ToFrontType
  <2> QED
    BY <2>1
<1>5. step \in [S \X (1 .. L) -> S]
  <2>1. \A x \in S \X (1 .. L) : step[x] \in S
    BY <1>4
  <2> QED
    BY <2>1
<1> HIDE DEF step, first, S
<1>6. Steps(S, first, L, step)
  BY <1>1, <1>2, <1>5, StepsExist
<1>7. PICK e \in [0 .. L -> S] : e[0] = first /\ \A n \in 1 .. L : e[n] = step[<<e[n - 1], n>>]
  BY <1>6 DEF Steps
<1>8. \A n \in 1 .. L : e[n] = ToFront(e[n - 1], values[n] + 1)
  <2>1. ASSUME NEW n \in 1 .. L
        PROVE  e[n] = ToFront(e[n - 1], values[n] + 1)
    <3>1. e[n - 1] \in S
      BY <1>1
    <3> QED
      BY <1>4, <1>7, <3>1
  <2> QED
    BY <2>1
<1>9. e = G(e)
  <2>1. \A n \in 0 .. L : e[n] = G(e)[n]
    BY <1>1, <1>7, <1>8
  <2>2. e = [n \in 0 .. L |-> e[n]]
    OBVIOUS
  <2> QED
    BY <2>1, <2>2
<1>10. f = G(f)
  BY <1>9
<1> HIDE DEF f
<1>11. \A n \in 0 .. L : f[n] = e[n]
  <2> DEFINE P == {n \in 0 .. L : f[n] = e[n]}
  <2>1. 0 \in P
    <3>1. 0 \in 0 .. L
      BY <1>1
    <3>2. f[0] = first
      BY <1>10, <3>1
    <3> QED
      BY <1>7, <3>1, <3>2
  <2>2. ASSUME NEW n \in 0 .. (L - 1), n \in P
        PROVE  n + 1 \in P
    <3>1. n + 1 \in 1 .. L /\ n + 1 \in 0 .. L /\ n + 1 # 0 /\ (n + 1) - 1 = n
      BY <1>1
    <3>2. f[n + 1] = ToFront(f[n], values[n + 1] + 1)
      BY <1>10, <3>1
    <3>3. e[n + 1] = ToFront(e[n], values[n + 1] + 1)
      BY <1>8, <3>1
    <3> QED
      BY <2>2, <3>1, <3>2, <3>3
  <2>3. \A n \in 0 .. L : n \in P
    <3> HIDE DEF P
    <3> QED
      BY <1>1, <2>1, <2>2, UpTo
  <2> QED
    BY <2>3
<1>12. \A size : ReadMap(sent, size, c) = [n \in 1 .. L |-> e[n - 1][values[n] + 1]]
  <2>1. \A n \in 1 .. L : f[n - 1] = e[n - 1]
    <3>1. \A n \in 1 .. L : n - 1 \in 0 .. L
      BY <1>1
    <3> QED
      BY <1>11, <3>1
  <2> QED
    BY <1>3, <2>1
<1>13. DecoderLists(e, values, c)
  BY <1>7, <1>8 DEF DecoderLists, L, S, first
<1> QED
  BY <1>12, <1>13 DEF values, L

(* A decoder that gets the places finds the map.                              *)
LEMMA PlacesAreRead ==
    ASSUME NEW c \in Nat, c # 1, NEW cmap \in Seq(0 .. (c - 1)), cmap # <<>>, NEW sent,
           ReadValues(sent) = MoveToFrontTransform(cmap)
    PROVE  \A size : ReadMap(sent, size, c) = cmap
<1> DEFINE L == Len(cmap)
           values == ReadValues(sent)
<1>0. PICK m \in 1 .. c : \E e :
         /\ cmap \in Seq(0 .. (m - 1))
         /\ EncoderLists(e, cmap, m)
         /\ MoveToFrontTransform(cmap) = [n \in 1 .. L |-> IndexOf(e[n - 1], cmap[n]) - 1]
  BY TransformIs
<1>1. PICK e :
         /\ cmap \in Seq(0 .. (m - 1))
         /\ EncoderLists(e, cmap, m)
         /\ MoveToFrontTransform(cmap) = [n \in 1 .. L |-> IndexOf(e[n - 1], cmap[n]) - 1]
  BY <1>0
<1>2. L \in Nat /\ m \in Nat /\ \A n \in 1 .. L : cmap[n] \in 0 .. (m - 1)
  BY <1>1
<1>3. \A n \in 0 .. L : e[n] \in Lists(m)
  BY <1>1 DEF EncoderLists
<1> DEFINE p(n) == IndexOf(e[n - 1], cmap[n])
<1>4. ASSUME NEW n \in 1 .. L
      PROVE  p(n) \in 1 .. m /\ e[n - 1][p(n)] = cmap[n]
  <2>1. n - 1 \in 0 .. L
    BY <1>2
  <2>2. m \in Nat /\ e[n - 1] \in Lists(m) /\ cmap[n] \in 0 .. (m - 1)
    BY <1>2, <1>3, <2>1
  <2> HIDE DEF L, values
  <2> QED
    BY ONLY <2>2, IndexIs DEF p
<1>5. values = [n \in 1 .. L |-> p(n) - 1]
  BY <1>1
<1> HIDE DEF p
<1>6. values \in Seq(0 .. (c - 1)) /\ Len(values) = L
      /\ \A n \in 1 .. L : values[n] + 1 = p(n) /\ p(n) \in 1 .. c
  <2>1. \A n \in 1 .. L : p(n) - 1 \in 0 .. (c - 1) /\ p(n) \in 1 .. c /\ (p(n) - 1) + 1 = p(n)
    BY <1>4
  <2>2. values \in [1 .. L -> 0 .. (c - 1)]
    BY <1>5, <2>1
  <2>3. values \in Seq(0 .. (c - 1)) /\ Len(values) = L
    <3> HIDE DEF values, L
    <3> QED
      BY <1>2, <2>2
  <2>4. \A n \in 1 .. L : values[n] + 1 = p(n)
    BY <1>5, <2>1
  <2> QED
    BY <2>1, <2>3, <2>4
<1>7. PICK d : /\ DecoderLists(d, values, c)
               /\ \A size : ReadMap(sent, size, c) = [n \in 1 .. Len(values) |-> d[n - 1][values[n] + 1]]
  BY <1>6, ReadMapIs
<1>8. d[0] = Sorted(c) /\ \A n \in 1 .. L : d[n] = ToFront(d[n - 1], p(n)) /\ d[n - 1] \in [1 .. c -> Nat]
  <2>1. \A n \in 1 .. L : n - 1 \in 0 .. L
    BY <1>2
  <2> QED
    BY <1>6, <1>7, <2>1 DEF DecoderLists
<1> HIDE DEF values
<1> DEFINE P == {n \in 0 .. L : \A k \in 1 .. m : d[n][k] = e[n][k]}
<1>9. 0 \in P
  <2>1. e[0] = Sorted(m) /\ \A k \in 1 .. m : k \in 1 .. c
    BY <1>1 DEF EncoderLists
  <2> QED
    BY <1>2, <1>8, <2>1 DEF Sorted
<1>10. ASSUME NEW n \in 0 .. (L - 1), n \in P
       PROVE  n + 1 \in P
  <2> DEFINE q == p(n + 1)
  <2>1. n + 1 \in 1 .. L /\ n + 1 \in 0 .. L /\ (n + 1) - 1 = n /\ n \in 0 .. L
    BY <1>2
  <2>2. d[n + 1] = ToFront(d[n], q) /\ d[n] \in [1 .. c -> Nat]
    BY <1>8, <2>1
  <2>3. e[n + 1] = ToFront(e[n], q)
    <3>1. e[n + 1] = Used(e[n], cmap[n + 1])
      BY <1>1, <2>1 DEF EncoderLists
    <3> QED
      BY <3>1, <2>1 DEF Used, p
  <2>4. q \in 1 .. m /\ q \in 1 .. c
    BY <1>4, <2>1
  <2>5. e[n] \in [1 .. m -> Nat]
    <3>1. e[n] \in [1 .. m -> 0 .. (m - 1)]
      BY <1>3, <2>1 DEF Lists
    <3> QED
      BY <3>1, <1>2
  <2>6. \A k \in 1 .. m : d[n][k] = e[n][k]
    BY <1>10
  <2> HIDE DEF q
  <2> DEFINE a == d[n]  b == e[n]
  <2>7. a \in [1 .. c -> Nat] /\ b \in [1 .. m -> Nat] /\ \A k \in 1 .. m : a[k] = b[k]
    BY <2>2, <2>5, <2>6
  <2> HIDE DEF a, b
  <2>8. /\ ToFront(a, q)[1] = a[q]
        /\ \A j \in 2 .. c : ToFront(a, q)[j] = IF j <= q THEN a[j - 1] ELSE a[j]
    BY <2>4, <2>7, ToFrontType
  <2>9. /\ ToFront(b, q)[1] = b[q]
        /\ \A j \in 2 .. m : ToFront(b, q)[j] = IF j <= q THEN b[j - 1] ELSE b[j]
    BY <1>2, <2>4, <2>7, ToFrontType
  <2>10. ASSUME NEW k \in 1 .. m
         PROVE  ToFront(a, q)[k] = ToFront(b, q)[k]
    <3>1. CASE k = 1
      BY <2>4, <2>7, <2>8, <2>9, <3>1
    <3>2. CASE k # 1
      <4>1. k \in 2 .. c /\ k \in 2 .. m /\ k - 1 \in 1 .. m
        BY <3>2
      <4>2. a[k - 1] = b[k - 1] /\ a[k] = b[k]
        BY <2>7, <4>1
      <4> QED
        BY <2>8, <2>9, <4>1, <4>2
    <3> QED
      BY <3>1, <3>2
  <2> QED
    BY <2>1, <2>2, <2>3, <2>10 DEF a, b
<1>11. \A n \in 0 .. L : n \in P
  <2> HIDE DEF P, L
  <2> QED
    BY <1>2, <1>9, <1>10, UpTo
<1>12. ASSUME NEW n \in 1 .. L
       PROVE  d[n - 1][values[n] + 1] = cmap[n]
  <2>1. n - 1 \in P
    <3>1. n - 1 \in 0 .. L
      BY <1>2
    <3> HIDE DEF P
    <3> QED
      BY <1>11, <3>1
  <2>2. p(n) \in 1 .. m /\ e[n - 1][p(n)] = cmap[n]
    BY <1>4
  <2>3. d[n - 1][p(n)] = e[n - 1][p(n)]
    BY <2>1, <2>2
  <2>4. values[n] + 1 = p(n)
    BY <1>6
  <2> QED
    BY <2>2, <2>3, <2>4
<1>13. cmap = [n \in 1 .. L |-> cmap[n]]
  OBVIOUS
<1> QED
  BY <1>6, <1>7, <1>12, <1>13

-----------------------------------------------------------------------------
(* Runs of zeros.                                                             *)
LEMMA ZerosAre ==
    ASSUME NEW values \in Seq(Nat), NEW i \in 1 .. Len(values)
    PROVE  /\ Zeros(values, i) \in 0 .. (Len(values) + 1 - i)
           /\ values[i] = 0 => Zeros(values, i) > 0
           /\ \A k \in i .. (i + Zeros(values, i) - 1) : values[k] = 0
<1> DEFINE L == Len(values)
           Ends(j) == /\ j > L \/ values[j] # 0
                      /\ \A k \in i .. (j - 1) : values[k] = 0
           T == {j \in i .. (L + 1) : j > L \/ values[j] # 0}
           end == CHOOSE j \in i .. (L + 1) : Ends(j)
<1>1. L \in Nat /\ \A k \in 1 .. L : values[k] \in Nat
  OBVIOUS
<1>2. PICK j \in T : \A m \in T : j <= m
  <2>1. L + 1 \in T
    BY <1>1
  <2>2. T \in SUBSET Nat /\ T # {}
    BY <1>1, <2>1
  <2> HIDE DEF T
  <2> QED
    BY <2>2, LeastNumber
<1>3. \A k \in i .. (j - 1) : values[k] = 0
  <2>1. ASSUME NEW k \in i .. (j - 1)
        PROVE  values[k] = 0
    <3>1. k \in i .. (L + 1) /\ k \notin T
      BY <1>1, <1>2
    <3> QED
      BY <3>1
  <2> QED
    BY <2>1
<1>4. \E m \in i .. (L + 1) : Ends(m)
  BY <1>2, <1>3
<1>5. end \in i .. (L + 1) /\ Ends(end)
  <2> HIDE DEF Ends
  <2> QED
    BY <1>4
<1>6. Zeros(values, i) = end - i
  BY DEF Zeros
<1> HIDE DEF end, L
<1> DEFINE r == Zeros(values, i)
<1>7. r = end - i
  BY <1>6
<1> HIDE DEF r
<1>8. r \in 0 .. (L + 1 - i) /\ i + r - 1 = end - 1
  BY <1>1, <1>5, <1>7
<1>9. values[i] = 0 => r > 0
  <2> SUFFICES ASSUME values[i] = 0 PROVE r > 0
    OBVIOUS
  <2>1. i <= L
    BY DEF L
  <2>2. end # i
    BY <1>1, <1>5, <2>1
  <2> QED
    BY <1>1, <1>5, <1>7, <2>2
<1>10. \A k \in i .. (i + r - 1) : values[k] = 0
  BY <1>5, <1>8
<1> QED
  BY <1>8, <1>9, <1>10 DEF r, L

(* The longest run has a number of bits.                                     *)
LEMMA PrefixIs ==
    ASSUME NEW values \in Seq(Nat), values # <<>>
    PROVE  RunPrefix(values) \in Nat
<1> DEFINE L == Len(values)
           T == {Zeros(values, i) : i \in 1 .. L}
           longest == Max(T)
<1>1. L \in Nat /\ L # 0
  OBVIOUS
<1>2. T \in SUBSET (0 .. L) /\ T # {}
  <2>1. ASSUME NEW i \in 1 .. L
        PROVE  Zeros(values, i) \in 0 .. L
    <3> DEFINE z == Zeros(values, i)
    <3>1. z \in 0 .. (L + 1 - i)
      BY ZerosAre
    <3> HIDE DEF z
    <3>2. z \in 0 .. L
      BY <1>1, <3>1
    <3> QED
      BY <3>2 DEF z
  <2>2. 1 \in 1 .. L
    BY <1>1
  <2> QED
    BY <2>1, <2>2
<1>3. longest \in Nat
  <2> HIDE DEF T, L
  <2>1. Max(T) \in T
    BY <1>1, <1>2, GreatestIs
  <2>2. Max(T) \in 0 .. L
    BY <1>2, <2>1
  <2> QED
    BY <1>1, <2>2
<1>4. RunPrefix(values) = IF longest = 0 THEN 0 ELSE Smaller(Log2Floor(longest), MaxRunPrefix)
  BY DEF RunPrefix
<1> HIDE DEF longest
<1>5. longest # 0 => Log2Floor(longest) \in Nat
  BY <1>3, LogarithmIs
<1> QED
  BY <1>3, <1>4, <1>5, BitsAssumption DEF Smaller

Nulls(n) == [k \in 1 .. n |-> 0]
Code == [symbol : Nat, extra : Nat]

(* A run that is not too long is read as it was.                              *)
LEMMA RunIsRead ==
    ASSUME NEW prefix \in Nat, NEW r \in 1 .. (2 * Pow2[prefix] - 1)
    PROVE  RunCode(r) \in Code /\ CodeValues(RunCode(r), prefix) = Nulls(r)
<1> DEFINE g == Log2Floor(r)
           p == Pow2[g]
           q == Pow2[prefix]
<1>1. q \in Nat \ {0} /\ r \in Nat \ {0} /\ r <= 2 * q - 1
  <2>1. q \in Nat \ {0} /\ r \in 1 .. (2 * q - 1)
    BY Powers
  <2> HIDE DEF q
  <2> QED
    BY <2>1
<1>2. g \in Nat /\ p <= r /\ r < Pow2[g + 1]
  BY <1>1, LogarithmIs
<1>3. p \in Nat \ {0} /\ Pow2[g + 1] = 2 * p
  BY <1>2, Powers
<1>4. g <= prefix
  <2> SUFFICES ASSUME ~ (g <= prefix) PROVE FALSE
    OBVIOUS
  <2>1. prefix + 1 \in Nat /\ prefix + 1 <= g
    BY <1>2
  <2>2. Pow2[prefix + 1] <= p /\ Pow2[prefix + 1] = 2 * q
    <3> HIDE DEF g
    <3> QED
      BY <1>2, <2>1, SmallerPower, Powers
  <2> HIDE DEF p, q, g
  <2> QED
    BY <1>1, <1>2, <1>3, <2>2
<1> DEFINE c == RunCode(r)
<1>5. c.symbol = g /\ c.extra = r - p /\ c = [symbol |-> g, extra |-> r - p]
  BY DEF RunCode
<1>6. r - p \in Nat
  <2> HIDE DEF p, q, g
  <2> QED
    BY <1>1, <1>2, <1>3
<1>7. c \in Code
  BY <1>2, <1>5, <1>6 DEF Code
<1>8. CASE g = 0
  <2>1. p = 1
    BY <1>8, Powers
  <2>2. r = 1
    <3> HIDE DEF p, q, g
    <3> QED
      BY <1>1, <1>2, <1>3, <2>1
  <2>3. CodeValues(c, prefix) = <<0>>
    BY <1>5, <1>8 DEF CodeValues
  <2>4. Nulls(1) = <<0>>
    BY DEF Nulls
  <2> QED
    BY <1>7, <2>2, <2>3, <2>4
<1>9. CASE g # 0
  <2>1. CodeValues(c, prefix) = [k \in 1 .. (p + (r - p)) |-> 0]
    BY <1>4, <1>5, <1>9 DEF CodeValues
  <2>2. p + (r - p) = r
    <3> HIDE DEF p, q, g
    <3> QED
      BY <1>1, <1>3
  <2> QED
    BY <1>7, <2>1, <2>2 DEF Nulls
<1> QED
  BY <1>8, <1>9

(* What FlattenSeq joins.                                                     *)
Joins(f, s) == /\ f \in [0 .. Len(s) -> Seq(Nat)] /\ f[0] = <<>>
               /\ \A n \in 1 .. Len(s) : f[n] = f[n - 1] \o s[n]

(* FlattenSeq is the last of the sequences that join s one by one.           *)
LEMMA FlattenIs ==
    ASSUME NEW s \in Seq(Seq(Nat)), NEW f, Joins(f, s)
    PROVE  FlattenSeq(s) = f[Len(s)]
<1> DEFINE L == Len(s)
           G(g) == [i \in 1 .. L |-> IF i = 1 THEN s[i] ELSE g[i - 1] \o s[i]]
           h == CHOOSE g : g = G(g)
           e == [i \in 1 .. L |-> f[i]]
<1>1. L \in Nat /\ \A i \in 1 .. L : s[i] \in Seq(Nat)
  BY ElementOfSeq
<1>2. f[0] = <<>> /\ \A n \in 1 .. L : f[n] = f[n - 1] \o s[n]
  BY DEF Joins
<1>3. FlattenSeq(s) = IF L = 0 THEN s ELSE h[L]
  BY DEF FlattenSeq
<1>4. CASE L = 0
  <2>1. s = <<>>
    BY <1>4
  <2> QED
    BY <1>2, <1>3, <1>4, <2>1
<1>5. CASE L # 0
  <2>1. ASSUME NEW i \in 1 .. L
        PROVE  e[i] = IF i = 1 THEN s[i] ELSE e[i - 1] \o s[i]
    <3>1. CASE i = 1
      <4>0. 1 \in 1 .. L /\ 1 - 1 = 0
        BY <3>1
      <4>1. f[1] = <<>> \o s[1] /\ s[1] \in Seq(Nat)
        BY <1>1, <1>2, <4>0
      <4>2. f[1] = s[1]
        BY <4>1, ConcatEmptySeq
      <4> QED
        BY <3>1, <4>2
    <3>2. CASE i # 1
      <4>1. i - 1 \in 1 .. L
        BY <3>2
      <4> QED
        BY <1>2, <3>2, <4>1
    <3> QED
      BY <3>1, <3>2
  <2>2. e = G(e)
    <3>1. e = [i \in 1 .. L |-> e[i]]
      OBVIOUS
    <3> HIDE DEF e
    <3> QED
      BY <2>1, <3>1
  <2>3. h = G(h)
    <3> HIDE DEF e
    <3> QED
      BY <2>2
  <2> HIDE DEF h
  <2> DEFINE n == L - 1
             P == {k \in 0 .. n : h[k + 1] = e[k + 1]}
  <2>4. n \in Nat /\ n + 1 = L
    BY <1>1, <1>5
  <2>5. 0 \in P
    <3>1. 1 \in 1 .. L /\ 0 + 1 = 1 /\ 0 \in 0 .. n
      BY <2>4
    <3>2. h[1] = s[1]
      BY <2>3, <3>1
    <3>3. e[1] = s[1]
      <4> HIDE DEF e
      <4> QED
        BY <2>1, <3>1
    <3> QED
      BY <3>1, <3>2, <3>3
  <2>6. ASSUME NEW k \in 0 .. (n - 1), k \in P
        PROVE  k + 1 \in P
    <3>1. /\ (k + 1) + 1 \in 1 .. L /\ (k + 1) + 1 # 1 /\ ((k + 1) + 1) - 1 = k + 1
          /\ k + 1 \in 0 .. n
      BY <2>4
    <3>2. h[(k + 1) + 1] = h[k + 1] \o s[(k + 1) + 1]
      BY <2>3, <3>1
    <3>3. e[(k + 1) + 1] = e[k + 1] \o s[(k + 1) + 1]
      <4> HIDE DEF e
      <4> QED
        BY <2>1, <3>1
    <3> QED
      BY <2>6, <3>1, <3>2, <3>3
  <2>7. \A k \in 0 .. n : k \in P
    <3> HIDE DEF P, n
    <3> QED
      BY <2>4, <2>5, <2>6, UpTo
  <2>8. h[L] = e[L]
    <3>1. n \in P
      <4>1. n \in 0 .. n
        BY <2>4
      <4> HIDE DEF P
      <4> QED
        BY <2>7, <4>1
    <3> QED
      BY <2>4, <3>1
  <2>9. e[L] = f[L]
    <3>1. L \in 1 .. L
      BY <2>4
    <3> QED
      BY <3>1
  <2> QED
    BY <1>3, <1>5, <2>8, <2>9
<1> QED
  BY <1>4, <1>5

(* The sequences that join s one by one exist.                               *)
LEMMA JoinsExist ==
    ASSUME NEW s \in Seq(Seq(Nat))
    PROVE  \E f : Joins(f, s)
<1> DEFINE L == Len(s)
           S == Seq(Nat)
           first == <<>>
           step == [x \in S \X (1 .. L) |-> x[1] \o s[x[2]]]
<1>1. L \in Nat /\ first \in S /\ \A i \in 1 .. L : s[i] \in S
  BY ElementOfSeq
<1>2. \A a \in S, k \in 1 .. L : step[<<a, k>>] = a \o s[k] /\ a \o s[k] \in S
  <2>1. ASSUME NEW a \in S, NEW k \in 1 .. L
        PROVE  step[<<a, k>>] = a \o s[k] /\ a \o s[k] \in S
    <3>1. s[k] \in Seq(Nat) /\ a \in Seq(Nat)
      BY <1>1
    <3>2. a \o s[k] \in S
      BY <3>1, ConcatProperties
    <3> QED
      BY <3>2
  <2> QED
    BY <2>1
<1>3. step \in [S \X (1 .. L) -> S]
  <2>1. \A x \in S \X (1 .. L) : step[x] \in S
    BY <1>2
  <2> QED
    BY <2>1
<1> HIDE DEF step, first, S, L
<1>4. Steps(S, first, L, step)
  BY <1>1, <1>3, StepsExist
<1>5. PICK f \in [0 .. L -> S] : f[0] = first /\ \A n \in 1 .. L : f[n] = step[<<f[n - 1], n>>]
  BY <1>4 DEF Steps
<1>6. \A n \in 1 .. L : f[n] = f[n - 1] \o s[n]
  <2>1. \A n \in 1 .. L : n - 1 \in 0 .. L
    BY <1>1
  <2> QED
    BY <1>2, <1>5, <2>1
<1> QED
  BY <1>5, <1>6 DEF Joins, S, first, L

(* Joining is associative.                                                   *)
LEMMA JoinAssociates ==
    ASSUME NEW a \in Seq(Nat), NEW b \in Seq(Nat), NEW c \in Seq(Nat)
    PROVE  (a \o b) \o c = a \o (b \o c)
  BY ConcatAssociative

(* A sequence more in front.                                                  *)
LEMMA FlattenFirst ==
    ASSUME NEW a \in Seq(Nat), NEW s \in Seq(Seq(Nat))
    PROVE  /\ FlattenSeq(<<a>> \o s) = a \o FlattenSeq(s)
           /\ FlattenSeq(s) \in Seq(Nat)
<1> DEFINE L == Len(s)
           t == <<a>> \o s
<1>1. PICK f : Joins(f, s)
  BY JoinsExist
<1>2. L \in Nat /\ f \in [0 .. L -> Seq(Nat)] /\ f[0] = <<>>
      /\ \A n \in 1 .. L : f[n] = f[n - 1] \o s[n] /\ s[n] \in Seq(Nat)
  <2>1. \A n \in 1 .. L : s[n] \in Seq(Nat)
    BY ElementOfSeq
  <2>2. L \in Nat
    OBVIOUS
  <2> QED
    BY <1>1, <2>1, <2>2 DEF Joins
<1>3. t \in Seq(Seq(Nat)) /\ Len(t) = L + 1 /\ t[1] = a /\ \A n \in 1 .. L : t[n + 1] = s[n]
  <2>1. <<a>> \in Seq(Seq(Nat)) /\ Len(<<a>>) = 1 /\ <<a>>[1] = a
    OBVIOUS
  <2>2. t \in Seq(Seq(Nat)) /\ Len(t) = 1 + L
        /\ \A i \in 1 .. (1 + L) : t[i] = IF i <= 1 THEN <<a>>[i] ELSE s[i - 1]
    BY <2>1, ConcatProperties
  <2> HIDE DEF t, L
  <2>3. 1 \in 1 .. (1 + L) /\ 1 + L = L + 1
    BY <1>2
  <2>4. \A n \in 1 .. L : n + 1 \in 1 .. (1 + L) /\ ~ (n + 1 <= 1) /\ (n + 1) - 1 = n
    BY <1>2
  <2> QED
    BY <2>1, <2>2, <2>3, <2>4
<1> DEFINE h == [n \in 0 .. (L + 1) |-> IF n = 0 THEN <<>> ELSE a \o f[n - 1]]
<1>4. h[0] = <<>> /\ \A n \in 0 .. L : h[n + 1] = a \o f[n]
  <2>1. 0 \in 0 .. (L + 1)
    BY <1>2
  <2>2. \A n \in 0 .. L : n + 1 \in 0 .. (L + 1) /\ n + 1 # 0 /\ (n + 1) - 1 = n
    BY <1>2
  <2> QED
    BY <2>1, <2>2
<1>5. h \in [0 .. (L + 1) -> Seq(Nat)]
  <2>1. ASSUME NEW n \in 0 .. (L + 1)
        PROVE  (IF n = 0 THEN <<>> ELSE a \o f[n - 1]) \in Seq(Nat)
    <3>0. n # 0 => n - 1 \in 0 .. L
      BY <1>2
    <3>1. n # 0 => f[n - 1] \in Seq(Nat)
      BY <1>2, <3>0
    <3>2. n # 0 => a \o f[n - 1] \in Seq(Nat)
      BY <3>1, ConcatProperties
    <3> QED
      BY <3>2
  <2> QED
    BY <2>1
<1> HIDE DEF h, t
<1>6. ASSUME NEW n \in 1 .. (L + 1)
      PROVE  h[n] = h[n - 1] \o t[n]
  <2>1. CASE n = 1
    <3>1. h[1] = a \o <<>> /\ h[0] = <<>> /\ t[1] = a
      <4>1. 0 \in 0 .. L /\ 0 + 1 = 1
        BY <1>2
      <4> QED
        BY <1>2, <1>3, <1>4, <4>1
    <3>2. a \o <<>> = a /\ <<>> \o a = a
      BY ConcatEmptySeq
    <3> QED
      BY <2>1, <3>1, <3>2, SMTT(60)
  <2>2. CASE n # 1
    <3> DEFINE m == n - 1
    <3>1. m \in 1 .. L /\ m + 1 = n /\ m - 1 \in 0 .. L /\ (m - 1) + 1 = m /\ m \in 0 .. L
      BY <1>2, <2>2
    <3> HIDE DEF m
    <3>2. h[n] = a \o f[m] /\ h[m] = a \o f[m - 1] /\ t[n] = s[m]
      BY <1>3, <1>4, <3>1
    <3>3. f[m] = f[m - 1] \o s[m] /\ f[m - 1] \in Seq(Nat) /\ s[m] \in Seq(Nat)
      BY <1>2, <3>1
    <3>4. (a \o f[m - 1]) \o s[m] = a \o (f[m - 1] \o s[m])
      <4> DEFINE x == f[m - 1]  y == s[m]
      <4>1. x \in Seq(Nat) /\ y \in Seq(Nat)
        BY <3>3
      <4> HIDE DEF x, y
      <4>2. (a \o x) \o y = a \o (x \o y)
        BY <4>1, JoinAssociates
      <4> QED
        BY <4>2 DEF x, y
    <3>5. n - 1 = m
      BY <3>1
    <3> QED
      BY <3>2, <3>3, <3>4, <3>5
  <2> QED
    BY <2>1, <2>2
<1>7. Joins(h, t)
  BY <1>3, <1>4, <1>5, <1>6 DEF Joins
<1>8. FlattenSeq(t) = h[L + 1]
  BY <1>3, <1>7, FlattenIs
<1>9. FlattenSeq(s) = f[L]
  BY <1>1, FlattenIs
<1>10. h[L + 1] = a \o f[L] /\ f[L] \in Seq(Nat)
  <2>1. L \in 0 .. L
    BY <1>2
  <2> QED
    BY <1>2, <1>4, <2>1
<1> QED
  BY <1>8, <1>9, <1>10 DEF t

-----------------------------------------------------------------------------
(* Run lengths are read back.                                                 *)
ReadOf(cs, prefix) == FlattenSeq([n \in 1 .. Len(cs) |-> CodeValues(cs[n], prefix)])

(* A code stands for a sequence of numbers.                                  *)
LEMMA CodeValuesType ==
    ASSUME NEW prefix \in Nat, NEW c \in Code
    PROVE  CodeValues(c, prefix) \in Seq(Nat)
<1>1. c.symbol \in Nat /\ c.extra \in Nat
  BY DEF Code
<1>2. CASE c.symbol = 0
  <2>1. <<0>> \in Seq(Nat)
    OBVIOUS
  <2> QED
    BY <1>2, <2>1 DEF CodeValues
<1>3. CASE c.symbol # 0 /\ c.symbol <= prefix
  <2> DEFINE n == Pow2[c.symbol] + c.extra
  <2>1. n \in Nat
    BY <1>1, Powers
  <2>2. CodeValues(c, prefix) = [k \in 1 .. n |-> 0]
    BY <1>3 DEF CodeValues
  <2> HIDE DEF n
  <2>3. [k \in 1 .. n |-> 0] \in Seq(Nat)
    BY <2>1
  <2> QED
    BY <2>2, <2>3
<1>4. CASE c.symbol # 0 /\ ~ (c.symbol <= prefix)
  <2> DEFINE v == c.symbol - prefix
  <2>1. v \in Nat
    BY <1>1, <1>4
  <2>2. CodeValues(c, prefix) = <<v>>
    BY <1>4 DEF CodeValues
  <2> HIDE DEF v
  <2> QED
    BY <2>1, <2>2
<1> QED
  BY <1>2, <1>3, <1>4

(* The values of codes are those of the first code, then those of the rest.  *)
LEMMA ReadFirst ==
    ASSUME NEW prefix \in Nat, NEW c \in Code, NEW cs \in Seq(Code)
    PROVE  /\ <<c>> \o cs \in Seq(Code)
           /\ ReadOf(<<c>> \o cs, prefix) = CodeValues(c, prefix) \o ReadOf(cs, prefix)
           /\ ReadOf(cs, prefix) \in Seq(Nat)
           /\ CodeValues(c, prefix) \in Seq(Nat)
<1> DEFINE L == Len(cs)
           ds == <<c>> \o cs
           s == [n \in 1 .. L |-> CodeValues(cs[n], prefix)]
           t == [n \in 1 .. Len(ds) |-> CodeValues(ds[n], prefix)]
           a == CodeValues(c, prefix)
<1>1. L \in Nat /\ \A n \in 1 .. L : cs[n] \in Code
  BY ElementOfSeq
<1>2. ds \in Seq(Code) /\ Len(ds) = L + 1 /\ ds[1] = c /\ \A n \in 1 .. L : ds[n + 1] = cs[n]
  <2>1. <<c>> \in Seq(Code) /\ Len(<<c>>) = 1 /\ <<c>>[1] = c
    OBVIOUS
  <2>2. ds \in Seq(Code) /\ Len(ds) = 1 + L
        /\ \A i \in 1 .. (1 + L) : ds[i] = IF i <= 1 THEN <<c>>[i] ELSE cs[i - 1]
    BY <2>1, ConcatProperties
  <2> HIDE DEF ds, L
  <2>3. 1 \in 1 .. (1 + L) /\ 1 + L = L + 1
    BY <1>1
  <2>4. \A n \in 1 .. L : n + 1 \in 1 .. (1 + L) /\ ~ (n + 1 <= 1) /\ (n + 1) - 1 = n
    BY <1>1
  <2> QED
    BY <2>1, <2>2, <2>3, <2>4
<1>3. a \in Seq(Nat)
  BY CodeValuesType
<1>4. s \in Seq(Seq(Nat)) /\ Len(s) = L /\ \A n \in 1 .. L : s[n] = CodeValues(cs[n], prefix)
  <2>1. \A n \in 1 .. L : CodeValues(cs[n], prefix) \in Seq(Nat)
    BY <1>1, CodeValuesType
  <2>2. s \in [1 .. L -> Seq(Nat)]
    BY <2>1
  <2> HIDE DEF L
  <2>3. s \in Seq(Seq(Nat)) /\ Len(s) = L
    <3> HIDE DEF s
    <3> QED
      BY <1>1, <2>2
  <2> QED
    BY <2>3
<1> HIDE DEF ds, L, s
<1>5. t = <<a>> \o s
  <2>1. <<a>> \in Seq(Seq(Nat)) /\ Len(<<a>>) = 1 /\ <<a>>[1] = a
    BY <1>3
  <2> DEFINE u == <<a>> \o s
  <2>2. u \in Seq(Seq(Nat)) /\ Len(u) = 1 + L
        /\ \A i \in 1 .. (1 + L) : u[i] = IF i <= 1 THEN <<a>>[i] ELSE s[i - 1]
    BY <1>4, <2>1, ConcatProperties
  <2> HIDE DEF u
  <2>3. u = [i \in 1 .. (1 + L) |-> u[i]]
    BY <2>2
  <2>4. ASSUME NEW i \in 1 .. (1 + L)
        PROVE  u[i] = CodeValues(ds[i], prefix)
    <3>1. CASE i = 1
      BY <1>2, <2>1, <2>2, <3>1
    <3>2. CASE i # 1
      <4>1. i - 1 \in 1 .. L /\ ~ (i <= 1) /\ (i - 1) + 1 = i
        BY <1>1, <3>2
      <4>2. u[i] = s[i - 1]
        BY <2>2, <4>1
      <4>3. s[i - 1] = CodeValues(cs[i - 1], prefix) /\ ds[i] = cs[i - 1]
        BY <1>2, <1>4, <4>1
      <4> QED
        BY <4>2, <4>3
    <3> QED
      BY <3>1, <3>2
  <2>5. 1 + L = Len(ds)
    BY <1>1, <1>2
  <2> QED
    BY <2>3, <2>4, <2>5 DEF u
<1>6. FlattenSeq(<<a>> \o s) = a \o FlattenSeq(s) /\ FlattenSeq(s) \in Seq(Nat)
  <2> HIDE DEF a
  <2> QED
    BY <1>3, <1>4, FlattenFirst
<1>7. ReadOf(ds, prefix) = FlattenSeq(t) /\ ReadOf(cs, prefix) = FlattenSeq(s)
  BY DEF ReadOf, s, L
<1> QED
  BY <1>2, <1>3, <1>5, <1>6, <1>7 DEF ds

(* No codes, no values.                                                      *)
LEMMA ReadNothing ==
    ASSUME NEW prefix
    PROVE  ReadOf(<<>>, prefix) = <<>>
<1> DEFINE s == [n \in 1 .. Len(<<>>) |-> CodeValues(<<>>[n], prefix)]
<1>1. s = <<>>
  OBVIOUS
<1>2. FlattenSeq(<<>>) = <<>>
  BY DEF FlattenSeq
<1> QED
  BY <1>1, <1>2 DEF ReadOf

Reps(values, prefix, i) == Smaller(Zeros(values, i), 2 * Pow2[prefix] - 1)

(* A run of zeros is cut where one code can say it, and holds zeros only.    *)
LEMMA RepsAre ==
    ASSUME NEW values \in Seq(Nat), NEW prefix \in Nat,
           NEW i \in 1 .. Len(values), values[i] = 0
    PROVE  /\ Reps(values, prefix, i) \in 1 .. (2 * Pow2[prefix] - 1)
           /\ Reps(values, prefix, i) \in 1 .. (Len(values) + 1 - i)
           /\ \A k \in i .. (i + Reps(values, prefix, i) - 1) : values[k] = 0
<1> DEFINE L == Len(values)
           z == Zeros(values, i)
           q == Pow2[prefix]
           r == Reps(values, prefix, i)
<1>1. L \in Nat
  OBVIOUS
<1>2. z \in 0 .. (L + 1 - i) /\ z > 0 /\ \A k \in i .. (i + z - 1) : values[k] = 0
  BY ZerosAre
<1>3. q \in Nat \ {0}
  BY Powers
<1>4. r = IF z < 2 * q - 1 THEN z ELSE 2 * q - 1
  BY DEF Reps, Smaller
<1> HIDE DEF L, z, q, r
<1>5. r \in 1 .. (2 * q - 1) /\ r \in 1 .. (L + 1 - i) /\ r <= z
  BY <1>1, <1>2, <1>3, <1>4
<1>6. \A k \in i .. (i + r - 1) : k \in i .. (i + z - 1)
  BY <1>1, <1>2, <1>5
<1> QED
  BY <1>2, <1>5, <1>6 DEF L, q, r

\* What RunLengthCodeZeros makes of the values from i on, by what comes later.
Coding(values, prefix, g, i) ==
    IF i > Len(values) THEN <<>>
    ELSE IF values[i] # 0
         THEN <<[symbol |-> values[i] + prefix, extra |-> 0]>> \o g[i + 1]
    ELSE <<RunCode(Reps(values, prefix, i))>> \o g[i + Reps(values, prefix, i)]

(* The codes from each position on exist, as a function.                     *)
LEMMA CodingExists ==
    ASSUME NEW values \in Seq(Nat), NEW prefix \in Nat
    PROVE  \E g : g = [i \in 1 .. (Len(values) + 1) |-> Coding(values, prefix, g, i)]
<1> DEFINE L == Len(values)
           B(g, i) == Coding(values, prefix, g, i)
           To(g, m) == g = [i \in (L + 1 - m) .. (L + 1) |-> B(g, i)]
           P == {m \in 0 .. L : \E g : To(g, m)}
<1>1. L \in Nat
  OBVIOUS
<1>2. 0 \in P
  <2> DEFINE g == [i \in (L + 1 - 0) .. (L + 1) |-> <<>>]
  <2>1. \A i \in (L + 1 - 0) .. (L + 1) : B(g, i) = <<>>
    <3>1. \A i \in (L + 1 - 0) .. (L + 1) : i > L
      BY <1>1
    <3> QED
      BY <3>1 DEF Coding
  <2>2. To(g, 0)
    <3> HIDE DEF B
    <3> QED
      BY <2>1
  <2> HIDE DEF g, To
  <2>3. \E h : To(h, 0)
    BY <2>2
  <2>4. 0 \in 0 .. L
    BY <1>1
  <2> QED
    BY <2>3, <2>4
<1>3. ASSUME NEW m \in 0 .. (L - 1), m \in P
      PROVE  m + 1 \in P
  <2>1. PICK g : To(g, m)
    BY <1>3
  <2> DEFINE j == L - m
             h == [i \in j .. (L + 1) |-> IF i = j THEN B(g, j) ELSE g[i]]
  <2>2. /\ j \in 1 .. L /\ j = L + 1 - (m + 1) /\ j + 1 = L + 1 - m
        /\ m + 1 \in 0 .. L
    BY <1>1
  <2>3. \A i \in (j + 1) .. (L + 1) : i \in j .. (L + 1) /\ i # j /\ h[i] = g[i] /\ g[i] = B(g, i)
    <3>1. \A i \in (j + 1) .. (L + 1) : i \in j .. (L + 1) /\ i # j
      BY <1>1, <2>2
    <3>2. \A i \in (j + 1) .. (L + 1) : g[i] = B(g, i)
      <4> HIDE DEF B
      <4> QED
        BY <2>1, <2>2
    <3> HIDE DEF B
    <3> QED
      BY <3>1, <3>2
  <2>4. h[j] = B(g, j)
    <3>1. j \in j .. (L + 1)
      BY <1>1, <2>2
    <3> HIDE DEF B
    <3> QED
      BY <3>1
  <2> HIDE DEF h
  <2>5. ASSUME NEW i \in j .. (L + 1)
        PROVE  B(h, i) = B(g, i)
    <3>0. j \in Nat
      BY <2>2
    <3>1. CASE i > L
      BY <3>1 DEF Coding
    <3>2. CASE ~ (i > L) /\ values[i] # 0
      <4>1. i + 1 \in (j + 1) .. (L + 1)
        BY <1>1, <2>2, <3>2
      <4>2. h[i + 1] = g[i + 1]
        BY <2>3, <4>1
      <4> QED
        BY <3>2, <4>2 DEF Coding
    <3>3. CASE ~ (i > L) /\ values[i] = 0
      <4> DEFINE r == Reps(values, prefix, i)
      <4>1. i \in 1 .. L
        BY <1>1, <2>2, <3>3
      <4>2. r \in 1 .. (L + 1 - i)
        BY <3>3, <4>1, RepsAre
      <4> HIDE DEF r
      <4>3. i + r \in (j + 1) .. (L + 1)
        BY <1>1, <2>2, <4>1, <4>2
      <4>4. h[i + r] = g[i + r]
        BY <2>3, <4>3
      <4> QED
        BY <3>3, <4>4 DEF Coding, r
    <3> QED
      BY <3>1, <3>2, <3>3
  <2>6. \A i \in j .. (L + 1) : h[i] = B(h, i)
    <3>1. \A i \in j .. (L + 1) : i = j \/ i \in (j + 1) .. (L + 1)
      BY <1>1, <2>2
    <3> HIDE DEF B
    <3> QED
      BY <2>3, <2>4, <2>5, <3>1
  <2>7. h = [i \in j .. (L + 1) |-> B(h, i)]
    <3>1. h = [i \in j .. (L + 1) |-> h[i]]
      BY DEF h
    <3> HIDE DEF B
    <3> QED
      BY <2>6, <3>1
  <2>8. To(h, m + 1)
    <3> HIDE DEF B
    <3> QED
      BY <2>2, <2>7
  <2> HIDE DEF To
  <2> QED
    BY <2>2, <2>8
<1>4. \A m \in 0 .. L : m \in P
  <2> HIDE DEF P, L
  <2> QED
    BY <1>1, <1>2, <1>3, UpTo
<1>5. PICK g : To(g, L)
  <2>1. L \in P
    <3>1. L \in 0 .. L
      BY <1>1
    <3> HIDE DEF P
    <3> QED
      BY <1>4, <3>1
  <2> HIDE DEF To
  <2> QED
    BY <2>1
<1>6. L + 1 - L = 1
  BY <1>1
<1>7. g = [i \in 1 .. (L + 1) |-> B(g, i)]
  <2> HIDE DEF B
  <2> QED
    BY <1>5, <1>6
<1> QED
  BY <1>7

\* The values from place i on.
Rest(values, i) == [k \in 1 .. (Len(values) + 1 - i) |-> values[i + k - 1]]

(* The values from i on are the first r of them, then the rest.              *)
LEMMA RestFirst ==
    ASSUME NEW values \in Seq(Nat), NEW i \in 1 .. Len(values), NEW r \in 1 .. (Len(values) + 1 - i),
           NEW first \in Seq(Nat), Len(first) = r, \A k \in 1 .. r : first[k] = values[i + k - 1]
    PROVE  first \o Rest(values, i + r) = Rest(values, i)
<1> DEFINE L == Len(values)
           n == L + 1 - i
           b == Rest(values, i + r)
           c == Rest(values, i)
<1>1. L \in Nat /\ \A k \in 1 .. L : values[k] \in Nat
  OBVIOUS
<1> HIDE DEF L
<1>2. /\ i \in 1 .. L /\ r \in 1 .. n /\ n \in Nat /\ n - r \in Nat
      /\ L + 1 - (i + r) = n - r
  BY <1>1 DEF L
<1>3. b = [k \in 1 .. (n - r) |-> values[i + r + k - 1]]
  BY <1>2 DEF Rest, L
<1>4. c = [k \in 1 .. n |-> values[i + k - 1]]
  BY DEF Rest, L
<1>5. b \in Seq(Nat) /\ Len(b) = n - r
  <2>1. \A k \in 1 .. (n - r) : values[i + r + k - 1] \in Nat
    <3>1. \A k \in 1 .. (n - r) : i + r + k - 1 \in 1 .. L
      BY <1>1, <1>2
    <3> QED
      BY <1>1, <3>1
  <2>2. b \in [1 .. (n - r) -> Nat]
    BY <1>3, <2>1
  <2> DEFINE m == n - r
  <2>3. m \in Nat /\ b \in [1 .. m -> Nat]
    BY <1>2, <2>2
  <2> HIDE DEF b, m
  <2>4. b \in Seq(Nat) /\ Len(b) = m
    BY <2>3
  <2> QED
    BY <2>4 DEF m
<1>6. c \in Seq(Nat) /\ Len(c) = n
  <2>1. \A k \in 1 .. n : values[i + k - 1] \in Nat
    <3>1. \A k \in 1 .. n : i + k - 1 \in 1 .. L
      BY <1>1, <1>2
    <3> QED
      BY <1>1, <3>1
  <2>2. c \in [1 .. n -> Nat]
    BY <1>4, <2>1
  <2> HIDE DEF c, n
  <2> QED
    BY <1>2, <2>2, SequenceOf
<1> HIDE DEF b, c, n
<1> DEFINE a == first \o b
<1>7. a \in Seq(Nat) /\ Len(a) = r + (n - r)
      /\ \A k \in 1 .. (r + (n - r)) : a[k] = IF k <= r THEN first[k] ELSE b[k - r]
  <2>1. /\ first \o b \in Seq(Nat) /\ Len(first \o b) = Len(first) + Len(b)
        /\ \A k \in 1 .. (Len(first) + Len(b)) :
              (first \o b)[k] = IF k <= Len(first) THEN first[k] ELSE b[k - Len(first)]
    BY <1>5, ConcatProperties
  <2>2. Len(first) = r /\ Len(b) = n - r
    BY <1>5
  <2> HIDE DEF a
  <2>3. a = first \o b
    BY DEF a
  <2> QED
    BY <2>1, <2>2, <2>3
<1>8. r + (n - r) = n
  BY <1>2
<1> HIDE DEF a
<1>9. ASSUME NEW k \in 1 .. n
      PROVE  a[k] = c[k]
  <2>1. CASE k <= r
    <3>1. k \in 1 .. r
      BY <1>2, <2>1
    <3> QED
      BY <1>4, <1>7, <1>8, <2>1, <3>1
  <2>2. CASE ~ (k <= r)
    <3>1. k - r \in 1 .. (n - r) /\ i + r + (k - r) - 1 = i + k - 1
      BY <1>2, <2>2
    <3>2. a[k] = b[k - r]
      BY <1>7, <1>8, <2>2
    <3>3. b[k - r] = values[i + r + (k - r) - 1]
      BY <1>3, <3>1
    <3> QED
      BY <1>4, <3>1, <3>2, <3>3
  <2> QED
    BY <2>1, <2>2
<1>10. a = c
  BY <1>6, <1>7, <1>8, <1>9, SeqEqual
<1> QED
  BY <1>10 DEF a, b, c

(* The run-length codes of a map are read as the map.                         *)
LEMMA RunsAreRead ==
    ASSUME NEW values \in Seq(Nat), values # <<>>
    PROVE  ReadValues(RunLengthCodeZeros(values)) = values
<1> DEFINE L == Len(values)
           prefix == RunPrefix(values)
           G(g) == [i \in 1 .. (L + 1) |-> Coding(values, prefix, g, i)]
           f == CHOOSE g : g = G(g)
<1>1. L \in Nat /\ L # 0 /\ \A k \in 1 .. L : values[k] \in Nat
  OBVIOUS
<1>2. prefix \in Nat
  BY PrefixIs
<1>3. RunLengthCodeZeros(values) = [prefix |-> prefix, codes |-> f[1]]
  BY DEF RunLengthCodeZeros, Coding, Reps
<1> HIDE DEF prefix
<1>4. f = G(f)
  <2>1. \E g : g = G(g)
    BY <1>2, CodingExists
  <2> HIDE DEF G
  <2> QED
    BY <2>1
<1> HIDE DEF f
<1> DEFINE Good(i) == f[i] \in Seq(Code) /\ ReadOf(f[i], prefix) = Rest(values, i)
           P == {m \in 0 .. L : \A i \in (L + 1 - m) .. (L + 1) : Good(i)}
<1>5. \A i \in 1 .. (L + 1) : f[i] = Coding(values, prefix, f, i)
  BY <1>4
<1>6. 0 \in P
  <2>1. ASSUME NEW i \in (L + 1 - 0) .. (L + 1)
        PROVE  Good(i)
    <3>1. i = L + 1 /\ i \in 1 .. (L + 1) /\ i > L
      BY <1>1
    <3>2. f[i] = <<>>
      BY <1>5, <3>1 DEF Coding
    <3>3. Rest(values, i) = <<>>
      <4>1. Len(values) + 1 - i = 0
        BY <1>1, <3>1
      <4>2. [k \in 1 .. 0 |-> values[i + k - 1]] = <<>>
        OBVIOUS
      <4> QED
        BY <4>1, <4>2 DEF Rest
    <3> QED
      BY <3>2, <3>3, ReadNothing
  <2>2. 0 \in 0 .. L
    BY <1>1
  <2> HIDE DEF Good
  <2> QED
    BY <2>1, <2>2
<1>7. ASSUME NEW m \in 0 .. (L - 1), m \in P
      PROVE  m + 1 \in P
  <2> DEFINE i == L - m
  <2>1. /\ i \in 1 .. L /\ i \in 1 .. (L + 1) /\ ~ (i > L)
        /\ i = L + 1 - (m + 1) /\ i + 1 = L + 1 - m /\ m + 1 \in 0 .. L
    BY <1>1
  <2>2. \A j \in (i + 1) .. (L + 1) : Good(j)
    <3> HIDE DEF Good
    <3> QED
      BY <1>7, <2>1
  <2> HIDE DEF i
  <2>3. ASSUME values[i] # 0
      PROVE  Good(i)
    <3> DEFINE c == [symbol |-> values[i] + prefix, extra |-> 0]
               v == values[i]
    <3>1. v \in Nat \ {0} /\ v + prefix \in Nat /\ v + prefix # 0 /\ ~ (v + prefix <= prefix)
          /\ (v + prefix) - prefix = v
      <4>1. v \in Nat \ {0}
        BY <1>1, <2>1, <2>3
      <4> HIDE DEF v
      <4> QED
        BY <1>2, <4>1
    <3>2. c \in Code /\ c.symbol = v + prefix
      BY <3>1 DEF Code
    <3>3. CodeValues(c, prefix) = <<v>>
      <4> HIDE DEF c, v
      <4> QED
        BY <3>1, <3>2 DEF CodeValues
    <3>4. f[i] = <<c>> \o f[i + 1]
      BY <1>5, <2>1, <2>3 DEF Coding
    <3>5. i + 1 \in (i + 1) .. (L + 1)
      BY <1>1, <2>1
    <3>6. f[i + 1] \in Seq(Code) /\ ReadOf(f[i + 1], prefix) = Rest(values, i + 1)
      BY <2>2, <3>5
    <3>7. <<v>> \o Rest(values, i + 1) = Rest(values, i)
      <4>1. <<v>> \in Seq(Nat) /\ Len(<<v>>) = 1 /\ <<v>>[1] = v
        BY <3>1
      <4>2. 1 \in 1 .. (L + 1 - i) /\ i + 1 - 1 = i
        BY <1>1, <2>1
      <4>3. \A k \in 1 .. 1 : <<v>>[k] = values[i + k - 1]
        BY <4>1, <4>2
      <4> HIDE DEF v
      <4> QED
        BY <2>1, <4>1, <4>2, <4>3, RestFirst
    <3> HIDE DEF c, v
    <3>8. Good(i)
      BY <1>2, <3>2, <3>3, <3>4, <3>6, <3>7, ReadFirst
    <3> QED
      BY <3>8
  <2>4. ASSUME values[i] = 0
      PROVE  Good(i)
    <3> DEFINE r == Reps(values, prefix, i)
               c == RunCode(r)
    <3>1. /\ r \in 1 .. (2 * Pow2[prefix] - 1) /\ r \in 1 .. (L + 1 - i)
          /\ \A k \in i .. (i + r - 1) : values[k] = 0
      BY <1>2, <2>1, <2>4, RepsAre
    <3>2. f[i] = <<c>> \o f[i + r]
      BY <1>5, <2>1, <2>4 DEF Coding
    <3> HIDE DEF r
    <3>3. c \in Code /\ CodeValues(c, prefix) = Nulls(r)
      BY <1>2, <3>1, RunIsRead
    <3> HIDE DEF c
    <3>4. i + r \in (i + 1) .. (L + 1)
      BY <1>1, <2>1, <3>1
    <3>5. f[i + r] \in Seq(Code) /\ ReadOf(f[i + r], prefix) = Rest(values, i + r)
      BY <2>2, <3>4
    <3>6. Nulls(r) \o Rest(values, i + r) = Rest(values, i)
      <4> DEFINE a == Nulls(r)
      <4>1. a \in Seq(Nat) /\ Len(a) = r /\ \A k \in 1 .. r : a[k] = 0
        <5>1. a \in [1 .. r -> Nat] /\ r \in Nat
          BY <3>1 DEF Nulls
        <5> QED
          BY <5>1 DEF Nulls
      <4>2. \A k \in 1 .. r : i + k - 1 \in i .. (i + r - 1)
        BY <2>1, <3>1
      <4>3. \A k \in 1 .. r : a[k] = values[i + k - 1]
        BY <3>1, <4>1, <4>2
      <4> HIDE DEF a
      <4>4. r \in 1 .. (Len(values) + 1 - i) /\ i \in 1 .. Len(values)
        BY <2>1, <3>1
      <4>5. a \o Rest(values, i + r) = Rest(values, i)
        BY <4>1, <4>3, <4>4, RestFirst
      <4> QED
        BY <4>5 DEF a
    <3>7. Good(i)
      <4>1. ReadOf(<<c>> \o f[i + r], prefix) = CodeValues(c, prefix) \o ReadOf(f[i + r], prefix)
            /\ <<c>> \o f[i + r] \in Seq(Code)
        BY <1>2, <3>3, <3>5, ReadFirst
      <4> QED
        BY <3>2, <3>3, <3>5, <3>6, <4>1
    <3> QED
      BY <3>7
  <2>5. Good(i)
    <3> HIDE DEF Good
    <3> QED
      BY <2>3, <2>4
  <2>6. \A j \in (L + 1 - (m + 1)) .. (L + 1) : j = i \/ j \in (i + 1) .. (L + 1)
    BY <1>1, <2>1
  <2> HIDE DEF Good
  <2> QED
    BY <2>1, <2>2, <2>5, <2>6
<1>8. \A m \in 0 .. L : m \in P
  <2> HIDE DEF P, L
  <2> QED
    BY <1>1, <1>6, <1>7, UpTo
<1>9. Good(1)
  <2>1. L \in P
    <3>1. L \in 0 .. L
      BY <1>1
    <3> HIDE DEF P
    <3> QED
      BY <1>8, <3>1
  <2>2. 1 \in (L + 1 - L) .. (L + 1)
    BY <1>1
  <2> HIDE DEF Good
  <2> QED
    BY <2>1, <2>2
<1>10. Rest(values, 1) = values
  <2>1. L + 1 - 1 = L /\ \A k \in 1 .. L : 1 + k - 1 = k
    BY <1>1
  <2>2. Rest(values, 1) = [k \in 1 .. L |-> values[k]]
    BY <2>1 DEF Rest
  <2> QED
    BY <2>2
<1>11. ReadValues(RunLengthCodeZeros(values)) = ReadOf(f[1], prefix)
  BY <1>3 DEF ReadValues, ReadOf
<1> QED
  BY <1>9, <1>10, <1>11

(* A context map is read as it was: the list of the decoder follows that of   *)
(* the encoder, and runs of zeros are found again whatever cut them.          *)
LEMMA MapIsRead ==
    ASSUME NEW c \in Nat \ {0}, NEW cmap \in Seq(0 .. (c - 1)), cmap # <<>>
    PROVE  ReadMap(EncodeContextMap(cmap, c), Len(cmap), c) = cmap
<1> DEFINE L == Len(cmap)
<1>1. L \in Nat /\ cmap \in [1 .. L -> 0 .. (c - 1)]
  OBVIOUS
<1>2. CASE c = 1
  <2>1. ReadMap(EncodeContextMap(cmap, c), L, c) = [k \in 1 .. L |-> 0]
    BY <1>2 DEF ReadMap
  <2>2. \A k \in 1 .. L : cmap[k] = 0
    BY <1>1, <1>2
  <2>3. cmap = [k \in 1 .. L |-> cmap[k]]
    BY <1>1
  <2> QED
    BY <2>1, <2>2, <2>3
<1>3. CASE c # 1
  <2> DEFINE values == MoveToFrontTransform(cmap)
  <2>1. EncodeContextMap(cmap, c) = RunLengthCodeZeros(values)
    BY <1>3 DEF EncodeContextMap
  <2>2. values \in Seq(Nat) /\ values # <<>>
    <3>0. PICK m \in 1 .. c : \E e :
             /\ cmap \in Seq(0 .. (m - 1)) /\ EncoderLists(e, cmap, m)
             /\ values = [n \in 1 .. L |-> IndexOf(e[n - 1], cmap[n]) - 1]
      BY TransformIs
    <3>1. PICK e :
             /\ cmap \in Seq(0 .. (m - 1)) /\ EncoderLists(e, cmap, m)
             /\ values = [n \in 1 .. L |-> IndexOf(e[n - 1], cmap[n]) - 1]
      BY <3>0
    <3>2. ASSUME NEW n \in 1 .. L
          PROVE  IndexOf(e[n - 1], cmap[n]) - 1 \in Nat
      <4>1. m \in Nat /\ cmap[n] \in 0 .. (m - 1) /\ n - 1 \in 0 .. L
        BY <1>1, <3>1
      <4>2. e[n - 1] \in Lists(m)
        BY <3>1, <4>1 DEF EncoderLists
      <4>3. IndexOf(e[n - 1], cmap[n]) \in 1 .. m
        BY <4>1, <4>2, IndexIs
      <4> QED
        BY <4>1, <4>3
    <3> HIDE DEF values
    <3>3. values \in [1 .. L -> Nat]
      BY <3>1, <3>2
    <3>4. L # 0
      OBVIOUS
    <3> HIDE DEF L
    <3>5. values \in Seq(Nat) /\ Len(values) = L
      BY <1>1, <3>3
    <3> QED
      BY <3>4, <3>5
  <2>3. ReadValues(RunLengthCodeZeros(values)) = values
    <3> HIDE DEF values
    <3> QED
      BY <2>2, RunsAreRead
  <2>4. ReadValues(EncodeContextMap(cmap, c)) = MoveToFrontTransform(cmap)
    BY <2>1, <2>3
  <2> QED
    BY <1>3, <2>4, PlacesAreRead
<1> QED
  BY <1>2, <1>3


-----------------------------------------------------------------------------
(* The trivial map is read back.                                              *)
LEMMA ContextCountIs ==
    /\ ContextCount \in Nat /\ ContextCount >= 2
    /\ ContextBits - 1 \in Nat
    /\ Pow2[ContextBits - 1] \in Nat \ {0}
    /\ ContextCount = 2 * Pow2[ContextBits - 1]
<1> DEFINE n == ContextBits - 1
<1>1. n \in Nat /\ n + 1 = ContextBits
  BY BitsAssumption
<1> HIDE DEF n
<1>2. Pow2[n] \in Nat \ {0} /\ Pow2[n + 1] = 2 * Pow2[n]
  BY <1>1, Powers
<1>3. ContextCount = 2 * Pow2[n]
  BY <1>1, <1>2 DEF ContextCount
<1>4. ContextCount \in Nat /\ ContextCount >= 2
  BY <1>2, <1>3
<1> QED
  BY <1>1, <1>2, <1>3, <1>4 DEF n

\* The values of the map of the first types.
TrivialValues(types) ==
    [k \in 1 .. (ContextCount * types) |->
        IF (k - 1) % ContextCount = 0 THEN (k - 1) \div ContextCount ELSE 0]

(* The values StoreTrivialContextMap stands for are a sequence of types.     *)
LEMMA TrivialValuesType ==
    ASSUME NEW types \in Nat
    PROVE  /\ ContextCount * types \in Nat
           /\ TrivialValues(types) \in Seq(0 .. types) /\ TrivialValues(types) \in Seq(Nat)
           /\ Len(TrivialValues(types)) = ContextCount * types
           /\ \A n \in 0 .. (ContextCount * types - 1) :
                 (n \div ContextCount) \in 0 .. (types - 1)
<1> DEFINE C == ContextCount
           N == C * types
           v == TrivialValues(types)
<1>1. C \in Nat \ {0} /\ N \in Nat
  BY ContextCountIs
<1>2. v = [k \in 1 .. N |-> IF (k - 1) % C = 0 THEN (k - 1) \div C ELSE 0]
  BY DEF TrivialValues
<1> HIDE DEF v, C
<1>3. ASSUME NEW n \in 0 .. (N - 1)
      PROVE  (n \div C) \in 0 .. (types - 1)
  <2> DEFINE q == n \div C  r == n % C
  <2>1. n \in Nat
    BY <1>1
  <2>2. q \in Nat /\ r \in 0 .. (C - 1) /\ n = C * q + r
    BY <1>1, <2>1, DivMod
  <2> HIDE DEF q, r
  <2>3. q < types
    <3> SUFFICES ASSUME types <= q PROVE FALSE
      BY <2>2
    <3>1. types = q \/ C * types + C <= C * q
      <4>1. types < q => C * types + C <= C * q
        BY <1>1, <2>2, RoundsApart
      <4> QED
        BY <2>2, <4>1
    <3>2. C * q \in Nat
      BY <1>1, <2>2
    <3> QED
      BY <1>1, <2>2, <3>1, <3>2
  <2>4. q \in 0 .. (types - 1)
    BY <2>2, <2>3
  <2> QED
    BY <2>4 DEF q
<1> HIDE DEF N
<1>4. \A k \in 1 .. N : (IF (k - 1) % C = 0 THEN (k - 1) \div C ELSE 0) \in 0 .. types
  <2>1. \A k \in 1 .. N : k - 1 \in 0 .. (N - 1)
    BY <1>1
  <2> QED
    BY <1>3, <2>1
<1>5. v \in [1 .. N -> 0 .. types]
  BY <1>2, <1>4
<1>6. v \in Seq(0 .. types) /\ v \in Seq(Nat) /\ Len(v) = N
  <2>1. v \in [1 .. N -> Nat]
    BY <1>5
  <2> QED
    BY <1>1, <1>5, <2>1
<1> QED
  BY <1>1, <1>3, <1>6 DEF C, N, v

(* One type more adds its number and its zeros.                              *)
LEMMA NextTypeValues ==
    ASSUME NEW i \in Nat
    PROVE  (TrivialValues(i) \o <<i>>) \o Nulls(ContextCount - 1) = TrivialValues(i + 1)
<1> DEFINE C == ContextCount
           N == C * i
           a == TrivialValues(i)
           b == a \o <<i>>
           z == Nulls(C - 1)
           w == b \o z
           v == TrivialValues(i + 1)
<1>1. C \in Nat /\ C >= 2
  BY ContextCountIs
<1>2. N \in Nat /\ C * (i + 1) = N + C
  BY <1>1
<1>3. a \in Seq(Nat) /\ Len(a) = N
      /\ \A k \in 1 .. N : a[k] = IF (k - 1) % C = 0 THEN (k - 1) \div C ELSE 0
  <2>1. a = [k \in 1 .. N |-> IF (k - 1) % C = 0 THEN (k - 1) \div C ELSE 0]
    BY DEF TrivialValues
  <2>2. a \in Seq(Nat) /\ Len(a) = N
    BY TrivialValuesType
  <2> HIDE DEF a, C, N
  <2> QED
    BY <2>1, <2>2
<1>4. v \in Seq(Nat) /\ Len(v) = N + C
      /\ \A k \in 1 .. (N + C) : v[k] = IF (k - 1) % C = 0 THEN (k - 1) \div C ELSE 0
  <2>1. v = [k \in 1 .. (C * (i + 1)) |-> IF (k - 1) % C = 0 THEN (k - 1) \div C ELSE 0]
    BY DEF TrivialValues
  <2>2. v \in Seq(Nat) /\ Len(v) = C * (i + 1)
    BY TrivialValuesType
  <2> HIDE DEF v, C, N
  <2> QED
    BY <1>2, <2>1, <2>2
<1>5. z \in Seq(Nat) /\ Len(z) = C - 1 /\ \A k \in 1 .. (C - 1) : z[k] = 0
  <2> DEFINE m == C - 1
  <2>1. m \in Nat
    BY <1>1
  <2>2. z = [k \in 1 .. m |-> 0]
    BY DEF Nulls
  <2> HIDE DEF z, m
  <2>3. z \in [1 .. m -> Nat]
    BY <2>2
  <2>4. z \in Seq(Nat) /\ Len(z) = m /\ \A k \in 1 .. m : z[k] = 0
    BY <2>1, <2>2, <2>3
  <2> QED
    BY <2>4 DEF m
<1> HIDE DEF a, v, z, C
<1>6. b \in Seq(Nat) /\ Len(b) = N + 1
      /\ \A k \in 1 .. (N + 1) : b[k] = IF k <= N THEN a[k] ELSE i
  <2> DEFINE u == <<i>>
  <2>1. u \in Seq(Nat) /\ Len(u) = 1 /\ u[1] = i
    OBVIOUS
  <2> HIDE DEF u
  <2>2. a \o u \in Seq(Nat) /\ Len(a \o u) = Len(a) + Len(u)
        /\ \A k \in 1 .. (Len(a) + Len(u)) :
              (a \o u)[k] = IF k <= Len(a) THEN a[k] ELSE u[k - Len(a)]
    BY <1>3, <2>1, ConcatProperties
  <2>3. b = a \o u
    BY DEF u
  <2> HIDE DEF b, N
  <2>4. ASSUME NEW k \in 1 .. (N + 1), ~ (k <= N)
        PROVE  k - N = 1
    BY <1>2, <2>4
  <2> QED
    BY <1>3, <2>1, <2>2, <2>3, <2>4
<1> HIDE DEF b
<1>7. w \in Seq(Nat) /\ Len(w) = N + C
      /\ \A k \in 1 .. (N + C) : w[k] = IF k <= N + 1 THEN b[k] ELSE 0
  <2>2. b \o z \in Seq(Nat) /\ Len(b \o z) = Len(b) + Len(z)
        /\ \A k \in 1 .. (Len(b) + Len(z)) :
              (b \o z)[k] = IF k <= Len(b) THEN b[k] ELSE z[k - Len(b)]
    BY <1>5, <1>6, ConcatProperties
  <2>3. w = b \o z
    OBVIOUS
  <2> HIDE DEF w, N
  <2>4. Len(b) + Len(z) = N + C
    BY <1>1, <1>2, <1>5, <1>6
  <2>5. ASSUME NEW k \in 1 .. (N + C), ~ (k <= N + 1)
        PROVE  k - (N + 1) \in 1 .. (C - 1)
    BY <1>1, <1>2, <2>5
  <2> QED
    BY <1>5, <1>6, <2>2, <2>3, <2>4, <2>5
<1> HIDE DEF w
<1>8. ASSUME NEW k \in 1 .. (N + C)
      PROVE  w[k] = v[k]
  <2>1. CASE k <= N
    <3>1. k \in 1 .. N /\ k \in 1 .. (N + 1) /\ k <= N + 1
      BY <1>2, <2>1
    <3> QED
      BY <1>3, <1>4, <1>6, <1>7, <2>1, <3>1
  <2>2. CASE ~ (k <= N)
    <3> DEFINE r == k - 1 - N
               x == k - 1
    <3>1. r \in 0 .. (C - 1) /\ x = C * i + r /\ x \in Nat
      BY <1>1, <1>2, <2>2
    <3>2. x % C = r /\ x \div C = i
      <4> HIDE DEF x, r
      <4> QED
        BY <1>1, <3>1, DivModUnique
    <3>3. v[k] = IF r = 0 THEN i ELSE 0
      BY <1>4, <3>2
    <3>4. CASE r = 0
      <4>1. k = N + 1
        BY <1>2, <3>4
      <4>2. k <= N + 1 /\ k \in 1 .. (N + 1)
        BY <1>2, <4>1
      <4>3. w[k] = b[k] /\ b[k] = i
        BY <1>6, <1>7, <2>2, <4>2
      <4> QED
        BY <3>3, <3>4, <4>3
    <3>5. CASE r # 0
      <4>1. ~ (k <= N + 1)
        BY <1>2, <2>2, <3>5
      <4> QED
        BY <1>7, <3>3, <3>5, <4>1
    <3> QED
      BY <3>4, <3>5
  <2> QED
    BY <2>1, <2>2
<1>9. w = v
  <2> HIDE DEF N
  <2> QED
    BY <1>4, <1>7, <1>8, SeqEqual
<1> QED
  BY <1>9 DEF w, b, a, v, z, C

(* The two codes StoreTrivialContextMap writes for a type: its number, and   *)
(* the zeros of its other contexts.                                           *)
LEMMA TrivialCodes ==
    ASSUME NEW types \in Nat, types > 1
    PROVE  LET sent == StoreTrivialContextMap(types)
           IN /\ Len(sent.codes) = 2 * types
              /\ \A i \in 0 .. (types - 1) :
                    /\ 2 * i + 1 \in 1 .. (2 * types) /\ 2 * i + 2 \in 1 .. (2 * types)
                    /\ CodeValues(sent.codes[2 * i + 1], sent.prefix) = <<i>>
                    /\ CodeValues(sent.codes[2 * i + 2], sent.prefix)
                         = Nulls(ContextCount - 1)
<1> DEFINE B == ContextBits - 1
           sent == StoreTrivialContextMap(types)
           code(i) == [symbol |-> IF i = 0 THEN 0 ELSE i + ContextBits - 1, extra |-> 0]
           repeat == [symbol |-> B, extra |-> Pow2[B] - 1]
<1>1. /\ sent.prefix = B
      /\ sent.codes = [n \in 1 .. (2 * types) |-> IF n % 2 = 1 THEN code(n \div 2) ELSE repeat]
  BY DEF StoreTrivialContextMap
<1>2. Len(sent.codes) = 2 * types
  <2> DEFINE N == 2 * types
             s == sent.codes
  <2>1. N \in Nat /\ DOMAIN s = 1 .. N
    BY <1>1
  <2>2. \E S : s \in [1 .. N -> S]
    <3>1. s \in [1 .. N -> {s[n] : n \in 1 .. N}]
      <4>1. s = [n \in 1 .. N |-> s[n]]
        BY <1>1
      <4> HIDE DEF s, N
      <4> QED
        BY <4>1
    <3> HIDE DEF s, N
    <3> QED
      BY <3>1
  <2> HIDE DEF s, N
  <2>3. Len(s) = N
    BY <2>1, <2>2
  <2> QED
    BY <2>3 DEF s, N
<1>3. B \in Nat /\ ContextBits = B + 1 /\ Pow2[B] \in Nat \ {0} /\ ContextCount = 2 * Pow2[B]
  <2>1. ContextBits \in Nat
    BY BitsAssumption
  <2> QED
    BY <2>1, ContextCountIs
<1> HIDE DEF sent, B
<1>4. ASSUME NEW i \in 0 .. (types - 1)
      PROVE  /\ 2 * i + 1 \in 1 .. (2 * types) /\ 2 * i + 2 \in 1 .. (2 * types)
             /\ CodeValues(sent.codes[2 * i + 1], sent.prefix) = <<i>>
             /\ CodeValues(sent.codes[2 * i + 2], sent.prefix) = Nulls(ContextCount - 1)
  <2>1. 2 * i + 1 \in 1 .. (2 * types) /\ 2 * i + 2 \in 1 .. (2 * types)
    OBVIOUS
  <2>2. (2 * i + 1) % 2 = 1 /\ (2 * i + 1) \div 2 = i /\ (2 * i + 2) % 2 # 1
    OBVIOUS
  <2>3. sent.codes[2 * i + 1] = code(i) /\ sent.codes[2 * i + 2] = repeat
    BY <1>1, <2>1, <2>2
  <2>4. CodeValues(code(i), B) = <<i>>
    <3>1. code(i).symbol = IF i = 0 THEN 0 ELSE i + B
      BY <1>3
    <3> DEFINE c == code(i)
    <3> HIDE DEF c
    <3>2. CASE i = 0
      BY <3>1, <3>2 DEF CodeValues, c
    <3>3. CASE i # 0
      <4>1. c.symbol = i + B
        BY <3>1, <3>3 DEF c
      <4>2. c.symbol # 0 /\ ~ (c.symbol <= B) /\ c.symbol - B = i
        BY <1>3, <3>3, <4>1
      <4>3. CodeValues(c, B) = <<i>>
        BY <4>2 DEF CodeValues
      <4> QED
        BY <4>3 DEF c
    <3> QED
      BY <3>2, <3>3
  <2>5. CodeValues(repeat, B) = Nulls(ContextCount - 1)
    <3> DEFINE c == repeat
               p == Pow2[B]
    <3>1. c.symbol = B /\ c.extra = p - 1 /\ p \in Nat \ {0} /\ ContextCount = 2 * p
      BY <1>3
    <3> HIDE DEF c
    <3>2. CASE B = 0
      <4>1. p = 1
        BY <3>2, Powers
      <4>2. CodeValues(c, B) = <<0>>
        BY <3>1, <3>2 DEF CodeValues
      <4>3. ContextCount - 1 = 1
        BY <3>1, <4>1
      <4>4. Nulls(1) = <<0>>
        BY DEF Nulls
      <4> QED
        BY <4>2, <4>3, <4>4 DEF c
    <3>3. CASE B # 0
      <4>1. c.symbol # 0 /\ c.symbol <= B
        BY <1>3, <3>1, <3>3
      <4>2. CodeValues(c, B) = [k \in 1 .. (Pow2[c.symbol] + c.extra) |-> 0]
        BY <4>1 DEF CodeValues
      <4>3. Pow2[c.symbol] = p
        BY <3>1
      <4> HIDE DEF p
      <4>4. p + (p - 1) = ContextCount - 1
        BY <3>1
      <4>5. CodeValues(c, B) = Nulls(ContextCount - 1)
        BY <3>1, <4>2, <4>3, <4>4 DEF Nulls
      <4> QED
        BY <4>5 DEF c
    <3> QED
      BY <3>2, <3>3
  <2> QED
    BY <1>1, <2>1, <2>3, <2>4, <2>5
<1> QED
  BY <1>2, <1>4 DEF sent

(* The decoder reads those values from the codes of StoreTrivialContextMap.  *)
LEMMA TrivialValuesAreRead ==
    ASSUME NEW types \in Nat, types > 1
    PROVE  ReadValues(StoreTrivialContextMap(types)) = TrivialValues(types)
<1> DEFINE sent == StoreTrivialContextMap(types)
           N == 2 * types
           s == [n \in 1 .. Len(sent.codes) |-> CodeValues(sent.codes[n], sent.prefix)]
           z == Nulls(ContextCount - 1)
<1>1. Len(sent.codes) = N
      /\ \A i \in 0 .. (types - 1) :
            /\ 2 * i + 1 \in 1 .. N /\ 2 * i + 2 \in 1 .. N
            /\ CodeValues(sent.codes[2 * i + 1], sent.prefix) = <<i>>
            /\ CodeValues(sent.codes[2 * i + 2], sent.prefix) = z
  BY TrivialCodes
<1>2. ReadValues(sent) = FlattenSeq(s)
  BY DEF ReadValues
<1> HIDE DEF sent
<1>3. \A i \in 0 .. (types - 1) : s[2 * i + 1] = <<i>> /\ s[2 * i + 2] = z
  BY <1>1
<1>4. N \in Nat /\ s = [n \in 1 .. N |-> s[n]]
  BY <1>1
<1>5. z \in Seq(Nat)
  <2> DEFINE m == ContextCount - 1
  <2>1. m \in Nat
    BY ContextCountIs
  <2> HIDE DEF m
  <2>2. [k \in 1 .. m |-> 0] \in Seq(Nat)
    BY <2>1
  <2> QED
    BY <2>2 DEF Nulls, m
<1> HIDE DEF s, z
<1>6. s \in Seq(Seq(Nat)) /\ Len(s) = N
  <2>1. ASSUME NEW n \in 1 .. N
        PROVE  s[n] \in Seq(Nat)
    <3> DEFINE i == (n - 1) \div 2
    <3>1. i \in 0 .. (types - 1) /\ (n = 2 * i + 1 \/ n = 2 * i + 2)
      OBVIOUS
    <3> HIDE DEF i
    <3>2. <<i>> \in Seq(Nat)
      BY <3>1
    <3> QED
      BY <1>3, <1>5, <3>1, <3>2
  <2> HIDE DEF N
  <2>2. s \in [1 .. N -> Seq(Nat)]
    BY <1>4, <2>1
  <2> QED
    BY <1>4, <2>2
<1>7. PICK f : Joins(f, s)
  BY <1>6, JoinsExist
<1>8. f \in [0 .. N -> Seq(Nat)] /\ f[0] = <<>> /\ \A n \in 1 .. N : f[n] = f[n - 1] \o s[n]
  BY <1>6, <1>7 DEF Joins
<1> DEFINE P == {i \in 0 .. types : f[2 * i] = TrivialValues(i)}
<1>9. 0 \in P
  <2>1. ContextCount * 0 = 0
    BY ContextCountIs
  <2>2. TrivialValues(0) = <<>>
    BY <2>1 DEF TrivialValues
  <2>3. 2 * 0 = 0 /\ 0 \in 0 .. types
    OBVIOUS
  <2> QED
    BY <1>8, <2>2, <2>3
<1>10. ASSUME NEW i \in 0 .. (types - 1), i \in P
       PROVE  i + 1 \in P
  <2>1. /\ 2 * i + 1 \in 1 .. N /\ 2 * i + 2 \in 1 .. N
        /\ (2 * i + 1) - 1 = 2 * i /\ (2 * i + 2) - 1 = 2 * i + 1
        /\ 2 * (i + 1) = 2 * i + 2 /\ i + 1 \in 0 .. types
    OBVIOUS
  <2>2. f[2 * i + 1] = f[2 * i] \o s[2 * i + 1]
    BY <1>8, <2>1
  <2>3. f[2 * i + 2] = f[2 * i + 1] \o s[2 * i + 2]
    BY <1>8, <2>1
  <2>4. f[2 * i] = TrivialValues(i)
    BY <1>10
  <2>5. s[2 * i + 1] = <<i>> /\ s[2 * i + 2] = z
    BY <1>3
  <2>6. (TrivialValues(i) \o <<i>>) \o z = TrivialValues(i + 1)
    BY NextTypeValues DEF z
  <2>7. f[2 * (i + 1)] = TrivialValues(i + 1)
    BY <2>1, <2>2, <2>3, <2>4, <2>5, <2>6
  <2> QED
    BY <2>1, <2>7
<1>11. \A i \in 0 .. types : i \in P
  <2> HIDE DEF P
  <2> QED
    BY <1>9, <1>10, UpTo
<1>12. f[N] = TrivialValues(types)
  <2>1. types \in 0 .. types
    OBVIOUS
  <2>2. types \in P
    <3> HIDE DEF P
    <3> QED
      BY <1>11, <2>1
  <2> QED
    BY <2>2
<1>13. FlattenSeq(s) = f[N]
  BY <1>6, <1>7, FlattenIs
<1> QED
  BY <1>2, <1>12, <1>13 DEF sent, s

\* The decoder's list in the trivial map after q types and r values of the next.
Behind(list, q, r, types) ==
    /\ r # 0 => /\ list[1] = q
                /\ \A j \in (q + 2) .. types : list[j] = j - 1
    /\ r = 0 => \A j \in (q + 1) .. types : list[j] = j - 1

(* A value of the trivial map read: the next type is where its number says,  *)
(* the types after it are in their places still.                             *)
LEMMA BehindNext ==
    ASSUME NEW types \in Nat, NEW q \in 0 .. (types - 1), NEW r \in 0 .. (ContextCount - 1),
           NEW list \in [1 .. types -> Nat], Behind(list, q, r, types)
    PROVE  LET v == IF r = 0 THEN q ELSE 0
           IN /\ list[v + 1] = q
              /\ r + 1 < ContextCount => Behind(ToFront(list, v + 1), q, r + 1, types)
              /\ r + 1 = ContextCount => Behind(ToFront(list, v + 1), q + 1, 0, types)
<1> DEFINE v == IF r = 0 THEN q ELSE 0
           p == v + 1
           new == ToFront(list, p)
<1>0. p = IF r = 0 THEN q + 1 ELSE 1
  OBVIOUS
<1> HIDE DEF v, p
<1>1. p \in 1 .. types
  BY <1>0
<1>2. list[p] = q
  BY <1>0 DEF Behind
<1>3. new \in [1 .. types -> Nat] /\ new[1] = list[p]
      /\ \A j \in 2 .. types : new[j] = IF j <= p THEN list[j - 1] ELSE list[j]
  BY <1>1, ToFrontType
<1> HIDE DEF new
<1>4. \A j \in (q + 2) .. types : new[j] = j - 1
  <2>1. ASSUME NEW j \in (q + 2) .. types
        PROVE  new[j] = j - 1
    <3>1. j \in 2 .. types /\ ~ (j <= p) /\ j \in (q + 1) .. types
      BY <1>0
    <3>2. list[j] = j - 1
      BY <3>1 DEF Behind
    <3> QED
      BY <1>3, <3>1, <3>2
  <2> QED
    BY <2>1
<1>5. ContextCount \in Nat /\ ContextCount >= 2
  BY ContextCountIs
<1>6. Behind(new, q, r + 1, types)
  BY <1>2, <1>3, <1>4 DEF Behind
<1>7. Behind(new, q + 1, 0, types)
  <2>1. \A j \in ((q + 1) + 1) .. types : j \in (q + 2) .. types
    OBVIOUS
  <2> QED
    BY <1>4, <2>1 DEF Behind
<1> QED
  BY <1>2, <1>6, <1>7 DEF new, p, v

(* The trivial map: the decoder gives every context of a type the type's own  *)
(* code, though StoreTrivialContextMap never runs the transform.              *)
LEMMA TrivialMapIsRead ==
    ASSUME NEW types \in Nat \ {0}, NEW t \in 0 .. (types - 1), NEW c \in 0 .. (ContextCount - 1)
    PROVE  LET read == ReadMap(StoreTrivialContextMap(types), types * ContextCount, types)
           IN read[t * ContextCount + c + 1] = t /\ read # <<>>
<1> DEFINE C == ContextCount
           N == C * types
           sent == StoreTrivialContextMap(types)
           values == TrivialValues(types)
           k == t * C + c + 1
<1>1. C \in Nat \ {0} /\ C >= 2 /\ N \in Nat
  BY ContextCountIs
<1>2. /\ k \in 1 .. N /\ types * C = N
      /\ k - 1 = C * t + c
  <2> DEFINE x == C * t
  <2>1. t = types - 1 \/ t < types - 1
    OBVIOUS
  <2>2. C * (types - 1) = N - C
    BY <1>1
  <2>3. t < types - 1 => x + C <= C * (types - 1)
    BY <1>1, RoundsApart
  <2>4. x \in Nat /\ x <= N - C /\ t * C = x
    BY <1>1, <2>1, <2>2, <2>3
  <2>5. types * C = N
    BY <1>1
  <2> HIDE DEF x, N
  <2> QED
    BY <1>1, <2>4, <2>5 DEF x
<1>3. CASE types = 1
  <2>1. ReadMap(sent, types * C, types) = [n \in 1 .. N |-> 0]
    BY <1>2, <1>3 DEF ReadMap
  <2> HIDE DEF k, N
  <2>2. ReadMap(sent, types * C, types)[k] = 0 /\ ReadMap(sent, types * C, types) # <<>>
    <3> DEFINE read == ReadMap(sent, types * C, types)
    <3>1. read = [n \in 1 .. N |-> 0]
      BY <2>1
    <3> HIDE DEF read
    <3>2. read[k] = 0 /\ DOMAIN read # {}
      BY <1>2, <3>1
    <3> QED
      BY <3>2 DEF read
  <2> QED
    BY <1>3, <2>2 DEF k
<1>4. CASE types # 1
  <2>1. ReadValues(sent) = values
    BY <1>4, TrivialValuesAreRead
  <2>2. Len(values) = N /\ values = [n \in 1 .. N |-> IF (n - 1) % C = 0 THEN (n - 1) \div C ELSE 0]
    BY TrivialValuesType DEF TrivialValues
  <2>3. \A n \in 0 .. (N - 1) : n \div C \in 0 .. (types - 1) /\ n % C \in 0 .. (C - 1)
                                /\ n = C * (n \div C) + (n % C)
    <3>1. \A n \in 0 .. (N - 1) : n \div C \in 0 .. (types - 1)
      BY TrivialValuesType
    <3>2. ASSUME NEW n \in 0 .. (N - 1)
          PROVE  n % C \in 0 .. (C - 1) /\ n = C * (n \div C) + (n % C)
      <4>1. n \in Nat
        BY <1>1
      <4> HIDE DEF C
      <4> QED
        BY <1>1, <4>1, DivMod
    <3> QED
      BY <3>1, <3>2
  <2>4. values \in Seq(0 .. (types - 1))
    <3>1. \A n \in 1 .. N : n - 1 \in 0 .. (N - 1)
      BY <1>1
    <3>2. \A n \in 1 .. N : (IF (n - 1) % C = 0 THEN (n - 1) \div C ELSE 0) \in 0 .. (types - 1)
      BY <2>3, <3>1
    <3> HIDE DEF values, N
    <3>3. values \in [1 .. N -> 0 .. (types - 1)]
      BY <2>2, <3>2
    <3> QED
      BY <1>1, <3>3
  <2>5. PICK d : /\ DecoderLists(d, ReadValues(sent), types)
                 /\ \A size : ReadMap(sent, size, types)
                      = [n \in 1 .. Len(ReadValues(sent)) |-> d[n - 1][ReadValues(sent)[n] + 1]]
    <3> HIDE DEF values, sent
    <3> QED
      BY <1>4, <2>1, <2>4, ReadMapIs
  <2>6. /\ d \in [0 .. N -> [1 .. types -> Nat]] /\ d[0] = Sorted(types)
        /\ \A n \in 1 .. N : d[n] = ToFront(d[n - 1], values[n] + 1)
        /\ ReadMap(sent, types * C, types) = [n \in 1 .. N |-> d[n - 1][values[n] + 1]]
    <3> HIDE DEF values, sent, N
    <3> QED
      BY <2>1, <2>2, <2>5 DEF DecoderLists
  <2> HIDE DEF sent, values, N, C, k
  <2> DEFINE P == {n \in 0 .. (N - 1) : Behind(d[n], n \div C, n % C, types)}
  <2>7. N - 1 \in Nat
    BY <1>1, <1>2
  <2>8. 0 \in P
    <3>1. 0 \in 0 .. (N - 1)
      BY <2>7
    <3>2. 0 % C = 0 /\ 0 \div C = 0
      <4>1. 0 = C * 0 + 0 /\ 0 \in 0 .. (C - 1)
        BY <1>1
      <4> QED
        BY <1>1, <4>1, DivModUnique
    <3>3. Behind(d[0], 0, 0, types)
      BY <2>6 DEF Behind, Sorted
    <3> QED
      BY <3>1, <3>2, <3>3
  <2>9. ASSUME NEW n \in 0 .. (N - 1), n \in P
        PROVE  LET v == IF n % C = 0 THEN n \div C ELSE 0
               IN /\ values[n + 1] = v /\ d[n][v + 1] = n \div C
                  /\ n + 1 \in 0 .. (N - 1) => n + 1 \in P
    <3> DEFINE q == n \div C  r == n % C  v == IF r = 0 THEN q ELSE 0
    <3>1. q \in 0 .. (types - 1) /\ r \in 0 .. (C - 1) /\ n = C * q + r
      BY <2>3
    <3>2. n + 1 \in 1 .. N /\ (n + 1) - 1 = n
      BY <1>1, <2>7
    <3>3. values[n + 1] = v
      BY <2>2, <3>2
    <3>4. d[n] \in [1 .. types -> Nat]
      BY <1>1, <2>6, <2>7, SMTT(60)
    <3>5. d[n + 1] = ToFront(d[n], v + 1)
      BY <2>6, <3>2, <3>3
    <3>6. Behind(d[n], q, r, types)
      BY <2>9
    <3> HIDE DEF q, r
    <3>7. /\ d[n][v + 1] = q
          /\ r + 1 < C => Behind(ToFront(d[n], v + 1), q, r + 1, types)
          /\ r + 1 = C => Behind(ToFront(d[n], v + 1), q + 1, 0, types)
      <4> DEFINE list == d[n]
      <4>1. list \in [1 .. types -> Nat] /\ Behind(list, q, r, types)
        BY <3>4, <3>6
      <4> HIDE DEF list
      <4>2. /\ list[v + 1] = q
            /\ r + 1 < C => Behind(ToFront(list, v + 1), q, r + 1, types)
            /\ r + 1 = C => Behind(ToFront(list, v + 1), q + 1, 0, types)
        BY <3>1, <4>1, BehindNext DEF C
      <4> QED
        BY <4>2 DEF list
    <3>8. ASSUME n + 1 \in 0 .. (N - 1)
          PROVE  n + 1 \in P
      <4>1. CASE r + 1 < C
        <5>1. r + 1 \in 0 .. (C - 1) /\ n + 1 = C * q + (r + 1) /\ n + 1 \in Nat /\ q \in Nat
          <6>1. C * q \in Nat
            BY <1>1, <3>1
          <6> QED
            BY <1>1, <3>1, <4>1, <6>1
        <5>2. (n + 1) % C = r + 1 /\ (n + 1) \div C = q
          BY <1>1, <5>1, DivModUnique
        <5> QED
          BY <3>5, <3>7, <3>8, <4>1, <5>2
      <4>2. CASE ~ (r + 1 < C)
        <5>1. r + 1 = C
          BY <1>1, <3>1, <4>2
        <5>2. 0 \in 0 .. (C - 1) /\ n + 1 = C * (q + 1) + 0 /\ n + 1 \in Nat /\ q + 1 \in Nat
          <6>1. C * q \in Nat /\ C * (q + 1) = C * q + C
            BY <1>1, <3>1
          <6> QED
            BY <1>1, <3>1, <5>1, <6>1
        <5>3. (n + 1) % C = 0 /\ (n + 1) \div C = q + 1
          BY <1>1, <5>2, DivModUnique
        <5> QED
          BY <3>5, <3>7, <3>8, <5>1, <5>3
      <4> QED
        BY <4>1, <4>2
    <3> HIDE DEF v, P
    <3> QED
      BY <3>3, <3>7, <3>8 DEF q, r, v
  <2>10. \A n \in 0 .. (N - 1) : n \in P
    <3>1. \A n \in 0 .. ((N - 1) - 1) : n \in 0 .. (N - 1) /\ n + 1 \in 0 .. (N - 1)
      BY <2>7
    <3> HIDE DEF P
    <3>2. \A n \in 0 .. ((N - 1) - 1) : n \in P => n + 1 \in P
      BY <2>9, <3>1
    <3> DEFINE M == N - 1
    <3> HIDE DEF M
    <3> QED
      BY <2>7, <2>8, <3>2, UpTo DEF M
  <2>11. k - 1 \in 0 .. (N - 1) /\ (k - 1) + 1 = k
    BY <1>1, <1>2
  <2>12. d[k - 1][values[k] + 1] = (k - 1) \div C
    <3>1. k - 1 \in P
      <4> HIDE DEF P
      <4> QED
        BY <2>10, <2>11
    <3> HIDE DEF P
    <3> DEFINE n == k - 1
    <3>2. n \in 0 .. (N - 1) /\ n + 1 = k /\ n \in P
      BY <2>11, <3>1
    <3> HIDE DEF n
    <3>3. d[n][values[n + 1] + 1] = n \div C
      BY <2>9, <3>2
    <3> QED
      BY <3>2, <3>3 DEF n
  <2>13. (k - 1) \div C = t
    <3> DEFINE n == k - 1
    <3>1. n \in Nat /\ n = C * t + c /\ c \in 0 .. (C - 1) /\ t \in Nat
      BY <1>2, <2>11 DEF C
    <3> HIDE DEF n
    <3>2. n \div C = t
      BY <1>1, <3>1, DivModUnique
    <3> QED
      BY <3>2 DEF n
  <2>14. ReadMap(sent, types * C, types)[k] = d[k - 1][values[k] + 1]
         /\ ReadMap(sent, types * C, types) # <<>>
    <3> DEFINE read == ReadMap(sent, types * C, types)
    <3>1. read = [n \in 1 .. N |-> d[n - 1][values[n] + 1]]
      BY <2>6
    <3> HIDE DEF read
    <3>2. read[k] = d[k - 1][values[k] + 1] /\ DOMAIN read # {}
      BY <1>2, <3>1
    <3> QED
      BY <3>2 DEF read
  <2>15. ReadMap(sent, types * C, types)[k] = t /\ ReadMap(sent, types * C, types) # <<>>
    BY <2>12, <2>13, <2>14
  <2> QED
    BY <2>15 DEF sent, k, C
<1> QED
  BY <1>3, <1>4

-----------------------------------------------------------------------------
(* There is room for one type and for one block at least.                  *)
LEMMA Limits ==
    ASSUME contexts \in Seq(Contexts)
    PROVE  TypeLimit \in Nat \ {0} /\ MaxBlocks \in Nat \ {0}
<1>1. MaxTypes \div StaticContexts \in Nat \ {0}
  <2>1. /\ MaxTypes \div StaticContexts \in Nat
        /\ MaxTypes % StaticContexts \in 0 .. (StaticContexts - 1)
        /\ MaxTypes = (StaticContexts * (MaxTypes \div StaticContexts))
                          + (MaxTypes % StaticContexts)
    <3>1. StaticContexts \in Nat \ {0} /\ MaxTypes \in Nat
      BY SplitAssumption
    <3> QED
      BY <3>1, DivMod
  <2>2. MaxTypes >= StaticContexts /\ StaticContexts \in Nat
    BY SplitAssumption
  <2>3. CASE MaxTypes \div StaticContexts = 0
    BY <2>1, <2>2, <2>3
  <2> QED
    BY <2>1, <2>3
<1>2. MaxTypes \in Nat \ {0}
  BY SplitAssumption
<1>3. Len(contexts) \in Nat /\ MinBlock \in Nat \ {0}
  BY SplitAssumption
<1>4. Len(contexts) \div MinBlock \in Nat
  BY <1>3, DivMod
<1> QED
  BY <1>1, <1>2, <1>4 DEF TypeLimit, MaxBlocks

(* Blocks of MinBlock symbols and more leave room for one block.           *)
LEMMA RoomForBlocks ==
    ASSUME contexts \in Seq(Contexts), NEW n \in Nat,
           n * MinBlock <= Len(contexts)
    PROVE  n < MaxBlocks
<1> DEFINE L == Len(contexts)
           q == L \div MinBlock
<1>1. L \in Nat /\ MinBlock \in Nat \ {0}
  BY SplitAssumption
<1>2. q \in Nat /\ L % MinBlock \in 0 .. (MinBlock - 1) /\ L = (MinBlock * q) + (L % MinBlock)
  BY <1>1, DivMod
<1>3. ASSUME q < n
      PROVE  FALSE
  <2>1. MinBlock * q + MinBlock <= MinBlock * n
    BY <1>1, <1>2, <1>3, RoundsApart
  <2>2. MinBlock * n = n * MinBlock /\ MinBlock * q \in Nat
    BY <1>1, <1>2
  <2> QED
    BY <1>1, <1>2, <2>1, <2>2
<1> QED
  BY <1>2, <1>3 DEF MaxBlocks

-----------------------------------------------------------------------------
(* The blocks end somewhere.                                               *)
LEMMA NoEnds ==
    Reaches(<<>>, 0)
<1>1. EndsOf([k \in {0} |-> 0], <<>>)
  BY DEF EndsOf
<1> QED
  BY <1>1 DEF Reaches

(* A block more reaches further by its length.                             *)
LEMMA EndsAppend ==
    ASSUME NEW lengths \in Seq(Nat), NEW length \in Nat, NEW n \in Int,
           Reaches(lengths, n)
    PROVE  Reaches(Append(lengths, length), n + length)
<1>1. PICK e : EndsOf(e, lengths) /\ n <= e[Len(lengths)]
  BY DEF Reaches
<1> DEFINE L == Len(lengths)
           f == [k \in 0 .. (L + 1) |-> IF k = L + 1 THEN e[L] + length ELSE e[k]]
<1>2. L \in Nat /\ Len(Append(lengths, length)) = L + 1
  OBVIOUS
<1>3. \A k \in 1 .. (L + 1) : Append(lengths, length)[k] = IF k = L + 1 THEN length ELSE lengths[k]
  OBVIOUS
<1>4. e \in [0 .. L -> Int] /\ e[0] = 0 /\ \A k \in 1 .. L : e[k] = e[k - 1] + lengths[k]
  BY <1>1 DEF EndsOf
<1>5. f \in [0 .. (L + 1) -> Int] /\ f[0] = 0 /\ f[L + 1] = e[L] + length
  <2>1. e \in [0 .. L -> Int] /\ e[0] = 0 /\ L \in Nat /\ length \in Nat
    BY <1>2, <1>4
  <2> HIDE DEF L
  <2>2. \A k \in 0 .. L : e[k] \in Int
    BY <2>1
  <2>3. 0 \in 0 .. (L + 1) /\ L + 1 \in 0 .. (L + 1) /\ 0 # L + 1 /\ L \in 0 .. L
    BY <2>1
  <2>4. f[0] = 0 /\ f[L + 1] = e[L] + length
    BY <2>1, <2>3
  <2>5. ASSUME NEW k \in 0 .. (L + 1)
        PROVE  f[k] \in Int
    <3>1. k = L + 1 \/ k \in 0 .. L
      BY <2>1
    <3> QED
      BY <2>1, <2>2, <2>3, <3>1
  <2> QED
    BY <2>4, <2>5
<1>6. ASSUME NEW k \in 1 .. (L + 1)
      PROVE  f[k] = f[k - 1] + Append(lengths, length)[k]
  <2>1. k - 1 \in 0 .. (L + 1) /\ k \in 0 .. (L + 1) /\ k - 1 # L + 1
    BY <1>2
  <2>2. CASE k = L + 1
    BY <1>3, <1>5, <2>1, <2>2
  <2>3. CASE k # L + 1
    <3>1. k \in 1 .. L
      BY <1>2, <2>3
    <3> QED
      BY <1>3, <1>4, <2>1, <2>3, <3>1
  <2> QED
    BY <2>2, <2>3
<1>7. EndsOf(f, Append(lengths, length))
  BY <1>2, <1>5, <1>6 DEF EndsOf
<1>8. n + length <= f[L + 1]
  <2>1. e[L] \in Int /\ n <= e[L] /\ f[L + 1] = e[L] + length
    BY <1>1, <1>2, <1>4, <1>5
  <2> QED
    BY <2>1
<1> QED
  BY <1>2, <1>7, <1>8 DEF Reaches

(* So does making the last block longer.                                   *)
LEMMA EndsLonger ==
    ASSUME NEW lengths \in Seq(Nat), lengths # <<>>, NEW length \in Nat, NEW n \in Int,
           Reaches(lengths, n)
    PROVE  Reaches([lengths EXCEPT ![Len(lengths)] = @ + length], n + length)
<1>1. PICK e : EndsOf(e, lengths) /\ n <= e[Len(lengths)]
  BY DEF Reaches
<1> DEFINE L == Len(lengths)
           longer == [lengths EXCEPT ![L] = @ + length]
           f == [e EXCEPT ![L] = @ + length]
<1>2. L \in Nat \ {0}
  OBVIOUS
<1>3. longer \in Seq(Nat) /\ Len(longer) = L
  BY <1>2
<1>4. \A k \in 1 .. L : longer[k] = IF k = L THEN lengths[L] + length ELSE lengths[k]
  BY <1>2
<1>5. e \in [0 .. L -> Int] /\ e[0] = 0 /\ \A k \in 1 .. L : e[k] = e[k - 1] + lengths[k]
  BY <1>1 DEF EndsOf
<1>6. f \in [0 .. L -> Int] /\ f[0] = 0 /\ f[L] = e[L] + length
      /\ \A k \in 0 .. (L - 1) : f[k] = e[k]
  <2>1. e \in [0 .. L -> Int] /\ e[0] = 0 /\ L \in Nat \ {0} /\ length \in Nat
    BY <1>2, <1>5
  <2> HIDE DEF L
  <2>2. L \in 0 .. L /\ 0 \in 0 .. L /\ 0 # L /\ e[L] + length \in Int
    BY <2>1
  <2>3. f \in [0 .. L -> Int] /\ f[0] = 0 /\ f[L] = e[L] + length
    BY <2>1, <2>2
  <2> QED
    BY <2>1, <2>3
<1> HIDE DEF longer, f
<1>7. ASSUME NEW k \in 1 .. L
      PROVE  f[k] = f[k - 1] + longer[k]
  <2>1. k - 1 \in 0 .. (L - 1) /\ e[k - 1] \in Int /\ lengths[k] \in Nat
    <3>1. L \in Nat \ {0} /\ e \in [0 .. L -> Int] /\ k \in 1 .. L
      BY <1>2, <1>5
    <3>2. lengths[k] \in Nat
      OBVIOUS
    <3> HIDE DEF L
    <3>3. k - 1 \in 0 .. (L - 1) /\ k - 1 \in 0 .. L
      BY <3>1
    <3> QED
      BY <3>1, <3>2, <3>3
  <2>2. CASE k = L
    BY <1>4, <1>5, <1>6, <2>1, <2>2
  <2>3. CASE k # L
    <3>1. k \in 0 .. (L - 1)
      BY <1>2, <2>3
    <3> QED
      BY <1>4, <1>5, <1>6, <2>1, <2>3, <3>1
  <2> QED
    BY <2>2, <2>3
<1>8. EndsOf(f, longer)
  BY <1>3, <1>6, <1>7 DEF EndsOf
<1>9. n + length <= f[L]
  <2>1. e[L] \in Int /\ n <= e[L] /\ f[L] = e[L] + length
    BY <1>1, <1>2, <1>5, <1>6
  <2> QED
    BY <2>1
<1>10. Reaches(longer, n + length)
  BY <1>3, <1>8, <1>9 DEF Reaches
<1> QED
  BY <1>10 DEF longer

-----------------------------------------------------------------------------
(* The ways to finish a block.                                             *)

(* No histogram in use loses anything, and that of the type gains what the *)
(* block's symbols were counted in.                                        *)
Grown(s, r, type) ==
    /\ \A u \in 0 .. (s.numTypes - 1), c \in HistogramContexts :
          s.histograms[u][c] \subseteq r.histograms[u][c]
    /\ \A c \in HistogramContexts :
          s.histograms[s.curr][c] \subseteq r.histograms[type][c]
ABlockMore(s, r, type) == /\ r.types = Append(s.types, type)
                          /\ r.lengths = Append(s.lengths, s.blockSize)
ALongerBlock(s, r) == /\ r.types = s.types
                      /\ r.lengths = [s.lengths EXCEPT ![Len(s.lengths)] = @ + s.blockSize]

(* A cleared histogram is a histogram.                                       *)
LEMMA ClearInType ==
    Clear \in Histogram
  BY DEF Clear, Histogram

(* Two histograms joined are a histogram.                                    *)
LEMMA JoinedInType ==
    ASSUME NEW h1 \in Histogram, NEW h2 \in Histogram
    PROVE  Joined(h1, h2) \in Histogram
  BY DEF Joined, Histogram

(* Clearing one histogram leaves everything else.                          *)
LEMMA ClearedEffect ==
    ASSUME NEW s \in SplitType, NEW t \in Nat
    PROVE  /\ Cleared(s, t) \in SplitType
           /\ Cleared(s, t).blockSize = 0
           /\ Cleared(s, t).target = s.target
           /\ Cleared(s, t).curr = s.curr
           /\ Cleared(s, t).last = s.last
           /\ Cleared(s, t).entropyOf = s.entropyOf
           /\ Cleared(s, t).types = s.types
           /\ Cleared(s, t).lengths = s.lengths
           /\ Cleared(s, t).numTypes = s.numTypes
           /\ \A u \in DOMAIN s.histograms :
                 u # t => Cleared(s, t).histograms[u] = s.histograms[u]
<1>1. CASE t \in DOMAIN s.histograms
  <2> DEFINE h == [s.histograms EXCEPT ![t] = Clear]
  <2>1. h \in [TypesWithRoom -> Histogram]
    BY ClearInType DEF SplitType
  <2>2. \A u \in DOMAIN s.histograms : u # t => h[u] = s.histograms[u]
    OBVIOUS
  <2>3. Cleared(s, t) = [s EXCEPT !.histograms = h, !.blockSize = 0]
    BY <1>1 DEF Cleared, SplitType
  <2> DEFINE c == Cleared(s, t)
  <2> HIDE DEF h, c
  <2>4. c = [s EXCEPT !.histograms = h, !.blockSize = 0]
    BY <2>3 DEF c
  <2>5. c \in SplitType
    BY <2>1, <2>4 DEF SplitType
  <2>6. /\ c.blockSize = 0 /\ c.target = s.target /\ c.curr = s.curr
        /\ c.last = s.last /\ c.entropyOf = s.entropyOf /\ c.types = s.types
        /\ c.lengths = s.lengths /\ c.numTypes = s.numTypes /\ c.histograms = h
    BY <2>4 DEF SplitType
  <2> QED
    BY <2>2, <2>5, <2>6 DEF c
<1>2. CASE t \notin DOMAIN s.histograms
  <2>1. Cleared(s, t) = [s EXCEPT !.blockSize = 0]
    BY <1>2 DEF Cleared
  <2> DEFINE c == Cleared(s, t)
  <2> HIDE DEF c
  <2>2. c = [s EXCEPT !.blockSize = 0]
    BY <2>1 DEF c
  <2>3. c \in SplitType
    BY <2>2 DEF SplitType
  <2>4. /\ c.blockSize = 0 /\ c.target = s.target /\ c.curr = s.curr
        /\ c.last = s.last /\ c.entropyOf = s.entropyOf /\ c.types = s.types
        /\ c.lengths = s.lengths /\ c.numTypes = s.numTypes
        /\ c.histograms = s.histograms
    BY <2>2 DEF SplitType
  <2> QED
    BY <2>3, <2>4 DEF c
<1> QED
  BY <1>1, <1>2

(* The first block is of type 0, and both entropies are those of its       *)
(* histogram.                                                              *)
LEMMA FirstBlockOK ==
    ASSUME contexts \in Seq(Contexts), NEW s, SplitOK(s), s.types = <<>>,
           NEW n \in Int, Reaches(s.lengths, n)
    PROVE  /\ SplitOK(FirstBlock(s)) /\ FirstBlock(s).blockSize = 0
           /\ Len(FirstBlock(s).types) = 1
           /\ Reaches(FirstBlock(s).lengths, n + s.blockSize)
           /\ ABlockMore(s, FirstBlock(s), 0) /\ Grown(s, FirstBlock(s), 0)
<1>1. s \in SplitType /\ s.curr = 0 /\ s.numTypes = 0 /\ s.lengths = <<>>
      /\ s.target >= MinBlock /\ s.last = <<0, 0>>
  BY DEF SplitOK
<1>2. 0 \in DOMAIN s.histograms /\ TypeLimit \in Nat \ {0}
  BY <1>1, Limits DEF SplitType, Smaller, TypesWithRoom
<1> DEFINE h == s.histograms[0]
           p == [s EXCEPT !.types = <<0>>, !.lengths = <<s.blockSize>>,
                          !.entropyOf = <<h, h>>, !.numTypes = 1, !.curr = 1]
           r == Cleared(p, 1)
<1>3. h \in Histogram /\ s.blockSize \in Nat
  BY <1>1, <1>2 DEF SplitType
<1>4. p \in SplitType /\ p.histograms = s.histograms /\ p.target = s.target
      /\ p.types = <<0>> /\ p.lengths = <<s.blockSize>>
      /\ p.entropyOf = <<h, h>> /\ p.numTypes = 1 /\ p.curr = 1 /\ p.last = s.last
  <2> HIDE DEF h
  <2>1. <<0>> \in Seq(Nat) /\ <<s.blockSize>> \in Seq(Nat) /\ <<h, h>> \in Histogram \X Histogram
    BY <1>3
  <2> QED
    BY <1>1, <2>1 DEF SplitType
<1>5. FirstBlock(s) = r
  BY <1>1 DEF FirstBlock, SplitType
<1> HIDE DEF p, h
<1>6. /\ r \in SplitType /\ r.blockSize = 0 /\ r.target = s.target
      /\ r.curr = 1 /\ r.last = s.last /\ r.entropyOf = <<h, h>>
      /\ r.types = <<0>> /\ r.lengths = <<s.blockSize>> /\ r.numTypes = 1
      /\ r.histograms[0] = h
  <2>1. p \in SplitType /\ 1 \in Nat /\ 0 # 1 /\ 0 \in DOMAIN p.histograms
    BY <1>2, <1>4
  <2>2. r.histograms[0] = p.histograms[0]
    BY <2>1, ClearedEffect
  <2>3. p.histograms[0] = h
    BY <1>4 DEF h
  <2>4. /\ r \in SplitType /\ r.blockSize = 0 /\ r.target = p.target
        /\ r.curr = p.curr /\ r.last = p.last /\ r.entropyOf = p.entropyOf
        /\ r.types = p.types /\ r.lengths = p.lengths /\ r.numTypes = p.numTypes
    BY <2>1, ClearedEffect
  <2> QED
    BY <1>4, <2>2, <2>3, <2>4
<1> HIDE DEF r
<1>7. TypesInUse(r)
  BY <1>6 DEF TypesInUse
<1>8. LastTwo(r)
  BY <1>1, <1>2, <1>6 DEF LastTwo
<1>9. SplitOK(r)
  BY <1>1, <1>6, <1>7, <1>8 DEF SplitOK
<1>10. Reaches(r.lengths, n + s.blockSize)
  <2>1. s.lengths \in Seq(Nat) /\ Append(s.lengths, s.blockSize) = <<s.blockSize>>
    BY <1>1
  <2> QED
    BY <1>3, <1>6, <2>1, EndsAppend
<1>11. ABlockMore(s, r, 0)
  BY <1>1, <1>6 DEF ABlockMore
<1>12. Grown(s, r, 0)
  <2>1. 0 .. (s.numTypes - 1) = {}
    BY <1>1
  <2> QED
    BY <1>1, <1>6, <2>1 DEF Grown, h
<1> QED
  BY <1>5, <1>6, <1>9, <1>10, <1>11, <1>12

(* What the other ways start from.                                         *)
LEMMA AfterBlocks ==
    ASSUME contexts \in Seq(Contexts), NEW s, SplitOK(s), s.types # <<>>,
           s.curr \in DOMAIN s.histograms
    PROVE  /\ s \in SplitType /\ s.target \in Nat /\ s.target >= MinBlock
           /\ s.curr = s.numTypes /\ s.numTypes \in Nat \ {0}
           /\ s.types \in Seq(Nat) /\ s.lengths \in Seq(Nat)
           /\ Len(s.types) \in Nat \ {0} /\ Len(s.lengths) = Len(s.types)
           /\ s.last = <<s.last[1], s.last[2]>>
           /\ s.entropyOf = <<s.histograms[s.last[1]], s.histograms[s.last[2]]>>
           /\ \A j \in {1, 2} : /\ s.last[j] \in 0 .. (s.numTypes - 1)
                                /\ s.last[j] \in DOMAIN s.histograms
                                /\ s.last[j] # s.curr
                                /\ s.histograms[s.last[j]] \in Histogram
           /\ s.histograms[s.curr] \in Histogram
           /\ s.blockSize \in Nat
           /\ MinBlock \in Nat \ {0}
           /\ \A u \in 0 .. (s.numTypes - 1) :
                 u \in DOMAIN s.histograms /\ u # s.curr /\ u # s.curr + 1
<1>1. s \in SplitType /\ TypesInUse(s) /\ LastTwo(s) /\ s.target >= MinBlock
  BY DEF SplitOK
<1>2. /\ s.types \in Seq(Nat) /\ s.lengths \in Seq(Nat) /\ s.target \in Nat
      /\ s.numTypes \in Nat /\ s.last \in Nat \X Nat /\ s.blockSize \in Nat
      /\ s.entropyOf \in Histogram \X Histogram
      /\ s.histograms \in [TypesWithRoom -> Histogram]
  BY <1>1 DEF SplitType
<1>3. Len(s.types) \in Nat \ {0} /\ Len(s.lengths) = Len(s.types)
  BY <1>1, <1>2 DEF TypesInUse
<1>4. s.curr = s.numTypes /\ s.numTypes >= 1
  BY <1>1 DEF TypesInUse, LastTwo
<1>5. \A k \in 1 .. Len(s.types) : s.types[k] \in 0 .. (s.numTypes - 1)
  BY <1>1 DEF TypesInUse
<1>6. s.last[1] \in 0 .. (s.numTypes - 1)
  <2>1. s.last[1] = s.types[Len(s.types)] /\ Len(s.types) \in 1 .. Len(s.types)
    BY <1>1, <1>3 DEF LastTwo
  <2> QED
    BY <1>5, <2>1
<1>7. s.last[2] \in 0 .. (s.numTypes - 1)
  <2>1. CASE Len(s.types) = 1
    BY <1>1, <1>4, <2>1 DEF LastTwo
  <2>2. CASE Len(s.types) > 1
    <3>1. s.last[2] = s.types[Len(s.types) - 1] /\ Len(s.types) - 1 \in 1 .. Len(s.types)
      BY <1>1, <1>3, <2>2 DEF LastTwo
    <3> QED
      BY <1>5, <3>1
  <2>3. \A l \in Nat \ {0} : l = 1 \/ l > 1
    OBVIOUS
  <2> QED
    BY <1>3, <2>1, <2>2, <2>3
<1>8. 0 .. (s.numTypes - 1) \subseteq DOMAIN s.histograms
  <2>1. TypesWithRoom \subseteq Nat /\ \A t \in TypesWithRoom : 0 .. t \subseteq TypesWithRoom
    BY Limits DEF TypesWithRoom, Smaller
  <2>2. DOMAIN s.histograms = TypesWithRoom /\ s.numTypes \in TypesWithRoom
    BY <1>2, <1>4
  <2>3. 0 .. (s.numTypes - 1) \subseteq 0 .. s.numTypes
    BY <1>2
  <2> QED
    BY <2>1, <2>2, <2>3
<1>9. \A j \in {1, 2} : s.entropyOf[j] = s.histograms[s.last[j]]
  BY <1>1 DEF LastTwo
<1>10. MinBlock \in Nat \ {0}
  BY SplitAssumption
<1>11. \A j \in {1, 2} : /\ s.last[j] \in 0 .. (s.numTypes - 1)
                         /\ s.last[j] \in DOMAIN s.histograms
                         /\ s.last[j] # s.curr
  BY <1>2, <1>4, <1>6, <1>7, <1>8
<1>12. /\ s.last = <<s.last[1], s.last[2]>>
       /\ s.entropyOf = <<s.histograms[s.last[1]], s.histograms[s.last[2]]>>
  BY <1>2, <1>9
<1>13. ASSUME NEW u \in 0 .. (s.numTypes - 1)
       PROVE  u \in DOMAIN s.histograms /\ u # s.curr /\ u # s.curr + 1
  <2>1. u # s.numTypes /\ u # s.numTypes + 1
    BY <1>2
  <2> QED
    BY <1>4, <1>8, <2>1
<1> QED
  BY <1>1, <1>2, <1>3, <1>4, <1>10, <1>11, <1>12, <1>13

(* A merge with the last block: both entropies are of one histogram if     *)
(* there is one type only.                                                 *)
LEMMA MergeIntoLastOK ==
    ASSUME contexts \in Seq(Contexts), NEW s, SplitOK(s), s.types # <<>>,
           s.curr \in DOMAIN s.histograms,
           NEW n \in Int, Reaches(s.lengths, n)
    PROVE  /\ SplitOK(MergeIntoLast(s)) /\ MergeIntoLast(s).blockSize = 0
           /\ MergeIntoLast(s).types = s.types
           /\ Reaches(MergeIntoLast(s).lengths, n + s.blockSize)
           /\ ALongerBlock(s, MergeIntoLast(s)) /\ Grown(s, MergeIntoLast(s), s.last[1])
<1> DEFINE both == Joined(s.histograms[s.curr], s.histograms[s.last[1]])
           longer == [s.lengths EXCEPT ![Len(s.lengths)] = @ + s.blockSize]
           h == [s.histograms EXCEPT ![s.last[1]] = both]
           other == IF s.numTypes = 1 THEN both ELSE s.entropyOf[2]
           target == IF s.merged >= 1 THEN s.target + MinBlock ELSE s.target
           p == [s EXCEPT !.lengths = longer, !.histograms = h,
                          !.entropyOf = <<both, other>>,
                          !.merged = @ + 1, !.target = target]
           r == Cleared(p, s.curr)
<1>1. s \in SplitType /\ TypesInUse(s) /\ LastTwo(s)
  BY DEF SplitOK
<1>2. /\ both \in Histogram /\ other \in Histogram
      /\ longer \in Seq(Nat) /\ Len(longer) = Len(s.types)
      /\ target \in Nat /\ target >= MinBlock /\ s.merged + 1 \in Nat
  <2>1. both \in Histogram
    BY AfterBlocks, JoinedInType
  <2>2. other \in Histogram
    BY <2>1, AfterBlocks
  <2>3. longer \in Seq(Nat) /\ Len(longer) = Len(s.types)
    <3>1. /\ s.lengths \in Seq(Nat) /\ s.blockSize \in Nat
          /\ Len(s.types) = Len(s.lengths) /\ Len(s.lengths) \in Nat \ {0}
      BY AfterBlocks
    <3>2. s.lengths[Len(s.lengths)] + s.blockSize \in Nat
      BY <3>1
    <3> QED
      BY <3>1, <3>2, ExceptSeq
  <2>4. s.merged \in Nat
    BY <1>1 DEF SplitType
  <2>5. target \in Nat /\ target >= MinBlock
    <3>1. s.target \in Nat /\ s.target >= MinBlock /\ MinBlock \in Nat
      BY AfterBlocks
    <3> QED
      BY <3>1
  <2> QED
    BY <2>1, <2>2, <2>3, <2>4, <2>5
<1>3. /\ h \in [TypesWithRoom -> Histogram] /\ h[s.last[1]] = both
      /\ DOMAIN h = DOMAIN s.histograms
      /\ \A u \in DOMAIN s.histograms : u # s.last[1] => h[u] = s.histograms[u]
  BY <1>1, <1>2, AfterBlocks DEF SplitType
<1>4. MergeIntoLast(s) = r
  BY <1>1 DEF MergeIntoLast, SplitType
<1> HIDE DEF both, longer, h, other, target
<1>5. /\ p \in SplitType /\ p.curr = s.curr /\ p.last = s.last /\ p.types = s.types
      /\ p.numTypes = s.numTypes /\ p.lengths = longer /\ p.target = target
      /\ p.entropyOf = <<both, other>> /\ p.histograms = h
  BY <1>1, <1>2, <1>3 DEF SplitType
<1> HIDE DEF p
<1>6. /\ r \in SplitType /\ r.blockSize = 0 /\ r.target = target
      /\ r.curr = s.curr /\ r.last = s.last /\ r.entropyOf = <<both, other>>
      /\ r.types = s.types /\ r.lengths = longer /\ r.numTypes = s.numTypes
      /\ \A u \in DOMAIN s.histograms : u # s.curr => r.histograms[u] = h[u]
  <2>1. s.curr \in Nat
    BY <1>1 DEF SplitType
  <2>2. /\ r \in SplitType /\ r.blockSize = 0 /\ r.target = p.target
        /\ r.curr = p.curr /\ r.last = p.last /\ r.entropyOf = p.entropyOf
        /\ r.types = p.types /\ r.lengths = p.lengths /\ r.numTypes = p.numTypes
        /\ \A u \in DOMAIN p.histograms : u # s.curr => r.histograms[u] = p.histograms[u]
    BY <1>5, <2>1, ClearedEffect
  <2> QED
    BY <1>3, <1>5, <2>2
<1> HIDE DEF r
<1>7. TypesInUse(r)
  <2>1. Len(s.types) = Len(longer)
    BY <1>2
  <2> QED
    BY <1>1, <1>6, <2>1 DEF TypesInUse
<1>8. r.entropyOf[1] = r.histograms[r.last[1]] /\ r.entropyOf[2] = r.histograms[r.last[2]]
  <2>1. r.histograms[s.last[1]] = both
    BY <1>3, <1>6, AfterBlocks
  <2>2. r.histograms[s.last[2]] = other
    <3>1. r.histograms[s.last[2]] = h[s.last[2]]
      BY <1>6, AfterBlocks
    <3>2. CASE s.numTypes = 1
      <4>1. s.last[1] = 0 /\ s.last[2] = 0
        BY <3>2, AfterBlocks
      <4> QED
        BY <1>3, <3>1, <3>2, <4>1 DEF other
    <3>3. CASE s.numTypes # 1
      <4>1. s.last[1] # s.last[2]
        BY <1>1, <3>3, AfterBlocks DEF LastTwo
      <4> QED
        BY <1>3, <3>1, <3>3, <4>1, AfterBlocks DEF other
    <3> QED
      BY <3>2, <3>3
  <2> QED
    BY <1>6, <2>1, <2>2
<1>9. LastTwo(r)
  BY <1>1, <1>6, <1>8 DEF LastTwo
<1>10. SplitOK(r)
  BY <1>2, <1>6, <1>7, <1>9 DEF SplitOK
<1>11. Reaches(longer, n + s.blockSize)
  <2>1. s.lengths # <<>>
    BY AfterBlocks
  <2> QED
    BY <2>1, AfterBlocks, EndsLonger DEF longer
<1>12. ALongerBlock(s, r)
  BY <1>6 DEF ALongerBlock, longer
<1>13. Grown(s, r, s.last[1])
  <2>1. r.histograms[s.last[1]] = both
    BY <1>3, <1>6, AfterBlocks
  <2>2. \A c \in HistogramContexts :
           both[c] = s.histograms[s.curr][c] \cup s.histograms[s.last[1]][c]
    BY DEF both, Joined
  <2>3. \A u \in 0 .. (s.numTypes - 1) :
           u # s.last[1] => r.histograms[u] = s.histograms[u]
    <3>1. \A u \in 0 .. (s.numTypes - 1) : u \in DOMAIN s.histograms /\ u # s.curr
      BY AfterBlocks
    <3> QED
      BY <1>3, <1>6, <3>1
  <2> QED
    BY <2>1, <2>2, <2>3 DEF Grown
<1> QED
  BY <1>4, <1>6, <1>10, <1>11, <1>12, <1>13

(* What a sequence is with one element more.                               *)
LEMMA Appended ==
    ASSUME NEW seq \in Seq(Nat), NEW x \in Nat, seq # <<>>
    PROVE  /\ Append(seq, x) \in Seq(Nat) /\ Append(seq, x) # <<>>
           /\ Len(Append(seq, x)) = Len(seq) + 1 /\ Len(Append(seq, x)) # 1
           /\ Append(seq, x)[1] = seq[1]
           /\ Append(seq, x)[Len(seq) + 1] = x
           /\ Append(seq, x)[Len(seq)] = seq[Len(seq)]
           /\ \A k \in 1 .. (Len(seq) + 1) :
                 \/ k = Len(seq) + 1
                 \/ k \in 1 .. Len(seq) /\ Append(seq, x)[k] = seq[k]
<1>1. Len(seq) \in Nat \ {0}
  OBVIOUS
<1>2. Append(seq, x) \in Seq(Nat) /\ Len(Append(seq, x)) = Len(seq) + 1
      /\ Append(seq, x)[Len(seq) + 1] = x
      /\ \A k \in 1 .. Len(seq) : Append(seq, x)[k] = seq[k]
  BY AppendProperties
<1> DEFINE longer == Append(seq, x)
           n == Len(seq)
<1>3. 1 \in 1 .. n /\ n \in 1 .. n /\ n + 1 # 1
      /\ \A k \in 1 .. (n + 1) : k = n + 1 \/ k \in 1 .. n
  BY <1>1
<1>4. longer # <<>>
  <2>1. Len(<<>>) = 0
    OBVIOUS
  <2> QED
    BY <1>1, <1>2, <2>1
<1> QED
  BY <1>2, <1>3, <1>4

(* A block of a new type: its histogram was the one being filled.          *)
LEMMA NewTypeOK ==
    ASSUME contexts \in Seq(Contexts), NEW s, SplitOK(s), s.types # <<>>,
           s.curr \in DOMAIN s.histograms, s.numTypes < TypeLimit,
           NEW n \in Int, Reaches(s.lengths, n)
    PROVE  /\ SplitOK(NewType(s)) /\ NewType(s).blockSize = 0
           /\ NewType(s).types # <<>> /\ Len(NewType(s).types) = Len(s.types) + 1
           /\ Reaches(NewType(s).lengths, n + s.blockSize)
           /\ ABlockMore(s, NewType(s), s.numTypes) /\ Grown(s, NewType(s), s.numTypes)
<1> DEFINE type == s.numTypes
           types == Append(s.types, type)
           lengths == Append(s.lengths, s.blockSize)
           entropies == <<s.histograms[s.curr], s.entropyOf[1]>>
           p == [s EXCEPT !.types = types, !.lengths = lengths, !.merged = 0,
                          !.target = MinBlock, !.last = <<type, s.last[1]>>,
                          !.entropyOf = entropies,
                          !.numTypes = type + 1, !.curr = type + 1]
           r == Cleared(p, type + 1)
<1>1. s \in SplitType /\ TypesInUse(s) /\ LastTwo(s)
  BY DEF SplitOK
<1>2. type \in Nat \ {0} /\ s.curr = type /\ type < TypeLimit /\ TypeLimit \in Nat
  BY AfterBlocks, Limits
<1>3. /\ types \in Seq(Nat) /\ lengths \in Seq(Nat)
      /\ Len(types) = Len(s.types) + 1 /\ Len(lengths) = Len(types)
      /\ types # <<>> /\ Len(types) # 1 /\ types[1] = s.types[1]
      /\ types[Len(types)] = type /\ types[Len(types) - 1] = s.types[Len(s.types)]
      /\ \A k \in 1 .. Len(types) :
            \/ k = Len(types)
            \/ k \in 1 .. Len(s.types) /\ types[k] = s.types[k]
  <2>1. /\ s.types \in Seq(Nat) /\ s.lengths \in Seq(Nat) /\ s.blockSize \in Nat
        /\ Len(s.types) = Len(s.lengths) /\ Len(s.types) \in Nat
    BY AfterBlocks
  <2>2. type \in Nat
    BY <1>2
  <2> DEFINE l == Len(s.types)
  <2>3. /\ types \in Seq(Nat) /\ types # <<>> /\ Len(types) = l + 1 /\ Len(types) # 1
        /\ types[1] = s.types[1] /\ types[l + 1] = type /\ types[l] = s.types[l]
        /\ \A k \in 1 .. (l + 1) :
              \/ k = l + 1
              \/ k \in 1 .. l /\ types[k] = s.types[k]
    <3> HIDE DEF type
    <3> QED
      BY <2>1, <2>2, Appended
  <2>4. lengths \in Seq(Nat) /\ Len(lengths) = l + 1
    BY <2>1, AppendProperties
  <2>5. l \in Nat /\ (l + 1) - 1 = l
    BY <2>1
  <2> HIDE DEF types, lengths, type
  <2> QED
    BY <2>3, <2>4, <2>5
<1>4. /\ entropies \in Histogram \X Histogram
      /\ entropies[1] = s.histograms[type] /\ entropies[2] = s.histograms[s.last[1]]
      /\ s.last[1] \in 0 .. (type - 1) /\ s.last[1] \in DOMAIN s.histograms
      /\ type \in DOMAIN s.histograms
  <2>1. s.histograms[s.curr] \in Histogram /\ s.histograms[s.last[1]] \in Histogram
    BY AfterBlocks
  <2>2. s.entropyOf[1] = s.histograms[s.last[1]]
    BY AfterBlocks
  <2> QED
    BY <1>2, <2>1, <2>2, AfterBlocks
<1>5. NewType(s) = r
  BY <1>1, <1>2 DEF NewType, AnotherBlock, SplitType
<1> HIDE DEF types, lengths, entropies
<1>6. /\ p \in SplitType /\ p.curr = type + 1 /\ p.last = <<type, s.last[1]>>
      /\ p.types = types /\ p.numTypes = type + 1 /\ p.lengths = lengths
      /\ p.target = MinBlock /\ p.entropyOf = entropies
      /\ p.histograms = s.histograms
  <2>1. <<type, s.last[1]>> \in Nat \X Nat /\ MinBlock \in Nat /\ type + 1 \in Nat
    BY <1>2, <1>4, SplitAssumption
  <2> HIDE DEF type
  <2> QED
    BY <1>1, <1>3, <1>4, <2>1 DEF SplitType
<1> HIDE DEF p
<1>7. /\ r \in SplitType /\ r.blockSize = 0 /\ r.target = MinBlock
      /\ r.curr = type + 1 /\ r.last = <<type, s.last[1]>> /\ r.entropyOf = entropies
      /\ r.types = types /\ r.lengths = lengths /\ r.numTypes = type + 1
      /\ \A u \in DOMAIN s.histograms :
            u # type + 1 => r.histograms[u] = s.histograms[u]
  <2>1. type + 1 \in Nat
    BY <1>2
  <2>2. /\ r \in SplitType /\ r.blockSize = 0 /\ r.target = p.target
        /\ r.curr = p.curr /\ r.last = p.last /\ r.entropyOf = p.entropyOf
        /\ r.types = p.types /\ r.lengths = p.lengths /\ r.numTypes = p.numTypes
        /\ \A u \in DOMAIN p.histograms :
              u # type + 1 => r.histograms[u] = p.histograms[u]
    BY <1>6, <2>1, ClearedEffect
  <2> QED
    BY <1>6, <2>2
<1> HIDE DEF r, type
<1>8. TypesInUse(r)
  <2>1. Len(s.types) \in Nat \ {0} /\ s.types[1] = 0
        /\ \A k \in 1 .. Len(s.types) : s.types[k] \in 0 .. (type - 1)
    BY <1>1, AfterBlocks DEF TypesInUse, type
  <2>2. types[1] = 0 /\ types # <<>>
    BY <1>3, <2>1
  <2>3. ASSUME NEW k \in 1 .. Len(types)
        PROVE  types[k] \in 0 .. type
    <3>1. CASE k = Len(types)
      <4>1. types[k] = type
        BY <1>3, <3>1
      <4> QED
        BY <1>2, <4>1
    <3>2. CASE k \in 1 .. Len(s.types) /\ types[k] = s.types[k]
      BY <1>2, <2>1, <3>2
    <3> QED
      BY <1>3, <3>1, <3>2
  <2>4. /\ Len(r.types) = Len(r.lengths) /\ r.numTypes >= 1 /\ r.numTypes # 1
        /\ r.numTypes - 1 = type /\ r.types = types
    <3>1. type + 1 >= 1 /\ type + 1 # 1 /\ (type + 1) - 1 = type
      BY <1>2
    <3> QED
      BY <1>3, <1>7, <3>1
  <2> HIDE DEF types
  <2> QED
    BY <2>2, <2>3, <2>4 DEF TypesInUse
<1>9. \A j \in {1, 2} : r.entropyOf[j] = r.histograms[r.last[j]]
  <2>1. r.histograms[type] = s.histograms[type]
        /\ r.histograms[s.last[1]] = s.histograms[s.last[1]]
    BY <1>2, <1>4, <1>7
  <2>2. r.last[1] = type /\ r.last[2] = s.last[1]
    BY <1>7
  <2> QED
    BY <1>4, <1>7, <2>1, <2>2
<1>10. LastTwo(r)
  <2>1. Len(s.types) \in Nat \ {0} /\ type <= Len(s.types)
        /\ s.last[1] = s.types[Len(s.types)]
    BY <1>1, AfterBlocks DEF LastTwo, type
  <2>2. r.last[1] = type /\ r.last[2] = s.last[1]
    BY <1>7
  <2>3. types[Len(types) - 1] = s.types[Len(s.types)]
    BY <1>3, <2>1
  <2>4. type + 1 <= TypeLimit /\ type + 1 <= Len(types) /\ Len(types) # 1
    BY <1>2, <1>3, <2>1
  <2>5. s.last[1] # type
    BY <1>2, <1>4
  <2> QED
    BY <1>3, <1>7, <1>9, <2>1, <2>2, <2>3, <2>4, <2>5 DEF LastTwo
<1>11. types # <<>>
  <2>1. Len(types) # 0
    BY <1>3, AfterBlocks
  <2> QED
    BY <2>1
<1>12. SplitOK(r)
  BY <1>7, <1>8, <1>10, <1>11, SplitAssumption DEF SplitOK
<1>13. Reaches(lengths, n + s.blockSize)
  BY AfterBlocks, EndsAppend DEF lengths
<1>14. ABlockMore(s, r, s.numTypes)
  BY <1>7 DEF ABlockMore, types, lengths, type
<1>15. Grown(s, r, s.numTypes)
  <2>1. \A u \in 0 .. (s.numTypes - 1) : u \in DOMAIN s.histograms /\ u # type + 1
    <3>1. s.curr + 1 = type + 1
      BY <1>2
    <3> HIDE DEF type
    <3> QED
      BY <3>1, AfterBlocks
  <2>2. \A u \in 0 .. (s.numTypes - 1) : r.histograms[u] = s.histograms[u]
    BY <1>7, <2>1
  <2>3. s.curr = s.numTypes /\ r.histograms[s.numTypes] = s.histograms[s.numTypes]
    BY <1>2, <1>4, <1>7 DEF type
  <2> QED
    BY <2>2, <2>3 DEF Grown
<1> QED
  BY <1>3, <1>5, <1>7, <1>11, <1>12, <1>13, <1>14, <1>15

(* A block of the type before the last one, which is there if the          *)
(* differences are not the same.                                           *)
LEMMA SecondLastTypeOK ==
    ASSUME contexts \in Seq(Contexts), NEW s, SplitOK(s), s.types # <<>>,
           s.curr \in DOMAIN s.histograms, ~SameDifference(s),
           NEW n \in Int, Reaches(s.lengths, n)
    PROVE  /\ SplitOK(SecondLastType(s)) /\ SecondLastType(s).blockSize = 0
           /\ SecondLastType(s).types # <<>>
           /\ Len(SecondLastType(s).types) = Len(s.types) + 1
           /\ Reaches(SecondLastType(s).lengths, n + s.blockSize)
           /\ Len(s.types) > 1
           /\ ABlockMore(s, SecondLastType(s), s.last[2])
           /\ Grown(s, SecondLastType(s), s.last[2])
<1> DEFINE both == Joined(s.histograms[s.curr], s.histograms[s.last[2]])
           type == s.types[Len(s.types) - 1]
           types == Append(s.types, type)
           lengths == Append(s.lengths, s.blockSize)
           h == [s.histograms EXCEPT ![s.last[2]] = both]
           entropies == <<both, s.entropyOf[1]>>
           p == [s EXCEPT !.types = types, !.lengths = lengths, !.merged = 0,
                          !.target = MinBlock, !.last = <<s.last[2], s.last[1]>>,
                          !.histograms = h, !.entropyOf = entropies]
           r == Cleared(p, s.curr)
<1>1. s \in SplitType /\ TypesInUse(s) /\ LastTwo(s)
  BY DEF SplitOK
<1>2. s.last[1] # s.last[2]
  <2>1. CASE s.last[1] = s.last[2]
    <3>1. s.entropyOf[1] = s.entropyOf[2]
      BY <2>1, AfterBlocks
    <3> QED
      BY <2>1, <3>1 DEF SameDifference
  <2> QED
    BY <2>1
<1>3. Len(s.types) \in Nat /\ Len(s.types) > 1
  <2>1. Len(s.types) \in Nat \ {0}
    BY AfterBlocks
  <2>2. CASE Len(s.types) = 1
    <3>1. s.numTypes = 1
      BY <1>1, <2>2 DEF LastTwo
    <3>2. s.last[1] = 0 /\ s.last[2] = 0
      BY <3>1, AfterBlocks
    <3> QED
      BY <1>2, <3>2
  <2>3. \A l \in Nat \ {0} : l = 1 \/ l > 1
    OBVIOUS
  <2> QED
    BY <2>1, <2>2, <2>3
<1>4. type = s.last[2] /\ type \in 0 .. (s.numTypes - 1) /\ type \in Nat
  BY <1>1, <1>3, AfterBlocks, SMTT(60) DEF LastTwo
<1>5. /\ types \in Seq(Nat) /\ lengths \in Seq(Nat)
      /\ Len(types) = Len(s.types) + 1 /\ Len(lengths) = Len(types)
      /\ types # <<>> /\ Len(types) # 1 /\ types[1] = s.types[1]
      /\ types[Len(types)] = type /\ types[Len(types) - 1] = s.types[Len(s.types)]
      /\ \A k \in 1 .. Len(types) :
            \/ k = Len(types)
            \/ k \in 1 .. Len(s.types) /\ types[k] = s.types[k]
  <2>1. /\ s.types \in Seq(Nat) /\ s.lengths \in Seq(Nat) /\ s.blockSize \in Nat
        /\ Len(s.types) = Len(s.lengths) /\ Len(s.types) \in Nat
    BY AfterBlocks
  <2>2. type \in Nat
    BY <1>4
  <2> DEFINE l == Len(s.types)
  <2>3. /\ types \in Seq(Nat) /\ types # <<>> /\ Len(types) = l + 1 /\ Len(types) # 1
        /\ types[1] = s.types[1] /\ types[l + 1] = type /\ types[l] = s.types[l]
        /\ \A k \in 1 .. (l + 1) :
              \/ k = l + 1
              \/ k \in 1 .. l /\ types[k] = s.types[k]
    <3> HIDE DEF type
    <3> QED
      BY <2>1, <2>2, Appended
  <2>4. lengths \in Seq(Nat) /\ Len(lengths) = l + 1
    BY <2>1, AppendProperties
  <2>5. l \in Nat /\ (l + 1) - 1 = l
    BY <2>1
  <2> HIDE DEF types, lengths, type
  <2> QED
    BY <2>3, <2>4, <2>5
<1>6. /\ both \in Histogram /\ entropies \in Histogram \X Histogram
      /\ entropies[1] = both /\ entropies[2] = s.histograms[s.last[1]]
  <2>1. both \in Histogram /\ s.histograms[s.last[1]] \in Histogram
    BY AfterBlocks, JoinedInType
  <2>2. s.entropyOf[1] = s.histograms[s.last[1]]
    BY AfterBlocks
  <2> HIDE DEF both
  <2> QED
    BY <2>1, <2>2
<1>7. /\ h \in [TypesWithRoom -> Histogram] /\ h[s.last[2]] = both
      /\ DOMAIN h = DOMAIN s.histograms
      /\ \A u \in DOMAIN s.histograms : u # s.last[2] => h[u] = s.histograms[u]
  BY <1>1, <1>6, AfterBlocks DEF SplitType
<1>8. SecondLastType(s) = r
  BY <1>1 DEF SecondLastType, AnotherBlock, SplitType
<1> HIDE DEF both, types, lengths, entropies, h, type
<1>9. /\ p \in SplitType /\ p.curr = s.curr /\ p.last = <<s.last[2], s.last[1]>>
      /\ p.types = types /\ p.numTypes = s.numTypes /\ p.lengths = lengths
      /\ p.target = MinBlock /\ p.entropyOf = entropies /\ p.histograms = h
  <2>1. <<s.last[2], s.last[1]>> \in Nat \X Nat /\ MinBlock \in Nat
    BY AfterBlocks
  <2> QED
    BY <1>1, <1>5, <1>6, <1>7, <2>1 DEF SplitType
<1> HIDE DEF p
<1>10. /\ r \in SplitType /\ r.blockSize = 0 /\ r.target = MinBlock
       /\ r.curr = s.curr /\ r.last = <<s.last[2], s.last[1]>>
       /\ r.entropyOf = entropies /\ r.types = types /\ r.lengths = lengths
       /\ r.numTypes = s.numTypes
       /\ \A u \in DOMAIN s.histograms : u # s.curr => r.histograms[u] = h[u]
  <2>1. s.curr \in Nat
    BY <1>1 DEF SplitType
  <2>2. /\ r \in SplitType /\ r.blockSize = 0 /\ r.target = p.target
        /\ r.curr = p.curr /\ r.last = p.last /\ r.entropyOf = p.entropyOf
        /\ r.types = p.types /\ r.lengths = p.lengths /\ r.numTypes = p.numTypes
        /\ \A u \in DOMAIN p.histograms : u # s.curr => r.histograms[u] = p.histograms[u]
    BY <1>9, <2>1, ClearedEffect
  <2> QED
    BY <1>7, <1>9, <2>2
<1> HIDE DEF r
<1>11. TypesInUse(r)
  <2>1. s.types[1] = 0 /\ s.numTypes \in Nat \ {0} /\ s.numTypes # 1
        /\ \A k \in 1 .. Len(s.types) : s.types[k] \in 0 .. (s.numTypes - 1)
    BY <1>1, <1>3, AfterBlocks DEF TypesInUse
  <2>2. types[1] = 0 /\ types # <<>>
    BY <1>3, <1>5, <2>1
  <2>3. ASSUME NEW k \in 1 .. Len(types)
        PROVE  types[k] \in 0 .. (s.numTypes - 1)
    <3>1. CASE k = Len(types)
      BY <1>4, <1>5, <3>1
    <3>2. CASE k \in 1 .. Len(s.types) /\ types[k] = s.types[k]
      BY <2>1, <3>2
    <3> QED
      BY <1>5, <3>1, <3>2
  <2>4. /\ Len(r.types) = Len(r.lengths) /\ r.numTypes >= 1 /\ r.numTypes # 1
        /\ r.numTypes = s.numTypes /\ r.types = types
    BY <1>5, <1>10, <2>1
  <2> QED
    BY <2>2, <2>3, <2>4 DEF TypesInUse
<1>12. \A j \in {1, 2} : r.entropyOf[j] = r.histograms[r.last[j]]
  <2>1. r.histograms[s.last[2]] = both
    BY <1>7, <1>10, AfterBlocks
  <2>2. r.histograms[s.last[1]] = s.histograms[s.last[1]]
    BY <1>2, <1>7, <1>10, AfterBlocks
  <2>3. r.last[1] = s.last[2] /\ r.last[2] = s.last[1]
    BY <1>10
  <2> QED
    BY <1>6, <1>10, <2>1, <2>2, <2>3
<1>13. LastTwo(r)
  <2>1. s.last[1] = s.types[Len(s.types)] /\ s.numTypes <= TypeLimit
        /\ s.numTypes <= Len(s.types) /\ s.curr = s.numTypes /\ s.numTypes \in Nat
    BY <1>1, AfterBlocks DEF LastTwo
  <2>2. r.last[1] = s.last[2] /\ r.last[2] = s.last[1]
    BY <1>10
  <2>3. types[Len(types) - 1] = s.types[Len(s.types)]
    BY <1>3, <1>5
  <2>4. s.numTypes <= Len(types) /\ Len(types) # 1
    BY <1>3, <1>5, <2>1
  <2> QED
    BY <1>2, <1>4, <1>5, <1>10, <1>12, <2>1, <2>2, <2>3, <2>4 DEF LastTwo
<1>14. types # <<>>
  <2>1. Len(types) # 0
    BY <1>3, <1>5
  <2> QED
    BY <2>1
<1>15. SplitOK(r)
  BY <1>10, <1>11, <1>13, <1>14, SplitAssumption DEF SplitOK
<1>16. Reaches(lengths, n + s.blockSize)
  BY AfterBlocks, EndsAppend DEF lengths
<1>17. ABlockMore(s, r, s.last[2])
  BY <1>4, <1>10 DEF ABlockMore, types, lengths
<1>18. Grown(s, r, s.last[2])
  <2>1. r.histograms[s.last[2]] = both
    BY <1>7, <1>10, AfterBlocks
  <2>2. \A c \in HistogramContexts :
           both[c] = s.histograms[s.curr][c] \cup s.histograms[s.last[2]][c]
    BY DEF both, Joined
  <2>3. \A u \in 0 .. (s.numTypes - 1) :
           u # s.last[2] => r.histograms[u] = s.histograms[u]
    <3>1. \A u \in 0 .. (s.numTypes - 1) : u \in DOMAIN s.histograms /\ u # s.curr
      BY AfterBlocks
    <3> QED
      BY <1>7, <1>10, <3>1
  <2> QED
    BY <2>1, <2>2, <2>3 DEF Grown
<1> QED
  BY <1>3, <1>5, <1>8, <1>10, <1>14, <1>15, <1>16, <1>17, <1>18

(* Blocks that reach n symbols reach fewer.                                *)
LEMMA ReachesLess ==
    ASSUME NEW lengths \in Seq(Nat), NEW n \in Int, NEW m \in Int, m <= n,
           Reaches(lengths, n)
    PROVE  Reaches(lengths, m)
<1>1. PICK e : EndsOf(e, lengths) /\ n <= e[Len(lengths)]
  BY DEF Reaches
<1>2. e[Len(lengths)] \in Int
  BY <1>1 DEF EndsOf
<1>3. m <= e[Len(lengths)]
  BY <1>1, <1>2
<1> QED
  BY <1>1, <1>3 DEF Reaches

(* Padding a block to MinBlock changes nothing but its size.               *)
LEMMA Padded ==
    ASSUME contexts \in Seq(Contexts), NEW b, SplitOK(b)
    PROVE  LET s == [b EXCEPT !.blockSize = Larger(@, MinBlock)]
           IN  /\ SplitOK(s) /\ s.types = b.types /\ s.lengths = b.lengths
               /\ s.curr = b.curr /\ s.histograms = b.histograms
               /\ s.numTypes = b.numTypes
               /\ s.blockSize >= b.blockSize /\ s.blockSize \in Nat /\ b.blockSize \in Nat
<1> DEFINE size == Larger(b.blockSize, MinBlock)
           s == [b EXCEPT !.blockSize = size]
<1>1. b \in SplitType /\ b.blockSize \in Nat /\ MinBlock \in Nat
  BY SplitAssumption DEF SplitOK, SplitType
<1>2. size \in Nat /\ size >= b.blockSize
  BY <1>1 DEF Larger
<1> HIDE DEF size
<1>3. /\ s \in SplitType /\ s.blockSize = size /\ s.target = b.target
      /\ s.types = b.types /\ s.lengths = b.lengths /\ s.curr = b.curr
      /\ s.histograms = b.histograms /\ s.numTypes = b.numTypes
      /\ s.last = b.last /\ s.entropyOf = b.entropyOf
  BY <1>1, <1>2 DEF SplitType
<1> HIDE DEF s
<1>4. TypesInUse(b) => TypesInUse(s)
  BY <1>3 DEF TypesInUse
<1>5. LastTwo(b) => LastTwo(s)
  BY <1>3 DEF LastTwo
<1>6. SplitOK(s)
  BY <1>3, <1>4, <1>5 DEF SplitOK
<1> QED
  BY <1>1, <1>2, <1>3, <1>6 DEF s, size

(* Whichever way a block is finished, its symbols are in the blocks.       *)
LEMMA FinishBlockOK ==
    ASSUME contexts \in Seq(Contexts), NEW b, SplitOK(b),
           b.curr \in DOMAIN b.histograms,
           NEW n \in Int, Reaches(b.lengths, n),
           NEW r \in FinishBlock(b)
    PROVE  /\ SplitOK(r) /\ r.blockSize = 0 /\ r.types # <<>>
           /\ Len(r.types) \in {Len(b.types), Len(b.types) + 1}
           /\ Reaches(r.lengths, n + b.blockSize)
<1> DEFINE s == [b EXCEPT !.blockSize = Larger(@, MinBlock)]
<1>1. /\ SplitOK(s) /\ s.types = b.types /\ s.lengths = b.lengths
      /\ s.curr = b.curr /\ s.histograms = b.histograms
      /\ s.blockSize >= b.blockSize /\ s.blockSize \in Nat /\ b.blockSize \in Nat
  BY Padded
<1>2. \/ s.types = <<>> /\ r = FirstBlock(s)
      \/ s.types # <<>> /\ r = MergeIntoLast(s)
      \/ s.types # <<>> /\ s.numTypes < TypeLimit /\ r = NewType(s)
      \/ s.types # <<>> /\ ~SameDifference(s) /\ r = SecondLastType(s)
  BY DEF FinishBlock, MayBeNew
<1> HIDE DEF s
<1>3. s.curr \in DOMAIN s.histograms /\ Reaches(s.lengths, n)
  BY <1>1
<1>4. /\ SplitOK(r) /\ r.blockSize = 0 /\ r.types # <<>>
      /\ Len(r.types) \in {Len(s.types), Len(s.types) + 1}
      /\ Reaches(r.lengths, n + s.blockSize)
  <2>1. CASE s.types = <<>> /\ r = FirstBlock(s)
    <3>1. SplitOK(r) /\ r.blockSize = 0 /\ Len(r.types) = 1
          /\ Reaches(r.lengths, n + s.blockSize)
      BY <1>1, <1>3, <2>1, FirstBlockOK
    <3>2. Len(s.types) = 0
      BY <2>1
    <3>3. r.types # <<>>
      <4>1. r.types \in Seq(Nat)
        BY <3>1 DEF SplitOK, SplitType
      <4>2. Len(r.types) # 0
        BY <3>1
      <4> QED
        BY ONLY <4>1, <4>2
    <3> QED
      BY <3>1, <3>2, <3>3
  <2>2. CASE s.types # <<>> /\ r = MergeIntoLast(s)
    BY <1>1, <1>3, <2>2, MergeIntoLastOK
  <2>3. CASE s.types # <<>> /\ s.numTypes < TypeLimit /\ r = NewType(s)
    BY <1>1, <1>3, <2>3, NewTypeOK
  <2>4. CASE s.types # <<>> /\ ~SameDifference(s) /\ r = SecondLastType(s)
    BY <1>1, <1>3, <2>4, SecondLastTypeOK
  <2> QED
    BY <1>2, <2>1, <2>2, <2>3, <2>4
<1>5. Reaches(r.lengths, n + b.blockSize)
  <2>1. r.lengths \in Seq(Nat)
    BY <1>4 DEF SplitOK, SplitType
  <2>2. n + b.blockSize <= n + s.blockSize /\ n + b.blockSize \in Int /\ n + s.blockSize \in Int
    BY <1>1
  <2> QED
    BY <1>4, <2>1, <2>2, ReachesLess
<1> QED
  BY <1>1, <1>4, <1>5

-----------------------------------------------------------------------------
(* The steps.                                                              *)

(* There is a histogram to count in, and room for one block more.          *)
LEMMA RoomForMore ==
    ASSUME IInv, GreedyOK, NEW s, SplitOK(s),
           s.types = split.types
    PROVE  /\ s.curr \in DOMAIN s.histograms
           /\ Len(s.types) < MaxBlocks
<1>1. contexts \in Seq(Contexts) /\ count \in 0 .. Len(contexts) /\ SplitOK(split)
      /\ Len(split.types) * MinBlock + split.blockSize <= count
  BY DEF IInv, GreedyOK
<1>2. s \in SplitType /\ split \in SplitType
  BY <1>1 DEF SplitOK
<1>3. Len(split.types) \in Nat /\ split.blockSize \in Nat /\ MinBlock \in Nat
      /\ Len(contexts) \in Nat
  <2>1. split.types \in Seq(Nat) /\ split.blockSize \in Nat
    BY <1>2 DEF SplitType
  <2>2. MinBlock \in Nat
    BY SplitAssumption
  <2>3. Len(split.types) \in Nat /\ Len(contexts) \in Nat
    BY <1>1, <2>1
  <2> QED
    BY <2>1, <2>2, <2>3
<1>4. Len(split.types) * MinBlock <= Len(contexts)
  <2>1. Len(split.types) * MinBlock \in Nat
    BY <1>3
  <2> QED
    BY <1>1, <1>3, <2>1
<1>5. Len(s.types) < MaxBlocks
  BY <1>1, <1>3, <1>4, RoomForBlocks
<1>6. /\ s.curr \in Nat /\ s.curr <= Len(s.types) /\ s.curr <= TypeLimit
      /\ TypeLimit \in Nat /\ MaxBlocks \in Nat
  <2>1. TypeLimit \in Nat \ {0} /\ MaxBlocks \in Nat
    BY <1>1, Limits
  <2>2. s.curr \in Nat
    BY <1>2 DEF SplitType
  <2>3. CASE s.types = <<>>
    <3>1. s.curr = 0 /\ Len(s.types) = 0
      BY <2>3 DEF SplitOK
    <3> QED
      BY <2>1, <3>1
  <2>4. CASE s.types # <<>>
    BY <2>1, <2>2, <2>4 DEF SplitOK, LastTwo
  <2> QED
    BY <2>3, <2>4
<1>7. DOMAIN s.histograms = TypesWithRoom
  BY <1>2 DEF SplitType
<1>8. s.curr \in TypesWithRoom
  <2>1. Len(s.types) \in Nat
    BY <1>3
  <2> QED
    BY <1>5, <1>6, <2>1 DEF TypesWithRoom, Smaller
<1> QED
  BY <1>5, <1>7, <1>8

(* No index of FinishBlock is out of bounds.                               *)
LEMMA NoFinishPanics ==
    ASSUME IInv, GreedyOK, NEW s, SplitOK(s), s.types = split.types,
           s.lengths = split.lengths
    PROVE  ~FinishPanics(s)
<1>1. contexts \in Seq(Contexts) /\ s.curr \in DOMAIN s.histograms
      /\ Len(s.types) < MaxBlocks
  BY RoomForMore DEF IInv
<1>2. Len(s.types) \in Nat /\ MaxBlocks \in Nat
  BY <1>1, Limits DEF SplitOK, SplitType
<1>3. ASSUME s.types # <<>>, ~SameDifference(s)
      PROVE  Len(s.types) > 1
  <2>1. count - split.blockSize \in Int /\ Reaches(s.lengths, count - split.blockSize)
    <3>1. split.blockSize \in Nat
      BY DEF GreedyOK, SplitOK, SplitType
    <3>2. count \in Nat
      BY DEF IInv
    <3>3. Reaches(s.lengths, count - split.blockSize)
      BY DEF GreedyOK
    <3> QED
      BY <3>1, <3>2, <3>3
  <2> QED
    BY <1>1, <1>3, <2>1, SecondLastTypeOK
<1>4. /\ Len(s.types) < MaxBlocks => ~(Len(s.types) >= MaxBlocks)
      /\ Len(s.types) > 1 => Len(s.types) # 1
  <2>1. \A a, b \in Nat : /\ a < b => ~(a >= b)
                          /\ a > 1 => a # 1
    OBVIOUS
  <2> QED
    BY <1>2, <2>1
<1> QED
  BY <1>1, <1>3, <1>4 DEF FinishPanics

(* Counting a symbol does not touch the histograms with entropies.         *)
LEMMA CountedOK ==
    ASSUME contexts \in Seq(Contexts), SplitOK(split),
           split.curr \in DOMAIN split.histograms, NEW p \in Nat
    PROVE  LET s == Counted(split, p)
           IN  /\ SplitOK(s) /\ s.types = split.types /\ s.lengths = split.lengths
               /\ s.curr = split.curr /\ s.target = split.target
               /\ s.target \in Nat /\ s.target >= MinBlock
               /\ s.blockSize = split.blockSize + 1 /\ split.blockSize \in Nat
<1> DEFINE ctx == StaticContextMap(contexts[p])
           old == split.histograms[split.curr]
           new == [old EXCEPT ![ctx] = @ \cup {p}]
           h == [split.histograms EXCEPT ![split.curr] = new]
           s == [split EXCEPT !.histograms = h, !.blockSize = @ + 1]
<1>1. split \in SplitType
  BY DEF SplitOK
<1>2. old \in Histogram
  BY <1>1 DEF SplitType
<1>3. new \in Histogram
  <2> HIDE DEF old, ctx
  <2> QED
    BY <1>2 DEF Histogram
<1>4. Counted(split, p) = s
  BY <1>1 DEF Counted, SplitType
<1> HIDE DEF new, old, ctx
<1>5. /\ h \in [TypesWithRoom -> Histogram]
      /\ \A u \in DOMAIN split.histograms :
            u # split.curr => h[u] = split.histograms[u]
  BY <1>1, <1>3 DEF SplitType
<1>6. split.blockSize \in Nat /\ split.target \in Nat
  BY <1>1 DEF SplitType
<1> DEFINE size == split.blockSize + 1
<1>12. s = [split EXCEPT !.histograms = h, !.blockSize = size] /\ size \in Nat
  BY <1>1, <1>6 DEF SplitType
<1> HIDE DEF h, size, s
<1>13. /\ s \in SplitType /\ s.blockSize = size /\ s.target = split.target
       /\ s.types = split.types /\ s.lengths = split.lengths /\ s.curr = split.curr
       /\ s.histograms = h /\ s.numTypes = split.numTypes
       /\ s.last = split.last /\ s.entropyOf = split.entropyOf
  BY <1>1, <1>5, <1>12 DEF SplitType
<1>7. /\ s \in SplitType /\ s.blockSize = split.blockSize + 1 /\ s.target = split.target
      /\ s.types = split.types /\ s.lengths = split.lengths /\ s.curr = split.curr
      /\ s.histograms = h /\ s.numTypes = split.numTypes
      /\ s.last = split.last /\ s.entropyOf = split.entropyOf
  BY <1>13 DEF size
<1>8. TypesInUse(split) => TypesInUse(s)
  BY <1>7 DEF TypesInUse
<1>9. ASSUME split.types # <<>>
      PROVE  LastTwo(s)
  <2>1. LastTwo(split)
    BY <1>9 DEF SplitOK
  <2>2. \A j \in {1, 2} : split.last[j] \in DOMAIN split.histograms
                          /\ split.last[j] # split.curr
    BY <1>9, AfterBlocks
  <2>3. \A j \in {1, 2} : s.entropyOf[j] = s.histograms[s.last[j]]
    <3>1. \A j \in {1, 2} : split.entropyOf[j] = split.histograms[split.last[j]]
      BY <2>1 DEF LastTwo
    <3> QED
      BY <1>5, <1>7, <2>2, <3>1
  <2> QED
    BY <1>7, <2>1, <2>3 DEF LastTwo
<1>10. SplitOK(s)
  BY <1>7, <1>8, <1>9 DEF SplitOK
<1>11. split.target >= MinBlock
  BY DEF SplitOK
<1> QED
  BY <1>4, <1>6, <1>7, <1>10, <1>11

(* What is said of a split depends on the stream and the splitter only.    *)
LEMMA SplitKept ==
    ASSUME splitter' = splitter, contexts' = contexts, NEW s, SplitOK(s), split' = s
    PROVE  SplitOK(split)'
<1>1. HistogramContexts' = HistogramContexts
  BY DEF HistogramContexts
<1>2. Histogram' = Histogram
  BY <1>1 DEF Histogram
<1>3. TypeLimit' = TypeLimit /\ MaxBlocks' = MaxBlocks
  BY DEF TypeLimit, MaxBlocks
<1>4. TypesWithRoom' = TypesWithRoom
  BY <1>3 DEF TypesWithRoom, Smaller
<1>5. SplitType' = SplitType
  BY <1>2, <1>4 DEF SplitType
<1>6. LastTwo(s) => LastTwo(split)'
  BY <1>3 DEF LastTwo
<1>7. TypesInUse(s) => TypesInUse(split)'
  BY DEF TypesInUse
<1> QED
  BY <1>5, <1>6, <1>7 DEF SplitOK

(* A block more has had its MinBlock symbols.                              *)
LEMMA BlocksPaid ==
    ASSUME NEW a \in Nat, NEW b \in Nat, b \in {a, a + 1},
           NEW size \in Nat, size >= MinBlock,
           NEW n \in Nat, a * MinBlock + size <= n
    PROVE  b * MinBlock <= n
<1>1. MinBlock \in Nat
  BY SplitAssumption
<1>2. (a + 1) * MinBlock = a * MinBlock + MinBlock /\ a * MinBlock \in Nat
  BY <1>1
<1>3. CASE b = a
  BY <1>1, <1>2, <1>3
<1>4. CASE b = a + 1
  BY <1>1, <1>2, <1>4
<1> QED
  BY <1>3, <1>4

(* One lemma per action from here on.                                      *)
LEMMA AddSymbolKeeps ==
    ASSUME IInv, AddSymbol
    PROVE  IInv'
<1> DEFINE s == Counted(split, count + 1)
<1>1. /\ phase = "split" /\ Greedy /\ GreedyOK /\ SplitOK(split)
      /\ contexts \in Seq(Contexts) /\ count \in Nat /\ count < Len(contexts)
      /\ Len(contexts) \in Nat
      /\ count' = count + 1 /\ splitter' = splitter /\ contexts' = contexts
  BY DEF IInv, AddSymbol, GreedyOK
<1>2. split.curr \in DOMAIN split.histograms
  BY <1>1, RoomForMore
<1>3. /\ SplitOK(s) /\ s.types = split.types /\ s.lengths = split.lengths
      /\ s.curr = split.curr /\ s.target = split.target
      /\ s.target \in Nat /\ s.target >= MinBlock
      /\ s.blockSize = split.blockSize + 1 /\ split.blockSize \in Nat
  BY <1>1, <1>2, CountedOK
<1>4. ~FinishPanics(s)
  BY <1>1, <1>3, NoFinishPanics
<1>5. \/ s.blockSize < s.target /\ split' = s /\ phase' = phase
      \/ ~(s.blockSize < s.target) /\ split' \in FinishBlock(s) /\ phase' = phase
  BY <1>2, <1>4 DEF AddSymbol
<1> HIDE DEF s
<1>6. /\ s.curr \in DOMAIN s.histograms
      /\ s.types \in Seq(Nat) /\ Len(s.types) \in Nat /\ s.lengths \in Seq(Nat)
      /\ MinBlock \in Nat /\ s.blockSize \in Nat
  <2>1. s.curr \in DOMAIN s.histograms
    BY <1>1, <1>3, RoomForMore
  <2>2. s.types \in Seq(Nat) /\ s.lengths \in Seq(Nat) /\ s.blockSize \in Nat
    BY <1>3 DEF SplitOK, SplitType
  <2>3. Len(s.types) \in Nat
    BY <2>2
  <2> QED
    BY <2>1, <2>2, <2>3, SplitAssumption
<1>7. Len(s.types) * MinBlock + s.blockSize <= count + 1
  <2>1. Len(s.types) * MinBlock \in Nat
    BY <1>6
  <2>2. Len(s.types) * MinBlock + split.blockSize <= count
    BY <1>1, <1>3 DEF GreedyOK
  <2> QED
    BY <1>1, <1>3, <2>1, <2>2
<1>8. Reaches(s.lengths, count + 1 - s.blockSize)
  <2>1. Reaches(s.lengths, count - split.blockSize)
    BY <1>1, <1>3 DEF GreedyOK
  <2>2. count - split.blockSize = count + 1 - s.blockSize
    BY <1>1, <1>3
  <2> QED
    BY <2>1, <2>2
<1>9. GreedyOK'
  <2>1. CASE s.blockSize < s.target /\ split' = s
    <3>1. SplitOK(split)'
      BY <1>1, <1>3, <2>1, SplitKept
    <3>2. (Len(split.types) * MinBlock + split.blockSize <= count)'
      BY <1>1, <1>7, <2>1
    <3>3. Reaches(split.lengths, count - split.blockSize)'
      BY <1>1, <1>8, <2>1, SMTT(60) DEF Reaches, EndsOf
    <3> QED
      BY <3>1, <3>2, <3>3 DEF GreedyOK
  <2>2. CASE ~(s.blockSize < s.target) /\ split' \in FinishBlock(s)
    <3>1. PICK r \in FinishBlock(s) : split' = r
      BY <2>2
    <3>2. count + 1 - s.blockSize \in Int
      BY <1>1, <1>6
    <3>3. /\ SplitOK(r) /\ r.blockSize = 0 /\ r.types # <<>>
          /\ Len(r.types) \in {Len(s.types), Len(s.types) + 1}
          /\ Reaches(r.lengths, (count + 1 - s.blockSize) + s.blockSize)
      BY <1>1, <1>3, <1>6, <1>8, <3>2, FinishBlockOK
    <3>4. SplitOK(split)'
      BY <1>1, <3>1, <3>3, SplitKept
    <3>5. Len(r.types) \in Nat /\ s.blockSize >= MinBlock
      BY <1>3, <1>6, <2>2, <3>3
    <3>6. Len(r.types) * MinBlock <= count + 1
      <4>1. count + 1 \in Nat /\ Len(s.types) \in Nat /\ s.blockSize \in Nat
        BY <1>1, <1>6
      <4> DEFINE a == Len(s.types)
                 b == Len(r.types)
      <4>2. /\ a \in Nat /\ b \in Nat /\ b \in {a, a + 1}
            /\ s.blockSize >= MinBlock /\ a * MinBlock + s.blockSize <= count + 1
        BY <1>7, <3>3, <3>5, <4>1
      <4> HIDE DEF a, b
      <4>3. b * MinBlock <= count + 1
        BY <4>1, <4>2, BlocksPaid
      <4> QED
        BY <4>3 DEF b
    <3>7. (Len(split.types) * MinBlock + split.blockSize <= count)'
      <4>1. Len(r.types) * MinBlock \in Nat
        BY <1>6, <3>5
      <4> QED
        BY <1>1, <3>1, <3>3, <3>6, <4>1
    <3>8. Reaches(r.lengths, (count + 1) - r.blockSize)
      <4>1. (count + 1 - s.blockSize) + s.blockSize = (count + 1) - r.blockSize
        BY <1>1, <1>6, <3>3
      <4> QED
        BY <3>3, <4>1
    <3>9. Reaches(split.lengths, count - split.blockSize)'
      BY <1>1, <3>1, <3>8 DEF Reaches, EndsOf
    <3> QED
      BY <3>4, <3>7, <3>9 DEF GreedyOK
  <2> QED
    BY <1>5, <2>1, <2>2
<1>10. phase' = "split" /\ Greedy' /\ count' \in 0 .. Len(contexts')
  BY <1>1, <1>5 DEF Greedy
<1> QED
  BY <1>1, <1>9, <1>10 DEF IInv

(* From the split to the storing of its blocks.                            *)
LEMMA StoredOK ==
    ASSUME contexts \in Seq(Contexts), NEW s, NEW c, NEW m, Stored(s, c, m),
           TypesInUse(s), s.numTypes \in Nat, s.types \in Seq(Nat), s.lengths \in Seq(Nat),
           s.types = <<>> => contexts = <<>>,
           s.types # <<>> => Reaches(s.lengths, Len(contexts))
    PROVE  IInv'
<1>1. /\ split' = s /\ count' = 0 /\ phase' = "store"
      /\ contexts' = contexts /\ splitter' = splitter
      /\ enc' = StartEncoder(s.lengths)
      /\ dec' = StartDecoder(s.lengths, SentMap(s.numTypes, Cardinality(DOMAIN c), m))
  BY DEF Stored
<1>2. Len(contexts) \in Nat /\ 0 \in 0 .. Len(contexts)
  OBVIOUS
<1>3. /\ enc' = [block |-> 1, left |-> enc'.left, lastType |-> 0, secondLast |-> 1,
                 histogram |-> 0]
      /\ enc'.left = IF s.lengths = <<>> THEN 0 ELSE s.lengths[1]
  BY <1>1 DEF StartEncoder
<1>4. /\ dec' = [type |-> 0, secondLast |-> 1, misread |-> FALSE, histogram |-> 0,
                 left |-> dec'.left, map |-> dec'.map]
      /\ dec'.left = enc'.left
  BY <1>1, <1>3 DEF StartDecoder
<1>5. TypesInUse(split)' /\ (split.numTypes \in Nat)'
      /\ (split.types \in Seq(Nat) /\ split.lengths \in Seq(Nat))'
      /\ (split.types = <<>> => contexts = <<>>)'
  BY <1>1 DEF TypesInUse
<1>6. ASSUME s.types # <<>>
      PROVE  /\ 1 \in 1 .. Len(s.types) /\ s.types[1] = 0
             /\ \E e : /\ EndsOf(e, s.lengths) /\ Len(contexts) <= e[Len(s.lengths)]
                       /\ enc'.left = e[1] - 0
  <2>1. s.types[1] = 0 /\ Len(s.types) = Len(s.lengths) /\ Len(s.types) \in Nat \ {0}
    BY <1>6 DEF TypesInUse
  <2>2. s.lengths # <<>> /\ enc'.left = s.lengths[1] /\ s.lengths[1] \in Nat
    BY <1>3, <2>1
  <2>3. PICK e : EndsOf(e, s.lengths) /\ Len(contexts) <= e[Len(s.lengths)]
    BY <1>6 DEF Reaches
  <2>4. 1 \in 1 .. Len(s.lengths) /\ 1 - 1 = 0
    BY <2>1
  <2>5. e[1] = e[1 - 1] + s.lengths[1] /\ e[0] = 0
    BY <2>3, <2>4 DEF EndsOf
  <2>6. e[1] = s.lengths[1] /\ e[1] - 0 = s.lengths[1]
    BY <2>2, <2>4, <2>5
  <2> QED
    BY <2>1, <2>2, <2>3, <2>4, <2>6
<1>7. StoreOK'
  <2>1. (split.types # <<>> =>
            /\ enc.block \in 1 .. Len(split.types)
            /\ enc.lastType = split.types[enc.block]
            /\ enc.secondLast = IF enc.block = 1 THEN 1 ELSE split.types[enc.block - 1]
            /\ \E e : /\ EndsOf(e, split.lengths)
                      /\ Len(contexts) <= e[Len(split.lengths)]
                      /\ enc.left = e[enc.block] - count)'
    <3>1. enc'.block = 1 /\ enc'.lastType = 0 /\ enc'.secondLast = 1
      BY <1>3
    <3> QED
      BY <1>1, <1>6, <3>1 DEF EndsOf
  <2>2. (enc = [block |-> enc.block, left |-> enc.left, lastType |-> enc.lastType,
                secondLast |-> enc.secondLast, histogram |-> enc.histogram])'
    BY <1>3
  <2>3. (dec = [type |-> enc.lastType, secondLast |-> enc.secondLast,
                misread |-> FALSE, histogram |-> dec.histogram,
                left |-> enc.left, map |-> dec.map])'
    BY <1>3, <1>4
  <2> QED
    BY <1>5, <2>1, <2>2, <2>3 DEF StoreOK
<1> QED
  BY <1>1, <1>2, <1>7 DEF IInv

(* Finishing the greedy splitters keeps the invariant.                       *)
LEMMA FinishGreedyKeeps ==
    ASSUME IInv, FinishGreedy
    PROVE  IInv'
<1>1. /\ Greedy /\ GreedyOK /\ SplitOK(split) /\ count = Len(contexts)
      /\ contexts \in Seq(Contexts) /\ count \in Nat
  BY DEF IInv, FinishGreedy, GreedyOK
<1>2. ~FinishPanics(split)
  BY <1>1, NoFinishPanics
<1>3. PICK s \in FinishBlock(split) : Stored(s, GreedyCodes(s), GreedyMap(s))
  BY <1>2 DEF FinishGreedy
<1>4. split.curr \in DOMAIN split.histograms
  BY <1>1, RoomForMore
<1>5. split.blockSize \in Nat /\ count - split.blockSize \in Int
  BY <1>1 DEF SplitOK, SplitType
<1>6. Reaches(split.lengths, count - split.blockSize)
  BY <1>1 DEF GreedyOK
<1>7. /\ SplitOK(s) /\ s.types # <<>>
      /\ Reaches(s.lengths, (count - split.blockSize) + split.blockSize)
  BY <1>1, <1>4, <1>5, <1>6, FinishBlockOK
<1>8. (count - split.blockSize) + split.blockSize = Len(contexts)
  BY <1>1, <1>5
<1>9. /\ TypesInUse(s) /\ s.numTypes \in Nat /\ s.types \in Seq(Nat)
      /\ s.lengths \in Seq(Nat)
  BY <1>7 DEF SplitOK, SplitType
<1> QED
  BY <1>1, <1>3, <1>7, <1>8, <1>9, StoredOK

(* The code of a block type, read with the same last two types, gives the  *)
(* type back, and it is one that was counted.                              *)
LEMMA TypeCodeRead ==
    ASSUME StoreOK, NEW b \in 1 .. Len(split.types), b + 1 <= Len(split.types),
           enc.block = b, enc.lastType = split.types[b],
           enc.secondLast = IF b = 1 THEN 1 ELSE split.types[b - 1],
           NEW length
    PROVE  LET type == split.types[b + 1]
               code == NextBlockTypeCode(enc, type)
           IN  /\ code \in CountedTypeCodes(split.types)
               /\ Reads(code, length).type = type
               /\ split.numTypes > 1
<1> DEFINE type == split.types[b + 1]
           code == NextBlockTypeCode(enc, type)
<1>1. /\ split.numTypes \in Nat /\ split.types \in Seq(Nat)
      /\ \A k \in 1 .. Len(split.types) : split.types[k] \in 0 .. (split.numTypes - 1)
      /\ split.numTypes >= 1
      /\ split.numTypes = 1 => Len(split.types) <= 1
      /\ dec.type = enc.lastType /\ dec.secondLast = enc.secondLast
  BY DEF StoreOK, TypesInUse
<1>2. Len(split.types) \in Nat /\ b \in Nat /\ b >= 1
  BY <1>1
<1>3. split.numTypes > 1
  BY <1>1, <1>2
<1>4. /\ b + 1 \in 1 .. Len(split.types) /\ b + 1 \in 2 .. Len(split.types)
      /\ b \in 1 .. Len(split.types) /\ (b + 1) - 1 = b /\ (b + 1) - 2 = b - 1
      /\ (b + 1 = 2) <=> (b = 1)
  BY <1>2
<1>5. type \in 0 .. (split.numTypes - 1) /\ enc.lastType \in 0 .. (split.numTypes - 1)
  BY <1>1, <1>4
<1>6. code \in CountedTypeCodes(split.types)
  <2> DEFINE types == split.types
             codeOf(k) == NextBlockTypeCode(
                             [lastType |-> types[k - 1],
                              secondLast |-> IF k = 2 THEN 1 ELSE types[k - 2]],
                             types[k])
  <2>1. code = codeOf(b + 1)
    <3>1. /\ types[(b + 1) - 1] = enc.lastType
          /\ (IF b + 1 = 2 THEN 1 ELSE types[(b + 1) - 2]) = enc.secondLast
      BY <1>4
    <3> QED
      BY <3>1 DEF NextBlockTypeCode
  <2>2. CountedTypeCodes(types) = {codeOf(k) : k \in 2 .. Len(types)}
    BY DEF CountedTypeCodes
  <2> HIDE DEF codeOf, code
  <2> QED
    BY <1>4, <2>1, <2>2
<1>7. Reads(code, length).type =
         CASE code = 0 -> dec.secondLast
           [] code = 1 -> (dec.type + 1) % split.numTypes
           [] OTHER    -> code - 2
  <2> HIDE DEF code
  <2>1. dec = [type |-> enc.lastType, secondLast |-> enc.secondLast,
               misread |-> FALSE, histogram |-> dec.histogram,
               left |-> enc.left, map |-> dec.map]
    BY DEF StoreOK
  <2> QED
    BY <2>1 DEF Reads
<1>8. Reads(code, length).type = type
  <2>1. CASE type = enc.lastType + 1
    <3>1. code = 1
      BY <2>1 DEF NextBlockTypeCode
    <3>2. (dec.type + 1) % split.numTypes = type
      <4>1. type % split.numTypes = type
        <5>1. split.numTypes \in Nat \ {0} /\ type \in 0 .. (split.numTypes - 1)
          BY <1>1, <1>3, <1>5
        <5> HIDE DEF type
        <5> QED
          BY <5>1, ModSmall
      <4> QED
        BY <1>1, <2>1, <4>1
    <3> HIDE DEF code, type
    <3> QED
      BY <1>7, <3>1, <3>2
  <2>2. CASE type # enc.lastType + 1 /\ type = enc.secondLast
    <3>1. code = 0
      BY <2>2 DEF NextBlockTypeCode
    <3> HIDE DEF code, type
    <3> QED
      BY <1>1, <1>7, <2>2, <3>1
  <2>3. CASE type # enc.lastType + 1 /\ type # enc.secondLast
    <3>1. code = type + 2
      BY <2>3 DEF NextBlockTypeCode
    <3>2. code # 0 /\ code # 1 /\ code - 2 = type
      BY <1>5, <3>1
    <3> HIDE DEF code, type
    <3> QED
      BY <1>7, <3>2
  <2> QED
    BY <2>1, <2>2, <2>3
<1> QED
  BY <1>3, <1>6, <1>8

(* Which histograms a symbol is stored and read with.                      *)
InItsBlock ==
    /\ enc'.block = IF enc.left = 0 THEN enc.block + 1 ELSE enc.block
    /\ enc'.lastType = split.types[enc'.block]
    /\ enc'.histogram = HistogramOf(enc'.lastType, contexts[count + 1], map)
    /\ dec'.histogram = HistogramOf(enc'.lastType, contexts[count + 1], dec.map)
    /\ dec'.map = dec.map

(* Storing a symbol keeps the invariant, and the encoder is in the block the  *)
(* symbol is in.                                                              *)
LEMMA StoreSymbolKeeps ==
    ASSUME IInv, StoreSymbol
    PROVE  IInv' /\ InItsBlock
<1> DEFINE e == IF MustSwitch THEN Switched ELSE enc
           code == NextBlockTypeCode(enc, e.lastType)
           d == IF MustSwitch THEN Reads(code, e.left) ELSE dec
<1>1. /\ StoreOK /\ contexts \in Seq(Contexts) /\ count \in Nat
      /\ Len(contexts) \in Nat /\ count < Len(contexts)
      /\ count' = count + 1 /\ phase = "store"
      /\ split' = split /\ contexts' = contexts /\ splitter' = splitter
  BY DEF IInv, StoreSymbol
<1>2. split.types # <<>>
  BY <1>1 DEF StoreOK
<1>3. /\ enc.block \in 1 .. Len(split.types)
      /\ enc.lastType = split.types[enc.block]
      /\ enc.secondLast = IF enc.block = 1 THEN 1 ELSE split.types[enc.block - 1]
  BY <1>1, <1>2 DEF StoreOK
<1>4. PICK ends : /\ EndsOf(ends, split.lengths)
                  /\ Len(contexts) <= ends[Len(split.lengths)]
                  /\ enc.left = ends[enc.block] - count
  BY <1>1, <1>2 DEF StoreOK
<1>5. /\ ends \in [0 .. Len(split.types) -> Int]
      /\ \A k \in 1 .. Len(split.types) : ends[k] = ends[k - 1] + split.lengths[k]
      /\ Len(contexts) <= ends[Len(split.types)]
      /\ Len(split.types) \in Nat /\ Len(split.types) = Len(split.lengths)
  BY <1>1, <1>4 DEF EndsOf, StoreOK, TypesInUse
<1>6. /\ enc = [block |-> enc.block, left |-> enc.left, lastType |-> enc.lastType,
                secondLast |-> enc.secondLast, histogram |-> enc.histogram]
      /\ dec = [type |-> enc.lastType, secondLast |-> enc.secondLast,
                misread |-> FALSE, histogram |-> dec.histogram,
                left |-> enc.left, map |-> dec.map]
  BY <1>1 DEF StoreOK
<1>7. enc.left = 0 => enc.block + 1 <= Len(split.types)
  <2>1. enc.block \in 0 .. Len(split.types) /\ ends[enc.block] \in Int
    BY <1>3, <1>5
  <2>2. ASSUME enc.left = 0, enc.block = Len(split.types)
        PROVE  FALSE
    <3>1. ends[enc.block] = count
      BY <1>1, <1>4, <2>1, <2>2
    <3> QED
      BY <1>1, <1>5, <2>2, <3>1
  <2>3. \A a, b \in Nat : a \in 1 .. b /\ a # b => a + 1 <= b
    OBVIOUS
  <2>4. enc.block \in Nat
    BY <1>3
  <2> QED
    BY <1>3, <1>5, <2>2, <2>3, <2>4
<1>8. /\ enc' = [e EXCEPT !.left = @ - 1,
                   !.histogram = HistogramOf(e.lastType, contexts[count + 1], map)]
      /\ dec' = [d EXCEPT !.left = @ - 1,
                   !.misread = @ \/ Misread(code),
                   !.histogram = HistogramOf(d.type, contexts[count + 1], dec.map)]
      /\ phase' = "store"
  <2>1. ~(MustSwitch /\ enc.block = Len(split.types))
    <3>1. \A a, b \in Nat : a + 1 <= b => a # b
      OBVIOUS
    <3>2. enc.block \in Nat
      BY <1>3
    <3> QED
      BY <1>5, <1>7, <3>1, <3>2 DEF MustSwitch
  <2> QED
    BY <1>1, <2>1 DEF StoreSymbol
<1>9. /\ e = [block |-> e.block, left |-> e.left, lastType |-> e.lastType,
              secondLast |-> e.secondLast, histogram |-> enc.histogram]
      /\ d = [type |-> e.lastType, secondLast |-> e.secondLast,
              misread |-> FALSE, histogram |-> dec.histogram,
              left |-> e.left, map |-> dec.map]
      /\ ~Misread(code)
      /\ e.block \in 1 .. Len(split.types)
      /\ e.lastType = split.types[e.block]
      /\ e.secondLast = IF e.block = 1 THEN 1 ELSE split.types[e.block - 1]
      /\ e.left = ends[e.block] - count
      /\ e.block = IF enc.left = 0 THEN enc.block + 1 ELSE enc.block
  <2>1. CASE enc.left # 0
    <3>1. ~MustSwitch /\ ~Expects
      BY <1>6, <2>1 DEF MustSwitch, Expects
    <3>2. e = enc /\ d = dec
      BY <3>1
    <3> HIDE DEF e, d, code
    <3>3. ~Misread(code)
      BY <1>6, <2>1 DEF Misread, MustSwitch, Expects
    <3> QED
      BY <1>3, <1>4, <1>6, <2>1, <3>2, <3>3
  <2>2. CASE enc.left = 0
    <3> DEFINE b == enc.block
               type == split.types[b + 1]
    <3>1. MustSwitch /\ b + 1 <= Len(split.types) /\ b \in Nat /\ b >= 1
      BY <1>3, <1>7, <2>2 DEF MustSwitch
    <3>2. e = [block |-> b + 1, left |-> split.lengths[b + 1], lastType |-> type,
               secondLast |-> enc.lastType, histogram |-> enc.histogram]
      BY <1>6, <3>1 DEF Switched
    <3>3. /\ code \in CountedTypeCodes(split.types)
          /\ Reads(code, e.left).type = type
          /\ split.numTypes > 1
      <4>1. e.lastType = type
        BY <3>2
      <4> HIDE DEF e
      <4> QED
        BY <1>1, <1>3, <3>1, <4>1, TypeCodeRead
    <3>4. Expects /\ ~Misread(code)
      <4> HIDE DEF code
      <4> QED
        BY <1>6, <2>2, <3>1, <3>3 DEF Misread, MustSwitch, Expects
    <3>5. d = [type |-> type, secondLast |-> enc.lastType, misread |-> FALSE,
               histogram |-> dec.histogram, left |-> e.left, map |-> dec.map]
      <4>1. d = Reads(code, e.left)
        BY <3>1
      <4> HIDE DEF d, code, e, type
      <4>2. Reads(code, e.left) =
               [dec EXCEPT !.type = Reads(code, e.left).type,
                           !.secondLast = dec.type, !.left = e.left]
        BY <1>6 DEF Reads
      <4>3. PICK x : x = Reads(code, e.left).type
        OBVIOUS
      <4>4. d = [dec EXCEPT !.type = x, !.secondLast = enc.lastType, !.left = e.left]
        <5>1. dec.type = enc.lastType
          BY <1>6
        <5> QED
          BY <4>1, <4>2, <4>3, <5>1
      <4>5. x = type
        BY <3>3, <4>3
      <4>6. PICK t, c, m, h, l, p :
               /\ dec = [type |-> t, secondLast |-> c, misread |-> m,
                         histogram |-> h, left |-> l, map |-> p]
               /\ m = FALSE /\ h = dec.histogram /\ p = dec.map
        BY <1>6
      <4>7. dec \in [type : {t}, secondLast : {c}, misread : {m}, histogram : {h},
                     left : {l}, map : {p}]
        BY ONLY <4>6
      <4>8. d \in [type : {x}, secondLast : {enc.lastType}, misread : {m},
                   histogram : {h}, left : {e.left}, map : {p}]
        BY ONLY <4>4, <4>7
      <4>9. d = [type |-> x, secondLast |-> enc.lastType, misread |-> m,
                 histogram |-> h, left |-> e.left, map |-> p]
        BY ONLY <4>8
      <4> QED
        BY <4>5, <4>6, <4>9
    <3>6. b + 1 \in 1 .. Len(split.types) /\ (b + 1) - 1 = b /\ b + 1 # 1
      BY <1>5, <3>1
    <3>7. split.lengths[b + 1] = ends[b + 1] - count
      <4>1. ends[b + 1] = ends[b] + split.lengths[b + 1]
        BY <1>5, <3>6
      <4>2. b \in 0 .. Len(split.types) /\ ends[b] \in Int
        BY <1>3, <1>5
      <4>3. ends[b] = count
        BY <1>1, <1>4, <2>2, <4>2
      <4>4. split.lengths[b + 1] \in Int
        <5>1. split.lengths \in Seq(Nat) /\ b + 1 \in 1 .. Len(split.lengths)
          BY <1>1, <1>5, <3>6 DEF StoreOK
        <5> QED
          BY <5>1
      <4> QED
        BY <1>1, <4>1, <4>3, <4>4
    <3> HIDE DEF e, d, code
    <3> QED
      BY <1>3, <2>2, <3>2, <3>4, <3>5, <3>6, <3>7
  <2> QED
    BY <2>1, <2>2
<1> HIDE DEF e, d, code
<1>10. /\ enc' = [block |-> e.block, left |-> e.left - 1, lastType |-> e.lastType,
                  secondLast |-> e.secondLast, histogram |-> enc'.histogram]
       /\ dec' = [type |-> e.lastType, secondLast |-> e.secondLast, misread |-> FALSE,
                  histogram |-> dec'.histogram, left |-> e.left - 1, map |-> dec'.map]
       /\ enc'.histogram = HistogramOf(e.lastType, contexts[count + 1], map)
       /\ dec'.histogram = HistogramOf(e.lastType, contexts[count + 1], dec.map)
       /\ dec'.map = dec.map
  <2> DEFINE he == HistogramOf(e.lastType, contexts[count + 1], map)
             hd == HistogramOf(d.type, contexts[count + 1], dec.map)
  <2> HIDE DEF he, hd
  <2>1. enc' = [e EXCEPT !.left = @ - 1, !.histogram = he]
    BY <1>8 DEF he
  <2>2. dec' = [d EXCEPT !.left = @ - 1, !.misread = @ \/ Misread(code), !.histogram = hd]
    BY <1>8 DEF hd
  <2>3. enc' = [block |-> e.block, left |-> e.left - 1, lastType |-> e.lastType,
                secondLast |-> e.secondLast, histogram |-> he]
    BY <1>9, <2>1
  <2>4. (d.misread \/ Misread(code)) = FALSE
    BY <1>9
  <2>5. dec' = [type |-> e.lastType, secondLast |-> e.secondLast, misread |-> FALSE,
                histogram |-> hd, left |-> e.left - 1, map |-> dec.map]
    BY <1>9, <2>2, <2>4
  <2>6. hd = HistogramOf(e.lastType, contexts[count + 1], dec.map)
    BY <1>9 DEF hd
  <2>7. /\ enc'.histogram = he /\ dec'.histogram = hd /\ dec'.map = dec.map
    BY <2>3, <2>5
  <2>8. enc'.histogram = HistogramOf(e.lastType, contexts[count + 1], map)
    BY <2>7 DEF he
  <2> QED
    BY <2>3, <2>5, <2>6, <2>7, <2>8
<1>11. e.left - 1 = ends[e.block] - (count + 1)
  <2>1. ends[e.block] \in Int
    <3>1. e.block \in 0 .. Len(split.types)
      BY <1>5, <1>9
    <3> QED
      BY <1>5, <3>1
  <2>2. \A a \in Int, b \in Nat : (a - b) - 1 = a - (b + 1)
    OBVIOUS
  <2>3. e.left = ends[e.block] - count /\ count \in Nat
    BY <1>1, <1>9
  <2> QED
    BY <2>1, <2>2, <2>3
<1>12. StoreOK'
  <2>1. (/\ TypesInUse(split) /\ split.numTypes \in Nat
         /\ split.types \in Seq(Nat) /\ split.lengths \in Seq(Nat)
         /\ split.types = <<>> => contexts = <<>>)'
    BY <1>1 DEF StoreOK, TypesInUse
  <2>2. (split.types # <<>> =>
            /\ enc.block \in 1 .. Len(split.types)
            /\ enc.lastType = split.types[enc.block]
            /\ enc.secondLast = IF enc.block = 1 THEN 1 ELSE split.types[enc.block - 1]
            /\ \E e1 : /\ EndsOf(e1, split.lengths)
                       /\ Len(contexts) <= e1[Len(split.lengths)]
                       /\ enc.left = e1[enc.block] - count)'
    <3>1. enc'.block = e.block /\ enc'.lastType = e.lastType
          /\ enc'.secondLast = e.secondLast /\ enc'.left = e.left - 1
      BY <1>10
    <3>2. enc'.left = ends[enc'.block] - count'
      BY <1>1, <1>11, <3>1
    <3> QED
      BY <1>1, <1>4, <1>9, <3>1, <3>2 DEF EndsOf
  <2>3. (enc = [block |-> enc.block, left |-> enc.left, lastType |-> enc.lastType,
                secondLast |-> enc.secondLast, histogram |-> enc.histogram])'
    BY <1>10
  <2>4. (dec = [type |-> enc.lastType, secondLast |-> enc.secondLast,
                misread |-> FALSE, histogram |-> dec.histogram,
                left |-> enc.left, map |-> dec.map])'
    BY <1>10
  <2> QED
    BY <2>1, <2>2, <2>3, <2>4 DEF StoreOK
<1>13. count' \in 0 .. Len(contexts') /\ contexts' \in Seq(Contexts) /\ phase' = "store"
  BY <1>1, <1>8
<1>14. InItsBlock
  <2>1. enc'.block = e.block /\ enc'.lastType = e.lastType
    BY <1>10
  <2> QED
    BY <1>9, <1>10, <2>1 DEF InItsBlock
<1> QED
  BY <1>12, <1>13, <1>14 DEF IInv

-----------------------------------------------------------------------------
(* The splitter of qualities 10 and 11.                                    *)
Increasing(seq, n) == \A j, k \in 1 .. n : j < k => seq[j] < seq[k]

(* Positions can be listed in order.                                       *)
LEMMA ListingExists ==
    ASSUME NEW n \in Nat, NEW P \in SUBSET (1 .. n)
    PROVE  \E seq \in [1 .. Cardinality(P) -> P] : Increasing(seq, Cardinality(P))
<1> DEFINE Listed(Q) == \E seq \in [1 .. Cardinality(Q) -> Q] : Increasing(seq, Cardinality(Q))
           Bad == {m \in Nat : \E Q \in SUBSET (1 .. m) : ~Listed(Q)}
<1>1. ASSUME Bad # {}
      PROVE  FALSE
  <2>1. PICK m \in Bad : \A l \in Bad : m <= l
    <3>1. Bad \in SUBSET Nat
      OBVIOUS
    <3> HIDE DEF Bad
    <3> QED
      BY <1>1, <3>1, LeastNumber
  <2>2. m \in Nat
    BY <2>1
  <2>3. PICK Q \in SUBSET (1 .. m) : ~Listed(Q)
    BY <2>1
  <2>4. CASE Q = {}
    <3>1. Cardinality(Q) = 0
      BY <2>4, FS_EmptySet
    <3>2. 1 .. 0 = {}
      OBVIOUS
    <3>3. [k \in 1 .. 0 |-> 0] \in [1 .. Cardinality(Q) -> Q]
      BY <3>1, <3>2
    <3>4. Increasing([k \in 1 .. 0 |-> 0], Cardinality(Q))
      BY <3>1, <3>2 DEF Increasing
    <3> QED
      BY <2>3, <3>3, <3>4
  <2>5. CASE Q # {}
    <3>1. m - 1 \in Nat /\ m - 1 \notin Bad
      <4>1. m # 0
        <5>1. 1 .. 0 = {}
          OBVIOUS
        <5> QED
          BY <2>3, <2>5, <5>1
      <4>2. m - 1 \in Nat /\ ~(m <= m - 1)
        BY <2>2, <4>1
      <4> HIDE DEF Bad
      <4> QED
        BY <2>1, <4>2
    <3>2. \A R \in SUBSET (1 .. (m - 1)) : Listed(R)
      BY <3>1
    <3> DEFINE R == Q \ {m}
               r == Cardinality(R)
    <3>3. R \in SUBSET (1 .. (m - 1))
      BY <2>2
    <3>4. PICK seq \in [1 .. r -> R] : Increasing(seq, r)
      BY <3>2, <3>3
    <3>5. m \in Q
      <4>1. CASE m \notin Q
        <5>1. Q = R
          BY <4>1
        <5> QED
          BY <2>3, <3>2, <3>3, <5>1
      <4> QED
        BY <4>1
    <3>6. IsFiniteSet(Q)
      <4>1. IsFiniteSet(1 .. m)
        BY <2>2, FS_Interval
      <4> QED
        BY <4>1, FS_Subset
    <3>7. r \in Nat /\ Cardinality(Q) = r + 1
      <4>1. IsFiniteSet(R) /\ r = Cardinality(Q) - 1
        BY <3>5, <3>6, FS_RemoveElement
      <4>2. r \in Nat /\ Cardinality(Q) \in Nat
        BY <3>6, <4>1, FS_CardinalityType
      <4> HIDE DEF r
      <4> QED
        BY <4>1, <4>2
    <3> HIDE DEF r, R
    <3> DEFINE longer == [k \in 1 .. (r + 1) |-> IF k = r + 1 THEN m ELSE seq[k]]
    <3>8. \A k \in 1 .. r : seq[k] \in Q /\ seq[k] \in Nat /\ seq[k] < m
      <4>1. \A k \in 1 .. r : seq[k] \in R
        BY <3>4
      <4>2. \A x \in R : x \in Q /\ x \in 1 .. (m - 1)
        BY <3>3 DEF R
      <4> QED
        BY <2>2, <4>1, <4>2
    <3>9. longer \in [1 .. (r + 1) -> Q]
      <4>1. ASSUME NEW k \in 1 .. (r + 1), k # r + 1
            PROVE  k \in 1 .. r
        BY <3>7, <4>1
      <4> QED
        BY <3>5, <3>8, <4>1
    <3>10. Increasing(longer, r + 1)
      <4>1. ASSUME NEW j \in 1 .. (r + 1), NEW k \in 1 .. (r + 1), j < k
            PROVE  longer[j] < longer[k]
        <5>1. j \in 1 .. r /\ longer[j] = seq[j]
          BY <3>7, <4>1
        <5>2. CASE k = r + 1
          BY <3>8, <5>1, <5>2
        <5>3. CASE k # r + 1
          <6>1. k \in 1 .. r /\ longer[k] = seq[k]
            BY <3>7, <5>3
          <6> QED
            BY <3>4, <4>1, <5>1, <6>1 DEF Increasing
        <5> QED
          BY <5>2, <5>3
      <4> HIDE DEF longer
      <4> QED
        BY <4>1 DEF Increasing
    <3> HIDE DEF longer
    <3> QED
      BY <2>3, <3>7, <3>9, <3>10
  <2> QED
    BY <2>4, <2>5
<1>2. n \notin Bad
  BY <1>1
<1> QED
  BY <1>2

(* InOrder names every position once, from the first to the last.          *)
LEMMA InOrderLists ==
    ASSUME NEW n \in Nat, NEW P \in SUBSET (1 .. n)
    PROVE  /\ Cardinality(P) \in Nat
           /\ InOrder(P) \in [1 .. Cardinality(P) -> P]
           /\ Increasing(InOrder(P), Cardinality(P))
           /\ \A p \in P : \E k \in 1 .. Cardinality(P) : InOrder(P)[k] = p
<1> DEFINE c == Cardinality(P)
           seq == InOrder(P)
<1>1. IsFiniteSet(P) /\ c \in Nat
  <2>1. IsFiniteSet(1 .. n)
    BY FS_Interval
  <2>2. IsFiniteSet(P)
    BY <2>1, FS_Subset
  <2> QED
    BY <2>2, FS_CardinalityType
<1>2. seq \in [1 .. c -> P] /\ Increasing(seq, c)
  <2> DEFINE Right(q) == \A j, k \in DOMAIN q : j < k => q[j] < q[k]
  <2>1. \A q \in [1 .. c -> P] : Right(q) <=> Increasing(q, c)
    BY DEF Increasing
  <2>2. \E q \in [1 .. c -> P] : Right(q)
    BY <2>1, ListingExists
  <2>3. seq = CHOOSE q \in [1 .. c -> P] : Right(q)
    BY DEF InOrder
  <2> HIDE DEF Right, seq, c
  <2> QED
    BY <2>1, <2>2, <2>3
<1> HIDE DEF seq
<1>3. seq \in Injection(1 .. c, P)
  <2>1. ASSUME NEW j \in 1 .. c, NEW k \in 1 .. c, j # k
        PROVE  seq[j] # seq[k]
    <3>1. seq[j] \in Nat /\ seq[k] \in Nat
      <4>1. seq[j] \in P /\ seq[k] \in P
        BY <1>2
      <4>2. P \subseteq Nat
        OBVIOUS
      <4> QED
        BY <4>1, <4>2
    <3>2. j < k \/ k < j
      BY <2>1
    <3> QED
      BY <1>2, <3>1, <3>2 DEF Increasing
  <2> QED
    BY <1>2, <2>1 DEF Injection, IsInjective
<1>4. Cardinality(1 .. c) = c
  <2>1. Cardinality(1 .. c) = IF 1 > c THEN 0 ELSE c - 1 + 1
    BY <1>1, FS_Interval
  <2> HIDE DEF c
  <2> QED
    BY <1>1, <2>1
<1>5. seq \in Surjection(1 .. c, P)
  BY <1>1, <1>3, <1>4, FS_Injection
<1>6. \A p \in P : \E k \in 1 .. c : seq[k] = p
  BY <1>5 DEF Surjection
<1> QED
  BY <1>1, <1>2, <1>6 DEF seq

\* Different values have different numbers.
ManyNumbers(seq, n) ==
    Cardinality({FirstSeen(seq)[seq[k]] : k \in 1 .. n}) = Cardinality(Range(seq))

(* What is first seen at the first place is number 0, and there are as     *)
(* many numbers as there are values.                                       *)
LEMMA FirstSeenNumbers ==
    ASSUME NEW n \in Nat \ {0}, NEW N \in Nat, NEW seq \in [1 .. n -> 0 .. N]
    PROVE  /\ Cardinality(Range(seq)) \in Nat \ {0}
           /\ FirstSeen(seq)[seq[1]] = 0
           /\ \A k \in 1 .. n : FirstSeen(seq)[seq[k]] \in 0 .. (Cardinality(Range(seq)) - 1)
           /\ Cardinality(Range(seq)) = 1 => \A k \in 1 .. n : seq[k] = seq[1]
           /\ ManyNumbers(seq, n)
<1> DEFINE First(v) == CHOOSE k \in DOMAIN seq :
                          seq[k] = v /\ \A j \in 1 .. (k - 1) : seq[j] # v
           Before(v) == Range(SubSeq(seq, 1, First(v)))
<1>1. IsFiniteSet(Range(seq)) /\ \A k \in 1 .. n : seq[k] \in Range(seq)
  <2>1. Range(seq) \subseteq 0 .. N /\ \A k \in 1 .. n : seq[k] \in Range(seq)
    BY DEF Range
  <2>2. IsFiniteSet(0 .. N)
    BY FS_Interval
  <2> QED
    BY <2>1, <2>2, FS_Subset
<1>2. Cardinality(Range(seq)) \in Nat \ {0}
  <2>1. Cardinality(Range(seq)) \in Nat
    BY <1>1, FS_CardinalityType
  <2>2. 1 \in 1 .. n
    OBVIOUS
  <2>3. Range(seq) # {}
    BY <1>1, <2>2
  <2> QED
    BY <1>1, <2>1, <2>3, FS_EmptySet
<1>3. \A v \in Range(seq) : FirstSeen(seq)[v] = Cardinality(Before(v)) - 1
  BY DEF FirstSeen
<1>4. ASSUME NEW v \in Range(seq)
      PROVE  /\ First(v) \in 1 .. n /\ seq[First(v)] = v
             /\ \A j \in 1 .. (First(v) - 1) : seq[j] # v
  <2> DEFINE Places == {k \in 1 .. n : seq[k] = v}
  <2>1. Places \in SUBSET Nat /\ Places # {}
    BY DEF Range
  <2>2. PICK k \in Places : \A l \in Places : k <= l
    <3> HIDE DEF Places
    <3> QED
      BY <2>1, LeastNumber
  <2>3. ASSUME NEW j \in 1 .. (k - 1)
        PROVE  seq[j] # v
    <3>1. j \in 1 .. n /\ ~(k <= j)
      BY <2>1
    <3> QED
      BY <2>2, <3>1
  <2>4. k \in DOMAIN seq /\ seq[k] = v /\ \A j \in 1 .. (k - 1) : seq[j] # v
    BY <2>2, <2>3
  <2>5. /\ First(v) \in DOMAIN seq /\ seq[First(v)] = v
        /\ \A j \in 1 .. (First(v) - 1) : seq[j] # v
    BY <2>4
  <2> QED
    BY <2>5
<1>5. ASSUME NEW v \in Range(seq)
      PROVE  Before(v) = {seq[j] : j \in 1 .. First(v)}
  <2>1. First(v) \in 1 .. n
    BY <1>4
  <2> HIDE DEF First
  <2>2. DOMAIN SubSeq(seq, 1, First(v)) = 1 .. First(v)
        /\ \A j \in 1 .. First(v) : SubSeq(seq, 1, First(v))[j] = seq[j]
    <3>1. seq \in Seq(0 .. N) /\ Len(seq) = n
      OBVIOUS
    <3>2. 1 \in 1 .. (Len(seq) + 1) /\ First(v) \in 0 .. Len(seq)
      BY <2>1, <3>1
    <3>3. SubSeq(seq, 1, First(v)) = [j \in 1 .. (First(v) - 1 + 1) |-> seq[1 + j - 1]]
      BY <2>1, <3>1, <3>2, SubSeqProperties
    <3> QED
      BY <2>1, <3>3
  <2> QED
    BY <2>2 DEF Range
<1>6. ASSUME NEW v \in Range(seq)
      PROVE  /\ Before(v) \in SUBSET Range(seq) /\ v \in Before(v)
             /\ IsFiniteSet(Before(v)) /\ Cardinality(Before(v)) \in Nat \ {0}
             /\ Cardinality(Before(v)) <= Cardinality(Range(seq))
  <2>1. First(v) \in 1 .. n /\ seq[First(v)] = v
    BY <1>4
  <2>2. Before(v) = {seq[j] : j \in 1 .. First(v)}
    BY <1>5
  <2> HIDE DEF First, Before
  <2>3. Before(v) \in SUBSET Range(seq)
    <3>1. \A j \in 1 .. First(v) : j \in 1 .. n
      BY <2>1
    <3> QED
      BY <1>1, <2>2, <3>1
  <2>4. v \in Before(v)
    <3>1. First(v) \in 1 .. First(v)
      BY <2>1
    <3> QED
      BY <2>1, <2>2, <3>1
  <2>5. IsFiniteSet(Before(v)) /\ Cardinality(Before(v)) <= Cardinality(Range(seq))
    BY <1>1, <2>3, FS_Subset
  <2>6. Cardinality(Before(v)) \in Nat /\ Cardinality(Before(v)) # 0
    BY <2>4, <2>5, FS_CardinalityType, FS_EmptySet
  <2> QED
    BY <2>3, <2>4, <2>5, <2>6
<1>7. FirstSeen(seq)[seq[1]] = 0
  <2> DEFINE v == seq[1]
  <2>1. v \in Range(seq) /\ 1 \in 1 .. n
    BY <1>1
  <2>2. First(v) \in 1 .. n /\ \A j \in 1 .. (First(v) - 1) : seq[j] # v
    BY <1>4, <2>1
  <2>3. First(v) = 1
    <3> HIDE DEF First
    <3>1. CASE First(v) > 1
      <4>1. 1 \in 1 .. (First(v) - 1)
        BY <2>2, <3>1
      <4> QED
        BY <2>2, <4>1
    <3> QED
      BY <2>2, <3>1
  <2>4. Before(v) = {seq[j] : j \in 1 .. 1}
    BY <1>5, <2>1, <2>3
  <2> HIDE DEF Before, First
  <2>5. Before(v) = {v}
    <3>1. 1 .. 1 = {1}
      OBVIOUS
    <3> QED
      BY <2>4, <3>1
  <2>6. Cardinality(Before(v)) = 1
    BY <2>5, FS_Singleton
  <2>7. FirstSeen(seq)[v] = Cardinality(Before(v)) - 1
    BY <1>3, <2>1
  <2> QED
    BY <2>6, <2>7
<1>8. ASSUME NEW k \in 1 .. n
      PROVE  FirstSeen(seq)[seq[k]] \in 0 .. (Cardinality(Range(seq)) - 1)
  <2>1. seq[k] \in Range(seq)
    BY <1>1
  <2>2. FirstSeen(seq)[seq[k]] = Cardinality(Before(seq[k])) - 1
    BY <1>3, <2>1
  <2>3. /\ Cardinality(Before(seq[k])) \in Nat \ {0}
        /\ Cardinality(Before(seq[k])) <= Cardinality(Range(seq))
    BY <1>6, <2>1
  <2> HIDE DEF Before
  <2> QED
    BY <1>2, <2>2, <2>3
<1>9. ASSUME Cardinality(Range(seq)) = 1, NEW k \in 1 .. n
      PROVE  seq[k] = seq[1]
  <2>1. PICK x : Range(seq) = {x}
    BY <1>1, <1>9, FS_Singleton
  <2>2. 1 \in 1 .. n
    OBVIOUS
  <2> QED
    BY <1>1, <2>1, <2>2
<1>10. ASSUME NEW v \in Range(seq), NEW w \in Range(seq), First(v) < First(w)
       PROVE  FirstSeen(seq)[v] # FirstSeen(seq)[w]
  <2>1. /\ First(v) \in 1 .. n /\ First(w) \in 1 .. n
        /\ \A j \in 1 .. (First(w) - 1) : seq[j] # w
        /\ Before(v) = {seq[j] : j \in 1 .. First(v)}
        /\ Before(w) = {seq[j] : j \in 1 .. First(w)}
    BY <1>4, <1>5
  <2>2. /\ IsFiniteSet(Before(w)) /\ w \in Before(w)
        /\ Cardinality(Before(v)) \in Nat /\ Cardinality(Before(w)) \in Nat
        /\ FirstSeen(seq)[v] = Cardinality(Before(v)) - 1
        /\ FirstSeen(seq)[w] = Cardinality(Before(w)) - 1
    BY <1>3, <1>6
  <2> HIDE DEF First, Before
  <2>3. \A j \in 1 .. First(v) : j \in 1 .. First(w) /\ j \in 1 .. (First(w) - 1)
    BY <1>10, <2>1
  <2>4. Before(v) \in SUBSET Before(w) /\ w \notin Before(v)
    BY <2>1, <2>3
  <2>5. Cardinality(Before(v)) # Cardinality(Before(w))
    BY <2>2, <2>4, FS_Subset
  <2> QED
    BY <2>2, <2>5
<1>11. ASSUME NEW v \in Range(seq), NEW w \in Range(seq), v # w
       PROVE  FirstSeen(seq)[v] # FirstSeen(seq)[w]
  <2>1. First(v) \in 1 .. n /\ First(w) \in 1 .. n /\ First(v) # First(w)
    BY <1>4, <1>11
  <2> HIDE DEF First
  <2>2. First(v) < First(w) \/ First(w) < First(v)
    BY <2>1
  <2> QED
    BY <1>10, <2>2
<1>12. Cardinality({FirstSeen(seq)[seq[k]] : k \in 1 .. n}) = Cardinality(Range(seq))
  <2> DEFINE f == FirstSeen(seq)
             T == {f[seq[k]] : k \in 1 .. n}
  <2>1. DOMAIN f = Range(seq) /\ f = [v \in Range(seq) |-> f[v]]
    BY DEF FirstSeen
  <2> HIDE DEF f, First, Before
  <2>2. \A v \in Range(seq) : \E k \in 1 .. n : v = seq[k]
    BY DEF Range
  <2>3. f \in [Range(seq) -> T]
    <3>1. \A v \in Range(seq) : f[v] \in T
      BY <2>2
    <3> HIDE DEF T
    <3> QED
      BY <2>1, <3>1
  <2>4. \A x \in T : \E v \in Range(seq) : f[v] = x
    BY <1>1
  <2> HIDE DEF T
  <2>5. f \in Injection(Range(seq), T) /\ f \in Surjection(Range(seq), T)
    BY <1>11, <2>3, <2>4 DEF Injection, IsInjective, Surjection, f
  <2>6. f \in Bijection(Range(seq), T)
    BY <2>5 DEF Bijection
  <2>7. Cardinality(T) = Cardinality(Range(seq))
    BY <1>1, <2>6, FS_Bijection DEF ExistsBijection
  <2> QED
    BY <2>7 DEF T, f
<1> QED
  BY <1>2, <1>7, <1>8, <1>9, <1>12 DEF ManyNumbers

(* The blocks of a clustered stream begin at its first symbol and where    *)
(* the cluster changes, and end where the next begins or the stream ends.  *)
LEMMA ClusterBlocksOK ==
    ASSUME contexts \in Seq(Contexts), NEW cluster \in [Symbols -> 0 .. (MaxTypes - 1)]
    PROVE  LET s == ClusterBlocks(cluster)
           IN  /\ TypesInUse(s) /\ s.numTypes \in Nat
               /\ s.types \in Seq(Nat) /\ s.lengths \in Seq(Nat)
               /\ s.types = <<>> => contexts = <<>>
               /\ s.types # <<>> => Reaches(s.lengths, Len(contexts))
               /\ \A k \in 1 .. Len(s.lengths) : s.lengths[k] >= 1
<1> DEFINE L == Len(contexts)
           P == {p \in Symbols : p = 1 \/ cluster[p] # cluster[p - 1]}
           starts == InOrder(P)
           c == Cardinality(P)
           ends(k) == IF k = Len(starts) THEN L ELSE starts[k + 1] - 1
           number(k) == FirstSeen(cluster)[cluster[starts[k]]]
           s == ClusterBlocks(cluster)
           N == Cardinality(Range(cluster))
<1>1. L \in Nat /\ Symbols = 1 .. L
  BY DEF Symbols
<1>2. P \in SUBSET (1 .. L)
  BY <1>1
<1>3. /\ c \in Nat /\ starts \in [1 .. c -> P] /\ Increasing(starts, c)
      /\ \A p \in P : \E k \in 1 .. c : starts[k] = p
  <2> HIDE DEF P
  <2> QED
    BY <1>1, <1>2, InOrderLists
<1>4. s.types = [k \in DOMAIN starts |-> number(k)]
      /\ s.lengths = [k \in DOMAIN starts |-> ends(k) - starts[k] + 1]
      /\ s.numTypes = Larger(1, N)
  BY DEF ClusterBlocks, NewSplit
<1> HIDE DEF s, number
<1>5. \A k \in 1 .. c : starts[k] \in 1 .. L
  <2>1. \A p \in P : p \in 1 .. L
    BY <1>2
  <2> HIDE DEF P, starts, c
  <2> QED
    BY <1>3, <2>1
<1>6. DOMAIN starts = 1 .. c /\ Len(starts) = c
  <2> HIDE DEF starts, c, P
  <2> QED
    BY <1>3
<1>7. ASSUME L = 0
      PROVE  c = 0 /\ N = 0
  <2>1. 1 .. L = {}
    BY <1>7
  <2>2. P = {}
    BY <1>2, <2>1
  <2>3. Range(cluster) = {}
    BY <1>1, <2>1 DEF Range
  <2> QED
    BY <2>2, <2>3, FS_EmptySet
<1>8. ASSUME L # 0
      PROVE  /\ N \in Nat \ {0}
             /\ \A p \in 1 .. L : FirstSeen(cluster)[cluster[p]] \in 0 .. (N - 1)
             /\ FirstSeen(cluster)[cluster[1]] = 0
             /\ N = 1 => c <= 1
             /\ c >= 1 /\ starts[1] = 1
  <2>1. L \in Nat \ {0} /\ cluster \in [1 .. L -> 0 .. (MaxTypes - 1)]
    BY <1>1, <1>8
  <2>2. MaxTypes - 1 \in Nat
    BY SplitAssumption
  <2>3. /\ N \in Nat \ {0}
        /\ \A p \in 1 .. L : FirstSeen(cluster)[cluster[p]] \in 0 .. (N - 1)
        /\ FirstSeen(cluster)[cluster[1]] = 0
        /\ N = 1 => \A p \in 1 .. L : cluster[p] = cluster[1]
    <3> DEFINE M == MaxTypes - 1
    <3>1. M \in Nat /\ cluster \in [1 .. L -> 0 .. M] /\ L \in Nat \ {0}
      BY <2>1, <2>2
    <3> HIDE DEF M, L, P, starts, c, ends, number, s
    <3>2. /\ Cardinality(Range(cluster)) \in Nat \ {0}
          /\ FirstSeen(cluster)[cluster[1]] = 0
          /\ \A p \in 1 .. L : FirstSeen(cluster)[cluster[p]]
                                  \in 0 .. (Cardinality(Range(cluster)) - 1)
          /\ Cardinality(Range(cluster)) = 1 => \A p \in 1 .. L : cluster[p] = cluster[1]
      BY ONLY <3>1, FirstSeenNumbers, SMTT(60)
    <3> QED
      BY <3>2
  <2>4. 1 \in P
    BY <1>1, <1>8
  <2>5. c >= 1 /\ starts[1] = 1
    <3> HIDE DEF P, starts, c
    <3>1. PICK k \in 1 .. c : starts[k] = 1
      BY <1>3, <2>4
    <3>2. c >= 1 /\ 1 \in 1 .. c
      BY <1>3, <3>1
    <3>3. starts[1] \in 1 .. L
      BY <1>5, <3>2
    <3>4. CASE k = 1
      BY <3>1, <3>2, <3>4
    <3>5. CASE k # 1
      <4>1. 1 < k
        BY <1>3, <3>1, <3>5
      <4>2. starts[1] < 1
        BY <1>3, <3>1, <3>2, <4>1 DEF Increasing
      <4> QED
        BY <3>3, <4>2
    <3> QED
      BY <3>2, <3>4, <3>5
  <2>6. ASSUME N = 1
        PROVE  c <= 1
    <3>1. P \subseteq {1}
      <4>1. ASSUME NEW p \in P, p # 1
            PROVE  FALSE
        <5>1. p \in 1 .. L /\ cluster[p] # cluster[p - 1]
          BY <1>1, <4>1
        <5>2. p - 1 \in 1 .. L
          BY <4>1, <5>1
        <5> HIDE DEF N
        <5> QED
          BY <2>3, <2>6, <5>1, <5>2
      <4> HIDE DEF P
      <4> QED
        BY <4>1
    <3>2. IsFiniteSet({1}) /\ Cardinality({1}) = 1
      BY FS_Singleton
    <3> HIDE DEF P
    <3> QED
      BY <3>1, <3>2, FS_Subset
  <2> QED
    BY <2>3, <2>5, <2>6
<1> HIDE DEF P, starts, c, N
<1>9. \A k \in 1 .. c : number(k) \in 0 .. (N - 1) /\ N \in Nat \ {0} /\ L # 0
  <2>1. ASSUME NEW k \in 1 .. c
        PROVE  number(k) \in 0 .. (N - 1) /\ N \in Nat \ {0} /\ L # 0
    <3>1. starts[k] \in 1 .. L
      BY <1>5
    <3>2. L # 0
      BY <3>1
    <3> QED
      BY <1>8, <3>1, <3>2 DEF number
  <2> QED
    BY <2>1
<1>10. \A k \in 1 .. c : /\ ends(k) \in Nat /\ ends(k) >= starts[k]
                         /\ ends(k) - starts[k] + 1 \in Nat
  <2> SUFFICES ASSUME NEW k \in 1 .. c
               PROVE  /\ ends(k) \in Nat /\ ends(k) >= starts[k]
                      /\ ends(k) - starts[k] + 1 \in Nat
    OBVIOUS
  <2>1. starts[k] \in 1 .. L
    BY <1>5
  <2>2. CASE k = c
    <3>1. ends(k) = L
      BY <1>6, <2>2
    <3> HIDE DEF L
    <3> QED
      BY <1>1, <2>1, <3>1
  <2>3. CASE k # c
    <3>1. k + 1 \in 1 .. c /\ k < k + 1
      BY <1>3, <2>3
    <3>2. starts[k + 1] \in 1 .. L /\ starts[k] < starts[k + 1]
      BY <1>3, <1>5, <3>1 DEF Increasing
    <3>3. ends(k) = starts[k + 1] - 1
      BY <1>6, <2>3
    <3>4. starts[k] \in Nat \ {0} /\ starts[k + 1] \in Nat \ {0}
      BY <2>1, <3>2
    <3> HIDE DEF L, ends
    <3>5. \A a, b \in Nat \ {0} : a < b => /\ b - 1 \in Nat /\ b - 1 >= a
                                            /\ (b - 1) - a + 1 \in Nat
      OBVIOUS
    <3> QED
      BY <3>2, <3>3, <3>4, <3>5
  <2> QED
    BY <2>2, <2>3
<1>11. s.types \in Seq(Nat) /\ Len(s.types) = c /\ \A k \in 1 .. c : s.types[k] = number(k)
  <2>1. s.types \in [1 .. c -> Nat] /\ \A k \in 1 .. c : s.types[k] = number(k)
    <3>1. \A k \in 1 .. c : number(k) \in Nat
      BY <1>9
    <3> HIDE DEF number
    <3> QED
      BY <1>4, <1>6, <3>1
  <2> QED
    BY <1>3, <2>1, SequenceOf
<1>12. /\ s.lengths \in Seq(Nat) /\ Len(s.lengths) = c
       /\ \A k \in 1 .. c : s.lengths[k] = ends(k) - starts[k] + 1
  <2> DEFINE length(k) == ends(k) - starts[k] + 1
  <2>1. s.lengths = [k \in 1 .. c |-> length(k)]
    BY <1>4, <1>6
  <2>2. \A k \in 1 .. c : length(k) \in Nat
    BY <1>10
  <2>3. s.lengths \in [1 .. c -> Nat] /\ \A k \in 1 .. c : s.lengths[k] = length(k)
    <3> HIDE DEF length
    <3> QED
      BY <2>1, <2>2
  <2> QED
    BY <1>3, <2>3, SequenceOf
<1>13. s.numTypes \in Nat /\ s.numTypes >= 1 /\ (N >= 1 => s.numTypes = N)
  <2>1. N \in Nat
    BY <1>1, <1>7, <1>8
  <2> QED
    BY <1>4, <2>1 DEF Larger
<1>14. s.types = <<>> => contexts = <<>>
  <2>1. ASSUME s.types = <<>>
        PROVE  L = 0
    <3>1. c = 0
      BY <1>11, <2>1
    <3> QED
      BY <1>8, <3>1
  <2> QED
    BY <2>1
<1>15. TypesInUse(s)
  <2>1. Len(s.types) = Len(s.lengths)
    BY <1>11, <1>12
  <2>2. s.types # <<>> => s.types[1] = 0
    <3>1. ASSUME s.types # <<>>
          PROVE  s.types[1] = 0
      <4>1. 1 \in 1 .. c
        BY <1>3, <1>11, <3>1
      <4>2. L # 0
        BY <1>9, <4>1
      <4>3. s.types[1] = FirstSeen(cluster)[cluster[starts[1]]]
        BY <1>11, <4>1 DEF number
      <4> QED
        BY <1>8, <4>2, <4>3
    <3> QED
      BY <3>1
  <2>3. \A k \in 1 .. Len(s.types) : s.types[k] \in 0 .. (s.numTypes - 1)
    BY <1>9, <1>11, <1>13
  <2>4. s.numTypes = 1 => Len(s.types) <= 1
    <3>1. ASSUME s.numTypes = 1
          PROVE  c <= 1
      <4>1. CASE L = 0
        BY <1>7, <4>1
      <4>2. CASE L # 0
        BY <1>8, <1>13, <3>1, <4>2
      <4> QED
        BY <4>1, <4>2
    <3> QED
      BY <1>11, <3>1
  <2> QED
    BY <1>13, <2>1, <2>2, <2>3, <2>4 DEF TypesInUse
<1>16. ASSUME s.types # <<>>
       PROVE  Reaches(s.lengths, L)
  <2> DEFINE e == [k \in 0 .. c |-> IF k = 0 THEN 0 ELSE ends(k)]
  <2>1. c # 0 /\ L # 0 /\ starts[1] = 1
    <3>1. c # 0
      BY <1>3, <1>11, <1>16
    <3>2. 1 \in 1 .. c
      BY <1>3, <3>1
    <3> QED
      BY <1>8, <1>9, <3>1, <3>2
  <2>2. e \in [0 .. c -> Int] /\ e[0] = 0 /\ e[c] = L
        /\ \A k \in 1 .. c : e[k] = ends(k)
    <3>1. \A k \in 1 .. c : k \in 0 .. c /\ k # 0
      BY <1>3
    <3>2. \A k \in 0 .. c : k # 0 => k \in 1 .. c
      BY <1>3
    <3>3. \A k \in 1 .. c : ends(k) \in Int
      BY <1>10
    <3>4. ends(c) = L
      BY <1>6
    <3>5. 0 \in 0 .. c /\ c \in 1 .. c
      BY <1>3, <2>1
    <3> HIDE DEF ends, L
    <3> QED
      BY <3>1, <3>2, <3>3, <3>4, <3>5
  <2> HIDE DEF e
  <2>3. ASSUME NEW k \in 1 .. c
        PROVE  e[k] = e[k - 1] + s.lengths[k]
    <3>1. e[k] = ends(k) /\ ends(k) \in Int /\ starts[k] \in 1 .. L
          /\ s.lengths[k] = ends(k) - starts[k] + 1
      BY <1>5, <1>10, <1>12, <2>2
    <3>2. e[k - 1] = starts[k] - 1
      <4>1. CASE k = 1
        BY <2>1, <2>2, <4>1
      <4>2. CASE k # 1
        <5>1. k - 1 \in 1 .. c /\ k - 1 # c /\ (k - 1) + 1 = k
          BY <1>3, <4>2
        <5>2. ends(k - 1) = starts[k] - 1
          BY <1>6, <5>1
        <5> QED
          BY <2>2, <5>1, <5>2
      <4> QED
        BY <4>1, <4>2
    <3> HIDE DEF ends, L
    <3> QED
      BY <3>1, <3>2
  <2>4. EndsOf(e, s.lengths)
    BY <1>12, <2>2, <2>3 DEF EndsOf
  <2>5. L <= e[Len(s.lengths)]
    BY <1>1, <1>12, <2>2
  <2> QED
    BY <2>4, <2>5 DEF Reaches
<1>17. \A k \in 1 .. Len(s.lengths) : s.lengths[k] >= 1
  <2> SUFFICES ASSUME NEW k \in 1 .. c
               PROVE  s.lengths[k] >= 1
    BY <1>12
  <2>1. /\ s.lengths[k] = ends(k) - starts[k] + 1 /\ ends(k) \in Nat
        /\ ends(k) >= starts[k] /\ starts[k] \in 1 .. L
    BY <1>5, <1>10, <1>12
  <2>2. starts[k] \in Nat
    BY <2>1
  <2> HIDE DEF ends, L
  <2>3. \A a, b \in Nat : a >= b => a - b + 1 >= 1
    OBVIOUS
  <2> QED
    BY <2>1, <2>2, <2>3
<1> QED
  BY <1>11, <1>12, <1>13, <1>14, <1>15, <1>16, <1>17 DEF s

(* Splitting and clustering for qualities 10 and 11 keep the invariant.      *)
LEMMA BuildMetaBlockKeeps ==
    ASSUME IInv, BuildMetaBlock
    PROVE  IInv'
<1>1. contexts \in Seq(Contexts)
  BY DEF IInv
<1>2. PICK cluster \in [Symbols -> 0 .. (MaxTypes - 1)] :
         \E c, m : Stored(ClusterBlocks(cluster), c, m)
  BY DEF BuildMetaBlock
<1> DEFINE s == ClusterBlocks(cluster)
<1>3. /\ TypesInUse(s) /\ s.numTypes \in Nat
      /\ s.types \in Seq(Nat) /\ s.lengths \in Seq(Nat)
      /\ s.types = <<>> => contexts = <<>>
      /\ s.types # <<>> => Reaches(s.lengths, Len(contexts))
  BY <1>1, ClusterBlocksOK
<1> HIDE DEF s
<1>4. PICK c, m : Stored(s, c, m)
  BY <1>2 DEF s
<1> QED
  BY <1>1, <1>3, <1>4, StoredOK

-----------------------------------------------------------------------------
(* The invariant.                                                          *)
LEMMA InitEstablishes ==
    ASSUME Init
    PROVE  IInv
<1>1. contexts \in Seq(Contexts)
  <2>1. PICK n \in Nat : contexts \in [1 .. n -> Contexts]
    BY SplitAssumption DEF Init
  <2> QED
    BY <2>1, SequenceOf
<1>2. Len(contexts) \in Nat /\ count = 0 /\ phase = "split" /\ split = NewSplit
  BY <1>1 DEF Init
<1>3. MinBlock \in Nat /\ <<0, 0>> \in Nat \X Nat
  BY SplitAssumption
<1>4. NewSplit \in SplitType
  <2>1. NewSplit.histograms \in [TypesWithRoom -> Histogram]
    BY ClearInType DEF NewSplit, TypesWithRoom
  <2>2. NewSplit.entropyOf \in Histogram \X Histogram
    BY ClearInType DEF NewSplit
  <2> QED
    BY <1>3, <2>1, <2>2 DEF NewSplit, SplitType
<1>5. SplitOK(NewSplit)
  BY <1>3, <1>4 DEF SplitOK, NewSplit
<1>6. /\ NewSplit.types = <<>> /\ NewSplit.lengths = <<>> /\ NewSplit.blockSize = 0
  BY DEF NewSplit
<1>7. Len(NewSplit.types) * MinBlock + NewSplit.blockSize <= 0
  BY <1>3, <1>6
<1>8. Reaches(NewSplit.lengths, 0 - NewSplit.blockSize)
  BY <1>6, NoEnds
<1>9. GreedyOK
  BY <1>2, <1>5, <1>7, <1>8 DEF GreedyOK
<1> QED
  BY <1>1, <1>2, <1>9 DEF IInv

(* A step that changes nothing.                                            *)
LEMMA StutterKeeps ==
    ASSUME IInv, UNCHANGED vars
    PROVE  IInv'
<1>1. /\ splitter' = splitter /\ contexts' = contexts /\ count' = count
      /\ split' = split /\ enc' = enc /\ dec' = dec /\ phase' = phase
  BY DEF vars
<1>2. Greedy' = Greedy
  BY <1>1 DEF Greedy
<1>3. GreedyOK => GreedyOK'
  <2>1. SplitOK(split) => SplitOK(split)'
    BY <1>1, SplitKept
  <2> QED
    BY <1>1, <2>1 DEF GreedyOK, Reaches, EndsOf
<1>4. StoreOK => StoreOK'
  BY <1>1 DEF StoreOK, TypesInUse, EndsOf
<1>5. split = NewSplit => split' = NewSplit'
  BY <1>1 DEF NewSplit, MaxBlocks, TypeLimit, Clear, HistogramContexts
<1> QED
  BY <1>1, <1>2, <1>3, <1>4, <1>5 DEF IInv

(* The invariant holds throughout, for every constant SplitAssumption      *)
(* allows and every stream.                                                *)
THEOREM InductiveInvariant == Spec => []IInv
<1>1. Init => IInv
  BY InitEstablishes
<1>2. IInv /\ [Next]_vars => IInv'
  <2> SUFFICES ASSUME IInv, [Next]_vars
               PROVE  IInv'
    OBVIOUS
  <2>1. CASE AddSymbol
    BY <2>1, AddSymbolKeeps
  <2>2. CASE FinishGreedy
    BY <2>2, FinishGreedyKeeps
  <2>3. CASE BuildMetaBlock
    BY <2>3, BuildMetaBlockKeeps
  <2>4. CASE StoreSymbol
    BY <2>4, StoreSymbolKeeps
  <2>5. CASE Done
    BY <2>5, StutterKeeps DEF Done
  <2>6. CASE UNCHANGED vars
    BY <2>6, StutterKeeps
  <2> QED
    BY <2>1, <2>2, <2>3, <2>4, <2>5, <2>6 DEF Next
<1> QED
  BY <1>1, <1>2, PTL DEF Spec

(* The greedy splitters never index out of bounds, compare with entropies  *)
(* of the histograms as they are, and know the types of the last two       *)
(* blocks.                                                                 *)
THEOREM EntropiesCorrect == Spec => []EntropiesAreCurrent
<1>1. IInv => EntropiesAreCurrent
  <2> SUFFICES ASSUME IInv
               PROVE  EntropiesAreCurrent
    OBVIOUS
  <2>1. phase # "panic"
    BY DEF IInv
  <2>2. CASE phase = "split" /\ Greedy
    <3>1. SplitOK(split)
      BY <2>2 DEF IInv, GreedyOK
    <3> QED
      BY <2>1, <3>1 DEF EntropiesAreCurrent, SplitOK, LastTwo
  <2>3. CASE phase = "split" /\ ~Greedy
    <3>1. split.types = <<>>
      BY <2>3 DEF IInv, NewSplit
    <3> QED
      BY <2>1, <3>1 DEF EntropiesAreCurrent
  <2> QED
    BY <2>1, <2>2, <2>3 DEF EntropiesAreCurrent
<1> QED
  BY <1>1, InductiveInvariant, PTL

(* Every block switch is read where it was written, with a code that was   *)
(* made, as the type the encoder is in.                                    *)
THEOREM SwitchesCorrect == Spec => []SwitchesAreRead
<1>1. IInv => SwitchesAreRead
  <2> SUFFICES ASSUME IInv, phase = "store"
               PROVE  ~dec.misread /\ dec.type = enc.lastType
    BY DEF SwitchesAreRead
  <2>1. dec = [type |-> enc.lastType, secondLast |-> enc.secondLast,
               misread |-> FALSE, histogram |-> dec.histogram,
               left |-> enc.left, map |-> dec.map]
    BY DEF IInv, StoreOK
  <2> QED
    BY <2>1
<1> QED
  BY <1>1, InductiveInvariant, PTL
-----------------------------------------------------------------------------
(* What is counted where, by the ends e of the blocks.                        *)
Within(e, k, p) == e[k - 1] < p /\ p <= e[k]

Solid(s) == \A k \in 1 .. Len(s.lengths) : s.lengths[k] >= 1

\* Of the first n symbols, those in blocks are in the histograms of the types
\* of the blocks, those behind them in the current one.
CountedIn(s, n) ==
    \A e : EndsOf(e, s.lengths) =>
        /\ n <= e[Len(s.lengths)] + s.blockSize
        /\ \A p \in 1 .. n :
              /\ p > e[Len(s.lengths)] =>
                    p \in s.histograms[s.curr][StaticContextMap(contexts[p])]
              /\ \A k \in 1 .. Len(s.types) :
                    Within(e, k, p) =>
                       p \in s.histograms[s.types[k]][StaticContextMap(contexts[p])]
Exactly(s, n) == \A e : EndsOf(e, s.lengths) => n = e[Len(s.lengths)] + s.blockSize

(* The contexts there are.                                                    *)
LEMMA ContextIn ==
    ASSUME contexts \in Seq(Contexts), NEW p \in 1 .. Len(contexts)
    PROVE  /\ contexts[p] \in 0 .. (ContextCount - 1)
           /\ StaticContextMap(contexts[p]) \in HistogramContexts
<1>1. contexts[p] \in 0 .. (ContextCount - 1)
  <2>1. contexts[p] \in Contexts
    OBVIOUS
  <2>2. Contexts \subseteq 0 .. (ContextCount - 1)
    BY SplitAssumption
  <2> QED
    BY <2>1, <2>2
<1>2. contexts[p] \in Nat /\ StaticContexts \in Nat \ {0}
  BY <1>1, ContextCountIs, SplitAssumption
<1>3. contexts[p] % StaticContexts \in 0 .. (StaticContexts - 1)
  <2> DEFINE x == contexts[p]
  <2>1. x \in Nat
    BY <1>2
  <2> HIDE DEF x
  <2>2. x % StaticContexts \in 0 .. (StaticContexts - 1)
    BY <1>2, <2>1, DivMod
  <2> QED
    BY <2>2 DEF x
<1> QED
  BY <1>1, <1>3 DEF StaticContextMap, HistogramContexts

(* The ends of the blocks but the last.                                       *)
LEMMA EndsBefore ==
    ASSUME NEW lengths \in Seq(Nat), NEW length \in Nat, NEW e,
           EndsOf(e, Append(lengths, length))
    PROVE  /\ Len(Append(lengths, length)) = Len(lengths) + 1
           /\ \E f : /\ EndsOf(f, lengths)
                     /\ f[Len(lengths)] \in Int
                     /\ e[Len(lengths) + 1] = f[Len(lengths)] + length
                     /\ \A k \in 0 .. Len(lengths) : f[k] = e[k]
<1> DEFINE L == Len(lengths)
           f == [k \in 0 .. L |-> e[k]]
           longer == Append(lengths, length)
<1>1. L \in Nat /\ Len(longer) = L + 1 /\ longer[L + 1] = length
      /\ \A k \in 1 .. L : longer[k] = lengths[k]
  OBVIOUS
<1> HIDE DEF L, longer
<1>2. /\ e \in [0 .. (L + 1) -> Int] /\ e[0] = 0
      /\ \A k \in 1 .. (L + 1) : e[k] = e[k - 1] + longer[k]
  BY <1>1 DEF EndsOf, longer
<1>3. 0 \in 0 .. L /\ L \in 0 .. L /\ L + 1 \in 1 .. (L + 1) /\ (L + 1) - 1 = L
  BY <1>1
<1>4. f \in [0 .. L -> Int] /\ f[0] = 0 /\ f[L] = e[L]
  <2>1. \A k \in 0 .. L : k \in 0 .. (L + 1)
    BY <1>1
  <2> QED
    BY <1>2, <1>3, <2>1
<1>5. \A k \in 1 .. L : f[k] = f[k - 1] + lengths[k]
  <2>1. \A k \in 1 .. L : k \in 1 .. (L + 1) /\ k \in 0 .. L /\ k - 1 \in 0 .. L
    BY <1>1
  <2> QED
    BY <1>1, <1>2, <2>1
<1>6. e[L + 1] = f[L] + length /\ f[L] \in Int
  BY <1>1, <1>2, <1>3, <1>4
<1>7. \A k \in 0 .. L : f[k] = e[k]
  OBVIOUS
<1> HIDE DEF f
<1>8. EndsOf(f, lengths)
  BY <1>4, <1>5 DEF EndsOf, L
<1>9. \E g : /\ EndsOf(g, lengths)
             /\ g[L] \in Int
             /\ e[L + 1] = g[L] + length
             /\ \A k \in 0 .. L : g[k] = e[k]
  BY <1>6, <1>7, <1>8
<1> QED
  BY <1>1, <1>9 DEF L, longer

(* The ends before the last block was made longer.                            *)
LEMMA EndsShorter ==
    ASSUME NEW lengths \in Seq(Nat), lengths # <<>>, NEW length \in Nat, NEW e,
           EndsOf(e, [lengths EXCEPT ![Len(lengths)] = @ + length])
    PROVE  /\ Len([lengths EXCEPT ![Len(lengths)] = @ + length]) = Len(lengths)
           /\ \E f : /\ EndsOf(f, lengths)
                     /\ f[Len(lengths)] \in Int
                     /\ e[Len(lengths)] = f[Len(lengths)] + length
                     /\ \A k \in 0 .. (Len(lengths) - 1) : f[k] = e[k]
<1> DEFINE L == Len(lengths)
           longer == [lengths EXCEPT ![L] = @ + length]
           f == [k \in 0 .. L |-> IF k = L THEN e[L] - length ELSE e[k]]
<1>1. L \in Nat \ {0} /\ Len(longer) = L
      /\ longer[L] = lengths[L] + length /\ lengths[L] \in Nat
      /\ \A k \in 1 .. L : k # L => longer[k] = lengths[k]
  OBVIOUS
<1>2. EndsOf(e, longer)
  OBVIOUS
<1>3. DOMAIN lengths = 1 .. L
  OBVIOUS
<1> HIDE DEF L, longer
<1>4. /\ e \in [0 .. L -> Int] /\ e[0] = 0
      /\ \A k \in 1 .. L : e[k] = e[k - 1] + longer[k]
  BY <1>1, <1>2 DEF EndsOf
<1>5. 0 \in 0 .. L /\ L \in 0 .. L /\ L # 0 /\ L \in 1 .. L /\ L - 1 \in 0 .. L /\ L - 1 # L
  BY <1>1
<1>6. e[L] \in Int /\ e[L] - length \in Int /\ e[L - 1] \in Int
  BY <1>4, <1>5
<1>7. f \in [0 .. L -> Int] /\ f[0] = 0 /\ f[L] = e[L] - length
      /\ \A k \in 0 .. (L - 1) : f[k] = e[k]
  <2>1. \A k \in 0 .. (L - 1) : k \in 0 .. L /\ k # L
    BY <1>1
  <2> QED
    BY <1>4, <1>5, <1>6, <2>1
<1> HIDE DEF f
<1>8. ASSUME NEW k \in 1 .. L
      PROVE  f[k] = f[k - 1] + lengths[k]
  <2>1. k - 1 \in 0 .. (L - 1)
    BY <1>1
  <2>2. CASE k = L
    <3>1. f[L] = e[L] - length /\ f[L - 1] = e[L - 1]
      BY <1>7, <2>1, <2>2
    <3>2. e[L] = e[L - 1] + (lengths[L] + length)
      BY <1>1, <1>4, <1>5
    <3>3. f[L] = f[L - 1] + lengths[L]
      BY <1>1, <1>6, <3>1, <3>2, SMTT(60)
    <3> QED
      BY <2>2, <3>3
  <2>3. CASE k # L
    <3>1. k \in 0 .. (L - 1)
      BY <1>1, <2>3
    <3> QED
      BY <1>1, <1>4, <1>7, <2>1, <2>3, <3>1
  <2> QED
    BY <2>2, <2>3
<1>9. EndsOf(f, lengths)
  BY <1>7, <1>8 DEF EndsOf, L
<1>10. e[L] = f[L] + length /\ f[L] \in Int
  BY <1>6, <1>7
<1>11. \E g : /\ EndsOf(g, lengths) /\ g[L] \in Int /\ e[L] = g[L] + length
              /\ \A k \in 0 .. (L - 1) : g[k] = e[k]
  BY <1>7, <1>9, <1>10
<1> QED
  BY <1>1, <1>11 DEF L, longer

(* What is counted stays counted when a block is added or made longer.        *)
Counting(s, n) ==
    /\ s.types \in Seq(Nat) /\ s.lengths \in Seq(Nat) /\ s.blockSize \in Nat
    /\ Len(s.types) = Len(s.lengths)
    /\ \A k \in 1 .. Len(s.types) : s.types[k] \in 0 .. (s.numTypes - 1)
    /\ n \in 0 .. Len(contexts)

(* A block more: what was counted for it is in the histogram of its type.    *)
LEMMA BlockMoreCounts ==
    ASSUME contexts \in Seq(Contexts), NEW s, NEW n, Counting(s, n), CountedIn(s, n),
           NEW r, NEW type \in Nat, ABlockMore(s, r, type), Grown(s, r, type),
           r.blockSize = 0
    PROVE  /\ CountedIn(r, n)
           /\ Exactly(s, n) => Exactly(r, n)
           /\ Solid(s) /\ s.blockSize >= 1 => Solid(r)
<1> DEFINE L == Len(s.lengths)
           size == s.blockSize
           Has(h, p) == p \in h[StaticContextMap(contexts[p])]
<1>1. /\ L \in Nat /\ size \in Nat /\ s.lengths \in Seq(Nat) /\ Len(s.types) = L
      /\ s.types \in Seq(Nat) /\ n \in Nat
      /\ \A k \in 1 .. L : s.types[k] \in 0 .. (s.numTypes - 1)
  BY DEF Counting
<1>2. /\ r.types = Append(s.types, type) /\ r.lengths = Append(s.lengths, size)
      /\ Len(r.types) = L + 1 /\ Len(r.lengths) = L + 1
      /\ r.types[L + 1] = type
      /\ \A k \in 1 .. L : r.types[k] = s.types[k]
      /\ \A k \in 1 .. (L + 1) : k = L + 1 \/ k \in 1 .. L
  <2>1. r.types = Append(s.types, type) /\ r.lengths = Append(s.lengths, size)
    BY DEF ABlockMore
  <2>2. /\ Len(Append(s.types, type)) = L + 1 /\ Append(s.types, type)[L + 1] = type
        /\ \A k \in 1 .. L : Append(s.types, type)[k] = s.types[k]
    BY <1>1, AppendProperties
  <2>3. Len(Append(s.lengths, size)) = L + 1
    BY <1>1, AppendProperties
  <2>4. \A k \in 1 .. (L + 1) : k = L + 1 \/ k \in 1 .. L
    BY <1>1
  <2> QED
    BY <2>1, <2>2, <2>3, <2>4
<1>3. ASSUME NEW p \in 1 .. n
      PROVE  /\ Has(s.histograms[s.curr], p) => Has(r.histograms[type], p)
             /\ \A u \in 0 .. (s.numTypes - 1) :
                   Has(s.histograms[u], p) => Has(r.histograms[u], p)
  <2>1. StaticContextMap(contexts[p]) \in HistogramContexts
    <3>1. p \in 1 .. Len(contexts)
      BY DEF Counting
    <3> QED
      BY <3>1, ContextIn
  <2> QED
    BY <2>1 DEF Grown
<1>4. ASSUME NEW e, EndsOf(e, r.lengths)
      PROVE  \E f : /\ EndsOf(f, s.lengths) /\ f[L] \in Int
                    /\ e[L + 1] = f[L] + size
                    /\ \A k \in 0 .. L : f[k] = e[k]
  <2>1. EndsOf(e, Append(s.lengths, size))
    BY <1>2, <1>4
  <2> DEFINE before == s.lengths
  <2>2. before \in Seq(Nat) /\ size \in Nat /\ EndsOf(e, Append(before, size))
    BY <1>1, <2>1
  <2> HIDE DEF size, before, L
  <2>3. \E f : /\ EndsOf(f, before) /\ f[Len(before)] \in Int
               /\ e[Len(before) + 1] = f[Len(before)] + size
               /\ \A k \in 0 .. Len(before) : f[k] = e[k]
    BY <2>2, EndsBefore
  <2> QED
    BY <2>3 DEF before, L
<1>5. ASSUME NEW e, EndsOf(e, r.lengths)
      PROVE  /\ n <= e[L + 1] + 0
             /\ \A p \in 1 .. n :
                   /\ p > e[L + 1] => Has(r.histograms[r.curr], p)
                   /\ \A k \in 1 .. (L + 1) : Within(e, k, p) => Has(r.histograms[r.types[k]], p)
             /\ Exactly(s, n) => n = e[L + 1] + 0
  <2>1. PICK f : /\ EndsOf(f, s.lengths) /\ f[L] \in Int
                 /\ e[L + 1] = f[L] + size
                 /\ \A k \in 0 .. L : f[k] = e[k]
    BY <1>4, <1>5
  <2>2. /\ n <= f[L] + size
        /\ \A p \in 1 .. n :
              /\ p > f[L] => Has(s.histograms[s.curr], p)
              /\ \A k \in 1 .. L : Within(f, k, p) => Has(s.histograms[s.types[k]], p)
    <3>1. Len(s.types) = L
      BY <1>1
    <3> HIDE DEF L
    <3> QED
      BY <2>1, <3>1 DEF CountedIn, L
  <2>3. n <= e[L + 1] + 0 /\ e[L + 1] \in Int
    BY <1>1, <2>1, <2>2
  <2>4. Exactly(s, n) => n = e[L + 1] + 0
    <3>1. Exactly(s, n) => n = f[L] + size
      BY <2>1 DEF Exactly
    <3> QED
      BY <1>1, <2>1, <3>1
  <2>5. ASSUME NEW p \in 1 .. n
        PROVE  ~ (p > e[L + 1])
    BY <1>1, <2>3
  <2>6. ASSUME NEW p \in 1 .. n, NEW k \in 1 .. (L + 1), Within(e, k, p)
        PROVE  Has(r.histograms[r.types[k]], p)
    <3>1. CASE k = L + 1
      <4>1. e[L] < p /\ f[L] = e[L]
        <5>1. k - 1 = L /\ L \in 0 .. L
          BY <1>1, <3>1
        <5> QED
          BY <2>1, <2>6, <5>1 DEF Within
      <4>2. p > f[L]
        BY <2>1, <4>1
      <4>3. Has(s.histograms[s.curr], p)
        <5> HIDE DEF Has, L, size
        <5> QED
          BY <2>2, <4>2
      <4>4. Has(r.histograms[type], p)
        <5> HIDE DEF Has
        <5> QED
          BY <1>3, <4>3
      <4> QED
        BY <1>2, <3>1, <4>4
    <3>2. CASE k # L + 1
      <4>1. k \in 1 .. L
        BY <1>2, <3>2
      <4>2. k \in 0 .. L /\ k - 1 \in 0 .. L
        BY <1>1, <4>1
      <4>3. Within(f, k, p)
        BY <2>1, <2>6, <4>2 DEF Within
      <4>4. Has(s.histograms[s.types[k]], p)
        <5> HIDE DEF Has, L, size
        <5> QED
          BY <2>2, <4>1, <4>3
      <4>5. Has(r.histograms[s.types[k]], p)
        <5> HIDE DEF Has
        <5> QED
          BY <1>1, <1>3, <4>1, <4>4
      <4>6. r.types[k] = s.types[k]
        BY <1>2, <4>1
      <4> QED
        BY <4>5, <4>6
    <3> QED
      BY <3>1, <3>2
  <2> HIDE DEF Has, L
  <2> QED
    BY <2>3, <2>4, <2>5, <2>6
<1>6. CountedIn(r, n)
  <2> HIDE DEF L
  <2> QED
    BY <1>2, <1>5 DEF CountedIn
<1>7. Exactly(s, n) => Exactly(r, n)
  <2> HIDE DEF L, Has
  <2> QED
    BY <1>2, <1>5 DEF Exactly
<1>8. ASSUME Solid(s), size >= 1
      PROVE  Solid(r)
  <2>1. Append(s.lengths, size)[L + 1] = size
        /\ \A k \in 1 .. L : Append(s.lengths, size)[k] = s.lengths[k]
    BY <1>1, AppendProperties
  <2> HIDE DEF L, size
  <2>2. \A k \in 1 .. L : s.lengths[k] >= 1
    BY <1>8 DEF Solid, L
  <2>3. \A k \in 1 .. (L + 1) : r.lengths[k] >= 1
    BY <1>2, <1>8, <2>1, <2>2
  <2> QED
    BY <1>2, <2>3 DEF Solid
<1> QED
  BY <1>6, <1>7, <1>8

(* The last block made longer: what was counted joins the histogram of that   *)
(* block's type.                                                              *)
LEMMA LongerBlockCounts ==
    ASSUME contexts \in Seq(Contexts), NEW s, NEW n, Counting(s, n), CountedIn(s, n),
           s.types # <<>>, NEW r, ALongerBlock(s, r),
           Grown(s, r, s.types[Len(s.types)]), r.blockSize = 0
    PROVE  /\ CountedIn(r, n)
           /\ Exactly(s, n) => Exactly(r, n)
           /\ Solid(s) => Solid(r)
<1> DEFINE L == Len(s.lengths)
           size == s.blockSize
           Has(h, p) == p \in h[StaticContextMap(contexts[p])]
<1>1. /\ L \in Nat \ {0} /\ size \in Nat /\ s.lengths \in Seq(Nat) /\ Len(s.types) = L
      /\ s.types \in Seq(Nat) /\ n \in Nat
      /\ \A k \in 1 .. L : s.types[k] \in 0 .. (s.numTypes - 1)
  <2>1. s.types \in Seq(Nat) /\ s.lengths \in Seq(Nat) /\ Len(s.types) = L
    BY DEF Counting
  <2>2. L # 0
    BY <2>1
  <2> QED
    BY <2>1, <2>2 DEF Counting
<1>2. /\ r.types = s.types
      /\ r.lengths = [s.lengths EXCEPT ![L] = @ + size]
      /\ Len(r.types) = L /\ Len(r.lengths) = L
      /\ r.lengths[L] = s.lengths[L] + size
      /\ \A k \in 1 .. L : k # L => r.lengths[k] = s.lengths[k]
      /\ \A k \in 1 .. L : s.lengths[k] \in Nat
  <2>1. r.types = s.types /\ r.lengths = [s.lengths EXCEPT ![L] = @ + size]
    BY DEF ALongerBlock
  <2>2. DOMAIN s.lengths = 1 .. L /\ \A k \in 1 .. L : s.lengths[k] \in Nat
    <3> DEFINE before == s.lengths
    <3>1. before \in Seq(Nat)
      BY <1>1
    <3> HIDE DEF before
    <3>2. DOMAIN before = 1 .. Len(before) /\ \A k \in 1 .. Len(before) : before[k] \in Nat
      BY <3>1
    <3> QED
      BY <3>2 DEF before
  <2>3. /\ Len([s.lengths EXCEPT ![L] = @ + size]) = L
        /\ [s.lengths EXCEPT ![L] = @ + size][L] = s.lengths[L] + size
        /\ \A k \in 1 .. L : k # L => [s.lengths EXCEPT ![L] = @ + size][k] = s.lengths[k]
    BY <1>1, <2>2
  <2> HIDE DEF L, size
  <2> QED
    BY <1>1, <2>1, <2>2, <2>3
<1>3. ASSUME NEW p \in 1 .. n
      PROVE  /\ Has(s.histograms[s.curr], p) => Has(r.histograms[s.types[L]], p)
             /\ \A u \in 0 .. (s.numTypes - 1) :
                   Has(s.histograms[u], p) => Has(r.histograms[u], p)
  <2>1. StaticContextMap(contexts[p]) \in HistogramContexts
    <3>1. p \in 1 .. Len(contexts)
      BY DEF Counting
    <3> QED
      BY <3>1, ContextIn
  <2>2. Grown(s, r, s.types[L])
    BY <1>1
  <2> HIDE DEF L
  <2> QED
    BY <2>1, <2>2 DEF Grown
<1>4. ASSUME NEW e, EndsOf(e, r.lengths)
      PROVE  \E f : /\ EndsOf(f, s.lengths) /\ f[L] \in Int
                    /\ e[L] = f[L] + size
                    /\ \A k \in 0 .. (L - 1) : f[k] = e[k]
  <2>1. EndsOf(e, [s.lengths EXCEPT ![L] = @ + size])
    BY <1>2, <1>4
  <2> DEFINE before == s.lengths
  <2>2. /\ before \in Seq(Nat) /\ size \in Nat
        /\ EndsOf(e, [before EXCEPT ![Len(before)] = @ + size])
    BY <1>1, <2>1
  <2>3. before # <<>>
    BY <1>1
  <2> HIDE DEF size, before, L
  <2>4. \E f : /\ EndsOf(f, before) /\ f[Len(before)] \in Int
               /\ e[Len(before)] = f[Len(before)] + size
               /\ \A k \in 0 .. (Len(before) - 1) : f[k] = e[k]
    BY ONLY <2>2, <2>3, EndsShorter, SMTT(60)
  <2> QED
    BY <2>4 DEF before, L
<1>5. ASSUME NEW e, EndsOf(e, r.lengths)
      PROVE  /\ n <= e[L] + 0
             /\ \A p \in 1 .. n :
                   /\ p > e[L] => Has(r.histograms[r.curr], p)
                   /\ \A k \in 1 .. L : Within(e, k, p) => Has(r.histograms[r.types[k]], p)
             /\ Exactly(s, n) => n = e[L] + 0
  <2>1. PICK f : /\ EndsOf(f, s.lengths) /\ f[L] \in Int
                 /\ e[L] = f[L] + size
                 /\ \A k \in 0 .. (L - 1) : f[k] = e[k]
    BY <1>4, <1>5
  <2>2. /\ n <= f[L] + size
        /\ \A p \in 1 .. n :
              /\ p > f[L] => Has(s.histograms[s.curr], p)
              /\ \A k \in 1 .. L : Within(f, k, p) => Has(s.histograms[s.types[k]], p)
    <3>1. Len(s.types) = L
      BY <1>1
    <3> HIDE DEF L
    <3> QED
      BY <2>1, <3>1 DEF CountedIn, L
  <2>3. n <= e[L] + 0 /\ e[L] \in Int
    BY <1>1, <2>1, <2>2
  <2>4. Exactly(s, n) => n = e[L] + 0
    <3>1. Exactly(s, n) => n = f[L] + size
      BY <2>1 DEF Exactly
    <3> QED
      BY <1>1, <2>1, <3>1
  <2>5. ASSUME NEW p \in 1 .. n
        PROVE  ~ (p > e[L])
    BY <1>1, <2>3
  <2>6. ASSUME NEW p \in 1 .. n, NEW k \in 1 .. L, Within(e, k, p)
        PROVE  Has(r.histograms[r.types[k]], p)
    <3>1. r.types[k] = s.types[k] /\ s.types[k] \in 0 .. (s.numTypes - 1)
      BY <1>1, <1>2
    <3>2. k - 1 \in 0 .. (L - 1) /\ e[k - 1] < p
      BY <1>1, <2>6 DEF Within
    <3>3. f[k - 1] < p
      BY <2>1, <3>2
    <3>4. ASSUME p <= f[k]
          PROVE  Has(r.histograms[r.types[k]], p)
      <4>1. Has(s.histograms[s.types[k]], p)
        <5>1. Within(f, k, p)
          BY <3>3, <3>4 DEF Within
        <5> HIDE DEF Has, L, size
        <5> QED
          BY <2>2, <5>1
      <4> HIDE DEF Has
      <4> QED
        BY <1>3, <3>1, <4>1
    <3>5. CASE k = L
      <4>1. CASE p > f[L]
        <5>1. Has(s.histograms[s.curr], p)
          <6> HIDE DEF Has, L, size
          <6> QED
            BY <2>2, <4>1
        <5>2. Has(r.histograms[s.types[L]], p)
          <6> HIDE DEF Has, L
          <6> QED
            BY <1>3, <5>1
        <5> QED
          BY <3>1, <3>5, <5>2
      <4>2. CASE ~ (p > f[L])
        <5>1. p <= f[k]
          BY <1>1, <2>1, <3>5, <4>2
        <5> QED
          BY <3>4, <5>1
      <4> QED
        BY <4>1, <4>2
    <3>6. CASE k # L
      <4>1. k \in 0 .. (L - 1)
        BY <1>1, <3>6
      <4>2. p <= f[k]
        BY <2>1, <2>6, <4>1 DEF Within
      <4> QED
        BY <3>4, <4>2
    <3> QED
      BY <3>5, <3>6
  <2> HIDE DEF Has, L
  <2> QED
    BY <2>3, <2>4, <2>5, <2>6
<1>6. CountedIn(r, n)
  <2> HIDE DEF L
  <2> QED
    BY <1>2, <1>5 DEF CountedIn
<1>7. Exactly(s, n) => Exactly(r, n)
  <2> HIDE DEF L, Has
  <2> QED
    BY <1>2, <1>5 DEF Exactly
<1>8. ASSUME Solid(s)
      PROVE  Solid(r)
  <2>1. \A k \in 1 .. L : s.lengths[k] >= 1
    BY <1>8 DEF Solid
  <2> HIDE DEF L, size
  <2>2. \A k \in 1 .. L : r.lengths[k] >= 1
    BY <1>1, <1>2, <2>1
  <2> QED
    BY <1>2, <2>2 DEF Solid
<1> QED
  BY <1>6, <1>7, <1>8

(* What the counting lemmas need of a split.                                 *)
LEMMA SplitCounts ==
    ASSUME NEW s, SplitOK(s), NEW n \in 0 .. Len(contexts)
    PROVE  Counting(s, n)
<1>1. /\ s.types \in Seq(Nat) /\ s.lengths \in Seq(Nat) /\ s.blockSize \in Nat
      /\ s.numTypes \in Nat
  BY DEF SplitOK, SplitType
<1>2. CASE s.types = <<>>
  <2>1. Len(s.types) = 0 /\ Len(s.lengths) = 0
    BY <1>2 DEF SplitOK
  <2>2. 1 .. 0 = {}
    OBVIOUS
  <2> QED
    BY <1>1, <2>1, <2>2 DEF Counting
<1>3. CASE s.types # <<>>
  <2>1. TypesInUse(s)
    BY <1>3 DEF SplitOK
  <2> QED
    BY <1>1, <2>1 DEF Counting, TypesInUse
<1> QED
  BY <1>2, <1>3

(* However a block is finished, and padded for it, what is counted stays so.  *)
LEMMA FinishBlockCounts ==
    ASSUME contexts \in Seq(Contexts), NEW b, SplitOK(b),
           b.curr \in DOMAIN b.histograms,
           NEW m \in Int, Reaches(b.lengths, m),
           NEW n \in 0 .. Len(contexts), Solid(b), CountedIn(b, n),
           NEW r \in FinishBlock(b)
    PROVE  /\ Solid(r) /\ CountedIn(r, n)
           /\ Exactly(b, n) /\ b.blockSize >= MinBlock => Exactly(r, n)
<1> DEFINE s == [b EXCEPT !.blockSize = Larger(@, MinBlock)]
<1>1. /\ SplitOK(s) /\ s.types = b.types /\ s.lengths = b.lengths
      /\ s.curr = b.curr /\ s.histograms = b.histograms
      /\ s.blockSize >= b.blockSize /\ s.blockSize \in Nat /\ b.blockSize \in Nat
  BY Padded
<1>2. \/ s.types = <<>> /\ r = FirstBlock(s)
      \/ s.types # <<>> /\ r = MergeIntoLast(s)
      \/ s.types # <<>> /\ s.numTypes < TypeLimit /\ r = NewType(s)
      \/ s.types # <<>> /\ ~SameDifference(s) /\ r = SecondLastType(s)
  BY DEF FinishBlock, MayBeNew
<1>3. /\ s.blockSize >= 1
      /\ b.blockSize >= MinBlock => s.blockSize = b.blockSize
  <2>1. MinBlock \in Nat \ {0} /\ b.blockSize \in Nat
    BY <1>1, SplitAssumption
  <2>2. s.blockSize = Larger(b.blockSize, MinBlock)
    BY <1>1 DEF SplitOK, SplitType
  <2> HIDE DEF s
  <2> QED
    BY <2>1, <2>2 DEF Larger
<1> HIDE DEF s
<1>4. Solid(s)
  BY <1>1 DEF Solid
<1>5. CountedIn(s, n) /\ (Exactly(b, n) /\ b.blockSize >= MinBlock => Exactly(s, n))
  <2>1. ASSUME NEW e, EndsOf(e, s.lengths)
        PROVE  n <= e[Len(s.lengths)] + s.blockSize
    <3> DEFINE end == e[Len(s.lengths)]
    <3>1. Len(s.lengths) \in Nat
      <4>1. s.lengths \in Seq(Nat)
        BY <1>1 DEF SplitOK, SplitType
      <4> QED
        BY <4>1
    <3>2. end \in Int
      <4> DEFINE L == Len(s.lengths)
      <4>1. L \in Nat /\ e \in [0 .. L -> Int]
        BY <2>1, <3>1 DEF EndsOf
      <4> HIDE DEF L
      <4>2. e[L] \in Int
        BY <4>1
      <4> QED
        BY <4>2 DEF L
    <3>3. n <= end + b.blockSize
      BY <1>1, <2>1 DEF CountedIn
    <3> HIDE DEF end
    <3>4. n <= end + s.blockSize
      <4>1. n \in Int
        OBVIOUS
      <4> QED
        BY <1>1, <3>2, <3>3, <4>1
    <3> QED
      BY <3>4 DEF end
  <2>2. CountedIn(s, n)
    BY <1>1, <2>1 DEF CountedIn
  <2>3. Exactly(b, n) /\ b.blockSize >= MinBlock => Exactly(s, n)
    BY <1>1, <1>3 DEF Exactly
  <2> QED
    BY <2>2, <2>3
<1>6. Counting(s, n)
  BY <1>1, SplitCounts
<1>7. s.curr \in DOMAIN s.histograms /\ Reaches(s.lengths, m)
  BY <1>1
<1>8. ASSUME s.types # <<>>
      PROVE  /\ s.numTypes \in Nat /\ s.last[1] \in Nat /\ s.last[2] \in Nat
             /\ s.last[1] = s.types[Len(s.types)]
  <2>1. LastTwo(s) /\ s \in SplitType
    BY <1>1, <1>8 DEF SplitOK
  <2> QED
    BY <2>1 DEF LastTwo, SplitType
<1>9. /\ Solid(r) /\ CountedIn(r, n)
      /\ Exactly(s, n) => Exactly(r, n)
  <2>1. CASE s.types = <<>> /\ r = FirstBlock(s)
    <3>1. r.blockSize = 0 /\ ABlockMore(s, r, 0) /\ Grown(s, r, 0)
      BY <1>1, <1>7, <2>1, FirstBlockOK
    <3> QED
      BY <1>3, <1>4, <1>5, <1>6, <3>1, BlockMoreCounts
  <2>2. CASE s.types # <<>> /\ r = MergeIntoLast(s)
    <3>1. r.blockSize = 0 /\ ALongerBlock(s, r) /\ Grown(s, r, s.last[1])
      BY <1>1, <1>7, <2>2, MergeIntoLastOK
    <3>2. Grown(s, r, s.types[Len(s.types)])
      BY <1>8, <2>2, <3>1
    <3> QED
      BY <1>4, <1>5, <1>6, <2>2, <3>1, <3>2, LongerBlockCounts
  <2>3. CASE s.types # <<>> /\ s.numTypes < TypeLimit /\ r = NewType(s)
    <3>1. r.blockSize = 0 /\ ABlockMore(s, r, s.numTypes) /\ Grown(s, r, s.numTypes)
      BY <1>1, <1>7, <2>3, NewTypeOK
    <3>2. s.numTypes \in Nat
      BY <1>8, <2>3
    <3> QED
      BY <1>3, <1>4, <1>5, <1>6, <3>1, <3>2, BlockMoreCounts
  <2>4. CASE s.types # <<>> /\ ~SameDifference(s) /\ r = SecondLastType(s)
    <3>1. r.blockSize = 0 /\ ABlockMore(s, r, s.last[2]) /\ Grown(s, r, s.last[2])
      BY <1>1, <1>7, <2>4, SecondLastTypeOK
    <3>2. s.last[2] \in Nat
      BY <1>8, <2>4
    <3> QED
      BY <1>3, <1>4, <1>5, <1>6, <3>1, <3>2, BlockMoreCounts
  <2> QED
    BY <1>2, <2>1, <2>2, <2>3, <2>4
<1> QED
  BY <1>5, <1>9

(* Blocks end one behind the other.                                           *)
LEMMA EndsGrow ==
    ASSUME NEW lengths \in Seq(Nat), NEW e, EndsOf(e, lengths)
    PROVE  /\ Len(lengths) \in Nat
           /\ \A k \in 0 .. Len(lengths) : e[k] \in Nat
           /\ \A j, k \in 0 .. Len(lengths) : j <= k => e[j] <= e[k]
<1> DEFINE L == Len(lengths)
           P == {k \in 0 .. L : e[k] \in Nat /\ \A j \in 0 .. k : e[j] <= e[k]}
<1>1. L \in Nat /\ \A k \in 1 .. L : lengths[k] \in Nat
  OBVIOUS
<1>2. /\ e \in [0 .. L -> Int] /\ e[0] = 0
      /\ \A k \in 1 .. L : e[k] = e[k - 1] + lengths[k]
  BY DEF EndsOf
<1> HIDE DEF L
<1>3. 0 \in P
  <2>1. \A j \in 0 .. 0 : j = 0
    OBVIOUS
  <2>2. e[0] \in Nat /\ e[0] <= e[0]
    BY <1>2
  <2>3. \A j \in 0 .. 0 : e[j] <= e[0]
    BY <2>1, <2>2
  <2> QED
    BY <1>1, <2>2, <2>3
<1>4. ASSUME NEW k \in 0 .. (L - 1), k \in P
      PROVE  k + 1 \in P
  <2>1. k + 1 \in 1 .. L /\ (k + 1) - 1 = k /\ k + 1 \in 0 .. L
    BY <1>1
  <2>2. e[k + 1] = e[k] + lengths[k + 1] /\ lengths[k + 1] \in Nat /\ e[k] \in Nat
    BY <1>1, <1>2, <1>4, <2>1
  <2>3. ASSUME NEW j \in 0 .. (k + 1)
        PROVE  e[j] <= e[k + 1]
    <3>1. CASE j = k + 1
      <4>1. e[k + 1] \in Nat
        BY <2>2
      <4> QED
        BY <3>1, <4>1
    <3>2. CASE j # k + 1
      <4>1. j \in 0 .. k /\ j \in 0 .. L
        BY <1>1, <3>2
      <4>2. e[j] <= e[k] /\ e[j] \in Int
        BY <1>2, <1>4, <4>1
      <4> QED
        BY <2>2, <4>2
    <3> QED
      BY <3>1, <3>2
  <2> QED
    BY <2>1, <2>2, <2>3
<1>5. \A k \in 0 .. L : k \in P
  <2> HIDE DEF P
  <2> QED
    BY <1>1, <1>3, <1>4, UpTo
<1>6. \A k \in 0 .. L : e[k] \in Nat
  BY <1>5
<1>7. ASSUME NEW j \in 0 .. L, NEW k \in 0 .. L, j <= k
      PROVE  e[j] <= e[k]
  <2>1. j \in 0 .. k
    BY <1>7
  <2> QED
    BY <1>5, <2>1
<1> QED
  BY <1>1, <1>6, <1>7 DEF L

(* The ends of the blocks are determined by their lengths.                   *)
LEMMA EndsAgree ==
    ASSUME NEW lengths \in Seq(Nat), NEW e, EndsOf(e, lengths), NEW f, EndsOf(f, lengths)
    PROVE  \A k \in 0 .. Len(lengths) : e[k] = f[k]
<1> DEFINE L == Len(lengths)
           P == {k \in 0 .. L : e[k] = f[k]}
<1>1. L \in Nat
  OBVIOUS
<1>2. /\ e[0] = 0 /\ \A k \in 1 .. L : e[k] = e[k - 1] + lengths[k]
      /\ f[0] = 0 /\ \A k \in 1 .. L : f[k] = f[k - 1] + lengths[k]
  BY DEF EndsOf
<1> HIDE DEF L
<1>3. 0 \in P
  BY <1>1, <1>2
<1>4. ASSUME NEW k \in 0 .. (L - 1), k \in P
      PROVE  k + 1 \in P
  <2>1. k + 1 \in 1 .. L /\ (k + 1) - 1 = k /\ k + 1 \in 0 .. L
    BY <1>1
  <2> QED
    BY <1>2, <1>4, <2>1
<1>5. \A k \in 0 .. L : k \in P
  <2> HIDE DEF P
  <2> QED
    BY <1>1, <1>3, <1>4, UpTo
<1> QED
  BY <1>5 DEF L

(* A symbol more is in the current histogram, and behind the blocks.          *)
LEMMA CountedCounts ==
    ASSUME contexts \in Seq(Contexts), SplitOK(split),
           split.curr \in DOMAIN split.histograms, NEW n \in Nat, n + 1 \in 1 .. Len(contexts),
           Solid(split), CountedIn(split, n), Exactly(split, n)
    PROVE  LET s == Counted(split, n + 1)
           IN  Solid(s) /\ CountedIn(s, n + 1) /\ Exactly(s, n + 1)
<1> DEFINE s == Counted(split, n + 1)
           Has(h, p) == p \in h[StaticContextMap(contexts[p])]
           L == Len(split.lengths)
<1>1. /\ SplitOK(s) /\ s.types = split.types /\ s.lengths = split.lengths
      /\ s.curr = split.curr /\ s.blockSize = split.blockSize + 1
      /\ split.blockSize \in Nat
  <2>1. n + 1 \in Nat
    OBVIOUS
  <2> QED
    BY <2>1, CountedOK
<1>2. /\ split \in SplitType /\ split.lengths \in Seq(Nat)
      /\ Counting(split, n)
  <2>1. split \in SplitType /\ split.lengths \in Seq(Nat)
    BY DEF SplitOK, SplitType
  <2>2. n \in 0 .. Len(contexts)
    BY DEF SplitOK, SplitType
  <2> QED
    BY <2>1, <2>2, SplitCounts
<1>3. ASSUME NEW u \in DOMAIN split.histograms, NEW c \in HistogramContexts
      PROVE  split.histograms[u][c] \subseteq s.histograms[u][c]
  BY <1>2 DEF Counted, SplitType, Histogram
<1>4. Has(s.histograms[s.curr], n + 1)
  <2>1. StaticContextMap(contexts[n + 1]) \in HistogramContexts
    BY ContextIn
  <2> DEFINE c == StaticContextMap(contexts[n + 1])
             old == split.histograms[split.curr]
             new == [old EXCEPT ![c] = @ \cup {n + 1}]
  <2>2. old \in Histogram /\ split.histograms \in [TypesWithRoom -> Histogram]
    BY <1>2 DEF SplitType
  <2>3. n + 1 \in new[c]
    <3> HIDE DEF old, c
    <3>1. c \in DOMAIN old
      BY <2>1, <2>2 DEF Histogram, c
    <3> QED
      BY <3>1
  <2>4. s.histograms = [split.histograms EXCEPT ![split.curr] = new]
    BY <1>2 DEF Counted, SplitType
  <2>5. s.histograms[split.curr] = new
    <3> HIDE DEF new, s
    <3> QED
      BY <2>2, <2>4
  <2> HIDE DEF new, s
  <2> QED
    BY <1>1, <2>3, <2>5
<1> HIDE DEF s
<1>5. Solid(s)
  BY <1>1 DEF Solid
<1>6. ASSUME NEW p \in 1 .. n
      PROVE  \A u \in DOMAIN split.histograms :
                Has(split.histograms[u], p) => Has(s.histograms[u], p)
  <2>1. p \in 1 .. Len(contexts)
    BY <1>2 DEF Counting
  <2>2. StaticContextMap(contexts[p]) \in HistogramContexts
    BY <2>1, ContextIn
  <2> QED
    BY <1>3, <2>2
<1>7. \A k \in 1 .. Len(split.types) : split.types[k] \in DOMAIN split.histograms
  <2>1. CASE split.types = <<>>
    BY <2>1
  <2>2. CASE split.types # <<>>
    <3>1. \A u \in 0 .. (split.numTypes - 1) : u \in DOMAIN split.histograms
      BY <2>2, AfterBlocks
    <3> QED
      BY <1>2, <3>1 DEF Counting
  <2> QED
    BY <2>1, <2>2
<1>8. ASSUME NEW e, EndsOf(e, split.lengths)
      PROVE  /\ n + 1 = e[L] + s.blockSize
             /\ \A p \in 1 .. (n + 1) :
                   /\ p > e[L] => Has(s.histograms[s.curr], p)
                   /\ \A k \in 1 .. Len(split.types) :
                         Within(e, k, p) => Has(s.histograms[split.types[k]], p)
  <2>1. /\ n = e[L] + split.blockSize
        /\ \A p \in 1 .. n :
              /\ p > e[L] => Has(split.histograms[split.curr], p)
              /\ \A k \in 1 .. Len(split.types) :
                    Within(e, k, p) => Has(split.histograms[split.types[k]], p)
    <3> HIDE DEF L
    <3> QED
      BY <1>8 DEF CountedIn, Exactly, L
  <2>2. /\ L \in Nat /\ e[L] \in Nat
        /\ \A k \in 1 .. L : e[k] \in Nat /\ e[k] <= e[L]
    <3>1. /\ L \in Nat /\ \A k \in 0 .. L : e[k] \in Nat
          /\ \A j, k \in 0 .. L : j <= k => e[j] <= e[k]
      BY <1>2, <1>8, EndsGrow
    <3> HIDE DEF L
    <3>2. L \in 0 .. L /\ \A k \in 1 .. L : k \in 0 .. L /\ k <= L
      BY <3>1
    <3> QED
      BY <3>1, <3>2
  <2>3. Len(split.types) = L
    BY <1>2 DEF Counting
  <2>4. ASSUME NEW p \in 1 .. (n + 1)
        PROVE  /\ p > e[L] => Has(s.histograms[s.curr], p)
               /\ \A k \in 1 .. L :
                     Within(e, k, p) => Has(s.histograms[split.types[k]], p)
    <3>1. CASE p = n + 1
      <4>1. ASSUME NEW k \in 1 .. L, Within(e, k, p)
            PROVE  FALSE
        <5>1. p <= e[k] /\ e[k] <= e[L] /\ e[k] \in Nat
          BY <2>2, <4>1 DEF Within
        <5> DEFINE a == e[k]
                   b == e[L]
                   size == split.blockSize
        <5>2. p <= a /\ a <= b /\ a \in Nat /\ b \in Nat /\ n = b + size /\ size \in Nat
          BY <1>1, <2>1, <2>2, <5>1
        <5> HIDE DEF a, b, size
        <5> QED
          BY <3>1, <5>2
      <4> HIDE DEF Has
      <4> QED
        BY <1>4, <3>1, <4>1
    <3>2. CASE p # n + 1
      <4>1. p \in 1 .. n
        BY <3>2
      <4>2. p > e[L] => Has(s.histograms[s.curr], p)
        <5> HIDE DEF Has, L
        <5> QED
          BY <1>1, <1>6, <2>1, <4>1
      <4>3. ASSUME NEW k \in 1 .. L, Within(e, k, p)
            PROVE  Has(s.histograms[split.types[k]], p)
        <5>1. Has(split.histograms[split.types[k]], p)
          <6> HIDE DEF Has, L
          <6> QED
            BY <2>1, <2>3, <4>1, <4>3
        <5> HIDE DEF Has, L
        <5> QED
          BY <1>6, <1>7, <2>3, <4>1, <5>1
      <4> QED
        BY <4>2, <4>3
    <3> QED
      BY <3>1, <3>2
  <2>5. n + 1 = e[L] + s.blockSize
    <3> DEFINE b == e[L]
               size == split.blockSize
    <3>1. n = b + size /\ b \in Nat /\ size \in Nat /\ s.blockSize = size + 1
      BY <1>1, <2>1, <2>2
    <3> HIDE DEF b, size
    <3>2. n + 1 = b + s.blockSize
      BY <3>1
    <3> QED
      BY <3>2 DEF b
  <2> HIDE DEF Has, L
  <2> QED
    BY <2>3, <2>4, <2>5
<1>9. Exactly(s, n + 1)
  <2> HIDE DEF L, Has
  <2> QED
    BY <1>1, <1>8 DEF Exactly, L
<1>10. CountedIn(s, n + 1)
  <2>1. ASSUME NEW e, EndsOf(e, s.lengths)
        PROVE  n + 1 <= e[Len(s.lengths)] + s.blockSize
    <3>1. n + 1 = e[Len(s.lengths)] + s.blockSize
      BY <1>9, <2>1 DEF Exactly
    <3> DEFINE sum == e[Len(s.lengths)] + s.blockSize
    <3>2. n + 1 = sum /\ n + 1 \in Nat
      BY <3>1
    <3> HIDE DEF sum
    <3>3. n + 1 <= sum
      BY <3>2
    <3> QED
      BY <3>3 DEF sum
  <2>2. s.lengths = split.lengths /\ s.types = split.types
    BY <1>1
  <2> HIDE DEF L
  <2> QED
    BY <1>8, <2>1, <2>2 DEF CountedIn, L
<1> QED
  BY <1>5, <1>9, <1>10 DEF s

-----------------------------------------------------------------------------
(* The greedy splitters count every symbol of the stream in its block's type. *)
CountsOK == phase = "split" /\ Greedy =>
                Solid(split) /\ CountedIn(split, count) /\ Exactly(split, count)

(* CountsOK carries over to a step that sets the split and the count so.      *)
LEMMA CountsKept ==
    ASSUME splitter' = splitter, contexts' = contexts, NEW s, split' = s, NEW n, count' = n,
           Solid(s), CountedIn(s, n), Exactly(s, n)
    PROVE  (Solid(split) /\ CountedIn(split, count) /\ Exactly(split, count))'
<1>2. Solid(split)' /\ Exactly(split, count)'
  BY DEF Solid, Exactly, EndsOf
<1>3. CountedIn(split, count)'
  BY SMTT(60) DEF CountedIn, EndsOf, Within, StaticContextMap
<1> QED
  BY <1>2, <1>3

(* Adding a symbol, with the block it may finish, keeps CountsOK.            *)
LEMMA AddSymbolCounts ==
    ASSUME IInv, CountsOK, AddSymbol
    PROVE  CountsOK'
<1> DEFINE s == Counted(split, count + 1)
<1>1. /\ phase = "split" /\ Greedy /\ GreedyOK /\ SplitOK(split)
      /\ contexts \in Seq(Contexts) /\ count \in Nat /\ count < Len(contexts)
      /\ Len(contexts) \in Nat
      /\ count' = count + 1 /\ splitter' = splitter /\ contexts' = contexts
      /\ Solid(split) /\ CountedIn(split, count) /\ Exactly(split, count)
  BY DEF IInv, AddSymbol, GreedyOK, CountsOK
<1>2. split.curr \in DOMAIN split.histograms
  BY <1>1, RoomForMore
<1>3. /\ SplitOK(s) /\ s.types = split.types /\ s.lengths = split.lengths
      /\ s.target \in Nat /\ s.target >= MinBlock
  <2>1. count + 1 \in Nat
    BY <1>1
  <2> HIDE DEF s
  <2> QED
    BY <1>1, <1>2, <2>1, CountedOK DEF s
<1>4. ~FinishPanics(s)
  BY <1>1, <1>3, NoFinishPanics
<1>5. \/ split' = s
      \/ ~(s.blockSize < s.target) /\ split' \in FinishBlock(s)
  BY <1>2, <1>4 DEF AddSymbol
<1>6. Solid(s) /\ CountedIn(s, count + 1) /\ Exactly(s, count + 1)
  <2>1. count + 1 \in 1 .. Len(contexts)
    BY <1>1
  <2> QED
    BY <1>1, <1>2, <2>1, CountedCounts
<1> HIDE DEF s
<1>7. CASE split' = s
  BY <1>1, <1>6, <1>7, CountsKept DEF CountsOK
<1>8. CASE ~(s.blockSize < s.target) /\ split' \in FinishBlock(s)
  <2>1. PICK r \in FinishBlock(s) : split' = r
    BY <1>8
  <2>2. s.curr \in DOMAIN s.histograms
    BY <1>1, <1>3, RoomForMore
  <2>3. split.blockSize \in Nat /\ count - split.blockSize \in Int
        /\ Reaches(s.lengths, count - split.blockSize)
    BY <1>1, <1>3, SMTT(60) DEF GreedyOK, SplitOK, SplitType
  <2>4. s.blockSize \in Nat /\ MinBlock \in Nat
    BY <1>3, SplitAssumption DEF SplitOK, SplitType
  <2>5. s.blockSize >= MinBlock /\ count + 1 \in 0 .. Len(contexts)
    BY <1>1, <1>3, <1>8, <2>4
  <2>6. Solid(r) /\ CountedIn(r, count + 1) /\ Exactly(r, count + 1)
    BY <1>1, <1>3, <1>6, <2>2, <2>3, <2>5, FinishBlockCounts
  <2> QED
    BY <1>1, <2>1, <2>6, CountsKept DEF CountsOK
<1> QED
  BY <1>5, <1>7, <1>8

-----------------------------------------------------------------------------
(* From the histograms to the codes of the symbols stored.  Every symbol is   *)
(* counted by the code the map gives for the type of its block, the decoder's *)
(* map gives the same one, and the encoder is in the block of the symbol.     *)
CodesCount(s, c, m) ==
    \A e : EndsOf(e, s.lengths) =>
        \A k \in 1 .. Len(s.types), p \in Symbols :
            Within(e, k, p) =>
                /\ HistogramOf(s.types[k], contexts[p], m) \in DOMAIN c
                /\ p \in c[HistogramOf(s.types[k], contexts[p], m)]
SameMap(s, m, sent) ==
    \A t \in 0 .. (s.numTypes - 1), c \in 0 .. (ContextCount - 1) :
        HistogramOf(t, c, sent) = HistogramOf(t, c, m)
InBlock(e) == /\ e[enc.block - 1] <= count
              /\ enc.left = e[enc.block] - count
              /\ enc.left >= 0
CodesOK ==
    phase = "store" =>
        /\ Solid(split) /\ CodesCount(split, codes, map) /\ SameMap(split, map, dec.map)
        /\ split.types # <<>> => \A e : EndsOf(e, split.lengths) => InBlock(e)
        /\ SymbolsHaveCodes

(* What the codes count carries over to a step that sets them as it says.    *)
LEMMA CodesCountKept ==
    ASSUME Symbols' = Symbols, contexts' = contexts, NEW s, split' = s, NEW c, codes' = c,
           NEW m, map' = m, CodesCount(s, c, m)
    PROVE  CodesCount(split, codes, map)'
<1>1. ASSUME NEW e, EndsOf(e, split'.lengths), NEW k \in 1 .. Len(split'.types),
             NEW p \in Symbols', Within(e, k, p)
      PROVE  /\ HistogramOf(split'.types[k], contexts'[p], map') \in DOMAIN codes'
             /\ p \in codes'[HistogramOf(split'.types[k], contexts'[p], map')]
  <2>1. EndsOf(e, s.lengths) /\ k \in 1 .. Len(s.types) /\ p \in Symbols
    BY <1>1
  <2>2. /\ HistogramOf(s.types[k], contexts[p], m) \in DOMAIN c
        /\ p \in c[HistogramOf(s.types[k], contexts[p], m)]
    BY <1>1, <2>1 DEF CodesCount
  <2> QED
    BY <2>2
<1> QED
  BY <1>1 DEF CodesCount, EndsOf, Within, HistogramOf

(* Storing a split starts with CodesOK, when its codes count its symbols and  *)
(* its map is read.                                                           *)
LEMMA StoredCodes ==
    ASSUME contexts \in Seq(Contexts), NEW s, NEW c, NEW m, Stored(s, c, m),
           s.types \in Seq(Nat), s.lengths \in Seq(Nat), Len(s.types) = Len(s.lengths),
           Solid(s), CodesCount(s, c, m),
           SameMap(s, m, SentMap(s.numTypes, Cardinality(DOMAIN c), m))
    PROVE  CodesOK'
<1> DEFINE sent == SentMap(s.numTypes, Cardinality(DOMAIN c), m)
<1>1. /\ split' = s /\ codes' = c /\ map' = m /\ count' = 0 /\ contexts' = contexts
      /\ enc' = StartEncoder(s.lengths) /\ dec' = StartDecoder(s.lengths, sent)
  BY DEF Stored
<1> HIDE DEF sent
<1>2. Solid(split)'
  BY <1>1 DEF Solid
<1>3. CodesCount(split, codes, map)'
  <2>1. /\ Symbols' = Symbols /\ contexts' = contexts /\ split' = s /\ codes' = c /\ map' = m
    BY <1>1 DEF Symbols
  <2> QED
    BY ONLY <2>1, CodesCount(s, c, m), CodesCountKept
<1>4. SameMap(split, map, dec.map)'
  <2>1. dec'.map = sent
    BY <1>1 DEF StartDecoder
  <2>2. SameMap(s, m, sent)
    BY DEF sent
  <2> QED
    BY <1>1, <2>1, <2>2 DEF SameMap, HistogramOf
<1>5. ASSUME s.types # <<>>, NEW e, EndsOf(e, s.lengths)
      PROVE  InBlock(e)'
  <2>1. s.lengths # <<>> /\ 1 \in 1 .. Len(s.lengths) /\ 1 - 1 = 0 /\ s.lengths[1] \in Nat
    BY <1>5
  <2>2. enc'.left = s.lengths[1] /\ enc'.block = 1
    BY <1>1, <2>1 DEF StartEncoder
  <2>3. e[1] = e[0] + s.lengths[1] /\ e[0] = 0
    BY <1>5, <2>1 DEF EndsOf
  <2>4. e[1] = s.lengths[1]
    BY <2>1, <2>3
  <2> QED
    BY <1>1, <2>1, <2>2, <2>3, <2>4 DEF InBlock
<1>6. (split.types # <<>> => \A e : EndsOf(e, split.lengths) => InBlock(e))'
  <2>1. ASSUME s.types # <<>>
        PROVE  \A e : EndsOf(e, s.lengths) => InBlock(e)'
    BY <1>5, <2>1
  <2> QED
    BY <1>1, <2>1 DEF EndsOf, InBlock
<1>7. SymbolsHaveCodes'
  BY <1>1 DEF SymbolsHaveCodes
<1> QED
  BY <1>2, <1>3, <1>4, <1>6, <1>7 DEF CodesOK

(* A symbol is stored in its block.                                           *)
LEMMA StoreSymbolCodes ==
    ASSUME IInv, CodesOK, StoreSymbol
    PROVE  CodesOK'
<1>1. /\ phase = "store" /\ count < Len(contexts) /\ count' = count + 1
      /\ contexts \in Seq(Contexts) /\ count \in Nat /\ Len(contexts) \in Nat
      /\ splitter' = splitter /\ contexts' = contexts /\ split' = split
      /\ codes' = codes /\ map' = map
      /\ StoreOK
  BY DEF IInv, StoreSymbol
<1>2. /\ Solid(split) /\ CodesCount(split, codes, map) /\ SameMap(split, map, dec.map)
      /\ split.types # <<>> => \A e : EndsOf(e, split.lengths) => InBlock(e)
  BY <1>1 DEF CodesOK
<1>3. /\ split.types # <<>>
      /\ split.types \in Seq(Nat) /\ split.lengths \in Seq(Nat)
      /\ Len(split.types) = Len(split.lengths)
      /\ \A k \in 1 .. Len(split.types) : split.types[k] \in 0 .. (split.numTypes - 1)
  <2>1. contexts # <<>>
    BY <1>1
  <2> QED
    BY <1>1, <2>1 DEF StoreOK, TypesInUse
<1>4. IInv' /\ InItsBlock
  BY StoreSymbolKeeps
<1>5. PICK e : /\ EndsOf(e, split.lengths) /\ enc'.block \in 1 .. Len(split.types)
               /\ enc'.left = e[enc'.block] - (count + 1)
  <2>1. phase' \in {"split", "store"} /\ phase' \in {"store", "panic"}
    BY <1>1, <1>4 DEF IInv, StoreSymbol
  <2>2. StoreOK'
    BY <1>4, <2>1 DEF IInv
  <2>3. /\ enc'.block \in 1 .. Len(split'.types)
        /\ \E f : EndsOf(f, split'.lengths) /\ enc'.left = f[enc'.block] - count'
    BY <1>1, <1>3, <2>2 DEF StoreOK, EndsOf
  <2> QED
    BY <1>1, <2>3
<1>6. InBlock(e) /\ enc.block \in 1 .. Len(split.types)
  BY <1>1, <1>2, <1>3, <1>5 DEF StoreOK
<1> DEFINE b == enc.block
           c == enc'.block
           L == Len(split.lengths)
           context == contexts[count + 1]
<1>7. /\ L \in Nat /\ b \in 1 .. L /\ c \in 1 .. L
      /\ \A k \in 0 .. L : e[k] \in Nat
      /\ \A k \in 1 .. L : e[k] = e[k - 1] + split.lengths[k]
      /\ \A k \in 1 .. L : split.lengths[k] >= 1 /\ split.lengths[k] \in Nat
      /\ c = IF enc.left = 0 THEN b + 1 ELSE b
      /\ e[b - 1] <= count /\ enc.left = e[b] - count /\ enc.left >= 0
  <2>1. /\ L \in Nat /\ \A k \in 0 .. L : e[k] \in Nat
    BY <1>3, <1>5, EndsGrow
  <2>2. \A k \in 1 .. L : split.lengths[k] \in Nat
    <3> DEFINE lengths == split.lengths
    <3>1. lengths \in Seq(Nat)
      BY <1>3
    <3> HIDE DEF lengths
    <3>2. \A k \in 1 .. Len(lengths) : lengths[k] \in Nat
      BY <3>1
    <3> QED
      BY <3>2 DEF lengths
  <2>3. \A k \in 1 .. L : e[k] = e[k - 1] + split.lengths[k]
    BY <1>5 DEF EndsOf
  <2>4. \A k \in 1 .. L : split.lengths[k] >= 1
    BY <1>2 DEF Solid
  <2>5. e[b - 1] <= count /\ enc.left = e[b] - count /\ enc.left >= 0
    BY <1>6 DEF InBlock
  <2> QED
    BY <1>3, <1>4, <1>5, <1>6, <2>1, <2>2, <2>3, <2>4, <2>5 DEF InItsBlock
<1> HIDE DEF L
<1>8. e[c - 1] <= count /\ count + 1 <= e[c]
  <2>1. CASE enc.left = 0
    <3>1. c = b + 1 /\ c - 1 = b /\ b \in 0 .. L /\ c \in 1 .. L
      BY <1>7, <2>1
    <3>2. e[b] = count
      <4> DEFINE x == e[b]
      <4>1. x \in Nat /\ 0 = x - count
        BY <1>7, <2>1, <3>1
      <4> HIDE DEF x
      <4>2. x = count
        BY <1>1, <4>1
      <4> QED
        BY <4>2 DEF x
    <3>3. e[c] = count + split.lengths[c] /\ split.lengths[c] >= 1 /\ split.lengths[c] \in Nat
      <4> HIDE DEF c, b
      <4> QED
        BY <1>7, <3>1, <3>2
    <3>4. count + 1 <= e[c]
      <4> DEFINE x == split.lengths[c]
      <4>1. x \in Nat /\ x >= 1 /\ e[c] = count + x
        BY <3>3
      <4> HIDE DEF x
      <4> QED
        BY <1>1, <4>1
    <3> QED
      BY <1>1, <3>1, <3>2, <3>4
  <2>2. CASE enc.left # 0
    <3>1. c = b /\ b \in 0 .. L
      BY <1>7, <2>2
    <3>2. count + 1 <= e[b]
      <4> DEFINE x == e[b]
                 left == enc.left
      <4>1. x \in Nat /\ left = x - count /\ left >= 0 /\ left # 0
        BY <1>7, <2>2, <3>1
      <4> HIDE DEF x, left
      <4>2. count + 1 <= x
        BY <1>1, <4>1
      <4> QED
        BY <4>2 DEF x
    <3> QED
      BY <1>7, <3>1, <3>2
  <2> QED
    BY <2>1, <2>2
<1>9. /\ count + 1 \in Symbols
      /\ Within(e, c, count + 1)
  <2>1. c - 1 \in 0 .. L
    BY <1>7
  <2> DEFINE x == e[c - 1]
  <2>2. x \in Nat /\ x <= count
    BY <1>7, <1>8, <2>1
  <2> HIDE DEF x
  <2>3. x < count + 1
    BY <1>1, <2>2
  <2> QED
    BY <1>1, <1>8, <2>3 DEF Within, Symbols, x
<1>10. /\ HistogramOf(split.types[c], context, map) \in DOMAIN codes
       /\ count + 1 \in codes[HistogramOf(split.types[c], context, map)]
  BY <1>2, <1>5, <1>9 DEF CodesCount
<1>11. HistogramOf(split.types[c], context, dec.map) = HistogramOf(split.types[c], context, map)
  <2>1. split.types[c] \in 0 .. (split.numTypes - 1)
    BY <1>3, <1>5
  <2>2. context \in 0 .. (ContextCount - 1)
    BY <1>1, <1>9, ContextIn DEF Symbols
  <2> HIDE DEF context, c
  <2> QED
    BY <1>2, <2>1, <2>2 DEF SameMap
<1>12. /\ enc'.histogram = HistogramOf(split.types[c], context, map)
       /\ dec'.histogram = HistogramOf(split.types[c], context, dec.map)
       /\ dec'.map = dec.map
  BY <1>4 DEF InItsBlock
<1>13. SymbolsHaveCodes'
  BY <1>1, <1>10, <1>11, <1>12 DEF SymbolsHaveCodes
<1>14. ASSUME NEW f, EndsOf(f, split.lengths)
       PROVE  InBlock(f)'
  <2>1. c \in 0 .. L /\ c - 1 \in 0 .. L
    BY <1>7
  <2>2. f[c] = e[c] /\ f[c - 1] = e[c - 1]
    <3>1. \A k \in 0 .. L : e[k] = f[k]
      BY <1>3, <1>5, <1>14, EndsAgree DEF L
    <3> QED
      BY <2>1, <3>1
  <2> DEFINE x == e[c - 1]
             y == e[c]
             left == enc'.left
  <2>3. x \in Nat /\ y \in Nat /\ x <= count /\ count + 1 <= y /\ left = y - (count + 1)
    BY <1>5, <1>7, <1>8, <2>1
  <2> HIDE DEF x, y, left
  <2>4. x <= count + 1 /\ left >= 0
    BY <1>1, <2>3
  <2> QED
    BY <1>1, <2>2, <2>3, <2>4 DEF InBlock, x, y, left
<1>15. (split.types # <<>> => \A f : EndsOf(f, split.lengths) => InBlock(f))'
  BY <1>1, <1>14 DEF EndsOf, InBlock
<1>16. Solid(split)' /\ CodesCount(split, codes, map)' /\ SameMap(split, map, dec.map)'
  <2>1. Solid(split)'
    BY <1>1, <1>2 DEF Solid
  <2>2. CodesCount(split, codes, map)'
    <3>1. /\ Symbols' = Symbols /\ contexts' = contexts /\ split' = split
          /\ codes' = codes /\ map' = map
      BY <1>1 DEF Symbols
    <3> QED
      BY ONLY <1>2, <3>1, CodesCountKept
  <2>3. SameMap(split, map, dec.map)'
    BY <1>1, <1>2, <1>12 DEF SameMap, HistogramOf
  <2> QED
    BY <2>1, <2>2, <2>3
<1> QED
  BY <1>13, <1>15, <1>16 DEF CodesOK

(* A place in a table of n rows of C, by row and column, and back.            *)
LEMMA RowAndColumn ==
    ASSUME NEW C \in Nat \ {0}, NEW n \in Nat, NEW t \in 0 .. (n - 1), NEW x \in 0 .. (C - 1)
    PROVE  /\ t * C + x \in 0 .. (n * C - 1)
           /\ (t * C + x) \div C = t /\ (t * C + x) % C = x
<1> DEFINE i == t * C + x
<1>1. t * C = C * t /\ C * t \in Nat /\ t \in Nat /\ n * C = C * n
  OBVIOUS
<1>2. i \in Nat /\ i = C * t + x
  BY <1>1
<1>3. C * t + C <= C * n
  BY RoundsApart
<1>4. i <= n * C - 1
  <2> DEFINE a == C * t
             b == C * n
  <2>1. a + C <= b /\ a \in Nat /\ b \in Nat /\ i = a + x /\ n * C = b
    BY <1>1, <1>2, <1>3
  <2> HIDE DEF a, b, i
  <2> QED
    BY <2>1
<1> HIDE DEF i
<1>5. i % C = x /\ i \div C = t
  BY <1>1, <1>2, DivModUnique
<1>6. n * C \in Nat
  BY <1>1
<1> QED
  BY <1>2, <1>4, <1>5, <1>6 DEF i

(* A place of a table is its row and its column.                             *)
LEMMA RowOf ==
    ASSUME NEW C \in Nat \ {0}, NEW n \in Nat, NEW i \in 0 .. (n * C - 1)
    PROVE  /\ i \div C \in 0 .. (n - 1) /\ i % C \in 0 .. (C - 1)
           /\ i = (i \div C) * C + (i % C)
<1> DEFINE q == i \div C
           r == i % C
<1>1. i \in Nat
  OBVIOUS
<1>2. q \in Nat /\ r \in 0 .. (C - 1) /\ i = C * q + r
  BY <1>1, DivMod
<1> HIDE DEF q, r
<1>3. ~ (n <= q)
  <2> SUFFICES ASSUME n <= q
               PROVE  FALSE
    OBVIOUS
  <2>1. C * n <= C * q
    <3>1. CASE n = q
      BY <1>2, <3>1
    <3>2. CASE n # q
      <4>1. C * n + C <= C * q
        BY <1>2, <3>2, RoundsApart
      <4> QED
        BY <1>2, <4>1
    <3> QED
      BY <3>1, <3>2
  <2>2. n * C = C * n /\ C * n \in Nat /\ C * q \in Nat
    BY <1>2
  <2> QED
    BY <1>2, <2>1, <2>2
<1>4. q \in 0 .. (n - 1)
  BY <1>2, <1>3
<1>5. i = q * C + r
  BY <1>2
<1>6. q \in 0 .. (n - 1) /\ r \in 0 .. (C - 1) /\ i = q * C + r
  BY <1>2, <1>4, <1>5
<1> QED
  BY <1>6 DEF q, r

(* What the greedy splitters store of a type and a context.                   *)
LEMMA HistogramContextsAre ==
    /\ Cardinality(HistogramContexts) \in Nat \ {0}
    /\ HistogramContexts = 0 .. (Cardinality(HistogramContexts) - 1)
<1>1. StaticContexts \in Nat \ {0}
  BY SplitAssumption
<1>2. CASE splitter = "context"
  <2>1. HistogramContexts = 0 .. (StaticContexts - 1)
    BY <1>2 DEF HistogramContexts
  <2>2. Cardinality(0 .. (StaticContexts - 1)) = StaticContexts
    <3>1. 0 \in Int /\ StaticContexts - 1 \in Int /\ ~ (0 > StaticContexts - 1)
          /\ (StaticContexts - 1) - 0 + 1 = StaticContexts
      BY <1>1
    <3> QED
      BY <3>1, FS_Interval
  <2> QED
    BY <1>1, <2>1, <2>2
<1>3. CASE splitter # "context"
  <2>1. HistogramContexts = {0}
    BY <1>3 DEF HistogramContexts
  <2>2. Cardinality({0}) = 1
    BY FS_Singleton
  <2>3. 0 .. (1 - 1) = {0}
    OBVIOUS
  <2> QED
    BY <2>1, <2>2, <2>3
<1> QED
  BY <1>2, <1>3

(* MapStaticContexts gives a type and context the histogram the splitter      *)
(* counted it in.                                                             *)
LEMMA GreedyMapIs ==
    ASSUME Greedy, NEW s, s.numTypes \in Nat \ {0},
           NEW t \in 0 .. (s.numTypes - 1), NEW x \in 0 .. (ContextCount - 1)
    PROVE  HistogramOf(t, x, GreedyMap(s)) =
               t * Cardinality(HistogramContexts) + StaticContextMap(x)
<1> DEFINE n == s.numTypes
           C == ContextCount
           H == Cardinality(HistogramContexts)
<1>1. C \in Nat \ {0} /\ n \in Nat \ {0}
  BY ContextCountIs
<1>2. CASE splitter = "plain"
  <2>1. GreedyMap(s) = <<>> /\ StaticContextMap(x) = 0 /\ HistogramContexts = {0}
    BY <1>2 DEF GreedyMap, StaticContextMap, HistogramContexts
  <2>2. H = 1
    BY <2>1, FS_Singleton
  <2>3. t * 1 + 0 = t
    OBVIOUS
  <2> QED
    BY <2>1, <2>2, <2>3 DEF HistogramOf
<1>3. CASE splitter # "plain"
  <2>1. splitter = "context"
    BY <1>3 DEF Greedy
  <2>2. HistogramContexts = 0 .. (StaticContexts - 1) /\ StaticContexts \in Nat \ {0}
    BY <2>1, SplitAssumption DEF HistogramContexts
  <2>3. H = StaticContexts
    <3>1. 0 \in Int /\ StaticContexts - 1 \in Int /\ ~ (0 > StaticContexts - 1)
          /\ (StaticContexts - 1) - 0 + 1 = StaticContexts
      BY <2>2
    <3> QED
      BY <2>2, <3>1, FS_Interval
  <2> DEFINE i == t * C + x
  <2>4. i \in 0 .. (n * C - 1) /\ i \div C = t /\ i % C = x
    <3> HIDE DEF C, n
    <3> QED
      BY <1>1, RowAndColumn DEF C, n
  <2> HIDE DEF i
  <2>5. i + 1 \in 1 .. (n * C) /\ (i + 1) - 1 = i
    <3> DEFINE N == n * C
    <3>1. i \in 0 .. (N - 1) /\ N \in Nat
      BY <1>1, <2>4
    <3> HIDE DEF N
    <3>2. i + 1 \in 1 .. N /\ (i + 1) - 1 = i
      BY <3>1
    <3> QED
      BY <3>2 DEF N
  <2> DEFINE m == [k \in 1 .. (n * C) |->
                     ((k - 1) \div C) * StaticContexts + StaticContextMap((k - 1) % C)]
  <2>6. GreedyMap(s) = m
    BY <1>3 DEF GreedyMap
  <2>7. m[i + 1] = t * StaticContexts + StaticContextMap(x)
    BY <2>4, <2>5
  <2>8. m # <<>>
    BY <2>5
  <2> HIDE DEF m
  <2>9. HistogramOf(t, x, m) = m[i + 1]
    BY <2>8 DEF HistogramOf, i
  <2> QED
    BY <2>3, <2>6, <2>7, <2>9
<1> QED
  BY <1>2, <1>3

(* The map of the greedy splitters is the one the decoder reads, however it   *)
(* is written.                                                                *)
LEMMA GreedyMapIsRead ==
    ASSUME Greedy, NEW s, s.numTypes \in Nat \ {0}
    PROVE  SameMap(s, GreedyMap(s),
                   SentMap(s.numTypes, Cardinality(DOMAIN GreedyCodes(s)), GreedyMap(s)))
<1> DEFINE n == s.numTypes
           C == ContextCount
           H == Cardinality(HistogramContexts)
           clusters == Cardinality(DOMAIN GreedyCodes(s))
           m == GreedyMap(s)
<1>1. C \in Nat \ {0} /\ n \in Nat \ {0} /\ H \in Nat \ {0}
  BY ContextCountIs, HistogramContextsAre
<1>2. clusters = n * H /\ n * H \in Nat \ {0}
  <2>1. DOMAIN GreedyCodes(s) = 0 .. (n * H - 1)
    BY DEF GreedyCodes
  <2> DEFINE N == n * H
  <2>2. N \in Nat \ {0}
    BY <1>1
  <2> HIDE DEF N
  <2>3. 0 \in Int /\ N - 1 \in Int /\ ~ (0 > N - 1) /\ (N - 1) - 0 + 1 = N
    BY <2>2
  <2>4. Cardinality(0 .. (N - 1)) = N
    BY <2>3, FS_Interval
  <2> QED
    BY <2>1, <2>2, <2>4 DEF N
<1>3. CASE splitter = "plain"
  <2>1. m = <<>> /\ HistogramContexts = {0}
    BY <1>3 DEF GreedyMap, HistogramContexts
  <2> DEFINE sent == ReadMap(StoreTrivialContextMap(n), n * C, n)
  <2>2. SentMap(n, clusters, m) = sent
    BY <2>1 DEF SentMap
  <2>3. ASSUME NEW t \in 0 .. (n - 1), NEW x \in 0 .. (C - 1)
        PROVE  HistogramOf(t, x, sent) = HistogramOf(t, x, m)
    <3>1. sent[t * C + x + 1] = t /\ sent # <<>>
      BY <1>1, TrivialMapIsRead
    <3> HIDE DEF sent, m
    <3> QED
      BY <2>1, <3>1 DEF HistogramOf
  <2> HIDE DEF sent, m
  <2> QED
    BY <2>2, <2>3 DEF SameMap, m
<1>4. CASE splitter # "plain"
  <2>1. splitter = "context"
    BY <1>4 DEF Greedy
  <2>2. H = StaticContexts /\ StaticContexts \in Nat \ {0}
    <3>1. HistogramContexts = 0 .. (StaticContexts - 1) /\ StaticContexts \in Nat \ {0}
      BY <2>1, SplitAssumption DEF HistogramContexts
    <3>2. 0 \in Int /\ StaticContexts - 1 \in Int /\ ~ (0 > StaticContexts - 1)
          /\ (StaticContexts - 1) - 0 + 1 = StaticContexts
      BY <3>1
    <3> QED
      BY <3>1, <3>2, FS_Interval
  <2>3. m = [k \in 1 .. (n * C) |->
               ((k - 1) \div C) * StaticContexts + StaticContextMap((k - 1) % C)]
    BY <1>4 DEF GreedyMap
  <2>4. ASSUME NEW k \in 1 .. (n * C)
        PROVE  ((k - 1) \div C) * StaticContexts + StaticContextMap((k - 1) % C)
                  \in 0 .. (clusters - 1)
    <3> DEFINE t == (k - 1) \div C
               x == (k - 1) % C
               y == StaticContextMap(x)
    <3>1. k - 1 \in 0 .. (n * C - 1)
      <4> DEFINE N == n * C
      <4>1. N \in Nat /\ k \in 1 .. N
        BY <1>1
      <4> HIDE DEF N
      <4>2. k - 1 \in 0 .. (N - 1)
        BY <4>1
      <4> QED
        BY <4>2 DEF N
    <3>2. t \in 0 .. (n - 1) /\ x \in 0 .. (C - 1)
      <4> HIDE DEF C, n
      <4> QED
        BY <1>1, <3>1, RowOf
    <3> HIDE DEF t, x
    <3>3. y \in 0 .. (StaticContexts - 1)
      <4>1. x \in Nat
        BY <1>1, <3>2
      <4>2. x % StaticContexts \in 0 .. (StaticContexts - 1)
        BY <2>2, <4>1, DivMod
      <4> QED
        BY <2>1, <4>2 DEF StaticContextMap
    <3> HIDE DEF y
    <3>4. t * StaticContexts + y \in 0 .. (n * StaticContexts - 1)
      BY <1>1, <2>2, <3>2, <3>3, RowAndColumn
    <3> QED
      BY <1>2, <2>2, <3>4 DEF y, t, x
  <2>5. n * C \in Nat /\ n * C # 0
    BY <1>1
  <2>6. m \in [1 .. (n * C) -> 0 .. (clusters - 1)]
    <3> HIDE DEF clusters, C, n
    <3> QED
      BY <2>3, <2>4
  <2>7. m \in Seq(0 .. (clusters - 1)) /\ Len(m) = n * C
    <3> HIDE DEF clusters, C, n, m
    <3> QED
      BY <2>5, <2>6, SequenceOf
  <2>8. m # <<>>
    BY <2>5, <2>7
  <2>9. ReadMap(EncodeContextMap(m, clusters), n * C, clusters) = m
    <3>1. clusters \in Nat \ {0}
      BY <1>2
    <3> HIDE DEF clusters, m
    <3> QED
      BY <2>7, <2>8, <3>1, MapIsRead
  <2>10. SentMap(n, clusters, m) = m
    BY <2>8, <2>9 DEF SentMap
  <2> HIDE DEF m, clusters
  <2> QED
    BY <2>10 DEF SameMap, clusters, m
<1> QED
  BY <1>3, <1>4

(* The histograms of the greedy splitters count every symbol by the type of   *)
(* its block and its context.                                                 *)
LEMMA GreedyCodesCount ==
    ASSUME Greedy, contexts \in Seq(Contexts), NEW s, SplitOK(s), s.types # <<>>,
           CountedIn(s, Len(contexts))
    PROVE  CodesCount(s, GreedyCodes(s), GreedyMap(s))
<1> DEFINE n == s.numTypes
           H == Cardinality(HistogramContexts)
<1>1. /\ n \in Nat \ {0} /\ H \in Nat \ {0} /\ HistogramContexts = 0 .. (H - 1)
      /\ \A k \in 1 .. Len(s.types) : s.types[k] \in 0 .. (n - 1)
  <2>1. TypesInUse(s) /\ n \in Nat
    BY DEF SplitOK, SplitType
  <2> QED
    BY <2>1, HistogramContextsAre DEF TypesInUse
<1>2. ASSUME NEW e, EndsOf(e, s.lengths), NEW k \in 1 .. Len(s.types), NEW p \in Symbols,
             Within(e, k, p)
      PROVE  /\ HistogramOf(s.types[k], contexts[p], GreedyMap(s)) \in DOMAIN GreedyCodes(s)
             /\ p \in GreedyCodes(s)[HistogramOf(s.types[k], contexts[p], GreedyMap(s))]
  <2> DEFINE t == s.types[k]
             x == contexts[p]
             y == StaticContextMap(x)
             i == t * H + y
  <2>1. /\ t \in 0 .. (n - 1) /\ x \in 0 .. (ContextCount - 1)
        /\ y \in 0 .. (H - 1)
    BY <1>1, ContextIn DEF Symbols
  <2>2. p \in s.histograms[t][y]
    BY <1>2 DEF CountedIn, Symbols
  <2>3. HistogramOf(t, x, GreedyMap(s)) = i
    <3> HIDE DEF t, x
    <3> QED
      BY <1>1, <2>1, GreedyMapIs
  <2> HIDE DEF t, x, y
  <2>4. i \in 0 .. (n * H - 1) /\ i \div H = t /\ i % H = y
    <3> HIDE DEF n, H
    <3> QED
      BY <1>1, <2>1, RowAndColumn
  <2> HIDE DEF i
  <2>5. GreedyCodes(s) = [j \in 0 .. (n * H - 1) |-> s.histograms[j \div H][j % H]]
    BY DEF GreedyCodes
  <2>6. i \in DOMAIN GreedyCodes(s) /\ GreedyCodes(s)[i] = s.histograms[t][y]
    BY <2>4, <2>5
  <2>7. HistogramOf(s.types[k], contexts[p], GreedyMap(s)) = i
    BY <2>3 DEF t, x
  <2> QED
    BY <2>2, <2>6, <2>7
<1> QED
  BY <1>2 DEF CodesCount

(* Finishing the greedy splitters starts storing with CodesOK.               *)
LEMMA FinishGreedyCodes ==
    ASSUME IInv, CountsOK, FinishGreedy
    PROVE  CodesOK'
<1>1. /\ Greedy /\ GreedyOK /\ SplitOK(split) /\ count = Len(contexts)
      /\ contexts \in Seq(Contexts) /\ count \in Nat
      /\ Solid(split) /\ CountedIn(split, count)
  BY DEF IInv, FinishGreedy, GreedyOK, CountsOK
<1>2. ~FinishPanics(split)
  BY <1>1, NoFinishPanics
<1>3. PICK s \in FinishBlock(split) : Stored(s, GreedyCodes(s), GreedyMap(s))
  BY <1>2 DEF FinishGreedy
<1>4. split.curr \in DOMAIN split.histograms
  BY <1>1, RoomForMore
<1>5. split.blockSize \in Nat /\ count - split.blockSize \in Int
      /\ Reaches(split.lengths, count - split.blockSize)
  BY <1>1 DEF GreedyOK, SplitOK, SplitType
<1>6. SplitOK(s) /\ s.types # <<>>
  BY <1>1, <1>4, <1>5, FinishBlockOK
<1>7. count \in 0 .. Len(contexts)
  BY <1>1
<1>8. Solid(s) /\ CountedIn(s, count)
  BY <1>1, <1>4, <1>5, <1>7, FinishBlockCounts
<1>9. /\ s.types \in Seq(Nat) /\ s.lengths \in Seq(Nat) /\ s.numTypes \in Nat \ {0}
      /\ Len(s.types) = Len(s.lengths)
  BY <1>6 DEF SplitOK, SplitType, TypesInUse
<1>10. CodesCount(s, GreedyCodes(s), GreedyMap(s))
  BY <1>1, <1>6, <1>8, GreedyCodesCount
<1>11. SameMap(s, GreedyMap(s),
               SentMap(s.numTypes, Cardinality(DOMAIN GreedyCodes(s)), GreedyMap(s)))
  BY <1>1, <1>9, GreedyMapIsRead
<1> QED
  BY <1>1, <1>3, <1>8, <1>9, <1>10, <1>11, StoredCodes

-----------------------------------------------------------------------------
(* The splitter of qualities 10 and 11: the clusters of the histograms.       *)

(* The iterator is in the block of the symbol.                                *)
LEMMA TypeAtIs ==
    ASSUME NEW s, s.lengths \in Seq(Nat), Len(s.types) = Len(s.lengths), s.types \in Seq(Nat),
           NEW e, EndsOf(e, s.lengths), NEW k \in 1 .. Len(s.types), NEW p \in Nat,
           Within(e, k, p)
    PROVE  TypeAt(s, p) = s.types[k]
<1> DEFINE L == Len(s.lengths)
           lengths == s.lengths
           G(f) == [j \in 0 .. L |-> IF j = 0 THEN 0 ELSE f[j - 1] + lengths[j]]
           end == CHOOSE f : f = G(f)
<1>1. /\ L \in Nat /\ k \in 1 .. L /\ DOMAIN s.types = 1 .. L
      /\ e \in [0 .. L -> Int] /\ e[0] = 0
      /\ \A j \in 1 .. L : e[j] = e[j - 1] + lengths[j]
  BY DEF EndsOf
<1>2. TypeAt(s, p) = s.types[CHOOSE j \in DOMAIN s.types : end[j - 1] < p /\ p <= end[j]]
  BY DEF TypeAt
<1>3. \A j, i \in 0 .. L : (j <= i => e[j] <= e[i]) /\ e[j] \in Nat
  BY EndsGrow
<1> HIDE DEF L, lengths
<1>4. e = G(e)
  <2>1. ASSUME NEW j \in 0 .. L
        PROVE  e[j] = IF j = 0 THEN 0 ELSE e[j - 1] + lengths[j]
    <3>1. j # 0 => j \in 1 .. L
      BY <1>1
    <3> QED
      BY <1>1, <3>1
  <2> QED
    BY <1>1, <2>1
<1>5. end = G(end)
  <2> HIDE DEF G
  <2> QED
    BY <1>4
<1> HIDE DEF end
<1> DEFINE P == {j \in 0 .. L : end[j] = e[j]}
<1>6. \A j \in 0 .. L : j \in P
  <2>1. 0 \in P
    BY <1>1, <1>5
  <2>2. ASSUME NEW j \in 0 .. (L - 1), j \in P
        PROVE  j + 1 \in P
    <3>1. j + 1 \in 0 .. L /\ j + 1 # 0 /\ (j + 1) - 1 = j /\ j + 1 \in 1 .. L
      BY <1>1
    <3>2. end[j + 1] = end[j] + lengths[j + 1]
      BY <1>5, <3>1
    <3>3. e[j + 1] = e[j] + lengths[j + 1]
      BY <1>1, <3>1
    <3> QED
      BY <2>2, <3>1, <3>2, <3>3
  <2> HIDE DEF P
  <2> QED
    BY <1>1, <2>1, <2>2, UpTo
<1>7. \A j \in 1 .. L : end[j] = e[j] /\ end[j - 1] = e[j - 1] /\ j - 1 \in 0 .. L /\ j \in 0 .. L
  <2>1. \A j \in 1 .. L : j \in 0 .. L /\ j - 1 \in 0 .. L
    BY <1>1
  <2> QED
    BY <1>6, <2>1
<1>8. ASSUME NEW j \in 1 .. L, e[j - 1] < p, p <= e[j]
      PROVE  j = k
  <2>1. e[k - 1] < p /\ p <= e[k]
    BY DEF Within
  <2>2. CASE j < k
    <3>1. j <= k - 1 /\ j \in 0 .. L /\ k - 1 \in 0 .. L
      BY <1>1, <2>2
    <3>2. e[j] <= e[k - 1] /\ e[j] \in Nat /\ e[k - 1] \in Nat
      BY <1>3, <3>1
    <3> QED
      BY <1>8, <2>1, <3>2
  <2>3. CASE k < j
    <3>1. k <= j - 1 /\ k \in 0 .. L /\ j - 1 \in 0 .. L
      BY <1>1, <2>3
    <3>2. e[k] <= e[j - 1] /\ e[k] \in Nat /\ e[j - 1] \in Nat
      BY <1>3, <3>1
    <3> QED
      BY <1>8, <2>1, <3>2
  <2> QED
    BY <1>1, <2>2, <2>3
<1>9. (CHOOSE j \in DOMAIN s.types : end[j - 1] < p /\ p <= end[j]) = k
  <2>1. \A j \in 1 .. L : (end[j - 1] < p /\ p <= end[j]) <=> j = k
    <3>1. e[k - 1] < p /\ p <= e[k]
      BY DEF Within
    <3>2. ASSUME NEW j \in 1 .. L
          PROVE  (end[j - 1] < p /\ p <= end[j]) <=> j = k
      <4>1. end[j] = e[j] /\ end[j - 1] = e[j - 1]
        BY <1>7
      <4> QED
        BY <1>8, <3>1, <4>1
    <3> QED
      BY <3>2
  <2> QED
    BY <1>1, <2>1
<1> QED
  BY <1>2, <1>9

(* Spreading leaves each context of a type with the entry of the type.        *)
LEMMA SpreadIs ==
    ASSUME NEW types \in Nat, NEW S, NEW symbols \in [1 .. types -> S]
    PROVE  Spread(symbols, types) = [k \in 1 .. (types * ContextCount) |->
                                        symbols[((k - 1) \div ContextCount) + 1]]
<1> DEFINE C == ContextCount
           N == types * C
           zeros == [k \in 1 .. (types * (C - 1)) |-> 0]
           first == symbols \o zeros
           Row(t) == [k \in 1 .. N |-> IF (k - 1) \div C >= t
                                       THEN symbols[((k - 1) \div C) + 1]
                                       ELSE IF k <= types THEN symbols[k] ELSE 0]
           G(f) == [t \in 0 .. types |-> IF t = types THEN first ELSE SpreadFrom(f[t + 1], t)]
           down == CHOOSE f : f = G(f)
           rows == [t \in 0 .. types |-> Row(t)]
<1>1. C \in Nat \ {0} /\ N \in Nat /\ types * (C - 1) \in Nat /\ N = types + types * (C - 1)
  <2>1. C \in Nat \ {0}
    BY ContextCountIs
  <2> HIDE DEF C
  <2> QED
    BY <2>1
<1>2. Spread(symbols, types) = down[0]
  BY DEF Spread
<1> HIDE DEF C
<1>3. \A k \in 1 .. N : (k - 1) \div C \in 0 .. (types - 1)
  <2>1. ASSUME NEW k \in 1 .. N
        PROVE  (k - 1) \div C \in 0 .. (types - 1)
    <3>1. k - 1 \in 0 .. (types * C - 1)
      <4> HIDE DEF N
      <4>1. k - 1 \in 0 .. (N - 1)
        BY <1>1
      <4> QED
        BY <4>1 DEF N
    <3> QED
      BY <1>1, <3>1, RowOf
  <2> QED
    BY <2>1
<1>4. first = Row(types)
  <2>1. /\ symbols \in Seq(S \cup {0}) /\ Len(symbols) = types
    BY SequenceOf
  <2>2. zeros \in Seq(S \cup {0}) /\ Len(zeros) = types * (C - 1)
    <3> DEFINE M == types * (C - 1)
    <3>1. M \in Nat
      BY <1>1
    <3> HIDE DEF M
    <3>2. [k \in 1 .. M |-> 0] \in [1 .. M -> S \cup {0}]
      OBVIOUS
    <3>3. [k \in 1 .. M |-> 0] \in Seq(S \cup {0}) /\ Len([k \in 1 .. M |-> 0]) = M
      BY <3>1, <3>2, SequenceOf
    <3> QED
      BY <3>3 DEF M
  <2>3. \A k \in 1 .. (N - types) : zeros[k] = 0
    <3>1. N - types = types * (C - 1)
      <4> DEFINE M == types * (C - 1)
      <4>1. M \in Nat /\ N = types + M
        BY <1>1
      <4> HIDE DEF M, N
      <4>2. N - types = M
        BY <4>1
      <4> QED
        BY <4>2 DEF M
    <3> QED
      BY <3>1
  <2> HIDE DEF zeros, N
  <2>4. first \in [1 .. N -> S \cup {0}]
    <3>1. first \in Seq(S \cup {0}) /\ Len(first) = Len(symbols) + Len(zeros)
      BY <2>1, <2>2
    <3>2. Len(first) = N
      BY <1>1, <2>1, <2>2, <3>1
    <3> HIDE DEF first
    <3> QED
      BY <3>1, <3>2
  <2>5. ASSUME NEW k \in 1 .. N
        PROVE  first[k] = IF k <= types THEN symbols[k] ELSE 0
    <3>1. CASE k <= types
      BY <1>1, <2>1, <2>2, <3>1
    <3>2. CASE ~ (k <= types)
      <4>1. first[k] = zeros[k - types] /\ k - types \in 1 .. (N - types)
        BY <1>1, <2>1, <2>2, <3>2
      <4> QED
        BY <2>3, <3>2, <4>1
    <3> QED
      BY <3>1, <3>2
  <2>6. ASSUME NEW k \in 1 .. N
        PROVE  ~ ((k - 1) \div C >= types)
    <3> DEFINE q == (k - 1) \div C
    <3>1. q \in 0 .. (types - 1)
      BY <1>3
    <3> HIDE DEF q
    <3>2. ~ (q >= types)
      BY <3>1
    <3> QED
      BY <3>2 DEF q
  <2>7. ASSUME NEW k \in 1 .. N
        PROVE  first[k] = Row(types)[k]
    BY <2>5, <2>6
  <2>8. DOMAIN first = 1 .. N /\ first = [k \in 1 .. N |-> first[k]]
    <3> HIDE DEF first
    <3> QED
      BY <2>4
  <2> HIDE DEF first
  <2> QED
    BY <2>7, <2>8
<1> HIDE DEF first
<1>5. ASSUME NEW t \in 0 .. (types - 1)
      PROVE  SpreadFrom(Row(t + 1), t) = Row(t)
  <2> HIDE DEF N
  <2>1. Len(Row(t + 1)) = N
    <3> DEFINE Entry(k) == IF (k - 1) \div C >= t + 1 THEN symbols[((k - 1) \div C) + 1]
                           ELSE IF k <= types THEN symbols[k] ELSE 0
    <3>1. [k \in 1 .. N |-> Entry(k)] \in [1 .. N -> {Entry(k) : k \in 1 .. N}]
      <4> HIDE DEF Entry
      <4> QED
        OBVIOUS
    <3>2. Len([k \in 1 .. N |-> Entry(k)]) = N
      <4> HIDE DEF Entry
      <4> QED
        BY <1>1, <3>1, SequenceOf
    <3> QED
      BY <3>2
  <2>2. Row(t + 1)[t + 1] = symbols[t + 1] /\ t + 1 \in 1 .. N
    <3>1. t + 1 \in 1 .. N /\ t + 1 <= types
      <4>1. types <= N
        BY <1>1
      <4> QED
        BY <1>1, <4>1
    <3>2. ~ (((t + 1) - 1) \div C >= t + 1)
      <4> DEFINE q == t \div C
      <4>1. t \in Nat /\ q \in Nat /\ t % C \in 0 .. (C - 1) /\ t = C * q + (t % C)
        <5>1. t \in Nat
          OBVIOUS
        <5> QED
          BY <1>1, <5>1, DivMod
      <4> HIDE DEF q
      <4>2. C * q >= q
        BY <1>1, <4>1
      <4>3. q <= t
        <5> DEFINE r == t % C
                   m == C * q
        <5>1. r \in Nat /\ m \in Nat /\ m >= q /\ t = m + r
          BY <1>1, <4>1, <4>2
        <5> HIDE DEF r, m
        <5> QED
          BY <4>1, <5>1
      <4>4. (t + 1) - 1 = t /\ ~ (q >= t + 1)
        BY <4>1, <4>3
      <4> QED
        BY <4>4 DEF q
    <3> QED
      BY <3>1, <3>2
  <2>3. SpreadFrom(Row(t + 1), t) =
            [k \in 1 .. N |-> IF (k - 1) \div C = t THEN symbols[t + 1] ELSE Row(t + 1)[k]]
    <3> HIDE DEF Row
    <3> QED
      BY <2>1, <2>2 DEF SpreadFrom, C
  <2>4. ASSUME NEW k \in 1 .. N
        PROVE  (IF (k - 1) \div C = t THEN symbols[t + 1] ELSE Row(t + 1)[k]) = Row(t)[k]
    <3> DEFINE q == (k - 1) \div C
    <3>1. q \in Nat
      BY <1>3 DEF N
    <3>2. Row(t + 1)[k] = IF q >= t + 1 THEN symbols[q + 1]
                          ELSE IF k <= types THEN symbols[k] ELSE 0
      OBVIOUS
    <3>3. Row(t)[k] = IF q >= t THEN symbols[q + 1]
                      ELSE IF k <= types THEN symbols[k] ELSE 0
      OBVIOUS
    <3> HIDE DEF q, Row
    <3>4. (q >= t <=> q = t \/ q >= t + 1)
      BY <3>1
    <3>5. (IF q = t THEN symbols[t + 1] ELSE Row(t + 1)[k]) = Row(t)[k]
      BY <3>2, <3>3, <3>4
    <3> QED
      BY <3>5 DEF q
  <2>5. [k \in 1 .. N |-> IF (k - 1) \div C = t THEN symbols[t + 1] ELSE Row(t + 1)[k]]
           = [k \in 1 .. N |-> Row(t)[k]]
    <3> HIDE DEF Row
    <3> QED
      BY <2>4
  <2> QED
    BY <2>3, <2>5
<1> HIDE DEF Row
<1>6. rows = G(rows)
  <2>1. ASSUME NEW t \in 0 .. types
        PROVE  rows[t] = IF t = types THEN first ELSE SpreadFrom(rows[t + 1], t)
    <3>1. CASE t = types
      BY <1>4, <3>1
    <3>2. CASE t # types
      <4>1. t \in 0 .. (types - 1) /\ t + 1 \in 0 .. types
        BY <3>2
      <4>2. rows[t + 1] = Row(t + 1) /\ rows[t] = Row(t)
        BY <4>1
      <4> QED
        BY <1>5, <3>2, <4>1, <4>2
    <3> QED
      BY <3>1, <3>2
  <2> QED
    BY <2>1
<1>7. down = G(down)
  <2> HIDE DEF G, rows
  <2> QED
    BY <1>6
<1> HIDE DEF down
<1> DEFINE P == {j \in 0 .. types : down[types - j] = Row(types - j)}
<1>8. \A j \in 0 .. types : j \in P
  <2>1. 0 \in P
    <3>1. types - 0 = types /\ types \in 0 .. types /\ 0 \in 0 .. types
      OBVIOUS
    <3>2. down[types] = first
      BY <1>7, <3>1
    <3> QED
      BY <1>4, <3>1, <3>2
  <2>2. ASSUME NEW j \in 0 .. (types - 1), j \in P
        PROVE  j + 1 \in P
    <3> DEFINE t == types - (j + 1)
    <3>1. t \in 0 .. (types - 1) /\ t + 1 = types - j /\ t \in 0 .. types /\ t # types
          /\ j + 1 \in 0 .. types
      OBVIOUS
    <3>2. down[t + 1] = Row(t + 1)
      BY <2>2, <3>1
    <3> HIDE DEF t
    <3>3. down[t] = SpreadFrom(down[t + 1], t)
      BY <1>7, <3>1
    <3>4. down[t] = Row(t)
      BY <1>5, <3>1, <3>2, <3>3
    <3> QED
      BY <3>1, <3>4 DEF t
  <2> HIDE DEF P
  <2> QED
    BY <2>1, <2>2, UpTo
<1>9. down[0] = Row(0)
  <2>1. types \in 0 .. types /\ types - types = 0
    OBVIOUS
  <2> QED
    BY <1>8, <2>1
<1>10. Row(0) = [k \in 1 .. N |-> symbols[((k - 1) \div C) + 1]]
  <2>1. \A k \in 1 .. N : (k - 1) \div C >= 0
    <3> HIDE DEF N
    <3>1. ASSUME NEW k \in 1 .. N
          PROVE  (k - 1) \div C >= 0
      <4> DEFINE q == (k - 1) \div C
      <4>1. q \in Nat
        BY <1>3 DEF N
      <4> HIDE DEF q
      <4>2. q >= 0
        BY <4>1
      <4> QED
        BY <4>2 DEF q
    <3> QED
      BY <3>1
  <2> QED
    BY <2>1 DEF Row
<1> QED
  BY <1>2, <1>9, <1>10 DEF C, N

(* Every histogram is in one of the clusters.                                 *)
LEMMA ClusteringIs ==
    ASSUME NEW K \in Nat, NEW inp, DOMAIN inp = 1 .. K, NEW g \in Clusterings(inp)
    PROVE  g \in [1 .. K -> 0 .. (MaxClusters - 1)]
<1> DEFINE counted == {k \in 1 .. K : inp[k] # {}}
           like(k) == CHOOSE j \in counted : j <= k /\ \A i \in counted : i <= k => i <= j
           S == 0 .. (MaxClusters - 1)
<1>1. 0 \in S
  BY SplitAssumption
<1>2. \E h \in [counted -> S] :
         g = [k \in 1 .. K |-> IF \E j \in counted : j <= k THEN h[like(k)] ELSE 0]
  <2> HIDE DEF S
  <2>1. Clusterings(inp) =
           {[k \in DOMAIN inp |-> IF \E j \in counted : j <= k THEN h[like(k)] ELSE 0] :
               h \in [counted -> S]}
    BY DEF Clusterings, S
  <2> HIDE DEF counted, like
  <2> QED
    BY <2>1
<1>3. PICK h \in [counted -> S] :
         g = [k \in 1 .. K |-> IF \E j \in counted : j <= k THEN h[like(k)] ELSE 0]
  BY <1>2
<1>4. ASSUME NEW k \in 1 .. K, \E j \in counted : j <= k
      PROVE  like(k) \in counted
  <2> DEFINE T == {j \in counted : j <= k}
             most == Max(T)
  <2>1. T \in SUBSET (0 .. K) /\ T # {}
    BY <1>4
  <2>2. most \in T /\ \A x \in T : x <= most
    <3> HIDE DEF T
    <3> QED
      BY <2>1, GreatestIs
  <2> HIDE DEF most
  <2>3. most \in counted /\ most <= k /\ \A i \in counted : i <= k => i <= most
    BY <2>2
  <2> HIDE DEF counted, T
  <2> QED
    BY <2>3
<1> HIDE DEF counted, like, S
<1>5. \A k \in 1 .. K : (IF \E j \in counted : j <= k THEN h[like(k)] ELSE 0) \in S
  BY <1>1, <1>4
<1>6. g \in [1 .. K -> S]
  BY <1>3, <1>5
<1> QED
  BY <1>6 DEF S

(* The codes are numbered without gaps.                                       *)
LEMMA ReindexedIs ==
    ASSUME NEW K \in Nat \ {0}, NEW g \in [1 .. K -> 0 .. (MaxClusters - 1)]
    PROVE  /\ Cardinality(Range(Reindexed(g))) \in Nat \ {0}
           /\ Reindexed(g) \in [1 .. K -> 0 .. (Cardinality(Range(Reindexed(g))) - 1)]
<1> DEFINE symbols == Reindexed(g)
           M == MaxClusters - 1
           c == Cardinality(Range(g))
<1>1. M \in Nat /\ g \in [1 .. K -> 0 .. M]
  BY SplitAssumption
<1> HIDE DEF M
<1>2. /\ Cardinality(Range(g)) \in Nat \ {0}
      /\ \A k \in 1 .. K : FirstSeen(g)[g[k]] \in 0 .. (Cardinality(Range(g)) - 1)
      /\ ManyNumbers(g, K)
  BY <1>1, FirstSeenNumbers
<1>3. symbols = [k \in 1 .. K |-> FirstSeen(g)[g[k]]]
  BY DEF Reindexed
<1>4. Range(symbols) = {FirstSeen(g)[g[k]] : k \in 1 .. K}
  BY <1>3 DEF Range
<1>5. Cardinality(Range(symbols)) = c
  BY <1>2, <1>4 DEF ManyNumbers
<1>6. symbols \in [1 .. K -> 0 .. (c - 1)]
  BY <1>2, <1>3
<1> QED
  BY <1>2, <1>5, <1>6

(* The entry of a type and a context, in the map of the clusters.             *)
ClusterMap(symbols, types) ==
    IF splitter = "flat" THEN Spread(symbols, types) ELSE symbols
Entry(t, x) == IF splitter = "flat" THEN t + 1 ELSE t * ContextCount + x + 1

(* The map Spread makes gives a type and context the cluster of the histogram *)
(* of the two.                                                                *)
LEMMA ClusterMapIs ==
    ASSUME NEW n \in Nat \ {0}, NEW c \in Nat \ {0},
           NEW symbols \in [1 .. (n * Multiplier) -> 0 .. (c - 1)]
    PROVE  /\ ClusterMap(symbols, n) \in Seq(0 .. (c - 1))
           /\ Len(ClusterMap(symbols, n)) = n * ContextCount
           /\ ClusterMap(symbols, n) # <<>>
           /\ \A t \in 0 .. (n - 1), x \in 0 .. (ContextCount - 1) :
                 /\ HistogramOf(t, x, ClusterMap(symbols, n)) = symbols[Entry(t, x)]
                 /\ Entry(t, x) \in 1 .. (n * Multiplier)
<1> DEFINE C == ContextCount
           N == n * C
           m == ClusterMap(symbols, n)
<1>1. C \in Nat \ {0} /\ N \in Nat /\ N # 0
  <2>1. C \in Nat \ {0}
    BY ContextCountIs
  <2> HIDE DEF C
  <2> QED
    BY <2>1
<1> HIDE DEF C
<1>2. \A k \in 1 .. N : (k - 1) \div C \in 0 .. (n - 1)
  <2>1. ASSUME NEW k \in 1 .. N
        PROVE  (k - 1) \div C \in 0 .. (n - 1)
    <3>1. k - 1 \in 0 .. (n * C - 1)
      <4> HIDE DEF N
      <4>1. k - 1 \in 0 .. (N - 1)
        BY <1>1
      <4> QED
        BY <4>1 DEF N
    <3> QED
      BY <1>1, <3>1, RowOf
  <2> QED
    BY <2>1
<1>3. \A t \in 0 .. (n - 1), x \in 0 .. (C - 1) :
         t * C + x + 1 \in 1 .. N /\ ((t * C + x + 1) - 1) \div C = t
  <2>1. ASSUME NEW t \in 0 .. (n - 1), NEW x \in 0 .. (C - 1)
        PROVE  t * C + x + 1 \in 1 .. N /\ ((t * C + x + 1) - 1) \div C = t
    <3> DEFINE i == t * C + x
    <3>1. i \in 0 .. (N - 1) /\ i \div C = t
      BY <1>1, RowAndColumn
    <3> HIDE DEF i, N
    <3>2. i + 1 \in 1 .. N /\ (i + 1) - 1 = i
      BY <1>1, <3>1
    <3> QED
      BY <3>1, <3>2 DEF i
  <2> QED
    BY <2>1
<1>4. CASE splitter = "flat"
  <2>1. Multiplier = 1 /\ n * 1 = n /\ m = Spread(symbols, n)
        /\ \A t, x : Entry(t, x) = t + 1
    BY <1>4 DEF Multiplier, ClusterMap, Entry
  <2>2. symbols \in [1 .. n -> 0 .. (c - 1)]
    BY <2>1
  <2>3. m = [k \in 1 .. N |-> symbols[((k - 1) \div C) + 1]]
    BY <2>1, <2>2, SpreadIs DEF C
  <2>4. \A q \in 0 .. (n - 1) : q + 1 \in 1 .. n
    OBVIOUS
  <2>5. m \in [1 .. N -> 0 .. (c - 1)]
    <3>1. \A k \in 1 .. N : symbols[((k - 1) \div C) + 1] \in 0 .. (c - 1)
      BY <1>2, <2>2, <2>4
    <3> HIDE DEF N
    <3> QED
      BY <2>3, <3>1
  <2>6. ASSUME NEW t \in 0 .. (n - 1), NEW x \in 0 .. (C - 1)
        PROVE  m[t * C + x + 1] = symbols[Entry(t, x)] /\ Entry(t, x) \in 1 .. (n * Multiplier)
    <3> DEFINE k == t * C + x + 1
    <3>1. k \in 1 .. N /\ (k - 1) \div C = t
      BY <1>3
    <3> HIDE DEF k, N
    <3>2. m[k] = symbols[t + 1]
      BY <2>3, <3>1
    <3>3. t + 1 \in 1 .. n
      BY <2>4
    <3>4. Entry(t, x) \in 1 .. (n * Multiplier)
      BY <2>1, <3>3
    <3> QED
      BY <2>1, <3>2, <3>4 DEF k
  <2>7. m \in Seq(0 .. (c - 1)) /\ Len(m) = N
    <3> HIDE DEF m, N
    <3> QED
      BY <1>1, <2>5, SequenceOf
  <2>8. m # <<>>
    <3> HIDE DEF m, N
    <3> QED
      BY <1>1, <2>7
  <2> HIDE DEF m
  <2>9. \A t \in 0 .. (n - 1), x \in 0 .. (C - 1) :
           HistogramOf(t, x, m) = symbols[Entry(t, x)] /\ Entry(t, x) \in 1 .. (n * Multiplier)
    BY <2>6, <2>8 DEF HistogramOf, C
  <2> QED
    BY <2>7, <2>8, <2>9 DEF m, C, N
<1>5. CASE splitter # "flat"
  <2>1. Multiplier = C /\ m = symbols /\ \A t, x : Entry(t, x) = t * C + x + 1
    BY <1>5 DEF Multiplier, ClusterMap, Entry, C
  <2>2. symbols \in [1 .. N -> 0 .. (c - 1)]
    BY <2>1
  <2>3. m \in Seq(0 .. (c - 1)) /\ Len(m) = N
    <3> HIDE DEF m, N
    <3> QED
      BY <1>1, <2>1, <2>2, SequenceOf
  <2>4. m # <<>>
    <3> HIDE DEF m, N
    <3> QED
      BY <1>1, <2>3
  <2>5. \A t \in 0 .. (n - 1), x \in 0 .. (C - 1) :
           HistogramOf(t, x, m) = symbols[Entry(t, x)] /\ Entry(t, x) \in 1 .. (n * Multiplier)
    <3> HIDE DEF m
    <3> QED
      BY <1>3, <2>1, <2>4 DEF HistogramOf, C, N
  <2> HIDE DEF m
  <2> QED
    BY <2>3, <2>4, <2>5 DEF m, C, N
<1> QED
  BY <1>4, <1>5

(* The map of qualities 10 and 11 is the one the decoder reads.              *)
LEMMA ClusterMapIsRead ==
    ASSUME NEW s, s.numTypes \in Nat \ {0}, NEW symbols, NEW newCodes,
           Cardinality(DOMAIN newCodes) \in Nat \ {0},
           symbols \in [1 .. (s.numTypes * Multiplier) ->
                            0 .. (Cardinality(DOMAIN newCodes) - 1)]
    PROVE  SameMap(s, ClusterMap(symbols, s.numTypes),
                   SentMap(s.numTypes, Cardinality(DOMAIN newCodes),
                           ClusterMap(symbols, s.numTypes)))
<1> DEFINE n == s.numTypes
           c == Cardinality(DOMAIN newCodes)
           m == ClusterMap(symbols, n)
<1>1. c \in Nat \ {0} /\ n \in Nat \ {0} /\ symbols \in [1 .. (n * Multiplier) -> 0 .. (c - 1)]
  OBVIOUS
<1> HIDE DEF c, n
<1>2. m \in Seq(0 .. (c - 1)) /\ Len(m) = n * ContextCount /\ m # <<>>
  BY <1>1, ClusterMapIs
<1> HIDE DEF m
<1>3. ReadMap(EncodeContextMap(m, c), n * ContextCount, c) = m
  BY <1>1, <1>2, MapIsRead
<1>4. SentMap(n, c, m) = m
  BY <1>2, <1>3 DEF SentMap
<1> QED
  BY <1>4 DEF SameMap, m, c, n

(* A symbol is counted in the cluster of its type and context.                *)
LEMMA ClusterCodesCount ==
    ASSUME contexts \in Seq(Contexts), NEW s, s.numTypes \in Nat \ {0},
           s.types \in Seq(Nat), s.lengths \in Seq(Nat), Len(s.types) = Len(s.lengths),
           \A k \in 1 .. Len(s.types) : s.types[k] \in 0 .. (s.numTypes - 1),
           NEW c \in Nat \ {0},
           NEW symbols \in [1 .. (s.numTypes * Multiplier) -> 0 .. (c - 1)]
    PROVE  CodesCount(s, Remapped(ContextHistograms(s), symbols),
                      ClusterMap(symbols, s.numTypes))
<1> DEFINE n == s.numTypes
           inp == ContextHistograms(s)
           m == ClusterMap(symbols, n)
           newCodes == Remapped(inp, symbols)
<1>1. inp = [k \in 1 .. (n * Multiplier) |->
               {p \in Symbols : /\ TypeAt(s, p) = (k - 1) \div Multiplier
                                /\ Multiplier = 1 \/ contexts[p] = (k - 1) % Multiplier}]
  BY DEF ContextHistograms
<1>2. newCodes = [v \in Range(symbols) |->
                    UNION {inp[k] : k \in {k \in 1 .. (n * Multiplier) : symbols[k] = v}}]
  BY <1>1 DEF Remapped
<1> HIDE DEF inp, newCodes
<1>3. ASSUME NEW e, EndsOf(e, s.lengths), NEW k \in 1 .. Len(s.types), NEW p \in Symbols,
             Within(e, k, p)
      PROVE  /\ HistogramOf(s.types[k], contexts[p], m) \in DOMAIN newCodes
             /\ p \in newCodes[HistogramOf(s.types[k], contexts[p], m)]
  <2> DEFINE t == s.types[k]
             x == contexts[p]
             i == Entry(t, x)
  <2>1. t \in 0 .. (n - 1) /\ x \in 0 .. (ContextCount - 1) /\ p \in Nat
    BY ContextIn, SMTT(60) DEF Symbols
  <2>2. TypeAt(s, p) = t
    BY <1>3, <2>1, TypeAtIs
  <2>3. HistogramOf(t, x, m) = symbols[i] /\ i \in 1 .. (n * Multiplier)
    <3> HIDE DEF t, x, n
    <3>1. n \in Nat \ {0} /\ symbols \in [1 .. (n * Multiplier) -> 0 .. (c - 1)]
      BY DEF n
    <3> QED
      BY <2>1, <3>1, ClusterMapIs
  <2>4. /\ t = (i - 1) \div Multiplier
        /\ Multiplier = 1 \/ x = (i - 1) % Multiplier
    <3> HIDE DEF t, x, n
    <3>1. CASE splitter = "flat"
      <4>1. Multiplier = 1 /\ i = t + 1
        BY <3>1 DEF Multiplier, Entry
      <4>2. t \in Nat /\ (t + 1) - 1 = t
        BY <2>1
      <4>3. t \div 1 = t
        BY <4>2
      <4> QED
        BY <4>1, <4>2, <4>3
    <3>2. CASE splitter # "flat"
      <4> DEFINE C == ContextCount
                 j == t * C + x
      <4>1. Multiplier = C /\ i = j + 1
        BY <3>2 DEF Multiplier, Entry
      <4>2. C \in Nat \ {0}
        BY ContextCountIs
      <4>3. n \in Nat
        BY DEF n
      <4>4. j \in 0 .. (n * C - 1) /\ j \div C = t /\ j % C = x
        <5>1. x \in 0 .. (C - 1) /\ t \in 0 .. (n - 1)
          BY <2>1
        <5> HIDE DEF C, x, t, n
        <5> QED
          BY ONLY <4>2, <4>3, <5>1, RowAndColumn DEF j
      <4> HIDE DEF j, C
      <4>5. (j + 1) - 1 = j
        BY <4>4
      <4> QED
        BY <4>1, <4>4, <4>5
    <3> QED
      BY <3>1, <3>2
  <2> HIDE DEF i
  <2>5. p \in inp[i]
    BY <1>1, <2>2, <2>3, <2>4
  <2>6. symbols[i] \in Range(symbols)
    BY <2>3 DEF Range
  <2>7. p \in newCodes[symbols[i]] /\ symbols[i] \in DOMAIN newCodes
    BY <1>2, <2>3, <2>5, <2>6
  <2> HIDE DEF m
  <2> QED
    BY <2>3, <2>7
<1> QED
  BY <1>3 DEF CodesCount, m, newCodes, inp

(* Qualities 10 and 11 start storing with CodesOK: clustering joins           *)
(* histograms and loses none.                                                 *)
LEMMA BuildMetaBlockCodes ==
    ASSUME IInv, BuildMetaBlock
    PROVE  CodesOK'
<1>1. contexts \in Seq(Contexts)
  BY DEF IInv
<1>2. PICK cluster \in [Symbols -> 0 .. (MaxTypes - 1)] :
         \E g \in Clusterings(ContextHistograms(ClusterBlocks(cluster))) :
            Stored(ClusterBlocks(cluster),
                   Remapped(ContextHistograms(ClusterBlocks(cluster)), Reindexed(g)),
                   ClusterMap(Reindexed(g), ClusterBlocks(cluster).numTypes))
  BY DEF BuildMetaBlock, ClusterMap
<1> DEFINE s == ClusterBlocks(cluster)
           n == s.numTypes
           inp == ContextHistograms(s)
<1>3. /\ TypesInUse(s) /\ s.numTypes \in Nat
      /\ s.types \in Seq(Nat) /\ s.lengths \in Seq(Nat)
      /\ \A k \in 1 .. Len(s.lengths) : s.lengths[k] >= 1
  BY <1>1, ClusterBlocksOK
<1>4. PICK g \in Clusterings(inp) :
         Stored(s, Remapped(inp, Reindexed(g)), ClusterMap(Reindexed(g), n))
  BY <1>2
<1> HIDE DEF s
<1> DEFINE symbols == Reindexed(g)
           newCodes == Remapped(inp, symbols)
           c == Cardinality(DOMAIN newCodes)
           K == n * Multiplier
<1>5. /\ n \in Nat \ {0} /\ Solid(s) /\ Len(s.types) = Len(s.lengths)
      /\ \A k \in 1 .. Len(s.types) : s.types[k] \in 0 .. (n - 1)
  BY <1>3 DEF TypesInUse, Solid
<1>6. K \in Nat \ {0}
  <2>1. Multiplier \in Nat \ {0}
    BY ContextCountIs DEF Multiplier
  <2> QED
    BY <1>5, <2>1
<1>7. g \in [1 .. K -> 0 .. (MaxClusters - 1)]
  <2>1. DOMAIN inp = 1 .. K
    BY DEF ContextHistograms
  <2> HIDE DEF K, inp
  <2> QED
    BY <1>6, <2>1, ClusteringIs
<1>8. c \in Nat \ {0} /\ symbols \in [1 .. K -> 0 .. (c - 1)]
  <2>1. DOMAIN newCodes = Range(symbols)
    BY DEF Remapped
  <2>2. /\ Cardinality(Range(symbols)) \in Nat \ {0}
        /\ symbols \in [1 .. K -> 0 .. (Cardinality(Range(symbols)) - 1)]
    <3> HIDE DEF K
    <3> QED
      BY <1>6, <1>7, ReindexedIs
  <2> QED
    BY <2>1, <2>2
<1> HIDE DEF symbols
<1>9. CodesCount(s, newCodes, ClusterMap(symbols, n))
  <2> HIDE DEF c
  <2> QED
    BY <1>1, <1>3, <1>5, <1>8, ClusterCodesCount
<1>10. SameMap(s, ClusterMap(symbols, n), SentMap(n, c, ClusterMap(symbols, n)))
  <2> HIDE DEF newCodes
  <2> QED
    BY <1>5, <1>8, ClusterMapIsRead
<1>11. Stored(s, newCodes, ClusterMap(symbols, n))
  BY <1>4 DEF symbols
<1> HIDE DEF newCodes
<1> QED
  BY <1>1, <1>3, <1>5, <1>9, <1>10, <1>11, StoredCodes

-----------------------------------------------------------------------------
(* Both hold throughout.                                                      *)
CodesIInv == CountsOK /\ CodesOK

(* The invariant of the codes holds at the start.                            *)
LEMMA InitCodes ==
    ASSUME Init
    PROVE  CodesIInv
<1>1. phase = "split" /\ count = 0 /\ split = NewSplit
  BY DEF Init
<1>2. /\ split.types = <<>> /\ split.lengths = <<>> /\ split.blockSize = 0
  BY <1>1 DEF NewSplit
<1>3. Len(split.lengths) = 0 /\ 1 .. 0 = {}
  BY <1>2
<1>4. Solid(split)
  BY <1>3 DEF Solid
<1>5. \A e : EndsOf(e, split.lengths) => 0 = e[Len(split.lengths)] + split.blockSize
  BY <1>2, <1>3 DEF EndsOf
<1>6. Exactly(split, count)
  BY <1>1, <1>5 DEF Exactly
<1>7. \A e : EndsOf(e, split.lengths) => 0 <= e[Len(split.lengths)] + split.blockSize
  BY <1>2, <1>3 DEF EndsOf
<1>8. CountedIn(split, count)
  BY <1>1, <1>3, <1>7 DEF CountedIn
<1> QED
  BY <1>1, <1>4, <1>6, <1>8 DEF CodesIInv, CountsOK, CodesOK

(* A stuttering step keeps the invariant of the codes.                       *)
LEMMA StutterCodes ==
    ASSUME CodesIInv, UNCHANGED vars
    PROVE  CodesIInv'
<1>1. /\ splitter' = splitter /\ contexts' = contexts /\ count' = count
      /\ split' = split /\ codes' = codes /\ map' = map /\ enc' = enc /\ dec' = dec
      /\ phase' = phase
  BY DEF vars
<1>2. Greedy' = Greedy /\ Symbols' = Symbols
  BY <1>1 DEF Greedy, Symbols
<1>3. CountsOK'
  <2>1. phase = "split" /\ Greedy =>
           (Solid(split) /\ CountedIn(split, count) /\ Exactly(split, count))'
    BY <1>1, CountsKept DEF CodesIInv, CountsOK
  <2> QED
    BY <1>1, <1>2, <2>1 DEF CountsOK
<1>4. CodesOK'
  <2>1. Solid(split) => Solid(split)'
    BY <1>1 DEF Solid
  <2>2. CodesCount(split, codes, map) => CodesCount(split, codes, map)'
    BY ONLY <1>1, <1>2, CodesCountKept
  <2>3. SameMap(split, map, dec.map) => SameMap(split, map, dec.map)'
    BY <1>1 DEF SameMap, HistogramOf
  <2>4. (split.types # <<>> => \A e : EndsOf(e, split.lengths) => InBlock(e)) =>
           (split.types # <<>> => \A e : EndsOf(e, split.lengths) => InBlock(e))'
    BY <1>1 DEF EndsOf, InBlock
  <2>5. SymbolsHaveCodes => SymbolsHaveCodes'
    BY <1>1 DEF SymbolsHaveCodes
  <2> QED
    BY <1>1, <2>1, <2>2, <2>3, <2>4, <2>5 DEF CodesIInv, CodesOK
<1> QED
  BY <1>3, <1>4 DEF CodesIInv

(* Every step keeps the invariant of the codes.                              *)
LEMMA StepCodes ==
    ASSUME IInv, CodesIInv, [Next]_vars
    PROVE  CodesIInv'
<1>1. CountsOK /\ CodesOK
  BY DEF CodesIInv
<1>2. CASE AddSymbol
  <2>1. CountsOK'
    BY <1>1, <1>2, AddSymbolCounts
  <2>2. phase' # "store"
    BY <1>2 DEF AddSymbol
  <2> QED
    BY <2>1, <2>2 DEF CodesIInv, CodesOK
<1>3. CASE FinishGreedy
  <2>1. CodesOK'
    BY <1>1, <1>3, FinishGreedyCodes
  <2>2. phase' # "split"
    BY <1>3 DEF FinishGreedy, Stored
  <2> QED
    BY <2>1, <2>2 DEF CodesIInv, CountsOK
<1>4. CASE BuildMetaBlock
  <2>1. CodesOK'
    BY <1>1, <1>4, BuildMetaBlockCodes
  <2>2. phase' # "split"
    BY <1>4 DEF BuildMetaBlock, Stored
  <2> QED
    BY <2>1, <2>2 DEF CodesIInv, CountsOK
<1>5. CASE StoreSymbol
  <2>1. CodesOK'
    BY <1>1, <1>5, StoreSymbolCodes
  <2>2. phase' # "split"
    <3>1. phase = "store" /\ phase' \in {"panic", phase}
      BY <1>5 DEF StoreSymbol
    <3> QED
      BY <3>1
  <2> QED
    BY <2>1, <2>2 DEF CodesIInv, CountsOK
<1>6. CASE Done
  BY <1>6, StutterCodes DEF Done
<1>7. CASE UNCHANGED vars
  BY <1>7, StutterCodes
<1> QED
  BY <1>2, <1>3, <1>4, <1>5, <1>6, <1>7 DEF Next

(* Each symbol is stored with a code made of a histogram that counted it, and *)
(* a decoder finds that code through the map it read, whichever splitter made *)
(* the blocks, for every stream, number of types and of contexts.             *)
THEOREM CodesCorrect == Spec => []SymbolsHaveCodes
<1>1. Init => CodesIInv
  BY InitCodes
<1>2. IInv /\ CodesIInv /\ [Next]_vars => CodesIInv'
  BY StepCodes
<1>3. CodesIInv => SymbolsHaveCodes
  BY DEF CodesIInv, CodesOK, SymbolsHaveCodes
<1> QED
  BY <1>1, <1>2, <1>3, InductiveInvariant, PTL DEF Spec
=============================================================================
