-------------------------- MODULE RingBufferProofs --------------------------
(***************************************************************************)
(* Proofs about RingBuffer, for every window and block size, dictionary,   *)
(* hint and sequence of writes, however often the positions go round:      *)
(*   TypeCorrect          Spec => []TypeOK                                 *)
(*   RunsCorrect          Spec => []RunsAreContiguous                      *)
(*   DistancesCorrect     Spec => []DistancesAreReal                       *)
(*   Implementation       Spec => Window!Spec                              *)
(* under WindowFits: the buffer is not longer than the 2^30 positions      *)
(* after which pos_ goes round.  Both are powers of two, so this holds for *)
(* every lgwin the encoder accepts but 30, with large_window; there the    *)
(* buffer has 2^31 bytes and the statements are false.                     *)
(***************************************************************************)
EXTENDS RingBuffer, SequenceTheorems, TLAPS

-----------------------------------------------------------------------------
(* Places in a ring.                                                          *)

(* A position is its whole rounds and its place in the ring.               *)
LEMMA DivMod ==
    ASSUME NEW C \in Nat \ {0}, NEW x \in Nat
    PROVE  /\ x \div C \in Nat /\ x % C \in 0..(C - 1)
           /\ x = (C * (x \div C)) + (x % C)
  OBVIOUS

(* One round more is at least C positions more.                            *)
LEMMA RoundsApart ==
    ASSUME NEW C \in Nat \ {0}, NEW a \in Nat, NEW b \in Nat, a < b
    PROVE  C * a + C <= C * b
<1>1. PICK d \in Nat : b = a + 1 + d
  <2>1. b - a - 1 \in Nat /\ b = a + 1 + (b - a - 1)
    OBVIOUS
  <2> QED
    BY <2>1
<1>2. C * b = C * a + C + C * d
  BY <1>1
<1>3. C * d >= 0 /\ C * a \in Nat
  OBVIOUS
<1> QED
  BY <1>2, <1>3

(* Positions less than a round apart have different places.                *)
LEMMA ModInjective ==
    ASSUME NEW C \in Nat \ {0}, NEW x \in Nat, NEW y \in Nat,
           x % C = y % C, x - y < C, y - x < C
    PROVE  x = y
<1>1. PICK a \in Nat, b \in Nat, r \in Nat : x = C * a + r /\ y = C * b + r
  <2>1. /\ x \div C \in Nat /\ x % C \in 0..(C - 1)
        /\ x = (C * (x \div C)) + (x % C)
    BY DivMod
  <2>2. x % C \in Nat
    BY <2>1
  <2>3. y \div C \in Nat /\ y = (C * (y \div C)) + (x % C)
    BY DivMod
  <2> QED
    BY <2>1, <2>2, <2>3
<1>2. C * a \in Nat /\ C * b \in Nat
  OBVIOUS
<1>3. CASE a < b
  BY <1>1, <1>2, <1>3, RoundsApart
<1>4. CASE b < a
  BY <1>1, <1>2, <1>4, RoundsApart
<1>5. CASE a = b
  BY <1>1, <1>5
<1> QED
  BY <1>3, <1>4, <1>5

(* A position determines its whole rounds and its place.                   *)
LEMMA DivModUnique ==
    ASSUME NEW C \in Nat \ {0}, NEW x \in Nat, NEW q \in Nat,
           NEW r \in 0..(C - 1), x = C * q + r
    PROVE  x % C = r /\ x \div C = q
<1>1. PICK b \in Nat, s \in 0..(C - 1) :
         x = C * b + s /\ s = x % C /\ b = x \div C
  <2>1. /\ x \div C \in Nat /\ x % C \in 0..(C - 1)
        /\ x = (C * (x \div C)) + (x % C)
    BY DivMod
  <2> QED
    BY <2>1
<1>2. C * q \in Nat /\ C * b \in Nat
  OBVIOUS
<1>3. ~(q < b)
  <2> SUFFICES ASSUME q < b PROVE FALSE
    OBVIOUS
  <2>1. C * q + C <= C * b
    BY RoundsApart
  <2> QED
    BY <1>1, <1>2, <2>1
<1>4. ~(b < q)
  <2> SUFFICES ASSUME b < q PROVE FALSE
    OBVIOUS
  <2>1. C * b + C <= C * q
    BY RoundsApart
  <2> QED
    BY <1>1, <1>2, <2>1
<1>5. b = q
  BY <1>3, <1>4
<1> QED
  BY <1>1, <1>5

(* Whole rounds do not change the place.                                   *)
LEMMA ModShift ==
    ASSUME NEW C \in Nat \ {0}, NEW y \in Nat, NEW k \in Nat
    PROVE  (y + C * k) % C = y % C
<1>1. C * k \in Nat
  OBVIOUS
<1>2. /\ y \div C \in Nat /\ y % C \in 0..(C - 1)
      /\ y = (C * (y \div C)) + (y % C)
  BY DivMod
<1>3. PICK b \in Nat, s \in 0..(C - 1) : y = C * b + s /\ s = y % C
  BY <1>2
<1>4. b + k \in Nat /\ C * (b + k) = C * b + C * k
  OBVIOUS
<1>5. C * b \in Nat
  OBVIOUS
<1>6. y + C * k \in Nat /\ y + C * k = C * (b + k) + s
  BY <1>1, <1>3, <1>4, <1>5
<1>7. (y + C * k) % C = s
  BY <1>4, <1>6, DivModUnique
<1> QED
  BY <1>3, <1>7

(* A position inside the first round is its own place.                     *)
LEMMA ModSmall ==
    ASSUME NEW C \in Nat \ {0}, NEW x \in 0..(C - 1)
    PROVE  x % C = x
<1>1. x \in Nat /\ x = C * 0 + x
  OBVIOUS
<1> QED
  BY <1>1, DivModUnique

(* A step of less than a round leaves the round at most once.              *)
LEMMA ModStep ==
    ASSUME NEW C \in Nat \ {0}, NEW x \in Nat, NEW t \in 0..(C - 1)
    PROVE  (x + t) % C = IF (x % C) + t < C THEN (x % C) + t
                         ELSE (x % C) + t - C
<1>1. PICK b \in Nat, s \in 0..(C - 1) : x = C * b + s /\ s = x % C
  <2>1. /\ x \div C \in Nat /\ x % C \in 0..(C - 1)
        /\ x = (C * (x \div C)) + (x % C)
    BY DivMod
  <2> QED
    BY <2>1
<1>2. x + t \in Nat /\ C * b \in Nat /\ b + 1 \in Nat /\ C * (b + 1) = C * b + C
  OBVIOUS
<1>3. CASE s + t < C
  <2>1. s + t \in 0..(C - 1) /\ x + t = C * b + (s + t)
    BY <1>1, <1>2, <1>3
  <2>2. (x + t) % C = s + t
    BY <1>2, <2>1, DivModUnique
  <2> QED
    BY <1>1, <1>3, <2>2
<1>4. CASE ~(s + t < C)
  <2>1. s + t - C \in 0..(C - 1) /\ x + t = C * (b + 1) + (s + t - C)
    BY <1>1, <1>2, <1>4
  <2>2. (x + t) % C = s + t - C
    BY <1>2, <2>1, DivModUnique
  <2> QED
    BY <1>1, <1>4, <2>2
<1> QED
  BY <1>3, <1>4

-----------------------------------------------------------------------------

WindowFits == Size <= WrapAt /\ WrapAt % Size = 0

-----------------------------------------------------------------------------
(* Positions                                                               *)

LEMMA Laps ==
    ASSUME WindowFits
    PROVE  /\ \E r \in Nat \ {0} : WrapAt = Size * r
           /\ Size \in Nat \ {0} /\ WrapAt \in Nat \ {0}
<1>1. Size \in Nat \ {0} /\ WrapAt \in Nat \ {0}
  BY SizesAssumption DEF WindowFits
<1>2. /\ WrapAt \div Size \in Nat
      /\ WrapAt = (Size * (WrapAt \div Size)) + (WrapAt % Size)
  BY <1>1, DivMod
<1>3. WrapAt \div Size # 0
  <2> SUFFICES ASSUME WrapAt \div Size = 0 PROVE FALSE
    OBVIOUS
  <2>1. Size * 0 = 0
    BY <1>1
  <2> QED
    BY <1>1, <1>2, <2>1 DEF WindowFits
<1>4. WrapAt = Size * (WrapAt \div Size)
  BY <1>1, <1>2 DEF WindowFits
<1> QED
  BY <1>1, <1>2, <1>3, <1>4

(* Bits above the 30 lowest do not matter to an index in the buffer.       *)
LEMMA MaskedFolds ==
    ASSUME WindowFits, NEW x \in Nat, NEW k \in Nat
    PROVE  ((x % WrapAt) + k * WrapAt) % Size = x % Size
<1>1. PICK r \in Nat \ {0} : WrapAt = Size * r
  BY Laps
<1>2. PICK q \in Nat, y \in Nat : x = WrapAt * q + y /\ y = x % WrapAt
  <2>1. /\ x \div WrapAt \in Nat /\ x % WrapAt \in 0..(WrapAt - 1)
        /\ x = (WrapAt * (x \div WrapAt)) + (x % WrapAt)
    BY Laps, DivMod
  <2>2. x % WrapAt \in Nat
    BY <2>1, Laps
  <2> QED
    BY <2>1, <2>2
<1>3. Size \in Nat \ {0} /\ r * q \in Nat /\ r * k \in Nat
  BY Laps
<1>4. x = y + Size * (r * q)
  <2>1. WrapAt * q = Size * (r * q)
    BY <1>1, <1>3
  <2> QED
    BY <1>2, <1>3, <2>1
<1>5. y + k * WrapAt = y + Size * (r * k)
  BY <1>1, <1>3
<1>6. x % Size = y % Size /\ (y + k * WrapAt) % Size = y % Size
  <2>1. (y + Size * (r * q)) % Size = y % Size
    BY ONLY <1>3, y \in Nat, ModShift
  <2>2. (y + Size * (r * k)) % Size = y % Size
    BY ONLY <1>3, y \in Nat, ModShift
  <2> QED
    BY <1>4, <1>5, <2>1, <2>2
<1> QED
  BY <1>2, <1>6

(* Masking a 32-bit position gives the place of the byte in the ring.      *)
LEMMA MaskedRingPos ==
    ASSUME WindowFits, NEW x \in Nat
    PROVE  Masked(WrapRingPos(x)) = x % Size
<1>1. ((x % WrapAt) + 1 * WrapAt) % Size = x % Size
  BY MaskedFolds
<1>2. 1 * WrapAt = WrapAt
  BY Laps
<1> QED
  BY <1>1, <1>2 DEF Masked, WrapRingPos

LEMMA MaskedWrapPosition ==
    ASSUME WindowFits, NEW x \in Nat
    PROVE  Masked(WrapPosition(x)) = x % Size
<1> DEFINE gb == x \div WrapAt
           bits == ((gb - 1) % 2) + 1
<1>1. gb \in Nat
  BY Laps, DivMod
<1>2. bits \in Nat
  BY <1>1
<1>3. ((x % WrapAt) + bits * WrapAt) % Size = x % Size
  BY <1>2, MaskedFolds
<1> QED
  BY <1>3 DEF Masked, WrapPosition

(* pos_ as a function of the number of bytes written.                      *)
LEMMA WrapRingPosStep ==
    ASSUME WindowFits, NEW x \in Nat, NEW n \in Nat \ {0}
    PROVE  WrapRingPos(WrapRingPos(x) + n) = WrapRingPos(x + n)
<1>1. CASE ~(x > WrapAt)
  BY <1>1 DEF WrapRingPos
<1>2. CASE x > WrapAt
  <2>1. PICK q \in Nat, y \in Nat : x = WrapAt * q + y /\ y = x % WrapAt
    <3>1. /\ x \div WrapAt \in Nat /\ x % WrapAt \in 0..(WrapAt - 1)
          /\ x = (WrapAt * (x \div WrapAt)) + (x % WrapAt)
      BY Laps, DivMod
    <3>2. x % WrapAt \in Nat
      BY <3>1, Laps
    <3> QED
      BY <3>1, <3>2
  <2>2. WrapAt \in Nat \ {0} /\ WrapAt * q \in Nat
    BY Laps
  <2>3. y + n \in Nat /\ y + WrapAt + n > WrapAt /\ x + n > WrapAt
    BY <1>2, <2>2
  <2>4. (y + WrapAt + n) % WrapAt = (y + n) % WrapAt
    <3>1. y + WrapAt + n = (y + n) + WrapAt * 1
      BY <2>2
    <3>2. ((y + n) + WrapAt * 1) % WrapAt = (y + n) % WrapAt
      BY ONLY <2>2, <2>3, ModShift
    <3> QED
      BY <3>1, <3>2
  <2>5. (x + n) % WrapAt = (y + n) % WrapAt
    <3>1. x + n = (y + n) + WrapAt * q
      BY <2>1, <2>2
    <3>2. ((y + n) + WrapAt * q) % WrapAt = (y + n) % WrapAt
      BY ONLY <2>2, <2>3, q \in Nat, ModShift
    <3> QED
      BY <3>1, <3>2
  <2>6. WrapRingPos(x) = y + WrapAt
    BY <1>2, <2>1 DEF WrapRingPos
  <2> QED
    BY <2>3, <2>4, <2>5, <2>6 DEF WrapRingPos
<1> QED
  BY <1>1, <1>2

LEMMA WrapRingPosRange ==
    ASSUME WindowFits, NEW x \in Nat
    PROVE  /\ WrapRingPos(x) \in 0..(2 * WrapAt)
           /\ x <= WrapAt => WrapRingPos(x) = x
           /\ WrapRingPos(x) < Size => WrapRingPos(x) = x
<1>1. x % WrapAt \in 0..(WrapAt - 1) /\ WrapAt \in Nat \ {0}
  BY Laps, DivMod
<1> QED
  BY <1>1, SizesAssumption DEF WrapRingPos, WindowFits

(* WrapPosition by rounds and place: the rounds go 0, 1, 2, 1, 2, ...      *)
Round(a) == IF a > 2 THEN ((a - 1) % 2) + 1 ELSE a

LEMMA RoundStep ==
    ASSUME NEW a \in Nat
    PROVE  /\ Round(a) \in Nat /\ Round(a + 1) \in Nat
           /\ Round(a + 1) = Round(a) + 1 \/ Round(a + 1) = Round(a) - 1
<1>1. a \in {0, 1, 2} \/ a > 2
  OBVIOUS
<1>2. CASE a \in {0, 1}
  BY <1>2 DEF Round
<1>3. CASE a = 2
  BY <1>3 DEF Round
<1>4. CASE a > 2
  <2>1. \/ (a - 1) % 2 = 0 /\ a % 2 = 1
        \/ (a - 1) % 2 = 1 /\ a % 2 = 0
    OBVIOUS
  <2>2. (a + 1) - 1 = a /\ a + 1 > 2
    BY <1>4
  <2> QED
    BY <1>4, <2>1, <2>2 DEF Round
<1> QED
  BY <1>1, <1>2, <1>3, <1>4

LEMMA WrapPositionIs ==
    ASSUME WindowFits, NEW a \in Nat, NEW s \in 0..(WrapAt - 1)
    PROVE  WrapPosition(WrapAt * a + s) = Round(a) * WrapAt + s
<1> DEFINE x == WrapAt * a + s
<1>1. WrapAt \in Nat \ {0} /\ WrapAt * a \in Nat /\ x \in Nat
  BY Laps
<1>2. x = WrapAt * a + s
  OBVIOUS
<1> HIDE DEF x
<1>3. x % WrapAt = s /\ x \div WrapAt = a
  BY <1>1, <1>2, DivModUnique
<1>4. a * WrapAt = WrapAt * a /\ Round(a) \in Nat
  BY <1>1, RoundStep
<1>5. WrapPosition(x) = Round(a) * WrapAt + s
  <2>1. CASE a > 2
    <3>1. WrapPosition(x) = s + Round(a) * WrapAt
      BY <1>3, <2>1 DEF WrapPosition, Round
    <3>2. Round(a) * WrapAt \in Nat
      BY <1>1, <1>4
    <3> QED
      BY <1>1, <3>1, <3>2
  <2>2. CASE ~(a > 2)
    BY <1>1, <1>2, <1>3, <1>4, <2>2 DEF WrapPosition, Round
  <2> QED
    BY <2>1, <2>2
<1> QED
  BY <1>2, <1>5

(* Over a step of at most 2^30 a wrapped position advances by the same, or *)
(* goes back by 2^31.                                                      *)
LEMMA WrapPositionStep ==
    ASSUME WindowFits, NEW x \in Nat, NEW n \in 0..WrapAt
    PROVE  /\ WrapPosition(x) \in Nat
           /\ \/ WrapPosition(x + n) = WrapPosition(x) + n
              \/ WrapPosition(x + n) = WrapPosition(x) + n - 2 * WrapAt
<1>1. PICK a \in Nat, s \in 0..(WrapAt - 1) : x = WrapAt * a + s
  <2>1. /\ x \div WrapAt \in Nat /\ x % WrapAt \in 0..(WrapAt - 1)
        /\ x = (WrapAt * (x \div WrapAt)) + (x % WrapAt)
    BY Laps, DivMod
  <2> QED
    BY <2>1
<1>2. /\ WrapAt \in Nat \ {0} /\ a + 1 \in Nat
      /\ WrapAt * (a + 1) = WrapAt * a + WrapAt /\ WrapAt * a \in Nat
  BY Laps
<1>3. WrapPosition(x) = Round(a) * WrapAt + s
  BY <1>1, WrapPositionIs
<1>4. Round(a) * WrapAt \in Nat /\ Round(a) \in Nat
  BY <1>2, RoundStep
<1>5. CASE s + n < WrapAt
  <2>1. s + n \in 0..(WrapAt - 1) /\ x + n = WrapAt * a + (s + n)
    BY <1>1, <1>2, <1>5
  <2>2. WrapPosition(x + n) = Round(a) * WrapAt + (s + n)
    BY <2>1, WrapPositionIs
  <2> QED
    BY <1>2, <1>3, <1>4, <2>2
<1>6. CASE ~(s + n < WrapAt)
  <2>1. s + n - WrapAt \in 0..WrapAt
    BY <1>2, <1>6
  <2>2. s + n - WrapAt \in 0..(WrapAt - 1)
    BY <1>2, <1>6
  <2>3. x + n = WrapAt * (a + 1) + (s + n - WrapAt)
    BY <1>1, <1>2
  <2>4. WrapPosition(x + n) = Round(a + 1) * WrapAt + (s + n - WrapAt)
    BY <1>2, <2>2, <2>3, WrapPositionIs
  <2>5. \/ Round(a + 1) * WrapAt = Round(a) * WrapAt + WrapAt
        \/ Round(a + 1) * WrapAt = Round(a) * WrapAt - WrapAt
    <3>1. CASE Round(a + 1) = Round(a) + 1
      BY <1>2, <1>4, <3>1
    <3>2. CASE Round(a + 1) = Round(a) - 1
      BY <1>2, <1>4, <3>2
    <3> QED
      BY <3>1, <3>2, RoundStep
  <2> QED
    BY <1>2, <1>3, <1>4, <2>4, <2>5
<1> QED
  BY <1>2, <1>3, <1>4, <1>5, <1>6
-----------------------------------------------------------------------------
(* The inductive invariant.  Its main parts say where the bytes of the     *)
(* history are, by their position and not by the wrapped positions: Kept   *)
(* in the lap, Mirrored behind its end.                                    *)
HistoryOf(end) == Greatest(0, end - Size)..(end - 1)

KeptIn(buf, end) == \A p \in HistoryOf(end) : buf[p % Size] = p

MirroredIn(buf, end) ==
    \A p \in HistoryOf(end) :
        p >= Size /\ p % Size < TailSize => buf[Size + (p % Size)] = p

Sizes ==
    /\ compactSize \in 0..(TailSize - 1)
    /\ inputPos \in Nat /\ lastProcessed \in Nat
    /\ lastProcessed <= inputPos /\ inputPos - lastProcessed <= TailSize
    /\ ~panicked

Shape ==
    /\ curSize \in 0..(TailSize - 1) \cup {TotalSize}
    /\ ringPos = WrapRingPos(inputPos)
    /\ curSize # TotalSize => inputPos <= curSize
    /\ DOMAIN data = IF curSize = 0 THEN {} ELSE -2..(curSize + Slack - 1)

Kept == KeptIn(data, inputPos)

Mirrored == MirroredIn(data, inputPos)

Hashed ==
    \A p \in DOMAIN hashed :
        /\ p \in Int
        /\ hashed[p] = WrapPosition(lastProcessed) - (lastProcessed - p)

IInv == Sizes /\ Shape /\ Kept /\ Mirrored /\ Hashed

-----------------------------------------------------------------------------
(* Where a write of n bytes puts them in the lap that x is in: the bytes   *)
(* at their places, and no byte of the remaining history under them.       *)
LEMMA Places ==
    ASSUME WindowFits, NEW x \in Nat, NEW n \in 1..Size, NEW m, m = x % Size,
           NEW p \in HistoryOf(x + n), NEW j, j = p % Size
    PROVE  /\ m \in 0..(Size - 1) /\ j \in 0..(Size - 1) /\ p \in Nat
           /\ p >= x => \/ m <= j /\ j < m + n /\ p = x + j - m
                        \/ j < m /\ j < m + n - Size /\ p = x + Size - m + j
           /\ p < x => ~(m <= j /\ j < m + n) /\ ~(j < m + n - Size)
<1>1. /\ Size \in Nat \ {0} /\ p \in Nat /\ n \in Nat
      /\ p >= x + n - Size /\ p < x + n
  BY Laps DEF HistoryOf, Greatest
<1>2. m \in 0..(Size - 1) /\ j \in 0..(Size - 1)
  BY <1>1, DivMod
<1>3. ASSUME p >= x
      PROVE  \/ m <= j /\ j < m + n /\ p = x + j - m
             \/ j < m /\ j < m + n - Size /\ p = x + Size - m + j
  <2>1. p - x \in 0..(Size - 1) /\ x + (p - x) = p /\ p - x < n
    BY <1>1, <1>3
  <2>2. PICK t \in 0..(Size - 1) : x + t = p /\ t < n
    BY <2>1
  <2>3. (x + t) % Size = IF (x % Size) + t < Size THEN (x % Size) + t
                         ELSE (x % Size) + t - Size
    BY <1>1, ModStep
  <2>4. j = IF m + t < Size THEN m + t ELSE m + t - Size
    BY <2>2, <2>3
  <2> QED
    BY <1>1, <1>2, <2>2, <2>4
<1>4. ASSUME p < x, NEW t \in 0..(n - 1),
             j = IF m + t < Size THEN m + t ELSE m + t - Size
      PROVE  FALSE
  <2>1. t \in 0..(Size - 1) /\ x + t \in Nat
    BY <1>1
  <2>2. (x + t) % Size = IF (x % Size) + t < Size THEN (x % Size) + t
                         ELSE (x % Size) + t - Size
    BY <1>1, <2>1, ModStep
  <2>3. p % Size = (x + t) % Size
    BY <1>4, <2>2
  <2>4. p - (x + t) < Size /\ (x + t) - p < Size
    BY <1>1, <1>4, <2>1
  <2>5. p = x + t
    BY ONLY <1>1, <2>1, <2>3, <2>4, ModInjective
  <2> QED
    BY <1>1, <1>4, <2>5
<1>5. ASSUME p < x, m <= j, j < m + n PROVE FALSE
  <2>1. j - m \in 0..(n - 1) /\ m + (j - m) = j /\ j < Size
    BY <1>1, <1>2, <1>5
  <2> QED
    BY <1>4, <1>5, <2>1
<1>6. ASSUME p < x, j < m + n - Size PROVE FALSE
  <2>1. Size - m + j \in 0..(n - 1) /\ m + (Size - m + j) = Size + j /\ j >= 0
    BY <1>1, <1>2, <1>6
  <2>2. j = IF m + (Size - m + j) < Size THEN m + (Size - m + j)
            ELSE m + (Size - m + j) - Size
    BY <1>1, <1>2, <2>1
  <2> QED
    BY <1>4, <1>6, <2>1, <2>2
<1> QED
  BY <1>1, <1>2, <1>3, <1>5, <1>6

(* What a write of the whole buffer leaves at every index.                 *)
LapHolds(lap, buf, x, m, n) ==
    /\ DOMAIN lap = DOMAIN buf
    /\ \A j \in 0..(Size - 1) :
          lap[j] = IF m <= j /\ j < m + n THEN x + j - m
                   ELSE IF j < m + n - Size THEN x + Size - m + j
                   ELSE buf[j]
    /\ \A j \in 0..(TailSize - 1) :
          lap[Size + j] = IF m <= j /\ j < m + n THEN x + j - m
                          ELSE IF j < m + n - Size THEN x + Size - m + j
                          ELSE buf[Size + j]

(* What one lap of a write leaves at each index.                           *)
LEMMA LapBytes ==
    ASSUME WindowFits, Sizes, Shape, NEW n \in 1..Size,
           n <= TailSize \/ inputPos = 0,
           NEW buf, DOMAIN buf = -2..(TotalSize + Slack - 1),
           NEW m, m = inputPos % Size,
           NEW lap, lap = LastTwo(WriteLap(WriteTail(buf, n), n))
    PROVE  LapHolds(lap, buf, inputPos, m, n)
<1>1. /\ Size \in Nat \ {0} /\ TailSize \in Nat \ {0} /\ Slack \in Nat
      /\ 2 * TailSize <= Size /\ n \in Nat /\ inputPos \in Nat
      /\ TotalSize = Size + TailSize
  BY Laps, SizesAssumption DEF Sizes, TotalSize
<1>2. m \in 0..(Size - 1) /\ (inputPos = 0 => m = 0)
  <2>1. 0 \in 0..(Size - 1) /\ 0 % Size = 0
    BY <1>1, ModSmall
  <2> QED
    BY <1>1, <2>1, DivMod
<1>3. Masked(ringPos) = m
  BY <1>1, MaskedRingPos DEF Shape
<1>4. DOMAIN buf \subseteq Int /\ m \in Int /\ inputPos \in Int /\ n \in Int
  BY <1>1, <1>2
<1>5. n > Size - m => n <= TailSize /\ m >= TailSize
  BY <1>1, <1>2
<1> DEFINE tail == WriteTail(buf, n)
           ring == WriteLap(tail, n)
<1>6. /\ DOMAIN tail = DOMAIN buf
      /\ \A j \in DOMAIN buf :
            tail[j] = IF /\ m < TailSize /\ Size + m <= j
                         /\ j < Size + m + Least(n, TailSize - m)
                      THEN inputPos + j - (Size + m) ELSE buf[j]
  <2>1. CASE m < TailSize
    <3>1. tail = Copy(buf, Size + m, inputPos, Least(n, TailSize - m))
      BY <1>3, <2>1 DEF WriteTail
    <3>2. Size + m \in Int /\ Least(n, TailSize - m) \in Int
      BY <1>1, <1>2 DEF Least
    <3> HIDE DEF tail
    <3> QED
      BY <1>4, <2>1, <3>1, <3>2 DEF Copy
  <2>2. CASE ~(m < TailSize)
    BY <1>3, <2>2 DEF WriteTail
  <2> QED
    BY <2>1, <2>2
<1> HIDE DEF tail
<1>7. /\ DOMAIN ring = DOMAIN buf
      /\ \A j \in DOMAIN buf :
            ring[j] = IF n > Size - m /\ 0 <= j /\ j < m + n - Size
                      THEN inputPos + Size - m + j
                      ELSE IF m <= j /\ j < m + n THEN inputPos + j - m
                      ELSE tail[j]
  <2>1. CASE n <= Size - m
    <3>1. ring = Copy(tail, m, inputPos, n)
      BY <1>3, <2>1 DEF WriteLap
    <3> HIDE DEF ring
    <3> QED
      BY <1>1, <1>2, <1>4, <1>6, <2>1, <3>1 DEF Copy
  <2>2. CASE ~(n <= Size - m)
    <3> DEFINE once == Copy(tail, m, inputPos, n)
    <3>1. Least(n, TotalSize - m) = n
      BY <1>1, <1>2, <1>5, <2>2 DEF Least
    <3>2. ring = Copy(once, 0, inputPos + (Size - m), n - (Size - m))
      BY <1>3, <2>2, <3>1 DEF WriteLap
    <3>3. /\ DOMAIN once = DOMAIN buf
          /\ \A j \in DOMAIN buf :
                once[j] = IF m <= j /\ j < m + n THEN inputPos + j - m
                          ELSE tail[j]
      BY <1>4, <1>6 DEF Copy
    <3>4. /\ 0 \in Int /\ inputPos + (Size - m) \in Int
          /\ n - (Size - m) \in Int
      BY <1>1, <1>2
    <3> HIDE DEF once, ring
    <3>5. /\ DOMAIN ring = DOMAIN buf
          /\ \A j \in DOMAIN buf :
                ring[j] = IF 0 <= j /\ j < 0 + (n - (Size - m))
                          THEN inputPos + (Size - m) + j - 0 ELSE once[j]
      BY <1>4, <3>2, <3>3, <3>4 DEF Copy
    <3> QED
      BY <1>1, <1>2, <2>2, <3>3, <3>5
  <2> QED
    BY <1>1, <1>2, <2>1, <2>2
<1> HIDE DEF ring
<1>8. /\ DOMAIN lap = DOMAIN buf
      /\ \A j \in DOMAIN buf : j >= 0 => lap[j] = ring[j]
  <2>1. lap = [ring EXCEPT ![-2] = ring[Size - 2], ![-1] = ring[Size - 1]]
    BY DEF LastTwo, ring, tail
  <2> QED
    BY <1>4, <1>7, <2>1
<1>9. ASSUME NEW j \in 0..(Size - 1)
      PROVE  lap[j] = IF m <= j /\ j < m + n THEN inputPos + j - m
                      ELSE IF j < m + n - Size THEN inputPos + Size - m + j
                      ELSE buf[j]
  <2>1. j \in DOMAIN buf /\ j >= 0
    BY <1>1
  <2>2. tail[j] = buf[j]
    BY <1>1, <1>2, <1>6, <2>1
  <2>3. ring[j] = IF n > Size - m /\ 0 <= j /\ j < m + n - Size
                  THEN inputPos + Size - m + j
                  ELSE IF m <= j /\ j < m + n THEN inputPos + j - m
                  ELSE buf[j]
    BY <1>7, <2>1, <2>2
  <2> QED
    BY <1>1, <1>2, <1>5, <1>8, <2>1, <2>3
<1>10. ASSUME NEW j \in 0..(TailSize - 1)
       PROVE  lap[Size + j] =
                 IF m <= j /\ j < m + n THEN inputPos + j - m
                 ELSE IF j < m + n - Size THEN inputPos + Size - m + j
                 ELSE buf[Size + j]
  <2>1. Size + j \in DOMAIN buf /\ Size + j >= 0
    BY <1>1
  <2>2. lap[Size + j] = IF m <= Size + j /\ Size + j < m + n
                        THEN inputPos + Size - m + j ELSE tail[Size + j]
    <3>1. ~(n > Size - m /\ 0 <= Size + j /\ Size + j < m + n - Size)
      BY <1>1, <1>2
    <3>2. ring[Size + j] = IF m <= Size + j /\ Size + j < m + n
                           THEN inputPos + (Size + j) - m ELSE tail[Size + j]
      BY <1>7, <2>1, <3>1
    <3> QED
      BY <1>1, <1>2, <1>8, <2>1, <3>2
  <2>3. tail[Size + j] = IF m <= j /\ j < m + n THEN inputPos + j - m
                         ELSE buf[Size + j]
    <3>1. tail[Size + j] = IF /\ m < TailSize /\ Size + m <= Size + j
                              /\ Size + j < Size + m + Least(n, TailSize - m)
                           THEN inputPos + (Size + j) - (Size + m)
                           ELSE buf[Size + j]
      BY <1>6, <2>1
    <3> QED
      BY <1>1, <1>2, <3>1 DEF Least
  <2> QED
    BY <1>1, <1>2, <1>5, <2>2, <2>3
<1> QED
  BY <1>8, <1>9, <1>10 DEF LapHolds

(* The whole buffer holds what the compact one did.                        *)
LEMMA GrownHolds ==
    ASSUME WindowFits, Sizes, Shape, Kept, Mirrored
    PROVE  /\ DOMAIN Grown = -2..(TotalSize + Slack - 1)
           /\ KeptIn(Grown, inputPos) /\ MirroredIn(Grown, inputPos)
<1>1. /\ Size \in Nat \ {0} /\ TailSize \in Nat \ {0} /\ Slack \in Nat
      /\ 2 * TailSize <= Size /\ inputPos \in Nat
      /\ TotalSize = Size + TailSize
  BY Laps, SizesAssumption DEF Sizes, TotalSize
<1>2. CASE curSize = TotalSize
  <2>1. Grown = data /\ DOMAIN data = -2..(TotalSize + Slack - 1)
    BY <1>1, <1>2 DEF Grown, Shape
  <2> QED
    BY <2>1 DEF Kept, Mirrored
<1>3. CASE curSize # TotalSize
  <2>1. curSize \in 0..(TailSize - 1) /\ inputPos <= curSize
    BY <1>3 DEF Shape
  <2> DEFINE longer == InitBuffer(TotalSize)
  <2>2. DOMAIN longer = -2..(TotalSize + Slack - 1)
    BY DEF InitBuffer
  <2>3. Grown = Clear(longer, Size - 2, 2)
    BY <1>1, <2>1 DEF Grown
  <2>4. \A j \in DOMAIN data : j >= 0 /\ j < TailSize => longer[j] = data[j]
    BY <1>1, <2>1 DEF InitBuffer, Shape
  <2> HIDE DEF longer
  <2>5. /\ DOMAIN Grown = DOMAIN longer
        /\ \A j \in DOMAIN longer :
              Grown[j] = IF Size - 2 <= j /\ j < Size - 2 + 2 THEN Zero
                         ELSE longer[j]
    BY <1>1, <2>2, <2>3 DEF Clear
  <2>6. ASSUME NEW p \in HistoryOf(inputPos)
        PROVE  p \in 0..(Size - 1) /\ p % Size = p /\ Grown[p] = p
    <3>1. p \in Nat /\ p < inputPos
      BY <1>1 DEF HistoryOf, Greatest
    <3>2. p \in 0..(Size - 1)
      BY <1>1, <2>1, <3>1
    <3>3. p % Size = p
      BY <1>1, <3>2, ModSmall
    <3>4. p \in DOMAIN data /\ data[p] = p
      BY <1>1, <2>1, <3>1, <3>3 DEF Shape, Kept, KeptIn
    <3>5. p \in DOMAIN longer /\ p < Size - 2
      BY <1>1, <2>1, <2>2, <3>1
    <3> QED
      BY <1>1, <2>1, <2>4, <2>5, <3>1, <3>2, <3>3, <3>4, <3>5
  <2> QED
    BY <1>1, <2>2, <2>5, <2>6 DEF KeptIn, MirroredIn
<1> QED
  BY <1>2, <1>3
-----------------------------------------------------------------------------
(* What each of the three ways of RingBufferWrite leaves.                  *)
Written(n) ==
    /\ panicked' = panicked
    /\ inputPos' = inputPos + n
    /\ ringPos' = WrapRingPos(inputPos + n)
    /\ curSize' \in 1..(TailSize - 1) \cup {TotalSize}
    /\ curSize' # TotalSize => inputPos + n <= curSize'
    /\ DOMAIN data' = -2..(curSize' + Slack - 1)
    /\ KeptIn(data', inputPos + n)
    /\ MirroredIn(data', inputPos + n)

(* On the first lap a byte is at its position.                             *)
LEMMA FirstLap ==
    ASSUME WindowFits, NEW e \in 0..(Size - 1), NEW buf,
           \A p \in 0..(e - 1) : buf[p] = p
    PROVE  KeptIn(buf, e) /\ MirroredIn(buf, e)
<1>1. Size \in Nat \ {0} /\ e \in Nat /\ e < Size
  BY Laps
<1>2. ASSUME NEW p \in HistoryOf(e)
      PROVE  p \in 0..(e - 1) /\ p \in 0..(Size - 1) /\ p % Size = p
  <2>1. p \in 0..(e - 1) /\ p \in 0..(Size - 1)
    BY <1>1 DEF HistoryOf, Greatest
  <2> QED
    BY <1>1, <2>1, ModSmall
<1> QED
  BY <1>1, <1>2 DEF KeptIn, MirroredIn

(* The first short write.                                                  *)
LEMMA FirstWritten ==
    ASSUME WindowFits, Sizes, Shape, NEW n \in 1..Size, WriteFirst(n)
    PROVE  Written(n)
<1>1. /\ Size \in Nat \ {0} /\ TailSize \in Nat \ {0} /\ Slack \in Nat
      /\ WrapAt \in Nat /\ Size <= WrapAt /\ 2 * TailSize <= Size
      /\ inputPos \in Nat /\ n \in Nat /\ n > 0
      /\ TotalSize = Size + TailSize /\ compactSize \in 0..(TailSize - 1)
  BY Laps, SizesAssumption DEF Sizes, TotalSize, WindowFits
<1>2. ringPos = 0 /\ n < TailSize
  BY DEF WriteFirst
<1>3. inputPos = 0
  <2>1. WrapRingPos(inputPos) < Size => WrapRingPos(inputPos) = inputPos
    BY <1>1, WrapRingPosRange
  <2> QED
    BY <1>1, <1>2, <2>1 DEF Shape
<1> DEFINE cur == Greatest(n, compactSize)
           fresh == InitBuffer(cur)
           buf == Clear(Copy(fresh, 0, inputPos, n), n, Slack)
<1>4. cur \in 1..(TailSize - 1) /\ n <= cur
  BY <1>1, <1>2 DEF Greatest
<1>5. DOMAIN fresh = -2..(cur + Slack - 1)
  BY DEF InitBuffer
<1> HIDE DEF fresh
<1>6. /\ DOMAIN buf = -2..(cur + Slack - 1)
      /\ \A p \in 0..(n - 1) : buf[p] = p
  <2>1. DOMAIN buf = DOMAIN fresh
    BY DEF Clear, Copy
  <2>2. \A p \in 0..(n - 1) : p \in DOMAIN fresh
    BY <1>1, <1>4, <1>5
  <2>3. \A p \in 0..(n - 1) : buf[p] = p
    BY <1>1, <1>3, <2>2 DEF Clear, Copy
  <2> QED
    BY <1>5, <2>1, <2>3
<1>7. Wrote(buf, cur, n, n)
  BY DEF WriteFirst, fresh
<1> HIDE DEF cur, buf
<1>8. n < Size /\ Fits(buf, n, Slack)
  BY <1>1, <1>2, <1>4, <1>6 DEF Fits
<1>9. /\ data' = Clear(buf, n, Slack) /\ curSize' = cur /\ ringPos' = n
      /\ inputPos' = inputPos + n /\ panicked' = panicked
  BY <1>7, <1>8 DEF Wrote
<1>10. /\ DOMAIN data' = -2..(cur + Slack - 1)
       /\ \A p \in 0..(n - 1) : data'[p] = p
  <2>1. \A p \in 0..(n - 1) : p \in DOMAIN buf
    BY <1>1, <1>4, <1>6
  <2> QED
    BY <1>1, <1>6, <1>9, <2>1 DEF Clear
<1>11. inputPos + n = n /\ n \in 0..(Size - 1) /\ WrapRingPos(n) = n
  BY <1>1, <1>2, <1>3, WrapRingPosRange
<1>12. KeptIn(data', n) /\ MirroredIn(data', n)
  <2>1. PICK d : d = data'
    OBVIOUS
  <2>2. KeptIn(d, n) /\ MirroredIn(d, n)
    BY <1>10, <1>11, <2>1, FirstLap
  <2> QED
    BY <2>1, <2>2
<1> QED
  BY <1>1, <1>4, <1>9, <1>10, <1>11, <1>12 DEF Written

(* A write that fits what was allocated before the full size.              *)
LEMMA CompactWritten ==
    ASSUME WindowFits, Sizes, Shape, Kept, NEW n \in 1..Size, WriteCompact(n)
    PROVE  Written(n)
<1>1. /\ Size \in Nat \ {0} /\ TailSize \in Nat \ {0} /\ Slack \in Nat
      /\ WrapAt \in Nat /\ Size <= WrapAt /\ 2 * TailSize <= Size
      /\ inputPos \in Nat /\ n \in Nat /\ n > 0
      /\ TotalSize = Size + TailSize
  BY Laps, SizesAssumption DEF Sizes, TotalSize, WindowFits
<1>2. curSize \in 0..(TailSize - 1) /\ inputPos <= curSize
  BY <1>1 DEF WriteCompact, HasRoom, Shape
<1>3. ringPos = inputPos
  BY <1>1, <1>2, WrapRingPosRange DEF Shape
<1>4. inputPos + n <= curSize /\ curSize # 0
  BY <1>1, <1>3 DEF WriteCompact, HasRoom
<1>5. DOMAIN data = -2..(curSize + Slack - 1)
  BY <1>4 DEF Shape
<1>6. \A p \in 0..(inputPos - 1) : data[p] = p
  <2> TAKE p \in 0..(inputPos - 1)
  <2>1. p \in 0..(Size - 1) /\ p \in HistoryOf(inputPos)
    BY <1>1, <1>2 DEF HistoryOf, Greatest
  <2>2. p % Size = p
    BY <1>1, <2>1, ModSmall
  <2> QED
    BY <2>1, <2>2 DEF Kept, KeptIn
<1> DEFINE e == inputPos + n
           buf == Clear(Copy(data, inputPos, inputPos, n), e, Slack)
<1>7. e \in Nat /\ e < Size /\ Fits(data, e, Slack)
  BY <1>1, <1>2, <1>4, <1>5 DEF Fits
<1>8. Wrote(buf, curSize, e, n)
  BY <1>3, <1>7 DEF WriteCompact
<1>9. DOMAIN buf = DOMAIN data
  BY DEF Clear, Copy
<1>10. \A p \in 0..(e - 1) : buf[p] = p
  <2>1. \A p \in 0..(e - 1) : p \in DOMAIN data
    BY <1>1, <1>2, <1>4, <1>5
  <2> QED
    BY <1>1, <1>6, <2>1 DEF Clear, Copy
<1> HIDE DEF buf
<1>11. Fits(buf, e, Slack)
  BY <1>7, <1>9 DEF Fits
<1>12. /\ data' = Clear(buf, e, Slack) /\ curSize' = curSize /\ ringPos' = e
       /\ inputPos' = e /\ panicked' = panicked
  BY <1>7, <1>8, <1>11 DEF Wrote
<1>13. /\ DOMAIN data' = DOMAIN data
       /\ \A p \in 0..(e - 1) : data'[p] = p
  <2>1. \A p \in 0..(e - 1) : p \in DOMAIN buf
    BY <1>1, <1>2, <1>4, <1>5, <1>9
  <2> QED
    BY <1>7, <1>9, <1>10, <1>12, <2>1 DEF Clear
<1>14. e \in 0..(Size - 1) /\ WrapRingPos(e) = e
  BY <1>1, <1>7, WrapRingPosRange
<1>15. KeptIn(data', e) /\ MirroredIn(data', e)
  <2>1. PICK d : d = data'
    OBVIOUS
  <2>2. PICK x \in 0..(Size - 1) : x = e
    BY <1>14
  <2>3. KeptIn(d, x) /\ MirroredIn(d, x)
    BY <1>13, <2>1, <2>2, FirstLap
  <2> QED
    BY <2>1, <2>2, <2>3
<1> QED
  BY <1>1, <1>2, <1>4, <1>5, <1>12, <1>13, <1>14, <1>15 DEF Written

(* A write into the full ring, in one piece or in two.                     *)
LEMMA RingWritten ==
    ASSUME WindowFits, Sizes, Shape, Kept, Mirrored, NEW n \in 1..Size,
           n <= TailSize \/ inputPos = 0, WriteRing(n)
    PROVE  Written(n)
<1>1. /\ Size \in Nat \ {0} /\ TailSize \in Nat \ {0} /\ Slack \in Nat
      /\ WrapAt \in Nat /\ Size <= WrapAt /\ 2 * TailSize <= Size
      /\ inputPos \in Nat /\ n \in Nat \ {0}
      /\ TotalSize = Size + TailSize
  BY Laps, SizesAssumption DEF Sizes, TotalSize, WindowFits
<1>2. PICK x \in Nat : x = inputPos
  BY <1>1
<1>3. PICK buf : buf = Grown
  OBVIOUS
<1>4. PICK m \in 0..(Size - 1) : m = x % Size
  BY <1>1, <1>2, DivMod
<1>5. PICK lap : lap = LastTwo(WriteLap(WriteTail(buf, n), n))
  OBVIOUS
<1>6. /\ DOMAIN buf = -2..(TotalSize + Slack - 1)
      /\ KeptIn(buf, x) /\ MirroredIn(buf, x)
  BY <1>2, <1>3, GrownHolds
<1>7. LapHolds(lap, buf, x, m, n)
  <2>1. m = inputPos % Size /\ DOMAIN buf = -2..(TotalSize + Slack - 1)
    BY <1>2, <1>4, <1>6
  <2>2. LapHolds(lap, buf, inputPos, m, n)
    BY <1>5, <2>1, LapBytes
  <2> QED
    BY <1>2, <2>2
<1> USE DEF LapHolds
<1>8. KeptIn(lap, x + n) /\ MirroredIn(lap, x + n)
  <2> SUFFICES ASSUME NEW p \in HistoryOf(x + n)
               PROVE  /\ lap[p % Size] = p
                      /\ p >= Size /\ p % Size < TailSize
                           => lap[Size + (p % Size)] = p
    BY DEF KeptIn, MirroredIn
  <2>1. PICK j : j = p % Size
    OBVIOUS
  <2>2. /\ j \in 0..(Size - 1) /\ p \in Nat
        /\ p >= x => \/ m <= j /\ j < m + n /\ p = x + j - m
                     \/ j < m /\ j < m + n - Size /\ p = x + Size - m + j
        /\ p < x => ~(m <= j /\ j < m + n) /\ ~(j < m + n - Size)
    BY <1>4, <2>1, Places
  <2>3. CASE p >= x
    <3>1. lap[j] = p
      BY <1>1, <1>4, <1>7, <2>2, <2>3
    <3>2. j < TailSize => lap[Size + j] = p
      <4> SUFFICES ASSUME j < TailSize PROVE lap[Size + j] = p
        OBVIOUS
      <4>1. j \in 0..(TailSize - 1)
        BY <1>1, <2>2
      <4>2. lap[Size + j] = IF m <= j /\ j < m + n THEN x + j - m
                            ELSE IF j < m + n - Size THEN x + Size - m + j
                            ELSE buf[Size + j]
        BY <1>7, <4>1
      <4> QED
        BY <1>1, <1>4, <2>2, <2>3, <4>2
    <3> QED
      BY <2>1, <3>1, <3>2
  <2>4. CASE ~(p >= x)
    <3>1. p < x /\ p \in HistoryOf(x)
      BY <1>1, <2>2, <2>4 DEF HistoryOf, Greatest
    <3>2. buf[j] = p /\ (p >= Size /\ j < TailSize => buf[Size + j] = p)
      BY <1>6, <2>1, <3>1 DEF KeptIn, MirroredIn
    <3>3. lap[j] = buf[j]
      BY <1>7, <2>2, <3>1
    <3>4. j < TailSize => lap[Size + j] = buf[Size + j]
      <4> SUFFICES ASSUME j < TailSize PROVE lap[Size + j] = buf[Size + j]
        OBVIOUS
      <4>1. j \in 0..(TailSize - 1)
        BY <1>1, <2>2
      <4> QED
        BY <1>7, <2>2, <3>1, <4>1
    <3> QED
      BY <2>1, <3>2, <3>3, <3>4
  <2> QED
    BY <2>3, <2>4
<1>9. PICK pos \in Nat : pos = WrapRingPos(ringPos + n)
  <2>1. x + n \in Nat
    BY <1>1
  <2>2. WrapRingPos(x + n) \in 0..(2 * WrapAt)
    BY <2>1, WrapRingPosRange
  <2>3. WrapRingPos(ringPos + n) = WrapRingPos(x + n)
    BY <1>1, <1>2, WrapRingPosStep DEF Shape
  <2> QED
    BY <1>1, <2>2, <2>3
<1>10. pos = WrapRingPos(x + n) /\ (pos < Size => pos = x + n)
  <2>1. WrapRingPos(ringPos + n) = WrapRingPos(x + n)
    BY <1>1, <1>2, WrapRingPosStep DEF Shape
  <2>2. x + n \in Nat
    BY <1>1
  <2> QED
    BY <1>9, <2>1, <2>2, WrapRingPosRange
<1>11. Wrote(lap, TotalSize, pos, n)
  BY <1>3, <1>5, <1>9 DEF WriteRing
<1>12. pos < Size => Fits(lap, pos, Slack)
  BY <1>1, <1>6, <1>7 DEF Fits
<1>13. /\ data' = IF pos < Size THEN Clear(lap, pos, Slack) ELSE lap
       /\ curSize' = TotalSize /\ ringPos' = pos
       /\ inputPos' = inputPos + n /\ panicked' = panicked
  BY <1>11, <1>12 DEF Wrote
<1>14. PICK d : d = data'
  OBVIOUS
<1>15. DOMAIN d = DOMAIN lap /\ KeptIn(d, x + n) /\ MirroredIn(d, x + n)
  <2>1. CASE pos < Size
    <3>1. d = Clear(lap, pos, Slack)
      BY <1>13, <1>14, <2>1
    <3>2. \A j \in DOMAIN lap : j < pos => d[j] = lap[j]
      BY <1>1, <1>6, <1>7, <3>1 DEF Clear
    <3>3. x + n \in 0..(Size - 1) /\ pos = x + n
      BY <1>1, <1>10, <2>1
    <3>4. ASSUME NEW p \in 0..(x + n - 1)
          PROVE  d[p] = p
      <4>1. p \in 0..(Size - 1) /\ p \in HistoryOf(x + n) /\ p < pos
        BY <1>1, <3>3 DEF HistoryOf, Greatest
      <4>2. p % Size = p
        BY <1>1, <4>1, ModSmall
      <4>3. p \in DOMAIN lap
        BY <1>1, <1>6, <1>7, <4>1
      <4> QED
        BY <1>8, <3>2, <4>1, <4>2, <4>3 DEF KeptIn
    <3>5. DOMAIN d = DOMAIN lap
      BY <3>1 DEF Clear
    <3> QED
      BY <3>3, <3>4, <3>5, FirstLap
  <2>2. CASE ~(pos < Size)
    BY <1>8, <1>13, <1>14, <2>2
  <2> QED
    BY <2>1, <2>2
<1> QED
  BY <1>1, <1>2, <1>6, <1>7, <1>10, <1>13, <1>14, <1>15 DEF Written

(* Every write keeps the invariant.                                        *)
LEMMA WriteCorrect ==
    ASSUME WindowFits, Sizes, Shape, Kept, Mirrored, NEW n \in 1..Size,
           n <= TailSize \/ inputPos = 0, RingBufferWrite(n)
    PROVE  Written(n)
  BY FirstWritten, CompactWritten, RingWritten DEF RingBufferWrite

(* A write leaves the parts of the invariant that are about the buffer.    *)
LEMMA WrittenHolds ==
    ASSUME WindowFits, Sizes, NEW n \in 1..Size, Written(n)
    PROVE  Shape' /\ Kept' /\ Mirrored' /\ ~panicked'
<1>1. TailSize \in Nat \ {0} /\ TotalSize \in Nat \ {0} /\ TotalSize' = TotalSize
  BY SizesAssumption DEF TotalSize
<1>2. ~panicked
  BY DEF Sizes
<1> QED
  BY <1>1, <1>2 DEF Written, Shape, Kept, Mirrored, KeptIn, MirroredIn,
                    HistoryOf, TotalSize

-----------------------------------------------------------------------------
(* The wrapped positions in the hash tables.                               *)
LEMMA SetDictionaryHashes ==
    ASSUME WindowFits, Sizes, NEW d \in 1..Size, inputPos = 0,
           lastProcessed' = d, hashed' = [p \in 0..(d - 1) |-> p]
    PROVE  Hashed'
<1>1. /\ WrapAt \in Nat /\ Size \in Nat /\ Size <= WrapAt /\ 0 \in Nat
      /\ d \in 0..WrapAt /\ d \in Nat
  BY Laps DEF WindowFits
<1>2. WrapPosition(0) = 0
  <2>1. WrapAt \in Nat \ {0} /\ 0 \in 0..(WrapAt - 1) /\ WrapAt * 0 + 0 = 0
    BY Laps
  <2>2. WrapPosition(WrapAt * 0 + 0) = Round(0) * WrapAt + 0
    BY <1>1, <2>1, WrapPositionIs
  <2>3. Round(0) * WrapAt + 0 = 0
    BY <2>1 DEF Round
  <2> QED
    BY <2>1, <2>2, <2>3
<1>3. WrapPosition(d) = d
  <2>1. /\ WrapPosition(d) \in Nat
        /\ \/ WrapPosition(0 + d) = WrapPosition(0) + d
           \/ WrapPosition(0 + d) = WrapPosition(0) + d - 2 * WrapAt
    BY <1>1, WrapPositionStep
  <2>2. 0 + d = d /\ d - 2 * WrapAt < 0
    <3>1. d <= WrapAt /\ d > 0
      BY <1>1
    <3> QED
      BY <1>1, <3>1
  <2> QED
    BY <1>1, <1>2, <2>1, <2>2
<1>4. WrapPosition(lastProcessed)' = d
  BY <1>3 DEF WrapPosition
<1>5. \A p \in 0..(d - 1) : p \in Int /\ p = d - (d - p)
  BY <1>1
<1> QED
  BY <1>4, <1>5 DEF Hashed

(* Encoding hashes positions in reach, or resets the tables first.         *)
LEMMA EncodeDataHashes ==
    ASSUME WindowFits, Sizes, Hashed, EncodeData
    PROVE  Hashed'
<1>1. /\ WrapAt \in Nat \ {0} /\ TailSize \in Nat /\ TailSize <= WrapAt
      /\ inputPos \in Nat /\ lastProcessed \in Nat
  BY Laps, SizesAssumption DEF WindowFits, Sizes
<1>2. PICK n \in 0..WrapAt : n = inputPos - lastProcessed
  BY <1>1 DEF Sizes
<1>3. lastProcessed + n = inputPos /\ n \in Nat
  BY <1>1, <1>2
<1>4. /\ WrapPosition(lastProcessed) \in Nat
      /\ \/ WrapPosition(lastProcessed + n) = WrapPosition(lastProcessed) + n
         \/ WrapPosition(lastProcessed + n)
               = WrapPosition(lastProcessed) + n - 2 * WrapAt
  BY <1>1, WrapPositionStep
<1>5. lastProcessed' = inputPos
  BY DEF EncodeData
<1>6. WrapPosition(lastProcessed)' = WrapPosition(inputPos)
  BY <1>5 DEF WrapPosition
<1>7. CASE MustReset
  <2>1. DOMAIN hashed' = {}
    BY <1>7 DEF EncodeData
  <2> QED
    BY <2>1 DEF Hashed
<1>8. CASE ~MustReset
  <2> DEFINE w == WrapPosition(lastProcessed)
  <2>1. WrapPosition(inputPos) = w + n
    <3>1. w + n - 2 * WrapAt < w
      BY <1>1, <1>2, <1>4
    <3>2. ~(WrapPosition(inputPos) < w)
      BY <1>8 DEF MustReset
    <3> QED
      BY <1>3, <1>4, <3>1, <3>2
  <2> HIDE DEF w
  <2> DEFINE first == lastProcessed - (IF w >= 3 THEN 3 ELSE 0)
             known == {p \in DOMAIN hashed : p >= inputPos - Size}
  <2>2. Stored = [p \in first..(inputPos - 1) |-> w + p - lastProcessed]
    BY DEF Stored, w
  <2>3. first \in Int
    BY <1>1
  <2>4. hashed' = [p \in known \cup DOMAIN Stored |->
                     IF p \in DOMAIN Stored THEN Stored[p] ELSE hashed[p]]
    BY <1>8 DEF EncodeData
  <2> HIDE DEF first
  <2>5. ASSUME NEW p \in DOMAIN hashed'
        PROVE  p \in Int /\ hashed'[p] = (w + n) - (inputPos - p)
    <3>1. CASE p \in DOMAIN Stored
      <4>1. p \in Int
        BY <1>1, <2>2, <2>3, <3>1
      <4>2. hashed'[p] = w + p - lastProcessed
        BY <2>2, <2>4, <3>1
      <4> QED
        BY <1>1, <1>3, <1>4, <4>1, <4>2 DEF w
    <3>2. CASE p \notin DOMAIN Stored
      <4>1. p \in DOMAIN hashed /\ hashed'[p] = hashed[p]
        BY <2>4, <2>5, <3>2
      <4>2. p \in Int /\ hashed[p] = w - (lastProcessed - p)
        BY <4>1 DEF Hashed, w
      <4> QED
        BY <1>1, <1>3, <1>4, <4>1, <4>2 DEF w
    <3> QED
      BY <3>1, <3>2
  <2> QED
    BY <1>5, <1>6, <2>1, <2>5 DEF Hashed
<1> QED
  BY <1>7, <1>8

-----------------------------------------------------------------------------
(* The invariant holds at the start and is kept by every step.             *)
LEMMA InitIInv ==
    ASSUME WindowFits, Init
    PROVE  IInv
<1>1. /\ Size \in Nat \ {0} /\ TailSize \in Nat \ {0} /\ WrapAt \in Nat \ {0}
      /\ Size <= WrapAt /\ Hints \subseteq Nat
  BY Laps, SizesAssumption DEF WindowFits
<1>2. Sizes
  <2>1. PICK h \in Hints : compactSize = IF h < TailSize THEN h ELSE 0
    BY DEF Init
  <2>2. compactSize \in 0..(TailSize - 1)
    BY <1>1, <2>1
  <2> QED
    BY <1>1, <2>2 DEF Init, Sizes
<1>3. Shape
  BY <1>1 DEF Init, Shape, WrapRingPos
<1>4. HistoryOf(inputPos) = {}
  BY <1>1 DEF Init, HistoryOf, Greatest
<1>5. Hashed
  BY DEF Init, Hashed
<1> QED
  BY <1>2, <1>3, <1>4, <1>5 DEF IInv, Kept, KeptIn, Mirrored, MirroredIn

LEMMA NextIInv ==
    ASSUME WindowFits, IInv, [Next]_vars
    PROVE  IInv'
<1>1. /\ Size \in Nat \ {0} /\ TailSize \in Nat \ {0} /\ 2 * TailSize <= Size
      /\ Dicts \subseteq 0..Size /\ inputPos \in Nat /\ lastProcessed \in Nat
      /\ lastProcessed <= inputPos /\ compactSize \in 0..(TailSize - 1)
  BY Laps, SizesAssumption DEF IInv, Sizes
<1>2. ASSUME NEW d \in Dicts, SetDictionary(d) PROVE IInv'
  <2>1. d \in 1..Size /\ inputPos = 0 /\ RingBufferWrite(d)
    BY <1>1, <1>2 DEF SetDictionary
  <2>2. Written(d)
    BY <2>1, WriteCorrect DEF IInv
  <2>3. Shape' /\ Kept' /\ Mirrored' /\ ~panicked'
    BY <2>1, <2>2, WrittenHolds DEF IInv
  <2>4. inputPos' = d /\ lastProcessed' = d /\ compactSize' = compactSize
    BY <1>1, <1>2, <2>1, <2>2 DEF SetDictionary, Written
  <2>5. Sizes'
    BY <1>1, <2>1, <2>3, <2>4 DEF Sizes
  <2>6. Hashed'
    BY <1>2, <2>1, SetDictionaryHashes DEF SetDictionary, IInv
  <2> QED
    BY <2>3, <2>5, <2>6 DEF IInv
<1>3. ASSUME NEW n \in 1..TailSize, CopyInput(n) PROVE IInv'
  <2>1. n \in 1..Size /\ n <= TailSize /\ RingBufferWrite(n)
    BY <1>1, <1>3 DEF CopyInput
  <2>2. Written(n)
    BY <2>1, WriteCorrect DEF IInv
  <2>3. Shape' /\ Kept' /\ Mirrored' /\ ~panicked'
    BY <2>1, <2>2, WrittenHolds DEF IInv
  <2>4. /\ inputPos' = inputPos + n /\ lastProcessed' = lastProcessed
        /\ compactSize' = compactSize /\ hashed' = hashed
        /\ n <= TailSize - (inputPos - lastProcessed)
    BY <1>3, <2>2 DEF CopyInput, Written
  <2>5. Sizes'
    BY <1>1, <2>1, <2>3, <2>4 DEF Sizes
  <2>6. Hashed'
    BY <2>4 DEF IInv, Hashed, WrapPosition
  <2> QED
    BY <2>3, <2>5, <2>6 DEF IInv
<1>4. CASE EncodeData
  <2>1. Hashed'
    BY <1>4, EncodeDataHashes DEF IInv
  <2>2. Sizes'
    BY <1>1, <1>4 DEF IInv, Sizes, EncodeData, buffer
  <2>3. UNCHANGED <<compactSize, buffer, panicked>>
    BY <1>4 DEF EncodeData
  <2>4. Shape' /\ Kept' /\ Mirrored'
    BY <2>3 DEF IInv, buffer, Shape, Kept, KeptIn, Mirrored, MirroredIn,
                HistoryOf, WrapRingPos
  <2> QED
    BY <2>1, <2>2, <2>4 DEF IInv
<1>5. CASE UNCHANGED vars
  BY <1>5 DEF vars, buffer, IInv, Sizes, Shape, Kept, KeptIn, Mirrored,
              MirroredIn, HistoryOf, WrapRingPos, Hashed, WrapPosition
<1> QED
  BY <1>2, <1>3, <1>4, <1>5 DEF Next

(* The inductive invariant is one.                                         *)
THEOREM InductiveInvariant ==
    ASSUME WindowFits
    PROVE  Spec => []IInv
<1>1. Init => IInv
  BY InitIInv
<1>2. IInv /\ [Next]_vars => IInv'
  BY NextIInv
<1> QED
  BY <1>1, <1>2, PTL DEF Spec
-----------------------------------------------------------------------------
(* What the invariant says of the properties.                              *)
LEMMA IInvTypeOK ==
    ASSUME WindowFits, IInv
    PROVE  TypeOK
<1>1. WrapRingPos(inputPos) \in 0..(2 * WrapAt)
  BY WrapRingPosRange DEF IInv, Sizes
<1> QED
  BY <1>1 DEF IInv, Sizes, Shape, TypeOK

LEMMA IInvRuns ==
    ASSUME WindowFits, IInv
    PROVE  RunsAreContiguous
<1>1. /\ Size \in Nat \ {0} /\ TailSize \in Nat \ {0} /\ inputPos \in Nat
      /\ 2 * TailSize <= Size
  BY Laps, SizesAssumption DEF IInv, Sizes
<1>2. ASSUME NEW p \in HistoryOf(inputPos),
             NEW i \in 0..Least(TailSize, inputPos - p) - 1
      PROVE  data[Masked(WrapPosition(p)) + i] = p + i
  <2>1. /\ p \in Nat /\ p >= inputPos - Size /\ p < inputPos
        /\ i \in Nat /\ i < TailSize /\ p + i < inputPos
    BY <1>1 DEF HistoryOf, Greatest, Least
  <2>2. Masked(WrapPosition(p)) = p % Size
    BY <2>1, MaskedWrapPosition
  <2>3. i \in 0..(Size - 1) /\ p + i \in HistoryOf(inputPos)
    BY <1>1, <2>1 DEF HistoryOf, Greatest
  <2>4. p % Size \in 0..(Size - 1)
    BY <1>1, <2>1, DivMod
  <2>5. (p + i) % Size = IF (p % Size) + i < Size THEN (p % Size) + i
                         ELSE (p % Size) + i - Size
    BY <1>1, <2>1, <2>3, ModStep
  <2>6. CASE (p % Size) + i < Size
    BY <2>2, <2>3, <2>5, <2>6 DEF IInv, Kept, KeptIn
  <2>7. CASE ~((p % Size) + i < Size)
    <3>1. (p + i) % Size < TailSize
      BY <1>1, <2>1, <2>4, <2>5, <2>7
    <3>2. p + i >= Size
      <4> SUFFICES ASSUME p + i < Size PROVE FALSE
        BY <1>1, <2>1
      <4>1. p \in 0..(Size - 1)
        BY <1>1, <2>1
      <4>2. p % Size = p
        BY <1>1, <4>1, ModSmall
      <4> QED
        BY <1>1, <2>1, <2>7, <4>2
    <3>3. data[Size + ((p + i) % Size)] = p + i
      BY <2>3, <3>1, <3>2 DEF IInv, Mirrored, MirroredIn
    <3>4. Size + ((p + i) % Size) = (p % Size) + i
      BY <1>1, <2>1, <2>4, <2>5, <2>7
    <3> QED
      BY <2>2, <3>3, <3>4
  <2> QED
    BY <2>6, <2>7
<1> QED
  BY <1>2 DEF RunsAreContiguous, History, HistoryOf

LEMMA IInvDistances ==
    ASSUME WindowFits, IInv
    PROVE  DistancesAreReal
<1>1. lastProcessed \in Nat /\ 0 \in 0..WrapAt
  BY Laps DEF IInv, Sizes
<1>2. WrapPosition(lastProcessed) \in Nat
  BY <1>1, WrapPositionStep
<1>3. ASSUME NEW p \in DOMAIN hashed
      PROVE  WrapPosition(lastProcessed) - hashed[p] = lastProcessed - p
  <2>1. /\ p \in Int
        /\ hashed[p] = WrapPosition(lastProcessed) - (lastProcessed - p)
    BY DEF IInv, Hashed
  <2>2. PICK w \in Nat : w = WrapPosition(lastProcessed)
    BY <1>2
  <2> QED
    BY <1>1, <2>1, <2>2
<1> QED
  BY <1>3 DEF DistancesAreReal

(* No write, whatever the hint, the dictionary and the lengths, runs past  *)
(* the end of the allocation.                                              *)
THEOREM TypeCorrect ==
    ASSUME WindowFits
    PROVE  Spec => []TypeOK
<1>1. IInv => TypeOK
  BY IInvTypeOK
<1> QED
  BY <1>1, InductiveInvariant, PTL

(* A run of up to TailSize bytes of the history is read on over the end of *)
(* the lap without a mask.                                                 *)
THEOREM RunsCorrect ==
    ASSUME WindowFits
    PROVE  Spec => []RunsAreContiguous
<1>1. IInv => RunsAreContiguous
  BY IInvRuns
<1> QED
  BY <1>1, InductiveInvariant, PTL

(* A distance computed from a remembered wrapped position is the real one, *)
(* however often the positions have gone round.                            *)
THEOREM DistancesCorrect ==
    ASSUME WindowFits
    PROVE  Spec => []DistancesAreReal
<1>1. IInv => DistancesAreReal
  BY IInvDistances
<1> QED
  BY <1>1, InductiveInvariant, PTL

-----------------------------------------------------------------------------
(* The buffer is a sliding window.  Under Kept, what is read back at the   *)
(* positions of the history is a run of consecutive bytes.                 *)
HistorySeq(end) ==
    [i \in 1..Least(end, Size) |-> Greatest(0, end - Size) + i - 1]

(* The last Size bytes can be read back, in order.                         *)
LEMMA ReadBack ==
    ASSUME WindowFits, NEW e \in Nat, NEW buf, KeptIn(buf, e)
    PROVE  [i \in 1..Least(e, Size) |->
               buf[Masked(WrapPosition(Greatest(0, e - Size) + i - 1))]]
           = HistorySeq(e)
<1>1. Size \in Nat \ {0}
  BY Laps
<1>2. ASSUME NEW i \in 1..Least(e, Size)
      PROVE  buf[Masked(WrapPosition(Greatest(0, e - Size) + i - 1))]
             = Greatest(0, e - Size) + i - 1
  <2>1. PICK p \in Nat : p = Greatest(0, e - Size) + i - 1
    BY <1>1 DEF Greatest
  <2>2. p \in HistoryOf(e)
    BY <1>1, <2>1 DEF HistoryOf, Greatest, Least
  <2>3. Masked(WrapPosition(p)) = p % Size
    BY MaskedWrapPosition
  <2> QED
    BY <2>1, <2>2, <2>3 DEF KeptIn
<1> QED
  BY <1>2 DEF HistorySeq

(* The last Size of the old history and n new bytes.                       *)
LEMMA WindowSlides ==
    ASSUME NEW e \in Nat, NEW n \in 1..Size, Size \in Nat \ {0}
    PROVE  HistorySeq(e + n)
           = Window!Last(HistorySeq(e) \o [i \in 1..n |-> e + i - 1], Size)
<1>1. n \in Nat
  OBVIOUS
<1>2. PICK k \in Nat : k = Least(e, Size)
  BY DEF Least
<1>3. PICK f \in Nat : f = Greatest(0, e - Size)
  BY DEF Greatest
<1>4. f + k = e /\ k <= Size /\ (f > 0 => k = Size)
  BY <1>2, <1>3 DEF Least, Greatest
<1> DEFINE old == [i \in 1..k |-> f + i - 1]
           new == [i \in 1..n |-> e + i - 1]
           all == [i \in 1..(k + n) |-> f + i - 1]
<1>5. HistorySeq(e) = old
  BY <1>2, <1>3 DEF HistorySeq
<1>6. old \in Seq(Int) /\ Len(old) = k /\ new \in Seq(Int) /\ Len(new) = n
  <2>1. \A i \in 1..k : f + i - 1 \in Int
    BY <1>2, <1>3
  <2>2. \A i \in 1..n : e + i - 1 \in Int
    BY <1>1
  <2> QED
    BY <1>1, <1>2, <2>1, <2>2, IsASeq
<1>7. old \o new = all
  <2>1. all \in Seq(Int) /\ Len(all) = k + n
    <3>1. \A i \in 1..(k + n) : f + i - 1 \in Int
      BY <1>2, <1>3
    <3>2. k + n \in Nat
      BY <1>1
    <3> QED
      BY <3>1, <3>2, IsASeq
  <2>2. old \o new \in Seq(Int) /\ Len(old \o new) = k + n
    BY <1>6, ConcatProperties
  <2>3. ASSUME NEW i \in 1..(k + n)
        PROVE  (old \o new)[i] = all[i]
    <3>1. (old \o new)[i] = IF i <= Len(old) THEN old[i]
                            ELSE new[i - Len(old)]
      BY <1>6, ConcatProperties
    <3>2. CASE i <= k
      BY <1>1, <1>6, <3>1, <3>2
    <3>3. CASE ~(i <= k)
      <4>1. i - k \in 1..n
        BY <1>1, <3>3
      <4> QED
        BY <1>1, <1>4, <1>6, <3>1, <3>3, <4>1
    <3> QED
      BY <3>2, <3>3
  <2> HIDE DEF old, new, all
  <2> QED
    BY <2>1, <2>2, <2>3, SeqEqual
<1> HIDE DEF old, new
<1>8. all \in Seq(Int) /\ Len(all) = k + n
  BY <1>6, <1>7, ConcatProperties
<1>9. PICK s \in 1..(k + n) : s = IF k + n > Size THEN k + n - Size + 1 ELSE 1
  <2>1. 1 \in 1..(k + n)
    BY <1>1
  <2>2. k + n > Size => k + n - Size + 1 \in 1..(k + n)
    BY <1>1, <1>4
  <2> QED
    BY <2>1, <2>2
<1>10. PICK a \in Seq(Int) : a = all
  BY <1>8
<1>11. /\ \A i \in 1..(k + n) : a[i] = f + i - 1
       /\ Len(a) = k + n /\ a = old \o new
  BY <1>7, <1>8, <1>10
<1> HIDE DEF all
<1>12. Window!Last(a, Size) = SubSeq(a, s, k + n)
  BY <1>9, <1>11 DEF Window!Last
<1> DEFINE slid == [i \in 1..(k + n - s + 1) |-> f + (s + i - 1) - 1]
<1>13. SubSeq(a, s, k + n) = slid
  <2>1. /\ s \in Int /\ k + n \in Int /\ s <= k + n
        /\ \A i \in s..(k + n) : a[i] \in Int
    BY <1>1, <1>3, <1>11
  <2>2. /\ SubSeq(a, s, k + n) \in Seq(Int)
        /\ Len(SubSeq(a, s, k + n)) = k + n - s + 1
        /\ \A i \in 1..(k + n - s + 1) : SubSeq(a, s, k + n)[i] = a[s + i - 1]
    BY <2>1, SubSeqProperties
  <2>3. \A i \in 1..(k + n - s + 1) :
           SubSeq(a, s, k + n)[i] = f + (s + i - 1) - 1
    <3> TAKE i \in 1..(k + n - s + 1)
    <3>1. s + i - 1 \in 1..(k + n)
      BY <1>1
    <3> QED
      BY <1>11, <2>2, <3>1
  <2>4. slid \in Seq(Int) /\ Len(slid) = k + n - s + 1
    <3>1. \A i \in 1..(k + n - s + 1) : f + (s + i - 1) - 1 \in Int
      BY <1>3
    <3>2. k + n - s + 1 \in Nat
      BY <1>1
    <3> QED
      BY <3>1, <3>2, IsASeq
  <2>5. \A i \in 1..Len(slid) : SubSeq(a, s, k + n)[i] = slid[i]
    BY <2>3, <2>4
  <2> HIDE DEF slid
  <2> QED
    BY <2>2, <2>4, <2>5, SeqEqual
<1>14. /\ Least(e + n, Size) = k + n - s + 1
       /\ Greatest(0, e + n - Size) = f + s - 1
  BY <1>1, <1>4, <1>9 DEF Least, Greatest
<1>15. HistorySeq(e + n) = [i \in 1..(k + n - s + 1) |-> f + (s + i - 1) - 1]
  <2>1. \A i \in 1..(k + n - s + 1) :
          Greatest(0, e + n - Size) + i - 1 = f + (s + i - 1) - 1
    BY <1>1, <1>14
  <2> QED
    BY <1>14, <2>1 DEF HistorySeq
<1> QED
  BY <1>5, <1>11, <1>12, <1>13, <1>15 DEF new

(* The window that the refinement mapping reads out of the buffer.         *)
ReadSeq ==
    [i \in 1..Least(inputPos, Size) |->
        Read(Greatest(0, inputPos - Size) + i - 1)]

LEMMA ReadSeqIs ==
    ASSUME WindowFits
    PROVE  IInv => ReadSeq = HistorySeq(inputPos)
<1> SUFFICES ASSUME IInv PROVE ReadSeq = HistorySeq(inputPos)
  OBVIOUS
<1>1. PICK e \in Nat : e = inputPos
  BY DEF IInv, Sizes
<1>2. PICK buf : buf = data
  OBVIOUS
<1>3. KeptIn(buf, e)
  BY <1>1, <1>2 DEF IInv, Kept
<1>4. [i \in 1..Least(e, Size) |->
          buf[Masked(WrapPosition(Greatest(0, e - Size) + i - 1))]]
      = HistorySeq(e)
  BY <1>3, ReadBack
<1> QED
  BY <1>1, <1>2, <1>4 DEF ReadSeq, Read

LEMMA ReadSeqIsNext ==
    ASSUME WindowFits
    PROVE  IInv' => ReadSeq' = HistorySeq(inputPos')
<1>1. IInv' => (ReadSeq = HistorySeq(inputPos))'
  BY ReadSeqIs, PTL
<1>2. HistorySeq(inputPos)' = HistorySeq(inputPos')
  BY DEF HistorySeq
<1> QED
  BY <1>1, <1>2

LEMMA WindowInit ==
    ASSUME WindowFits
    PROVE  Init => Window!Init
<1> SUFFICES ASSUME Init PROVE inputPos = 0 /\ ReadSeq = <<>>
  BY DEF Window!Init, ReadSeq
<1>1. Size \in Nat \ {0} /\ inputPos = 0
  BY Laps DEF Init
<1>2. ReadSeq = HistorySeq(0) /\ 1..Least(0, Size) = {}
  BY <1>1, InitIInv, ReadSeqIs DEF Least
<1>3. [i \in {} |-> Greatest(0, 0 - Size) + i - 1] = <<>>
  OBVIOUS
<1> QED
  BY <1>1, <1>2, <1>3 DEF HistorySeq

LEMMA WindowNext ==
    ASSUME WindowFits
    PROVE  IInv /\ IInv' /\ [Next]_vars => [Window!Write]_(Window!vars)
<1> SUFFICES ASSUME IInv, IInv', [Next]_vars
             PROVE  Window!Write \/ UNCHANGED <<inputPos, ReadSeq>>
  BY DEF Window!vars, ReadSeq
<1>1. /\ ReadSeq = HistorySeq(inputPos) /\ ReadSeq' = HistorySeq(inputPos')
      /\ inputPos \in Nat /\ Size \in Nat \ {0}
  BY Laps, ReadSeqIs, ReadSeqIsNext DEF IInv, Sizes
<1>2. ASSUME NEW n \in 1..Size, inputPos' = inputPos + n
      PROVE  Window!Write
  <2>1. PICK e \in Nat : e = inputPos
    BY <1>1
  <2>2. HistorySeq(e + n)
        = Window!Last(HistorySeq(e) \o [i \in 1..n |-> e + i - 1], Size)
    BY <1>1, WindowSlides
  <2>3. ReadSeq' = Window!Last(ReadSeq \o [i \in 1..n |-> inputPos + i - 1],
                               Size)
    BY <1>1, <1>2, <2>1, <2>2
  <2> QED
    BY <1>2, <2>3 DEF Window!Write, ReadSeq
<1>3. ASSUME NEW d \in Dicts, SetDictionary(d) PROVE Window!Write
  <2>1. d \in 1..Size /\ inputPos = 0 /\ RingBufferWrite(d)
    BY <1>1, <1>3, SizesAssumption DEF SetDictionary
  <2>2. Written(d)
    BY <2>1, WriteCorrect DEF IInv
  <2> QED
    BY <1>2, <2>1, <2>2 DEF Written
<1>4. ASSUME NEW n \in 1..TailSize, CopyInput(n) PROVE Window!Write
  <2>1. n \in 1..Size /\ n <= TailSize /\ RingBufferWrite(n)
    BY <1>1, <1>4, SizesAssumption DEF CopyInput
  <2>2. Written(n)
    BY <2>1, WriteCorrect DEF IInv
  <2> QED
    BY <1>2, <2>1, <2>2 DEF Written
<1>5. CASE EncodeData \/ UNCHANGED vars
  BY <1>1, <1>5 DEF EncodeData, vars, buffer
<1> QED
  BY <1>3, <1>4, <1>5 DEF Next

(* The buffer is a sliding window: whatever the lengths of the writes and  *)
(* however often the positions went round, the last Size bytes are read    *)
(* back in order, and no write takes another one away.                     *)
THEOREM Implementation ==
    ASSUME WindowFits
    PROVE  Spec => ImplementsWindow
  BY WindowInit, WindowNext, InductiveInvariant, PTL
  DEF Spec, ImplementsWindow, Window!Spec
=============================================================================
