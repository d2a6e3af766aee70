----------------------------- MODULE ContextMaps -----------------------------
(* The context map on its way into a metablock header (brotli_bit_stream.rs): *)
(* each entry is replaced by its place in a list that moves what was used to  *)
(* the front, and runs of the zeros that makes are shortened.  A code is a    *)
(* record of a symbol and the value of its extra bits.                        *)
EXTENDS Integers, SequencesExt

CONSTANT
    MaxRunPrefix,    \* 6, the longest run prefix EncodeContextMap asks for
    ContextBits      \* 6 for literals, 2 for distances

ASSUME BitsAssumption == MaxRunPrefix \in Nat /\ ContextBits \in Nat \ {0}

Larger(a, b) == IF a > b THEN a ELSE b
Smaller(a, b) == IF a < b THEN a ELSE b

\* 1 << n
Pow2[n \in Nat] == IF n = 0 THEN 1 ELSE 2 * Pow2[n - 1]

ContextCount == Pow2[ContextBits]

Log2Floor(n) == CHOOSE k \in 0 .. n : Pow2[k] <= n /\ n < Pow2[k + 1]

-----------------------------------------------------------------------------
IndexOf(list, value) == CHOOSE k \in DOMAIN list : list[k] = value

ToFront(list, k) ==
    [j \in DOMAIN list |-> IF j = 1 THEN list[k]
                           ELSE IF j <= k THEN list[j - 1] ELSE list[j]]

\* The list after its entry "value" was used.
Used(list, value) == ToFront(list, IndexOf(list, value))

MoveToFrontTransform(values) ==
    LET list[n \in 0 .. Len(values)] ==
            IF n = 0 THEN [k \in 1 .. (Max(Range(values)) + 1) |-> k - 1]
            ELSE Used(list[n - 1], values[n])
    IN [n \in 1 .. Len(values) |-> IndexOf(list[n - 1], values[n]) - 1]

\* The length of the run of zeros from place i on.
Zeros(values, i) ==
    (CHOOSE j \in i .. (Len(values) + 1) :
        /\ j > Len(values) \/ values[j] # 0
        /\ \A k \in i .. (j - 1) : values[k] = 0) - i

\* max_prefix of RunLengthCodeZeros.
RunPrefix(values) ==
    LET longest == Max({Zeros(values, i) : i \in 1 .. Len(values)})
    IN IF longest = 0 THEN 0 ELSE Smaller(Log2Floor(longest), MaxRunPrefix)

RunCode(reps) == [symbol |-> Log2Floor(reps), extra |-> reps - Pow2[Log2Floor(reps)]]

\* The last prefix covers runs below 2 << prefix; what is longer is cut.
RunLengthCodeZeros(values) ==
    LET prefix == RunPrefix(values)
        whole  == 2 * Pow2[prefix] - 1
        coded[i \in 1 .. (Len(values) + 1)] ==
            IF i > Len(values) THEN <<>>
            ELSE IF values[i] # 0
                 THEN <<[symbol |-> values[i] + prefix, extra |-> 0]>> \o coded[i + 1]
            ELSE LET reps == Smaller(Zeros(values, i), whole)
                 IN <<RunCode(reps)>> \o coded[i + reps]
    IN [prefix |-> prefix, codes |-> coded[1]]

\* One cluster needs no map at all.
EncodeContextMap(map, clusters) ==
    IF clusters = 1 THEN [prefix |-> 0, codes |-> <<>>]
    ELSE RunLengthCodeZeros(MoveToFrontTransform(map))

\* All contexts of a type in the cluster of the type, without building the map.
StoreTrivialContextMap(types) ==
    LET repeatCode == ContextBits - 1
        TypeCode(i) == [symbol |-> IF i = 0 THEN 0 ELSE i + ContextBits - 1, extra |-> 0]
        repeat == [symbol |-> repeatCode, extra |-> Pow2[repeatCode] - 1]
    IN IF types = 1 THEN [prefix |-> 0, codes |-> <<>>]
       ELSE [prefix |-> repeatCode,
             codes  |-> [n \in 1 .. (2 * types) |->
                           IF n % 2 = 1 THEN TypeCode(n \div 2) ELSE repeat]]

-----------------------------------------------------------------------------
(* How a decoder reads a map of the given size (RFC 7932, 7.3).               *)
CodeValues(code, prefix) ==
    IF code.symbol = 0 THEN <<0>>
    ELSE IF code.symbol <= prefix THEN [k \in 1 .. (Pow2[code.symbol] + code.extra) |-> 0]
    ELSE <<code.symbol - prefix>>

ReadValues(sent) ==
    FlattenSeq([n \in 1 .. Len(sent.codes) |-> CodeValues(sent.codes[n], sent.prefix)])

ReadMap(sent, size, clusters) ==
    LET values == ReadValues(sent)
        list[n \in 0 .. Len(values)] ==
            IF n = 0 THEN [k \in 1 .. clusters |-> k - 1]
            ELSE ToFront(list[n - 1], values[n] + 1)
    IN IF clusters = 1 THEN [k \in 1 .. size |-> 0]
       ELSE [n \in 1 .. Len(values) |-> list[n - 1][values[n] + 1]]
=============================================================================
