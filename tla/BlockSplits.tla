----------------------------- MODULE BlockSplits -----------------------------
(* One stream of symbols of a metablock (its literals, say): how it is cut    *)
(* into blocks of types while histograms are counted (metablock.rs and        *)
(* block_splitter.rs), and how it is then stored block by block with the      *)
(* codes made from those histograms (brotli_bit_stream.rs), read along by a   *)
(* decoder.                                                                   *)
(*                                                                            *)
(* Symbols are their places in the stream; a histogram is the set of the      *)
(* places it counts.  Costs, and so the choice between starting a new type,   *)
(* going back to the second last one and merging into the last one, are left  *)
(* open, except where they are costs of equal histograms.                     *)
EXTENDS ContextMaps, FiniteSets

CONSTANTS
    Splitters,      \* of "plain", "context", "clustered" and "flat"
    GreedyLengths,  \* lengths of the stream for the first two splitters,
    OtherLengths,   \* and for the other two
    MinBlock,       \* min_block_size_
    MaxTypes,       \* 256
    StaticContexts, \* num_contexts, 2 to 13 for the context splitter
    Contexts,       \* the contexts that occur, of 0..ContextCount - 1
    MaxClusters     \* kMaxNumberOfHistograms

\* 512 and more for MinBlock, 256 types, at most 13 contexts.
ASSUME SplitAssumption ==
    /\ GreedyLengths \subseteq Nat /\ OtherLengths \subseteq Nat
    /\ MinBlock \in Nat \ {0}
    /\ MaxTypes \in Nat
    /\ StaticContexts \in 1 .. MaxTypes
    /\ Contexts \subseteq 0 .. (ContextCount - 1)
    /\ MaxClusters \in Nat \ {0}

VARIABLES
    splitter,
    contexts,       \* of each symbol of the stream
    count,          \* symbols added to the splitter, and then stored
    split,          \* the splitter and the split it makes, see NewSplit
    codes,          \* the histograms whose codes are stored
    map,            \* the context map, <<>> when it is the trivial one
    enc,            \* BlockEncoder
    dec,            \* the decoder's view of the blocks, and its context map
    phase           \* "split", "store" or "panic"

vars == <<splitter, contexts, count, split, codes, map, enc, dec, phase>>

Symbols == 1 .. Len(contexts)
Greedy == splitter \in {"plain", "context"}

-----------------------------------------------------------------------------
(* The greedy splitters.  The histograms of a type are those of its contexts; *)
(* indices count types, in the code they are multiplied by num_contexts_.     *)
HistogramContexts == IF splitter = "context" THEN 0 .. (StaticContexts - 1) ELSE {0}
StaticContextMap(context) == IF splitter = "context" THEN context % StaticContexts ELSE 0
Clear == [c \in HistogramContexts |-> {}]
Joined(h1, h2) == [c \in HistogramContexts |-> h1[c] \cup h2[c]]

MaxBlocks == Len(contexts) \div MinBlock + 1
TypeLimit == IF splitter = "context" THEN MaxTypes \div StaticContexts ELSE MaxTypes

NewSplit ==
    [blockSize |-> 0, target |-> MinBlock, merged |-> 0, curr |-> 0,
     last      |-> <<0, 0>>,        \* last_histogram_ix_
     entropyOf |-> <<Clear, Clear>>,\* what last_entropy_ was computed from
     histograms |-> [t \in 0 .. (Smaller(MaxBlocks, TypeLimit + 1) - 1) |-> Clear],
     types |-> <<>>, lengths |-> <<>>, numTypes |-> 0]

Cleared(s, t) == IF t \in DOMAIN s.histograms
                 THEN [s EXCEPT !.histograms[t] = Clear, !.blockSize = 0]
                 ELSE [s EXCEPT !.blockSize = 0]

FirstBlock(s) ==
    Cleared([s EXCEPT !.types = <<0>>, !.lengths = <<s.blockSize>>,
                      !.entropyOf = <<s.histograms[0], s.histograms[0]>>,
                      !.numTypes = @ + 1, !.curr = @ + 1],
            s.curr + 1)

AnotherBlock(s, type) ==
    [s EXCEPT !.types = Append(@, type), !.lengths = Append(@, s.blockSize),
              !.merged = 0, !.target = MinBlock]

NewType(s) ==
    Cleared([AnotherBlock(s, s.numTypes) EXCEPT
                !.last = <<s.numTypes, s.last[1]>>,
                !.entropyOf = <<s.histograms[s.curr], s.entropyOf[1]>>,
                !.numTypes = @ + 1, !.curr = @ + 1],
            s.curr + 1)

SecondLastType(s) ==
    LET both == Joined(s.histograms[s.curr], s.histograms[s.last[2]])
    IN Cleared([AnotherBlock(s, s.types[Len(s.types) - 1]) EXCEPT
                   !.last = <<s.last[2], s.last[1]>>,
                   !.histograms[s.last[2]] = both,
                   !.entropyOf = <<both, s.entropyOf[1]>>],
               s.curr)

\* A mutant: with one type, the second remembered entropy is not kept up.
MergeIntoLast_OneEntropy(s) ==
    LET both == Joined(s.histograms[s.curr], s.histograms[s.last[1]])
    IN Cleared([s EXCEPT !.lengths[Len(s.lengths)] = @ + s.blockSize,
                         !.histograms[s.last[1]] = both,
                         !.entropyOf[1] = both,
                         !.merged = @ + 1,
                         !.target = IF s.merged >= 1 THEN @ + MinBlock ELSE @],
               s.curr)

MergeIntoLast(s) ==
    LET both == Joined(s.histograms[s.curr], s.histograms[s.last[1]])
    IN Cleared([s EXCEPT
                   !.lengths[Len(s.lengths)] = @ + s.blockSize,
                   !.histograms[s.last[1]] = both,
                   !.entropyOf = <<both, IF s.numTypes = 1 THEN both ELSE @[2]>>,
                   !.merged = @ + 1,
                   !.target = IF s.merged >= 1 THEN @ + MinBlock ELSE @],
               s.curr)

\* diff[j] is 0 if nothing new is added to a histogram whose entropy is known,
\* and diff[0] = diff[1] if both are of the same histogram.
NoDifference(s, j) == /\ s.histograms[s.curr] = Clear
                      /\ s.entropyOf[j] = s.histograms[s.last[j]]
SameDifference(s) == \/ s.last[1] = s.last[2] /\ s.entropyOf[1] = s.entropyOf[2]
                     \/ NoDifference(s, 1) /\ NoDifference(s, 2)
MayBeNew(s) == /\ s.numTypes < TypeLimit
               /\ ~NoDifference(s, 1) /\ ~NoDifference(s, 2)

FinishBlock(before) ==
    LET s == [before EXCEPT !.blockSize = Larger(@, MinBlock)]
    IN IF s.types = <<>> THEN {FirstBlock(s)}
       ELSE {MergeIntoLast(s)}
            \cup (IF MayBeNew(s) THEN {NewType(s)} ELSE {})
            \cup (IF SameDifference(s) THEN {} ELSE {SecondLastType(s)})

\* An index that would be out of bounds: the current histogram's, that of a
\* block more, or that of the second last block when there is but one.
FinishPanics(s) ==
    /\ s.types # <<>>
    /\ \/ s.curr \notin DOMAIN s.histograms
       \/ Len(s.types) >= MaxBlocks
       \/ Len(s.types) = 1 /\ ~SameDifference(s)

Counted(s, p) ==
    [s EXCEPT !.histograms[s.curr][StaticContextMap(contexts[p])] = @ \cup {p},
              !.blockSize = @ + 1]

AddSymbol ==
    /\ phase = "split" /\ Greedy /\ count < Len(contexts)
    /\ count' = count + 1
    /\ IF split.curr \notin DOMAIN split.histograms
       THEN phase' = "panic" /\ UNCHANGED split
       ELSE LET s == Counted(split, count + 1)
            IN IF s.blockSize < s.target THEN split' = s /\ UNCHANGED phase
               ELSE IF FinishPanics(s)
                    THEN phase' = "panic" /\ UNCHANGED split
               ELSE split' \in FinishBlock(s) /\ UNCHANGED phase
    /\ UNCHANGED <<splitter, contexts, codes, map, enc, dec>>

-----------------------------------------------------------------------------
(* BlockEncoder and the decoder start in the first block, of type 0.          *)
StartEncoder(lengths) ==
    [block |-> 1, left |-> IF lengths = <<>> THEN 0 ELSE lengths[1],
     lastType |-> 0, secondLast |-> 1, histogram |-> 0]
StartDecoder(lengths, sentMap) ==
    [type |-> 0, secondLast |-> 1, misread |-> FALSE, histogram |-> 0,
     left |-> IF lengths = <<>> THEN 0 ELSE lengths[1], map |-> sentMap]

\* NextBlockTypeCode, with lastType and secondLast those of the calculator.
NextBlockTypeCode(calculator, type) ==
    IF type = calculator.lastType + 1 THEN 1
    ELSE IF type = calculator.secondLast THEN 0
    ELSE type + 2

\* BuildAndStoreBlockSplitCode: the type codes that are given a code.
CountedTypeCodes(types) ==
    {NextBlockTypeCode([lastType |-> types[k - 1],
                        secondLast |-> IF k = 2 THEN 1 ELSE types[k - 2]],
                       types[k]) : k \in 2 .. Len(types)}

\* The map as the decoder has it.
SentMap(types, clusters, newMap) ==
    IF newMap = <<>>
    THEN ReadMap(StoreTrivialContextMap(types), types * ContextCount, types)
    ELSE ReadMap(EncodeContextMap(newMap, clusters), types * ContextCount, clusters)

Stored(s, newCodes, newMap) ==
    /\ codes' = newCodes
    /\ map' = newMap
    /\ split' = s
    /\ enc' = StartEncoder(s.lengths)
    /\ dec' = StartDecoder(s.lengths,
                            SentMap(s.numTypes, Cardinality(DOMAIN newCodes), newMap))
    /\ count' = 0
    /\ phase' = "store"
    /\ UNCHANGED <<splitter, contexts>>

\* The histograms in the order of the code, and MapStaticContexts.
GreedyCodes(s) ==
    [k \in 0 .. (s.numTypes * Cardinality(HistogramContexts) - 1) |->
        s.histograms[k \div Cardinality(HistogramContexts)]
                    [k % Cardinality(HistogramContexts)]]
GreedyMap(s) ==
    IF splitter = "plain" THEN <<>>
    ELSE [k \in 1 .. (s.numTypes * ContextCount) |->
            ((k - 1) \div ContextCount) * StaticContexts
                + StaticContextMap((k - 1) % ContextCount)]

\* The end of BrotliBuildMetaBlockGreedy: FinishBlock(.., is_final).
FinishGreedy ==
    /\ phase = "split" /\ Greedy /\ count = Len(contexts)
    /\ IF FinishPanics(split)
       THEN /\ phase' = "panic"
            /\ UNCHANGED <<splitter, contexts, count, split, codes, map, enc, dec>>
       ELSE \E s \in FinishBlock(split) : Stored(s, GreedyCodes(s), GreedyMap(s))

-----------------------------------------------------------------------------
(* The splitter of qualities 10 and 11: whatever FindBlocks and the           *)
(* clustering of blocks make of the stream, each symbol ends up in a cluster. *)
FirstSeen(seq) ==
    [v \in Range(seq) |->
        Cardinality(Range(SubSeq(seq, 1, (CHOOSE k \in DOMAIN seq :
            seq[k] = v /\ \A j \in 1 .. (k - 1) : seq[j] # v)))) - 1]

InOrder(positions) ==
    CHOOSE seq \in [1 .. Cardinality(positions) -> positions] :
        \A j, k \in DOMAIN seq : j < k => seq[j] < seq[k]

\* ClusterBlocks: neighbours of one cluster are one block, types are numbered
\* as they are first seen.
ClusterBlocks(cluster) ==
    LET starts == InOrder({p \in Symbols : p = 1 \/ cluster[p] # cluster[p - 1]})
        ends(k) == IF k = Len(starts) THEN Len(contexts) ELSE starts[k + 1] - 1
    IN [NewSplit EXCEPT
          !.types = [k \in DOMAIN starts |-> FirstSeen(cluster)[cluster[starts[k]]]],
          !.lengths = [k \in DOMAIN starts |-> ends(k) - starts[k] + 1],
          !.numTypes = Larger(1, Cardinality(Range(cluster)))]

\* BlockSplitIterator: the type of the block the p-th symbol is in.
TypeAt(s, p) ==
    LET end[k \in 0 .. Len(s.lengths)] ==
            IF k = 0 THEN 0 ELSE end[k - 1] + s.lengths[k]
    IN s.types[CHOOSE k \in DOMAIN s.types : end[k - 1] < p /\ p <= end[k]]

\* BrotliBuildHistogramsWithContext: per type and context, or per type only.
Multiplier == IF splitter = "flat" THEN 1 ELSE ContextCount
ContextHistograms(s) ==
    [k \in 1 .. (s.numTypes * Multiplier) |->
        {p \in Symbols : /\ TypeAt(s, p) = (k - 1) \div Multiplier
                         /\ Multiplier = 1 \/ contexts[p] = (k - 1) % Multiplier}]

\* BrotliClusterHistograms: any cluster for a histogram, but an empty one
\* costs nothing anywhere and stays with the one before it.
Clusterings(inp) ==
    LET counted == {k \in DOMAIN inp : inp[k] # {}}
        like(k) == CHOOSE j \in counted : j <= k /\ \A i \in counted : i <= k => i <= j
    IN {[k \in DOMAIN inp |-> IF \E j \in counted : j <= k THEN g[like(k)] ELSE 0] :
            g \in [counted -> 0 .. (MaxClusters - 1)]}
Reindexed(g) == [k \in DOMAIN g |-> FirstSeen(g)[g[k]]]
Remapped(inp, symbols) ==
    [c \in Range(symbols) |-> UNION {inp[k] : k \in {k \in DOMAIN inp : symbols[k] = c}}]

\* Without context modeling, each entry is spread over the contexts of its
\* type in the same array, from the last type down.
SpreadFrom(symbols, type) ==
    [k \in 1 .. Len(symbols) |->
        IF (k - 1) \div ContextCount = type THEN symbols[type + 1] ELSE symbols[k]]
\* A mutant: from the first type up.
Spread_Upwards(symbols, types) ==
    LET upTo[t \in 0 .. types] ==
            IF t = 0 THEN symbols \o [k \in 1 .. (types * (ContextCount - 1)) |-> 0]
            ELSE SpreadFrom(upTo[t - 1], t - 1)
    IN upTo[types]

Spread(symbols, types) ==
    LET downTo[t \in 0 .. types] ==
            IF t = types THEN symbols \o [k \in 1 .. (types * (ContextCount - 1)) |-> 0]
            ELSE SpreadFrom(downTo[t + 1], t)
    IN downTo[0]

BuildMetaBlock ==
    /\ phase = "split" /\ ~Greedy
    /\ \E cluster \in [Symbols -> 0 .. (MaxTypes - 1)] :
          LET s   == ClusterBlocks(cluster)
              inp == ContextHistograms(s)
          IN /\ \A p \in Symbols : cluster[p] = FirstSeen(cluster)[cluster[p]]
             /\ \E g \in Clusterings(inp) :
                   LET symbols == Reindexed(g)
                   IN Stored(s, Remapped(inp, symbols),
                             IF splitter = "flat" THEN Spread(symbols, s.numTypes)
                             ELSE symbols)

-----------------------------------------------------------------------------
(* store_symbol and store_symbol_with_context.                                *)
MustSwitch == enc.left = 0

\* A mutant: second_last_type is not moved on.
Switched_KeepsSecond ==
    [enc EXCEPT !.block = @ + 1, !.left = split.lengths[enc.block + 1],
                !.lastType = split.types[enc.block + 1]]

Switched ==
    LET type == split.types[enc.block + 1]
    IN [enc EXCEPT !.block = @ + 1, !.left = split.lengths[enc.block + 1],
                   !.lastType = type, !.secondLast = enc.lastType]

\* The decoder reads a switch where its own count has run out, if there is
\* more than one type; otherwise it reads none.
Expects == split.numTypes > 1 /\ dec.left = 0
Reads(code, length) ==
    LET type == CASE code = 0 -> dec.secondLast
                  [] code = 1 -> (dec.type + 1) % split.numTypes
                  [] OTHER    -> code - 2
    IN [dec EXCEPT !.type = type, !.secondLast = dec.type, !.left = length]

Misread(code) == \/ MustSwitch # Expects
                 \/ MustSwitch /\ code \notin CountedTypeCodes(split.types)

HistogramOf(type, context, contextMap) ==
    IF contextMap = <<>> THEN type ELSE contextMap[type * ContextCount + context + 1]

StoreSymbol ==
    /\ phase = "store" /\ count < Len(contexts)
    /\ count' = count + 1
    /\ IF MustSwitch /\ enc.block = Len(split.types)
       THEN phase' = "panic" /\ UNCHANGED <<enc, dec>>
       ELSE LET e == IF MustSwitch THEN Switched ELSE enc
                code == NextBlockTypeCode(enc, e.lastType)
                d == IF MustSwitch THEN Reads(code, e.left) ELSE dec
                context == contexts[count + 1]
            IN /\ enc' = [e EXCEPT !.left = @ - 1,
                            !.histogram = HistogramOf(e.lastType, context, map)]
               /\ dec' = [d EXCEPT !.left = @ - 1,
                            !.misread = @ \/ Misread(code),
                            !.histogram = HistogramOf(d.type, context, dec.map)]
               /\ UNCHANGED phase
    /\ UNCHANGED <<splitter, contexts, split, codes, map>>

Done ==
    /\ phase = "panic" \/ (phase = "store" /\ count = Len(contexts))
    /\ UNCHANGED vars

Init ==
    /\ splitter \in Splitters
    /\ \E n \in (IF Greedy THEN GreedyLengths ELSE OtherLengths) :
          contexts \in [1 .. n -> Contexts]
    /\ count = 0
    /\ split = NewSplit
    /\ codes = <<>> /\ map = <<>>
    /\ enc = StartEncoder(<<>>) /\ dec = StartDecoder(<<>>, <<>>)
    /\ phase = "split"

Next == AddSymbol \/ FinishGreedy \/ BuildMetaBlock \/ StoreSymbol \/ Done

Spec == Init /\ [][Next]_vars

-----------------------------------------------------------------------------
(* Properties.                                                                *)

(* The entropies the greedy splitters remember are those of the histograms    *)
(* they are compared with, whatever was merged since; the second last block   *)
(* is of the type the second one belongs to, and there is one whenever that   *)
(* branch can be taken: no block, type or histogram is indexed out of bounds. *)
EntropiesAreCurrent ==
    /\ phase # "panic"
    /\ phase = "split" /\ split.types # <<>> =>
          /\ \A j \in {1, 2} : split.entropyOf[j] = split.histograms[split.last[j]]
          /\ split.last[1] = split.types[Len(split.types)]
          /\ Len(split.types) > 1 => split.last[2] = split.types[Len(split.types) - 1]

(* A decoder that counts blocks and keeps its own last two types meets every  *)
(* block switch where the encoder wrote it, can read its code, and is in the  *)
(* type the encoder is in, whichever splitter made the blocks and however far *)
(* the last block reaches beyond the symbols.                                 *)
SwitchesAreRead ==
    phase = "store" /\ count > 0 =>
        /\ ~dec.misread
        /\ dec.type = enc.lastType

(* Each symbol is stored with a histogram that counted it, so that it has a   *)
(* code, and a decoder finds the same one through the context map it read.    *)
SymbolsHaveCodes ==
    phase = "store" /\ count > 0 =>
        /\ enc.histogram \in DOMAIN codes
        /\ count \in codes[enc.histogram]
        /\ dec.histogram = enc.histogram
=============================================================================
