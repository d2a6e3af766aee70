------------------------ MODULE StreamAdaptersProofs ------------------------
(***************************************************************************)
(* Proofs about EncoderStream and about the StreamAdapters that drive it,  *)
(* for blocks, metablocks, inputs, buffers and rooms of any size, every    *)
(* set of flags and any failures of the inner reader or writer.            *)
(* The first part is about the encoder alone, under calls of any lengths.  *)
(* A first layer, IInv: its types, the accounting of bits and the length   *)
(* of a metablock. A second one on top of it, KInv: the input is covered   *)
(* in order, complete operations cover all of it, and the stream ends as   *)
(* the flags ask. A third one, SealOK: what a seal meets in tiny_buf_, and *)
(* so which accepted calls succeed.                                        *)
(* The encoder under an adapter keeps IInv and KInv, since those lemmas    *)
(* are about calls with any lengths. AInv, in the second part, is what the *)
(* adapters add: how they use the encoder, where they are in their loops,  *)
(* the bytes at hand, and what the errors told so far mean.                *)
(***************************************************************************)
EXTENDS StreamAdapters, TLAPS

States == {"PROCESSING", "FLUSH_REQUESTED", "FINISHED", "METADATA_HEAD",
           "METADATA_BODY"}

NextOuts == {Null, Storage} \cup {Tiny(i) : i \in 0..TinyBuf}

\* The positions, and the two lengths that keep a metablock short enough.
PositionsOK ==
    /\ inputPos \in Nat /\ lastProcessedPos \in Nat /\ lastFlushPos \in Nat
    /\ lastFlushPos <= lastProcessedPos /\ lastProcessedPos <= inputPos
    /\ Unprocessed <= BlockSize
    /\ ~params.fragment =>
          lastProcessedPos - lastFlushPos + BlockSize <= MaxMetablock

\* How far a catable stream is until its first two bytes are written.
FirstBytesOK ==
    /\ isFirst \in {"NothingWritten", "HeaderWritten",
                    "FirstCatableByteWritten", "BothCatableBytesWritten"}
    /\ (params.catable /\ ~customDict) =>
          /\ isFirst \in {"NothingWritten", "HeaderWritten"} =>
                lastProcessedPos = 0
          /\ isFirst = "FirstCatableByteWritten" => lastProcessedPos = 1

\* Pending output and the started byte; a window header of more than 7 bits
\* is still there only while nothing was written.
OutputOK ==
    /\ lastBits \in 0..14
    /\ availableOut \in Nat
    /\ owed \in Nat
    /\ nextOut \in NextOuts
    /\ nextOut = Null => availableOut = 0
    /\ nextOut.kind = "tiny" => nextOut.off + availableOut <= TinyBuf
    /\ lastBits > 7 => nextOut = Null
    /\ BitsAddUp

\* The stream state.
StateOK ==
    /\ streamState \in States
    /\ remainingMeta \in 0..MaxMetadata \cup {NoMeta}
    /\ InMetadata <=> remainingMeta # NoMeta
    /\ streamState = "METADATA_BODY" => nextOut # Null
    /\ lastBlockEmitted \in BOOLEAN
    /\ lastBlockEmitted => streamState = "FINISHED"

\* The call.
CallOK ==
    /\ pc \in {"idle", "slow", "fast", "metadata", "panic"}
    /\ op \in {"none", "take", "PROCESS", "FLUSH", "FINISH", "METADATA"}
    /\ availIn \in Nat /\ room \in Nat
    /\ result = "ok"
    /\ pc = "metadata" => InMetadata /\ availIn = remainingMeta

IInv == PositionsOK /\ FirstBytesOK /\ OutputOK /\ StateOK /\ CallOK
-----------------------------------------------------------------------------
\* Numbers of bits

\* A number of bits is its whole bytes and the bits of the started one.
LEMMA Split ==
    ASSUME NEW ix \in Int
    PROVE  /\ ix = 8 * (ix \div 8) + (ix % 8)
           /\ ix % 8 \in 0..7
           /\ ix \div 8 \in Int
           /\ ix >= 0 => ix \div 8 >= 0
  BY SMT

\* JumpToByteBoundary goes up to whole bytes.
LEMMA AlignProperties ==
    ASSUME NEW ix \in Nat
    PROVE  /\ Align(ix) \in Nat
           /\ Align(ix) >= ix
           /\ Align(ix) = 8 * ((ix + 7) \div 8)
  BY SMT DEF Align

\* The block writers map a bit index to a bit index.
LEMMA BlocksAreBits ==
    ASSUME NEW ix \in Nat, NEW n \in Nat
    PROVE  /\ Uncompressed(ix, n) \in Nat
           /\ Padding(ix) \in Nat
           /\ EmptyLast(ix) \in Nat
           /\ Magic(ix, 1) \in Nat
  <1>1. /\ Align(ix + 20) \in Nat /\ Align(ix + 6) \in Nat
        /\ Align(ix + 2) \in Nat /\ Align(ix + 14) \in Nat
    BY AlignProperties
  <1>2. QED
    BY <1>1 DEF Uncompressed, Padding, EmptyLast, Magic

\* A metadata header fits tiny_buf_ behind any started byte.
LEMMA HeaderIsShort ==
    ASSUME NEW ix \in 0..14, NEW size \in Nat
    PROVE  /\ MetadataHeader(ix, size) \in Nat
           /\ MetadataHeader(ix, size) <= 44
  <1>1. LengthBytes(size) \in 0..3
    BY DEF LengthBytes
  <1>2. QED
    BY <1>1 DEF MetadataHeader

\* The bytes a seal takes hold its bits.
LEMMA SealProperties ==
    ASSUME NEW bits \in 0..14
    PROVE  /\ 8 * ((bits + 13) \div 8) = Align(bits + 6)
           /\ (bits + 13) \div 8 \in 0..3
           /\ bits <= 7 => (bits + 13) \div 8 <= 2
  BY SMT DEF Align

\* A difference only shrinks when more is subtracted.
LEMMA Shrinks ==
    ASSUME NEW a \in Nat, NEW b \in Nat, NEW c \in Nat, NEW d \in Nat,
           b <= c, a - b <= d
    PROVE  a - c <= d
  BY SMT

\* With no byte pending only the started byte is owed.
LEMMA EmptyOutput ==
    ASSUME NEW out, NEW bits \in Nat, NEW sum, out = 0, sum = bits
    PROVE  out \in Nat /\ sum \in Nat /\ sum = 8 * out + bits
  BY SMT

\* Whole bytes and a started one are a number of bits.
LEMMA BitsAreNat ==
    ASSUME NEW out \in Nat, NEW bits \in 0..14
    PROVE  8 * out + bits \in Nat
  BY SMT

\* A metadata header at offset 0 leaves room in tiny_buf_.
LEMMA FromOffsetZero ==
    ASSUME NEW off, NEW out \in 0..6, off = 0
    PROVE  out \in Nat /\ off \in Nat /\ off + out <= 16
  BY SMT

\* The lesser of two lengths is one of them.
LEMMA LeastProperties ==
    ASSUME NEW a \in Nat, NEW b \in Nat
    PROVE  Least(a, b) \in Nat /\ Least(a, b) <= a /\ Least(a, b) <= b
  BY DEF Least

\* Fragments and metablocks end at a bit index.
LEMMA EndsAreBits ==
    ASSUME NEW ix \in Nat, NEW n \in Nat
    PROVE  /\ FragmentEnds(ix, n) \subseteq Nat
           /\ MetablockEnds(ix, n) \subseteq Nat
           /\ CompressedEnds(ix, n, TRUE) \subseteq Nat
  <1>1. Uncompressed(ix, n) \in Nat
    BY BlocksAreBits
  <1>2. \A c \in CompressedBits : ix + c \in Nat /\ Align(ix + c) \in Nat
    BY SizesAssumption, AlignProperties
  <1>3. FragmentEnds(ix, n) \subseteq Nat
    BY <1>1, <1>2 DEF FragmentEnds
  <1>4. \A last : CompressedEnds(ix, n, last) \subseteq Nat
    BY <1>2 DEF CompressedEnds
  <1>5. QED
    BY <1>1, <1>3, <1>4 DEF MetablockEnds

\* So does WriteEmptyLastBlocksInternal.
LEMMA LastBlockIsBits ==
    ASSUME NEW ix \in Nat
    PROVE  LastBlockEnd(LastBlockStart(ix)) \in Nat
  BY BlocksAreBits DEF LastBlockEnd, LastBlockStart
-----------------------------------------------------------------------------
\* encode_data

\* The blocks that open a stream take no more than the input there is.
LEMMA HeaderProperties ==
    ASSUME PositionsOK, OutputOK
    PROVE  /\ FirstBytes \in Nat /\ FirstBytes <= 2
           /\ FirstBytes <= Unprocessed
           /\ HeaderEnd \in Nat
           /\ ~HasHeader => HeaderEnd = lastBits
           /\ FlushPos \in Nat /\ ProcessedPos \in Nat
           /\ FlushPos <= ProcessedPos /\ ProcessedPos <= inputPos
  <1>1. Unprocessed \in Nat
    BY DEF PositionsOK, Unprocessed
  <1>2. FirstBytes \in Nat /\ FirstBytes <= 2 /\ FirstBytes <= Unprocessed
    BY <1>1, LeastProperties DEF FirstBytes
  <1>3. lastBits \in Nat
    BY DEF OutputOK
  <1>4. AfterMagic \in Nat
    BY <1>3, BlocksAreBits DEF AfterMagic
  <1>5. HeaderEnd \in Nat
    BY <1>2, <1>4, BlocksAreBits DEF HeaderEnd
  <1>6. ~HasHeader => HeaderEnd = lastBits
    BY DEF HasHeader, HeaderEnd, AfterMagic
  <1>7. QED
    BY <1>2, <1>5, <1>6
    DEF PositionsOK, Unprocessed, FlushPos, ProcessedPos

\* A block that ends at bit ix leaves all but the last bits of it pending.
LEMMA WriteUpToOutput ==
    ASSUME OutputOK, availableOut = 0, NEW ix \in Nat,
           NEW start, NEW flushed, NEW last,
           WriteUpTo(start, flushed, ix, last)
    PROVE  OutputOK' /\ nextOut' = Storage
  <1>1. owed' = ix
    BY DEF OutputOK, BitsAddUp, WriteUpTo
  <1>2. /\ availableOut' = ix \div 8 /\ lastBits' = ix % 8
        /\ nextOut' = Storage
    BY DEF WriteUpTo
  <1>3. /\ availableOut' \in Nat /\ lastBits' \in 0..7
        /\ owed' = 8 * availableOut' + lastBits'
    BY <1>1, <1>2, Split
  <1>4. nextOut' \in NextOuts /\ nextOut' # Null /\ nextOut'.kind # "tiny"
    BY <1>2 DEF NextOuts, Storage, Null
  <1>5. QED
    BY <1>1, <1>2, <1>3, <1>4 DEF OutputOK, BitsAddUp

\* What an early return of encode_data keeps is counted, too.
LEMMA KeepHeaderOutput ==
    ASSUME PositionsOK, OutputOK, availableOut = 0, NEW processed,
           KeepHeader(processed)
    PROVE  /\ OutputOK'
           /\ nextOut' = Storage \/ (nextOut' = nextOut /\ availableOut' = 0)
  <1>1. owed' = HeaderEnd /\ HeaderEnd \in Nat
    BY HeaderProperties DEF OutputOK, BitsAddUp, KeepHeader
  <1>2. CASE HasHeader
    <2>1. /\ availableOut' = HeaderEnd \div 8 /\ lastBits' = HeaderEnd % 8
          /\ nextOut' = Storage
      BY <1>2 DEF KeepHeader
    <2>2. /\ availableOut' \in Nat /\ lastBits' \in 0..7
          /\ owed' = 8 * availableOut' + lastBits'
      BY <1>1, <2>1, Split
    <2>3. nextOut' \in NextOuts /\ nextOut' # Null /\ nextOut'.kind # "tiny"
      BY <2>1 DEF NextOuts, Storage, Null
    <2>4. QED
      BY <1>1, <2>1, <2>2, <2>3 DEF OutputOK, BitsAddUp
  <1>3. CASE ~HasHeader
    <2>1. /\ availableOut' = 0 /\ lastBits' = lastBits
          /\ nextOut' = nextOut /\ owed' = lastBits
      BY <1>1, <1>3, HeaderProperties DEF KeepHeader
    <2>2. QED
      BY <2>1 DEF OutputOK, BitsAddUp
  <1>4. QED
    BY <1>2, <1>3

\* The three things encode_data does to the positions: keep the header, put
\* the rest off (or hand it to a fragment), or write everything.
Moves ==
    \/ lastFlushPos' = FlushPos /\ lastProcessedPos' = ProcessedPos
    \/ /\ lastFlushPos' = FlushPos /\ lastProcessedPos' = inputPos
       /\ params.fragment \/ inputPos - FlushPos + BlockSize <= MaxMetablock
    \/ lastFlushPos' = inputPos /\ lastProcessedPos' = inputPos

BlockEffect ==
    /\ OutputOK'
    /\ nextOut' = Storage \/ (nextOut' = nextOut /\ availableOut' = 0)
    /\ Moves

\* WriteMetaBlockInternal covers all input and leaves whole output.
LEMMA MetablockEffect ==
    ASSUME PositionsOK, OutputOK, availableOut = 0, NEW isLast \in BOOLEAN,
           Metablock(isLast)
    PROVE  BlockEffect
  <1> DEFINE n == inputPos - FlushPos
             from == IF PadsEmptyStream THEN Padding(HeaderEnd) ELSE HeaderEnd
  <1>1. n \in Nat /\ from \in Nat
    <2>1. /\ HeaderEnd \in Nat /\ FlushPos \in Nat
          /\ inputPos \in Nat /\ FlushPos <= inputPos
      BY HeaderProperties DEF PositionsOK
    <2>2. Padding(HeaderEnd) \in Nat
      BY <2>1, BlocksAreBits
    <2>3. QED
      BY <2>1, <2>2
  <1>2. \E ix \in Nat : \E last :
            WriteUpTo(FlushPos, inputPos, ix, last)
    <2> HIDE DEF n, from
    <2>1. CASE isLast /\ LastHoldsData(n)
      <3>1. CompressedEnds(from, n, TRUE) \subseteq Nat
        BY <1>1, EndsAreBits
      <3>2. EmptyLast(Uncompressed(from, n)) \in Nat
        BY <1>1, BlocksAreBits
      <3>3. QED
        BY <2>1, <3>1, <3>2 DEF Metablock, n, from
    <2>2. CASE ~(isLast /\ LastHoldsData(n))
      <3>1. PICK ix \in MetablockEnds(from, n) :
                LET last == LastBlockStart(ix)
                IN  IF isLast
                    THEN WriteUpTo(FlushPos, inputPos, LastBlockEnd(last),
                                   EndOf(last))
                    ELSE WriteUpTo(FlushPos, inputPos, ix, ending)
        BY <2>2 DEF Metablock, n, from
      <3>2. ix \in Nat
        BY <1>1, EndsAreBits
      <3>3. LastBlockEnd(LastBlockStart(ix)) \in Nat
        BY <3>2, LastBlockIsBits
      <3>4. QED
        BY <3>1, <3>2, <3>3
    <2>3. QED
      BY <2>1, <2>2
  <1>3. PICK ix \in Nat : \E last : WriteUpTo(FlushPos, inputPos, ix, last)
    BY <1>2
  <1>4. PICK last : WriteUpTo(FlushPos, inputPos, ix, last)
    BY <1>3
  <1>5. OutputOK' /\ nextOut' = Storage
    BY <1>4, WriteUpToOutput
  <1>6. lastFlushPos' = inputPos /\ lastProcessedPos' = inputPos
    BY <1>4 DEF WriteUpTo
  <1>7. QED
    BY <1>5, <1>6 DEF BlockEffect, Moves

\* The fragment coders cover all input, but do not move last_flush_pos_.
LEMMA FragmentEffect ==
    ASSUME PositionsOK, OutputOK, availableOut = 0, params.fragment,
           NEW isLast \in BOOLEAN, FragmentBlock(isLast)
    PROVE  BlockEffect
  <1>1. PICK ix \in FragmentEnds(HeaderEnd, inputPos - ProcessedPos) :
            IF isLast
            THEN WriteUpTo(ProcessedPos, FlushPos, EmptyLast(ix), EmptyAt(ix))
            ELSE WriteUpTo(ProcessedPos, FlushPos, ix, ending)
    BY DEF FragmentBlock
  <1>2. ix \in Nat /\ EmptyLast(ix) \in Nat
    <2>1. HeaderEnd \in Nat /\ inputPos - ProcessedPos \in Nat
      BY HeaderProperties DEF PositionsOK
    <2>2. QED
      BY <2>1, EndsAreBits, BlocksAreBits
  <1>3. PICK end \in Nat : \E last :
            WriteUpTo(ProcessedPos, FlushPos, end, last)
    BY <1>1, <1>2
  <1>4. PICK last : WriteUpTo(ProcessedPos, FlushPos, end, last)
    BY <1>3
  <1>5. OutputOK' /\ nextOut' = Storage
    BY <1>4, WriteUpToOutput
  <1>6. lastFlushPos' = FlushPos /\ lastProcessedPos' = inputPos
    BY <1>4 DEF WriteUpTo
  <1>7. QED
    BY <1>5, <1>6 DEF BlockEffect, Moves

\* Whichever branch encode_data takes has one of the three effects.
LEMMA EncodeBlockEffect ==
    ASSUME PositionsOK, OutputOK, availableOut = 0,
           NEW isLast \in BOOLEAN, NEW force \in BOOLEAN,
           EncodeBlock(isLast, force)
    PROVE  BlockEffect
  <1>1. CASE KeepHeader(ProcessedPos)
    BY <1>1, KeepHeaderOutput DEF BlockEffect, Moves, KeepHeader
  <1>2. CASE params.fragment /\ FragmentBlock(isLast)
    BY <1>2, FragmentEffect
  <1>3. CASE MayPostpone(isLast, force) /\ KeepHeader(inputPos)
    <2>1. lastFlushPos' = FlushPos /\ lastProcessedPos' = inputPos
      BY <1>3 DEF KeepHeader
    <2>2. inputPos - FlushPos + BlockSize <= MaxMetablock
      BY <1>3 DEF MayPostpone
    <2>3. QED
      BY <1>3, <2>1, <2>2, KeepHeaderOutput DEF BlockEffect, Moves
  <1>4. CASE Metablock(isLast)
    BY <1>4, MetablockEffect
  <1>5. QED
    BY <1>1, <1>2, <1>3, <1>4 DEF EncodeBlock

\* Each effect keeps the positions in order and the count of first bytes.
LEMMA PositionsAfterBlock ==
    ASSUME PositionsOK, OutputOK, FirstBytesOK, Moves,
           inputPos' = inputPos, params' = params, customDict' = customDict,
           isFirst' = NextIsFirst
    PROVE  PositionsOK' /\ FirstBytesOK'
  <1>1. /\ FirstBytes \in Nat /\ FirstBytes <= 2 /\ FirstBytes <= Unprocessed
        /\ FlushPos \in Nat /\ ProcessedPos \in Nat
        /\ FlushPos <= ProcessedPos /\ ProcessedPos <= inputPos
    BY HeaderProperties
  <1>2. /\ lastFlushPos' \in Nat /\ lastProcessedPos' \in Nat
        /\ lastFlushPos' <= lastProcessedPos'
        /\ ProcessedPos <= lastProcessedPos' /\ lastProcessedPos' <= inputPos
    BY <1>1 DEF Moves, PositionsOK
  <1>3. PositionsOK'
    <2>1. Unprocessed' <= BlockSize
      <3>1. lastProcessedPos <= lastProcessedPos'
        BY <1>1, <1>2 DEF PositionsOK, ProcessedPos
      <3>2. inputPos - lastProcessedPos <= BlockSize
        BY DEF PositionsOK, Unprocessed
      <3>3. /\ inputPos \in Nat /\ lastProcessedPos \in Nat
            /\ lastProcessedPos' \in Nat /\ BlockSize \in Nat
        BY <1>2, BlockAssumption DEF PositionsOK
      <3>4. inputPos - lastProcessedPos' <= BlockSize
        BY <3>1, <3>2, <3>3, Shrinks
      <3>5. QED
        BY <3>4 DEF Unprocessed
    <2>2. ~params.fragment =>
             lastProcessedPos' - lastFlushPos' + BlockSize <= MaxMetablock
      BY <1>1, BlockAssumption
      DEF Moves, PositionsOK, FlushPos, ProcessedPos
    <2>3. QED
      BY <1>2, <2>1, <2>2 DEF PositionsOK
  <1>4. FirstBytesOK'
    <2>1. NextIsFirst \in {"NothingWritten", "HeaderWritten",
                      "FirstCatableByteWritten", "BothCatableBytesWritten"}
      BY DEF NextIsFirst, FirstBytesOK
    <2>2. CASE params.catable /\ ~customDict
                 /\ NextIsFirst # "BothCatableBytesWritten"
      <3>1. /\ isFirst # "BothCatableBytesWritten"
            /\ FirstBytes # 2
        BY <2>2 DEF NextIsFirst, FirstBytes, WritesMagic
      <3>2. FirstBytes = Unprocessed
        BY <2>2, <3>1, <1>1 DEF FirstBytes, Least, PositionsOK, Unprocessed
      <3>3. lastProcessedPos' = lastProcessedPos + FirstBytes
        BY <1>1, <1>2, <3>2 DEF PositionsOK, Unprocessed, ProcessedPos
      <3>4. CASE FirstBytes = 0
        <4>1. /\ isFirst' = isFirst \/ isFirst = "NothingWritten"
              /\ isFirst' \in {isFirst, "HeaderWritten"}
              /\ lastProcessedPos' = lastProcessedPos
          BY <2>2, <3>3, <3>4 DEF NextIsFirst, WritesMagic, PositionsOK
        <4>2. QED
          BY <2>1, <2>2, <4>1 DEF FirstBytesOK
      <3>5. CASE FirstBytes = 1
        <4>1. isFirst' = "FirstCatableByteWritten"
          BY <2>2, <3>5 DEF NextIsFirst
        <4>2. isFirst \in {"NothingWritten", "HeaderWritten"}
          BY <2>2, <3>1, <3>5 DEF NextIsFirst, FirstBytesOK
        <4>3. lastProcessedPos' = 1
          BY <2>2, <3>3, <3>5, <4>2 DEF FirstBytesOK
        <4>4. QED
          BY <4>1, <4>3 DEF FirstBytesOK
      <3>6. QED
        BY <1>1, <3>1, <3>4, <3>5
    <2>3. CASE ~(params.catable /\ ~customDict
                   /\ NextIsFirst # "BothCatableBytesWritten")
      BY <2>1, <2>3 DEF FirstBytesOK
    <2>4. QED
      BY <2>2, <2>3
  <1>5. QED
    BY <1>3, <1>4

\* encode_data neither fails nor trips its assertion, and keeps everything in
\* order, in the states in which the two loops call it.
LEMMA EncodePreserves ==
    ASSUME IInv, availableOut = 0, NEW isLast \in BOOLEAN,
           NEW force \in BOOLEAN, NEW s \in States,
           pc \in {"slow", "metadata"},
           pc = "slow" =>
              /\ streamState = "PROCESSING"
              /\ s \in {"PROCESSING", "FLUSH_REQUESTED", "FINISHED"},
           pc = "metadata" => s = streamState,
           isLast => s = "FINISHED",
           Encode(isLast, force, s)
    PROVE  IInv'
  <1>1. streamState \in {"PROCESSING", "METADATA_HEAD", "METADATA_BODY"}
    BY DEF IInv, CallOK, InMetadata
  <1>2. ~lastBlockEmitted /\ ~(Unprocessed > BlockSize)
    <2>1. Unprocessed <= BlockSize /\ Unprocessed \in Nat
      BY DEF IInv, PositionsOK, Unprocessed
    <2>2. QED
      BY <1>1, <2>1, BlockAssumption DEF IInv, StateOK
  <1>3. FirstBytesAssertion
    BY DEF IInv, FirstBytesOK, FirstBytesAssertion, FirstBytes
  <1>4. /\ lastBlockEmitted' = isLast /\ isFirst' = NextIsFirst
        /\ streamState' = s
        /\ EncodeBlock(isLast, force)
        /\ UNCHANGED <<inputPos, metadata, fixed, call>>
    BY <1>2, <1>3 DEF Encode
  <1>5. BlockEffect
    BY <1>4, EncodeBlockEffect DEF IInv
  <1>6. OutputOK'
    BY <1>5 DEF BlockEffect
  <1>7. PositionsOK' /\ FirstBytesOK'
    BY <1>4, <1>5, PositionsAfterBlock DEF IInv, BlockEffect, fixed
  <1>8. StateOK'
    <2>1. UNCHANGED remainingMeta
      BY <1>4 DEF metadata
    <2>2. (streamState' \in {"METADATA_HEAD", "METADATA_BODY"}) <=> InMetadata
      BY <1>1, <1>4 DEF IInv, InMetadata, CallOK
    <2>3. streamState' = "METADATA_BODY" => nextOut' # Null
      BY <1>4, <1>5 DEF IInv, StateOK, BlockEffect, Null, Storage
    <2>4. QED
      BY <1>4, <2>1, <2>2, <2>3 DEF IInv, StateOK, InMetadata
  <1>9. CallOK'
    BY <1>1, <1>4 DEF IInv, CallOK, InMetadata, call, metadata
  <1>10. QED
    BY <1>6, <1>7, <1>8, <1>9 DEF IInv
-----------------------------------------------------------------------------
\* The steps of a call

\* compress_stream buffers no more than a block.
LEMMA CopyInputPreserves ==
    ASSUME IInv, CopyInput
    PROVE  IInv'
  <1> DEFINE n == Least(RemainingBlockSize, availIn)
  <1>1. /\ inputPos \in Nat /\ lastProcessedPos \in Nat
        /\ lastProcessedPos <= inputPos /\ Unprocessed \in Nat
        /\ Unprocessed <= BlockSize /\ availIn \in Nat /\ BlockSize \in Nat
    BY BlockAssumption DEF IInv, PositionsOK, CallOK, Unprocessed
  <1>2. /\ RemainingBlockSize \in Nat
        /\ RemainingBlockSize <= BlockSize - Unprocessed
    BY <1>1 DEF RemainingBlockSize
  <1>3. n \in Nat /\ n <= RemainingBlockSize /\ n <= availIn
    BY <1>1, <1>2, LeastProperties
  <1>4. /\ inputPos' = inputPos + n /\ availIn' = availIn - n /\ pc = "slow"
        /\ UNCHANGED <<lastProcessedPos, lastFlushPos, output, metadata,
                       block, fixed, streamState, pc, op, room, result>>
    BY DEF CopyInput
  <1> HIDE DEF n
  <1>5. PositionsOK'
    <2>1. (inputPos + n) - lastProcessedPos <= BlockSize
      BY <1>1, <1>2, <1>3 DEF Unprocessed
    <2>2. inputPos + n \in Nat /\ lastProcessedPos <= inputPos + n
      BY <1>1, <1>3
    <2>3. QED
      BY <1>4, <2>1, <2>2 DEF IInv, PositionsOK, Unprocessed, fixed
  <1>6. FirstBytesOK' /\ OutputOK' /\ StateOK'
    BY <1>4 DEF IInv, FirstBytesOK, OutputOK, StateOK, BitsAddUp, InMetadata,
                block, fixed, output, metadata
  <1>7. CallOK'
    BY <1>1, <1>3, <1>4 DEF IInv, CallOK
  <1>8. QED
    BY <1>5, <1>6, <1>7 DEF IInv

\* A seal goes behind the pending output, or runs off the buffer.
LEMMA SealPreserves ==
    ASSUME IInv, InjectBytePadding
    PROVE  IInv'
  <1>1. streamState = "FLUSH_REQUESTED" /\ lastBits # 0 /\ lastBits \in 0..14
    BY DEF InjectBytePadding, MustPad, IInv, OutputOK
  <1>2. /\ SealBytes \in 0..3 /\ 8 * SealBytes = Align(lastBits + 6)
        /\ lastBits <= 7 => SealBytes <= 2
    BY <1>1, SealProperties DEF SealBytes
  <1>3. availableOut \in Nat /\ nextOut \in NextOuts
    BY DEF IInv, OutputOK
  <1>4. CASE nextOut.kind # "storage" /\ SealAt + SealBytes > TinyBuf
    <2>1. Panic
      BY <1>4 DEF InjectBytePadding
    <2>2. PositionsOK' /\ FirstBytesOK' /\ OutputOK' /\ StateOK'
      BY <2>1 DEF IInv, PositionsOK, FirstBytesOK, OutputOK, StateOK,
                  BitsAddUp, InMetadata, Unprocessed, Panic, encoder, ghosts
    <2>3. CallOK'
      BY <2>1 DEF IInv, CallOK, Panic
    <2>4. QED
      BY <2>2, <2>3 DEF IInv
  <1>5. CASE ~(nextOut.kind # "storage" /\ SealAt + SealBytes > TinyBuf)
    <2>1. /\ nextOut' = IF nextOut = Null THEN Tiny(0) ELSE nextOut
          /\ availableOut' = availableOut + SealBytes
          /\ lastBits' = 0
          /\ owed' = owed + (Align(lastBits + 6) - lastBits)
          /\ UNCHANGED <<positions, metadata, block, fixed, streamState, call>>
      BY <1>5 DEF InjectBytePadding
    <2>2. PositionsOK' /\ FirstBytesOK' /\ CallOK'
      BY <2>1 DEF IInv, PositionsOK, FirstBytesOK, CallOK, InMetadata,
                  Unprocessed, positions, metadata, block, fixed, call
    <2>3. owed' = 8 * availableOut' /\ availableOut' \in Nat
      BY <1>1, <1>2, <1>3, <2>1 DEF IInv, OutputOK, BitsAddUp
    <2>4. /\ nextOut' \in NextOuts /\ nextOut' # Null
          /\ nextOut'.kind = "tiny" => nextOut'.off + availableOut' <= TinyBuf
      <3>1. CASE nextOut = Null
        <4>1. nextOut' = Tiny(0) /\ availableOut' = SealBytes
          BY <1>2, <2>1, <3>1 DEF IInv, OutputOK
        <4>2. QED
          BY <1>2, <4>1 DEF NextOuts, Tiny, Null, TinyBuf
      <3>2. CASE nextOut # Null
        <4>1. nextOut' = nextOut
          BY <2>1, <3>2
        <4>2. CASE nextOut.kind = "tiny"
          <5>1. nextOut.off \in Nat
            BY <1>3, <4>2, <3>2 DEF NextOuts, Tiny, Storage, Null, TinyBuf
          <5>2. nextOut.off + availableOut + SealBytes <= TinyBuf
            BY <1>2, <1>3, <1>5, <3>2, <4>2, <5>1 DEF SealAt, TinyBuf
          <5>3. QED
            BY <1>2, <1>3, <2>1, <3>2, <4>1, <5>1, <5>2
        <4>3. CASE nextOut.kind # "tiny"
          BY <1>3, <3>2, <4>1, <4>3
        <4>4. QED
          BY <4>2, <4>3
      <3>3. QED
        BY <3>1, <3>2
    <2>5. OutputOK'
      BY <2>1, <2>3, <2>4 DEF OutputOK, BitsAddUp
    <2>6. StateOK'
      BY <1>1, <2>1, <2>4 DEF IInv, StateOK, InMetadata, metadata, block
    <2>7. QED
      BY <2>2, <2>5, <2>6 DEF IInv
  <1>6. QED
    BY <1>4, <1>5

\* Taking n pending bytes moves the buffer on by as many.
LEMMA TakenOutput ==
    ASSUME OutputOK, NEW n \in Nat, n # 0, n <= availableOut,
           availableOut' = availableOut - n, owed' = owed - 8 * n,
           lastBits' = lastBits, nextOut' = NextOutIncrement(n)
    PROVE  /\ OutputOK'
           /\ nextOut' # Null
           /\ nextOut'.kind = nextOut.kind
           /\ nextOut.kind = "tiny" =>
                 nextOut'.off + availableOut' = nextOut.off + availableOut
  <1>1. /\ availableOut \in Nat /\ owed \in Nat /\ lastBits \in 0..14
        /\ nextOut \in NextOuts /\ nextOut # Null
        /\ owed = 8 * availableOut + lastBits
    BY DEF OutputOK, BitsAddUp
  <1>2. /\ availableOut' \in Nat /\ owed' \in Nat
        /\ owed' = 8 * availableOut' + lastBits'
    BY <1>1
  <1>3. CASE nextOut.kind = "tiny"
    <2>1. nextOut.off \in Nat /\ nextOut.off + availableOut <= TinyBuf
      BY <1>1, <1>3 DEF NextOuts, Tiny, Storage, Null, TinyBuf, OutputOK
    <2>2. /\ nextOut.off + n \in 0..TinyBuf
          /\ (nextOut.off + n) + availableOut' = nextOut.off + availableOut
      BY <1>1, <2>1 DEF TinyBuf
    <2>3. nextOut' = Tiny(nextOut.off + n)
      BY <1>3 DEF NextOutIncrement
    <2>4. /\ nextOut' \in NextOuts /\ nextOut' # Null
          /\ nextOut'.kind = "tiny" /\ nextOut'.off = nextOut.off + n
      BY <2>2, <2>3 DEF NextOuts, Tiny, Null
    <2>5. lastBits' <= 7
      BY <1>1 DEF OutputOK
    <2>6. QED
      BY <1>1, <1>2, <1>3, <2>1, <2>2, <2>4, <2>5 DEF OutputOK, BitsAddUp
  <1>4. CASE nextOut.kind # "tiny"
    <2>1. nextOut' = nextOut
      BY <1>4 DEF NextOutIncrement
    <2>2. QED
      BY <1>1, <1>2, <1>4, <2>1 DEF OutputOK, BitsAddUp
  <1>5. QED
    BY <1>3, <1>4

\* Output that leaves takes its bits along.
LEMMA PushPreserves ==
    ASSUME IInv, PushOutput
    PROVE  IInv'
  <1> DEFINE n == Least(availableOut, room)
  <1>1. /\ n \in Nat /\ n <= availableOut /\ n <= room
        /\ room \in Nat /\ availableOut \in Nat
    BY LeastProperties DEF IInv, OutputOK, CallOK
  <1>2. /\ n # 0 /\ room' = room - n /\ nextOut' = NextOutIncrement(n)
        /\ availableOut' = availableOut - n /\ owed' = owed - 8 * n
        /\ UNCHANGED <<lastBits, positions, metadata, block, fixed,
                       streamState, pc, op, availIn, result>>
    BY DEF PushOutput
  <1> HIDE DEF n
  <1>3. /\ OutputOK' /\ nextOut' # Null /\ nextOut'.kind = nextOut.kind
        /\ nextOut.kind = "tiny" =>
              nextOut'.off + availableOut' = nextOut.off + availableOut
    BY <1>1, <1>2, TakenOutput DEF IInv
  <1>4. PositionsOK' /\ FirstBytesOK'
    BY <1>2 DEF IInv, PositionsOK, FirstBytesOK, Unprocessed, positions,
                block, fixed
  <1>5. StateOK'
    BY <1>2, <1>3 DEF IInv, StateOK, InMetadata, metadata, block
  <1>6. CallOK'
    BY <1>1, <1>2 DEF IInv, CallOK, InMetadata, metadata
  <1>7. QED
    BY <1>3, <1>4, <1>5, <1>6 DEF IInv

\* compress_stream calls encode_data with all output gone.
LEMMA SlowEncodePreserves ==
    ASSUME IInv, SlowEncode
    PROVE  IInv'
  <1>1. /\ pc = "slow" /\ availableOut = 0 /\ streamState = "PROCESSING"
        /\ Encode(IsLast, ForceFlush, NextState(IsLast, ForceFlush))
    BY DEF SlowEncode, MustEncode
  <1>2. IsLast \in BOOLEAN /\ ForceFlush \in BOOLEAN
    BY DEF IsLast, ForceFlush
  <1>3. /\ NextState(IsLast, ForceFlush) \in
              {"PROCESSING", "FLUSH_REQUESTED", "FINISHED"}
        /\ NextState(IsLast, ForceFlush) \in States
        /\ IsLast => NextState(IsLast, ForceFlush) = "FINISHED"
    BY <1>1 DEF NextState, States
  <1>4. QED
    BY <1>1, <1>2, <1>3, EncodePreserves

\* Both loops of compress_stream end by looking whether a flush is complete.
LEMMA ReturnPreserves ==
    ASSUME IInv, pc \in {"slow", "fast"}, Leave("ok"),
           CheckFlushComplete(availableOut),
           UNCHANGED <<positions, lastBits, availableOut, owed, metadata,
                       block, fixed>>
    PROVE  IInv'
  <1>1. \/ UNCHANGED <<streamState, nextOut>>
        \/ /\ streamState = "FLUSH_REQUESTED" /\ availableOut = 0
           /\ streamState' = "PROCESSING" /\ nextOut' = Null
    BY DEF CheckFlushComplete
  <1>2. PositionsOK' /\ FirstBytesOK'
    BY DEF IInv, PositionsOK, FirstBytesOK, Unprocessed, positions, block,
           fixed
  <1>3. OutputOK'
    BY <1>1 DEF IInv, OutputOK, BitsAddUp, NextOuts, Null
  <1>4. StateOK'
    <2>1. CASE UNCHANGED <<streamState, nextOut>>
      BY <2>1 DEF IInv, StateOK, InMetadata, metadata, block
    <2>2. CASE /\ streamState = "FLUSH_REQUESTED"
               /\ streamState' = "PROCESSING" /\ nextOut' = Null
      BY <2>2 DEF IInv, StateOK, States, InMetadata, Null, metadata, block
    <2>3. QED
      BY <1>1, <2>1, <2>2
  <1>5. CallOK'
    BY DEF IInv, CallOK, Leave
  <1>6. QED
    BY <1>2, <1>3, <1>4, <1>5 DEF IInv

\* A flush of nothing only changes the stream state.
LEMMA FastFlushNothingPreserves ==
    ASSUME IInv, FastFlushNothing
    PROVE  IInv'
  <1>1. /\ pc = "fast" /\ streamState = "PROCESSING"
        /\ streamState' = "FLUSH_REQUESTED"
        /\ UNCHANGED <<positions, output, metadata, block, fixed, call>>
    BY DEF FastFlushNothing, MustCompress
  <1>2. PositionsOK' /\ FirstBytesOK' /\ OutputOK'
    BY <1>1 DEF IInv, PositionsOK, FirstBytesOK, OutputOK, BitsAddUp,
                Unprocessed, positions, output, block, fixed
  <1>3. StateOK'
    BY <1>1 DEF IInv, StateOK, States, InMetadata, output, metadata,
                block
  <1>4. CallOK'
    BY <1>1 DEF IInv, CallOK, call
  <1>5. QED
    BY <1>2, <1>3, <1>4 DEF IInv

\* A block that is compressed in place, and the end of the stream, are
\* within the room the code asks for.
LEMMA InPlaceFits ==
    ASSUME NEW bits \in 0..14, NEW n \in Nat,
           NEW ix \in FragmentEnds(bits, n), NEW isLast \in BOOLEAN
    PROVE  LET end == IF isLast THEN EmptyLast(ix) ELSE ix
           IN  end \in Nat /\ end <= 8 * (2 * n + 503)
  <1>1. ix \in Nat /\ ix <= 60 + 8 * n
    <2>1. CASE n = 0
      BY <2>1 DEF FragmentEnds
    <2>2. CASE ix = Uncompressed(bits, n)
      <3>1. Align(bits + 20) \in Nat /\ Align(bits + 20) <= 41
        BY SMT DEF Align
      <3>2. QED
        BY <2>2, <3>1 DEF Uncompressed
    <2>3. CASE \E c \in CompressedBits : ix = bits + c /\ c <= 31 + 8 * n
      BY <2>3, SizesAssumption
    <2>4. QED
      BY <2>1, <2>2, <2>3 DEF FragmentEnds
  <1>2. EmptyLast(ix) \in Nat /\ EmptyLast(ix) <= ix + 9
    BY <1>1, SMT DEF EmptyLast, Align
  <1>3. QED
    BY <1>1, <1>2

\* A fragment goes to the client's buffer or to storage.
LEMMA FastCompressPreserves ==
    ASSUME IInv, FastCompress
    PROVE  IInv'
  <1>1. /\ pc = "fast" /\ availableOut = 0 /\ streamState = "PROCESSING"
        /\ availIn' = availIn - FastBlock
        /\ streamState' = NextState(FastIsLast, FastForceFlush)
        /\ UNCHANGED <<positions, metadata, fixed, lastBlockEmitted, isFirst,
                       pc, op, result>>
    BY DEF FastCompress, MustCompress
  <1>2. FastBlock \in Nat /\ FastBlock <= availIn
    BY LeastProperties, BlockAssumption DEF FastBlock, IInv, CallOK
  <1>3. PICK ix \in FragmentEnds(lastBits, FastBlock) :
            LET end == IF FastIsLast THEN EmptyLast(ix) ELSE ix
            IN  /\ lastBits' = end % 8
                /\ ending' = IF FastIsLast THEN EmptyAt(ix) ELSE ending
                /\ IF FitsInPlace
                   THEN /\ room' = room - (end \div 8)
                        /\ owed' = owed + (end - lastBits) - 8 * (end \div 8)
                        /\ UNCHANGED <<availableOut, nextOut>>
                   ELSE /\ availableOut' = end \div 8
                        /\ nextOut' = Storage
                        /\ owed' = owed + (end - lastBits)
                        /\ UNCHANGED room
    BY DEF FastCompress
  <1> DEFINE end == IF FastIsLast THEN EmptyLast(ix) ELSE ix
  <1>4. /\ lastBits \in 0..14 /\ owed = lastBits /\ nextOut \in NextOuts
        /\ room \in Nat
    BY <1>1 DEF IInv, OutputOK, BitsAddUp, CallOK
  <1>5. end \in Nat /\ end <= 8 * (2 * FastBlock + 503)
    <2>1. FastIsLast \in BOOLEAN
      BY DEF FastIsLast
    <2>2. QED
      BY <1>2, <1>4, <2>1, InPlaceFits
  <1> HIDE DEF end
  <1>6. /\ end \div 8 \in Nat /\ end % 8 \in 0..7
        /\ end = 8 * (end \div 8) + (end % 8)
    BY <1>5, Split
  <1>7. /\ OutputOK' /\ room' \in Nat
        /\ nextOut' = Storage \/ (nextOut' = nextOut /\ availableOut' = 0)
    <2>1. CASE FitsInPlace
      <3>1. /\ lastBits' = end % 8 /\ room' = room - (end \div 8)
            /\ owed' = owed + (end - lastBits) - 8 * (end \div 8)
            /\ availableOut' = 0 /\ nextOut' = nextOut
        BY <1>1, <1>3, <2>1 DEF end
      <3>2. end \div 8 <= room
        BY <1>2, <1>4, <1>5, <1>6, <2>1 DEF FitsInPlace
      <3>3. room' \in Nat /\ owed' = lastBits'
        <4>1. end % 8 \in Nat /\ lastBits \in Nat
          BY <1>4, <1>6
        <4>2. \A q, r, b \in Nat : b + ((8 * q + r) - b) - 8 * q = r
          OBVIOUS
        <4>3. \A q, a \in Nat : q <= a => a - q \in Nat
          OBVIOUS
        <4>4. owed' = lastBits + ((8 * (end \div 8) + (end % 8)) - lastBits)
                          - 8 * (end \div 8)
          BY <1>4, <1>6, <3>1
        <4>5. owed' = end % 8
          BY <1>6, <4>1, <4>2, <4>4
        <4>6. room' \in Nat
          BY <1>4, <1>6, <3>1, <3>2, <4>3
        <4> QED
          BY <3>1, <4>5, <4>6
      <3>4. OutputOK'
        BY <1>1, <1>6, <3>1, <3>3, SMTT(60) DEF IInv, OutputOK, BitsAddUp
      <3>5. QED
        BY <3>1, <3>3, <3>4
    <2>2. CASE ~FitsInPlace
      <3>1. /\ lastBits' = end % 8 /\ room' = room
            /\ owed' = owed + (end - lastBits)
            /\ availableOut' = end \div 8 /\ nextOut' = Storage
        BY <1>3, <2>2 DEF end
      <3>2. owed' = 8 * availableOut' + lastBits' /\ owed' \in Nat
        BY <1>4, <1>5, <1>6, <3>1
      <3>3. nextOut' \in NextOuts /\ nextOut' # Null /\ nextOut'.kind # "tiny"
        BY <3>1 DEF NextOuts, Storage, Null
      <3>4. OutputOK'
        BY <1>6, <3>1, <3>2, <3>3 DEF OutputOK, BitsAddUp
      <3>5. QED
        BY <1>4, <3>1, <3>4
    <2>3. QED
      BY <2>1, <2>2
  <1>8. PositionsOK' /\ FirstBytesOK'
    BY <1>1 DEF IInv, PositionsOK, FirstBytesOK, Unprocessed, positions, fixed
  <1>9. StateOK'
    <2>1. streamState' \in {"PROCESSING", "FLUSH_REQUESTED", "FINISHED"}
      BY <1>1 DEF NextState
    <2>2. QED
      BY <1>1, <1>7, <2>1
      DEF IInv, StateOK, States, InMetadata, metadata
  <1>10. CallOK'
    BY <1>1, <1>2, <1>7 DEF IInv, CallOK
  <1>11. QED
    BY <1>7, <1>8, <1>9, <1>10 DEF IInv
-----------------------------------------------------------------------------
\* The steps of process_metadata

\* process_metadata returns for want of room.
LEMMA MetadataOutputIsFullPreserves ==
    ASSUME IInv, MetadataOutputIsFull
    PROVE  IInv'
  <1>1. PositionsOK' /\ FirstBytesOK' /\ OutputOK' /\ StateOK'
    BY DEF MetadataOutputIsFull, IInv, PositionsOK, FirstBytesOK, OutputOK,
           StateOK, BitsAddUp, InMetadata, Unprocessed, encoder,
           ghosts
  <1>2. CallOK'
    BY DEF MetadataOutputIsFull, IInv, CallOK, Leave
  <1>3. QED
    BY <1>1, <1>2 DEF IInv

\* process_metadata encodes what is buffered first.
LEMMA MetadataFlushPreserves ==
    ASSUME IInv, MetadataFlush
    PROVE  IInv'
  <1>1. /\ pc = "metadata" /\ availableOut = 0
        /\ Encode(FALSE, TRUE, streamState)
    BY DEF MetadataFlush
  <1>2. streamState \in States
    BY DEF IInv, StateOK
  <1>3. QED
    BY <1>1, <1>2, EncodePreserves

\* The header replaces the started byte in tiny_buf_.
LEMMA WriteMetadataHeaderPreserves ==
    ASSUME IInv, WriteMetadataHeader
    PROVE  IInv'
  <1> DEFINE end == MetadataHeader(lastBits, remainingMeta)
  <1>1. /\ pc = "metadata" /\ availableOut = 0
        /\ streamState = "METADATA_HEAD" /\ streamState' = "METADATA_BODY"
        /\ availableOut' = (end + 7) \div 8
        /\ owed' = owed + (Align(end) - lastBits)
        /\ lastBits' = 0 /\ nextOut' = Tiny(0)
        /\ UNCHANGED <<positions, remainingMeta, block, fixed, call>>
    BY DEF WriteMetadataHeader, MetadataMovesOn
  <1>2. lastBits \in 0..14 /\ owed = lastBits /\ remainingMeta \in Nat
    BY <1>1, SizesAssumption
    DEF IInv, OutputOK, BitsAddUp, StateOK, InMetadata, NoMeta
  <1>3. end \in Nat /\ end <= 44
    BY <1>2, HeaderIsShort
  <1> HIDE DEF end
  <1>4. /\ Align(end) = 8 * ((end + 7) \div 8)
        /\ (end + 7) \div 8 \in 0..6
    BY <1>3, SMT DEF Align
  <1>5. PositionsOK' /\ FirstBytesOK'
    BY <1>1 DEF IInv, PositionsOK, FirstBytesOK, Unprocessed, positions,
                block, fixed
  <1>6. /\ nextOut' \in NextOuts /\ nextOut' # Null /\ nextOut'.off = 0
        /\ nextOut'.kind = "tiny"
    BY <1>1 DEF NextOuts, Tiny, Null, TinyBuf
  <1>7. availableOut' \in 0..6 /\ owed' = 8 * availableOut' + lastBits'
    BY <1>1, <1>2, <1>4
  <1>8. OutputOK'
    <2>1. /\ lastBits' \in 0..14
          /\ lastBits' > 7 => nextOut' = Null
      BY <1>1
    <2>2. availableOut' \in Nat
      BY <1>7
    <2>3. nextOut'.kind = "tiny" => nextOut'.off + availableOut' <= TinyBuf
      BY <1>6, <1>7, FromOffsetZero DEF TinyBuf
    <2>4. BitsAddUp'
      BY <1>7 DEF BitsAddUp
    <2>5. owed' \in Nat
      <3>1. 8 * availableOut' + lastBits' \in Nat
        BY <2>1, <2>2, BitsAreNat, Zenon
      <3>2. QED
        BY <3>1, <2>4 DEF BitsAddUp
    <2>6. nextOut' \in NextOuts /\ (nextOut' = Null => availableOut' = 0)
      BY <1>6
    <2>7. QED
      BY <2>1, <2>2, <2>3, <2>4, <2>5, <2>6, Zenon DEF OutputOK
  <1>9. StateOK'
    BY <1>1, <1>6, <1>7 DEF IInv, StateOK, States, InMetadata, block
  <1>10. CallOK'
    BY <1>1 DEF IInv, CallOK, InMetadata, call
  <1>11. QED
    BY <1>5, <1>8, <1>9, <1>10 DEF IInv

\* The stream returns from metadata to input.
LEMMA MetadataDonePreserves ==
    ASSUME IInv, MetadataDone
    PROVE  IInv'
  <1>1. /\ streamState = "METADATA_BODY" /\ streamState' = "PROCESSING"
        /\ remainingMeta' = NoMeta /\ Leave("ok")
        /\ UNCHANGED <<positions, output, block, fixed>>
    BY DEF MetadataDone
  <1>2. PositionsOK' /\ FirstBytesOK' /\ OutputOK'
    BY <1>1 DEF IInv, PositionsOK, FirstBytesOK, OutputOK, BitsAddUp,
                Unprocessed, positions, output, block, fixed
  <1>3. StateOK'
    BY <1>1 DEF IInv, StateOK, States, InMetadata, output, block
  <1>4. CallOK'
    BY <1>1 DEF IInv, CallOK, Leave
  <1>5. QED
    BY <1>2, <1>3, <1>4 DEF IInv

\* Metadata go to the client's buffer or, 16 bytes at most, to tiny_buf_.
LEMMA CopyMetadataPreserves ==
    ASSUME IInv, CopyMetadata
    PROVE  IInv'
  <1> DEFINE n == Least(remainingMeta, IF room # 0 THEN room ELSE TinyBuf)
  <1>1. /\ pc = "metadata" /\ availableOut = 0
        /\ streamState = "METADATA_BODY" /\ availIn' = availIn - n
        /\ remainingMeta' = remainingMeta - n
        /\ IF room # 0
           THEN room' = room - n /\ UNCHANGED <<output>>
           ELSE /\ nextOut' = Tiny(0) /\ availableOut' = n
                /\ owed' = owed + 8 * n
                /\ UNCHANGED <<lastBits, room>>
        /\ UNCHANGED <<positions, block, fixed, streamState, pc, op, result>>
    BY DEF CopyMetadata, MetadataMovesOn
  <1>2. /\ remainingMeta \in 0..MaxMetadata /\ remainingMeta \in Nat
        /\ availIn = remainingMeta /\ room \in Nat
        /\ lastBits \in 0..14 /\ owed = lastBits
        /\ nextOut # Null /\ lastBits <= 7
    BY <1>1, SizesAssumption
    DEF IInv, OutputOK, BitsAddUp, StateOK, CallOK, InMetadata, NoMeta
  <1>3. /\ n \in Nat /\ n <= remainingMeta
        /\ room # 0 => n <= room
        /\ room = 0 => n <= TinyBuf
    BY <1>2, LeastProperties DEF TinyBuf
  <1> HIDE DEF n
  <1>4. /\ remainingMeta' \in 0..MaxMetadata /\ availIn' = remainingMeta'
        /\ availIn' \in Nat /\ room' \in Nat /\ remainingMeta' # NoMeta
    BY <1>1, <1>2, <1>3, SizesAssumption DEF NoMeta
  <1>5. PositionsOK' /\ FirstBytesOK'
    BY <1>1 DEF IInv, PositionsOK, FirstBytesOK, Unprocessed, positions,
                block, fixed
  <1>6. CASE room # 0
    <2>1. UNCHANGED output
      BY <1>1, <1>6
    <2>2. OutputOK'
      BY <2>1 DEF IInv, OutputOK, BitsAddUp, output
    <2>3. StateOK'
      BY <1>1, <1>4, <2>1 DEF IInv, StateOK, InMetadata, output, block
    <2>4. QED
      BY <2>2, <2>3, <1>1, <1>4, <1>5 DEF IInv, CallOK, InMetadata
  <1>7. CASE room = 0
    <2>1. /\ nextOut' \in NextOuts /\ nextOut' # Null /\ nextOut'.off = 0
          /\ nextOut'.kind = "tiny"
      BY <1>1, <1>7 DEF NextOuts, Tiny, Null, TinyBuf
    <2>2. /\ availableOut' = n /\ lastBits' = lastBits
          /\ owed' = 8 * availableOut' + lastBits'
      BY <1>1, <1>2, <1>3, <1>7
    <2>3. OutputOK'
      BY <1>2, <1>3, <1>7, <2>1, <2>2 DEF OutputOK, BitsAddUp
    <2>4. StateOK'
      BY <1>1, <1>4, <2>1 DEF IInv, StateOK, InMetadata, block
    <2>5. QED
      BY <2>3, <2>4, <1>1, <1>4, <1>5 DEF IInv, CallOK, InMetadata
  <1>8. QED
    BY <1>2, <1>6, <1>7
-----------------------------------------------------------------------------
\* The calls of the client

\* An accepted call enters the loop its operation has.
LEMMA CompressStreamPreserves ==
    ASSUME IInv, NEW o \in {"PROCESS", "FLUSH", "FINISH", "METADATA"},
           NEW n \in Nat, NEW m \in Nat, CompressStream(o, n, m)
    PROVE  IInv'
  <1>1. /\ pc = "idle" /\ ~Refuses(o, n) /\ pc' = Loop(o) /\ op' = o
        /\ availIn' = n /\ room' = m
        /\ UNCHANGED <<params, customDict, result, positions, output, block>>
    BY DEF CompressStream
  <1>2. PositionsOK' /\ FirstBytesOK' /\ OutputOK'
    BY <1>1 DEF IInv, PositionsOK, FirstBytesOK, OutputOK, BitsAddUp,
                Unprocessed, positions, output, block
  <1>3. CASE o = "METADATA" /\ streamState = "PROCESSING"
    <2>1. remainingMeta' = n /\ streamState' = "METADATA_HEAD"
      BY <1>3 DEF CompressStream
    <2>2. n \in 0..MaxMetadata /\ n # NoMeta
      BY <1>1, <1>3, SizesAssumption DEF Refuses, NoMeta
    <2>3. StateOK'
      BY <1>1, <1>3, <2>1, <2>2
      DEF IInv, StateOK, States, InMetadata, output, block
    <2>4. CallOK'
      BY <1>1, <1>3, <2>1 DEF IInv, CallOK, Loop, InMetadata
    <2>5. QED
      BY <1>2, <2>3, <2>4 DEF IInv
  <1>4. CASE ~(o = "METADATA" /\ streamState = "PROCESSING")
    <2>1. UNCHANGED <<remainingMeta, streamState>>
      BY <1>4 DEF CompressStream
    <2>2. StateOK'
      BY <1>1, <2>1 DEF IInv, StateOK, InMetadata, output, block
    <2>3. o = "METADATA" => InMetadata /\ n = remainingMeta
      BY <1>1, <1>4 DEF Refuses, IInv, StateOK, States, InMetadata
    <2>4. CallOK'
      BY <1>1, <2>1, <2>3 DEF IInv, CallOK, Loop, InMetadata
    <2>5. QED
      BY <1>2, <2>2, <2>4 DEF IInv
  <1>5. QED
    BY <1>3, <1>4

\* take_output between calls, which may complete a flush.
LEMMA TakeOutputPreserves ==
    ASSUME IInv, NEW size \in Nat, TakeOutput(size)
    PROVE  IInv'
  <1> DEFINE n == IF size = 0 THEN availableOut ELSE Least(size, availableOut)
             left == availableOut - n
             complete == streamState = "FLUSH_REQUESTED" /\ left = 0
  <1>1. /\ pc = "idle" /\ n # 0 /\ op' = "take"
        /\ availableOut' = left /\ owed' = owed - 8 * n
        /\ nextOut' = IF complete THEN Null ELSE NextOutIncrement(n)
        /\ streamState' = IF complete THEN "PROCESSING" ELSE streamState
        /\ UNCHANGED <<lastBits, positions, metadata, block, fixed, pc,
                       availIn, room, result>>
    BY DEF TakeOutput
  <1>2. n \in Nat /\ n <= availableOut /\ availableOut \in Nat
    BY LeastProperties DEF IInv, OutputOK
  <1> HIDE DEF n
  <1>3. PositionsOK' /\ FirstBytesOK'
    BY <1>1 DEF IInv, PositionsOK, FirstBytesOK, Unprocessed, positions,
                block, fixed
  <1>4. CallOK'
    BY <1>1 DEF IInv, CallOK
  <1>5. CASE complete
    <2>1. /\ nextOut' = Null /\ streamState' = "PROCESSING"
          /\ streamState = "FLUSH_REQUESTED"
          /\ availableOut' = 0
      BY <1>1, <1>5
    <2>2. owed' = lastBits' /\ lastBits' \in 0..14
      BY <1>1, <1>2, <1>5 DEF IInv, OutputOK, BitsAddUp
    <2>3. OutputOK'
      <3>1. nextOut' \in NextOuts /\ nextOut'.kind # "tiny"
        BY <2>1 DEF NextOuts, Null
      <3>2. lastBits' \in Nat
        BY <2>2
      <3>3. owed' = lastBits'
        BY <2>2
      <3>4. availableOut' = 0
        BY <2>1
      <3>5. /\ availableOut' \in Nat
            /\ owed' \in Nat /\ owed' = 8 * availableOut' + lastBits'
        BY <3>2, <3>3, <3>4, EmptyOutput
      <3>6. QED
        BY <2>1, <2>2, <3>1, <3>5 DEF OutputOK, BitsAddUp
    <2>4. StateOK'
      BY <1>1, <2>1 DEF IInv, StateOK, States, InMetadata, Null, metadata,
                        block
    <2>5. QED
      BY <1>3, <1>4, <2>3, <2>4 DEF IInv
  <1>6. CASE ~complete
    <2>1. nextOut' = NextOutIncrement(n) /\ streamState' = streamState
      BY <1>1, <1>6
    <2>2. /\ OutputOK' /\ nextOut' # Null /\ nextOut'.kind = nextOut.kind
          /\ nextOut.kind = "tiny" =>
                nextOut'.off + availableOut' = nextOut.off + availableOut
      BY <1>1, <1>2, <2>1, TakenOutput DEF IInv
    <2>3. StateOK'
      BY <1>1, <2>1, <2>2 DEF IInv, StateOK, InMetadata, metadata,
                              block
    <2>4. QED
      BY <1>3, <1>4, <2>2, <2>3 DEF IInv
  <1>7. QED
    BY <1>5, <1>6
-----------------------------------------------------------------------------
\* The theorems

\* ensure_initialized and a dictionary establish the invariant.
LEMMA InitIInv == Init => IInv
  <1> SUFFICES ASSUME Init PROVE IInv
    OBVIOUS
  <1>1. PICK p \in {SanitizeParams(f) : f \in Flags}, d \in Dicts :
            /\ params = Catable(p, d)
            /\ customDict = UsesDict(p, d)
            /\ inputPos = IF UsesDict(p, d) THEN d ELSE 0
            /\ lastBits \in IF p.catable /\ p.bare THEN {0}
                            ELSE IF p.fragment THEN HeaderBits \cap {4, 14}
                            ELSE HeaderBits
    BY DEF Init
  <1>2. inputPos \in Nat /\ (~customDict => inputPos = 0)
    BY <1>1, SizesAssumption
  <1>3. lastBits \in 0..14
    BY <1>1, SizesAssumption
  <1>4. PositionsOK
    BY <1>2, BlockAssumption DEF Init, PositionsOK, Unprocessed
  <1>5. FirstBytesOK
    BY <1>2 DEF Init, FirstBytesOK
  <1>6. OutputOK
    BY <1>3 DEF Init, OutputOK, BitsAddUp, NextOuts, Null
  <1>7. StateOK
    BY SizesAssumption DEF Init, StateOK, States, InMetadata, NoMeta, Null
  <1>8. CallOK
    BY DEF Init, CallOK
  <1>9. QED
    BY <1>4, <1>5, <1>6, <1>7, <1>8 DEF IInv

\* Every step keeps the invariant.
LEMMA NextIInv == IInv /\ [Next]_vars => IInv'
  <1> SUFFICES ASSUME IInv, [Next]_vars PROVE IInv'
    OBVIOUS
  <1>1. CASE UNCHANGED vars
    BY <1>1 DEF IInv, PositionsOK, FirstBytesOK, OutputOK, StateOK, CallOK,
                BitsAddUp, InMetadata, Unprocessed, vars, encoder,
                call, ghosts
  <1>2. ASSUME InjectFlushOrPush PROVE IInv'
    BY <1>2, SealPreserves, PushPreserves DEF InjectFlushOrPush
  <1>3. CASE Step
    <2>1. CASE CopyInput
      BY <2>1, CopyInputPreserves
    <2>2. CASE SlowInjectOrPush
      BY <2>2, <1>2 DEF SlowInjectOrPush
    <2>3. CASE SlowEncode
      BY <2>3, SlowEncodePreserves
    <2>4. CASE SlowReturn
      BY <2>4, ReturnPreserves DEF SlowReturn
    <2>5. CASE FastInjectOrPush
      BY <2>5, <1>2 DEF FastInjectOrPush
    <2>6. CASE FastFlushNothing
      BY <2>6, FastFlushNothingPreserves
    <2>7. CASE FastCompress
      BY <2>7, FastCompressPreserves
    <2>8. CASE FastReturn
      BY <2>8, ReturnPreserves DEF FastReturn
    <2>9. CASE MetadataInjectOrPush
      BY <2>9, <1>2 DEF MetadataInjectOrPush
    <2>10. CASE MetadataOutputIsFull
      BY <2>10, MetadataOutputIsFullPreserves
    <2>11. CASE MetadataFlush
      BY <2>11, MetadataFlushPreserves
    <2>12. CASE WriteMetadataHeader
      BY <2>12, WriteMetadataHeaderPreserves
    <2>13. CASE MetadataDone
      BY <2>13, MetadataDonePreserves
    <2>14. CASE CopyMetadata
      BY <2>14, CopyMetadataPreserves
    <2>15. QED
      BY <1>3, <2>1, <2>2, <2>3, <2>4, <2>5, <2>6, <2>7, <2>8, <2>9, <2>10,
         <2>11, <2>12, <2>13, <2>14 DEF Step
  <1>4. CASE Client
    <2>1. ASSUME NEW o \in {"PROCESS", "FLUSH", "FINISH"}, NEW n \in Chunks,
                 NEW m \in Rooms, CompressStream(o, n, m)
          PROVE  IInv'
      BY <2>1, CompressStreamPreserves, SizesAssumption
    <2>2. ASSUME NEW n \in Metadata \cup {remainingMeta}, n >= 0,
                 NEW m \in Rooms, CompressStream("METADATA", n, m)
          PROVE  IInv'
      <3>1. n \in Nat
        BY <2>2, SizesAssumption DEF IInv, StateOK, NoMeta
      <3>2. QED
        BY <2>2, <3>1, CompressStreamPreserves, SizesAssumption
    <2>3. ASSUME NEW size \in Takes, TakeOutput(size) PROVE IInv'
      BY <2>3, TakeOutputPreserves, SizesAssumption
    <2>4. QED
      BY <1>4, <2>1, <2>2, <2>3 DEF Client
  <1>5. QED
    BY <1>1, <1>3, <1>4 DEF Next

\* The invariant holds in every reachable state.
LEMMA Invariance == Spec => []IInv
  BY InitIInv, NextIInv, PTL DEF Spec

\* Every variable of the encoder and of the call stays in its type: positions
\* in order, pending output in a buffer, metadata awaited only in a metadata
\* block.
THEOREM TypeCorrect == Spec => []TypeOK
  <1>1. IInv => TypeOK
    <2> SUFFICES ASSUME IInv PROVE TypeOK
      OBVIOUS
    <2>1. nextOut \in {Null, Storage} \cup {Tiny(i) : i \in 0..TinyBuf}
      BY DEF IInv, OutputOK, NextOuts
    <2>2. QED
      BY <2>1 DEF IInv, PositionsOK, FirstBytesOK, OutputOK, StateOK, CallOK,
                  States, TypeOK
  <1>2. QED
    BY <1>1, Invariance, PTL

\* encode_data, the fragment coders, inject_byte_padding_block, the metadata
\* writer, and every way output leaves agree on the bits that are pending.
THEOREM BitsCorrect == Spec => []BitsAddUp
  <1>1. IInv => BitsAddUp
    BY DEF IInv, OutputOK
  <1>2. QED
    BY <1>1, Invariance, PTL

\* However calls cut the input into pieces, a metablock that encode_data puts
\* off never outgrows MaxMetablockSize.
THEOREM MetablocksFit == Spec => []UnflushedFits
  <1>1. IInv => UnflushedFits
    <2> SUFFICES ASSUME IInv, ~params.fragment
                 PROVE  inputPos - lastFlushPos <= MaxMetablock
      BY DEF UnflushedFits
    <2>1. /\ inputPos \in Nat /\ lastProcessedPos \in Nat
          /\ lastFlushPos \in Nat
          /\ inputPos - lastProcessedPos <= BlockSize
          /\ lastProcessedPos - lastFlushPos + BlockSize <= MaxMetablock
      BY DEF IInv, PositionsOK, Unprocessed
    <2>2. QED
      BY <2>1, BlockAssumption
  <1>2. QED
    BY <1>1, Invariance, PTL
-----------------------------------------------------------------------------
\* A second layer: the input in order, how much of it a complete operation
\* covers, and the end of the stream.

ParamsOK == params.bare => params.byteAlign

\* While a catable stream of fragments awaits its first bytes, both positions
\* are the same: only those bytes move last_flush_pos_.
OrderOK ==
    /\ InputInOrder
    /\ params.fragment /\ params.catable /\ isFirst # "BothCatableBytesWritten"
          => lastFlushPos = lastProcessedPos

\* What the stream state says about the input and the started byte.
CoveredOK ==
    /\ streamState \in {"FLUSH_REQUESTED", "FINISHED"} => backlog = 0
    /\ streamState = "FINISHED" => lastBits = 0
    /\ streamState = "METADATA_BODY" =>
          inputPos = lastFlushPos /\ lastBits = 0
    /\ params.fragment /\ ~params.catable => backlog = 0

\* What a loop knows of the call it is in.
InLoop == pc \in {"slow", "fast"}
LoopOK ==
    /\ InLoop => ~InMetadata /\ op \in {"PROCESS", "FLUSH", "FINISH"}
    /\ InLoop /\ streamState # "PROCESSING" => availIn = 0
    /\ InLoop /\ clean /\ op # "FLUSH" => streamState # "FLUSH_REQUESTED"
    /\ pc = "metadata" => op = "METADATA"
    /\ pc = "slow" => ~params.fragment \/ params.catable
    /\ pc = "fast" => params.fragment /\ ~params.catable

KInv ==
    /\ ParamsOK /\ OrderOK /\ CoveredOK /\ LoopOK
    /\ OperationsComplete /\ StreamEndsAsAsked

\* A boundary of bytes is one.
LEMMA AlignIsWhole ==
    ASSUME NEW ix \in Nat
    PROVE  Align(ix) % 8 = 0
  <1>1. Align(ix) = 8 * ((ix + 7) \div 8) /\ (ix + 7) \div 8 \in Int
    BY AlignProperties, Split
  <1>2. QED
    BY <1>1

LEMMA BlocksEndWhole ==
    ASSUME NEW ix \in Nat
    PROVE  EmptyLast(ix) % 8 = 0 /\ Padding(ix) % 8 = 0
  <1>1. Align(ix + 2) % 8 = 0 /\ Align(ix + 6) % 8 = 0
    BY AlignIsWhole
  <1>2. QED
    BY <1>1 DEF EmptyLast, Padding

\* What encode_data takes to be covered is covered, and the bytes of a header
\* follow it.
LEMMA WhereBlocksBegin ==
    ASSUME PositionsOK, OutputOK, OrderOK
    PROVE  /\ Covered = IF params.fragment THEN lastProcessedPos
                        ELSE lastFlushPos
           /\ FirstBytes = 0 \/ lastFlushPos = Covered
           /\ FirstBytes # 0 => params.catable
           /\ NextIsFirst # "BothCatableBytesWritten" =>
                 isFirst # "BothCatableBytesWritten" \/ ~params.catable
           /\ params.catable /\ NextIsFirst # "BothCatableBytesWritten" =>
                 ProcessedPos = inputPos
  <1>1. /\ inputPos \in Nat /\ lastProcessedPos \in Nat /\ lastFlushPos \in Nat
        /\ lastProcessedPos <= inputPos
    BY DEF PositionsOK
  <1>2. backlog = inputPos - (IF params.fragment THEN lastProcessedPos
                              ELSE lastFlushPos)
    BY DEF OrderOK, InputInOrder
  <1>3. Covered = IF params.fragment THEN lastProcessedPos ELSE lastFlushPos
    BY <1>1, <1>2 DEF Covered
  <1>4. FirstBytes # 0 =>
           params.catable /\ isFirst # "BothCatableBytesWritten"
    BY DEF FirstBytes
  <1>5. FirstBytes = 0 \/ lastFlushPos = Covered
    BY <1>3, <1>4 DEF OrderOK
  <1>6. NextIsFirst # "BothCatableBytesWritten" =>
           isFirst # "BothCatableBytesWritten" \/ ~params.catable
    BY <1>4 DEF NextIsFirst, WritesMagic
  <1>7. ASSUME params.catable, NextIsFirst # "BothCatableBytesWritten"
        PROVE  ProcessedPos = inputPos
    <2>1. isFirst # "BothCatableBytesWritten" /\ FirstBytes # 2
      BY <1>6, <1>7 DEF NextIsFirst
    <2>2. FirstBytes = Unprocessed
      BY <1>7, <2>1 DEF FirstBytes, Least
    <2>3. QED
      BY <1>1, <2>2 DEF ProcessedPos, Unprocessed
  <1>8. QED
    BY <1>3, <1>4, <1>5, <1>6, <1>7

\* A header that is kept, and blocks up to the input position, continue the
\* input where it was covered.
LEMMA KeepHeaderOrder ==
    ASSUME PositionsOK, OutputOK, OrderOK, NEW processed,
           params.fragment => processed = ProcessedPos,
           KeepHeader(processed),
           inputPos' = inputPos, params' = params, isFirst' = NextIsFirst
    PROVE  OrderOK' /\ backlog' = backlog - FirstBytes
  <1>1. /\ backlog' = backlog - FirstBytes
        /\ inOrder' = (inOrder /\ (FirstBytes = 0 \/ lastFlushPos = Covered))
        /\ lastFlushPos' = FlushPos /\ lastProcessedPos' = processed
    BY DEF KeepHeader
  <1>2. /\ inputPos \in Nat /\ lastProcessedPos \in Nat /\ lastFlushPos \in Nat
        /\ FirstBytes \in Nat
        /\ FlushPos = lastFlushPos + FirstBytes
        /\ ProcessedPos = lastProcessedPos + FirstBytes
    BY HeaderProperties DEF PositionsOK, FlushPos, ProcessedPos
  <1>3. inOrder /\ backlog = inputPos - (IF params.fragment
                                        THEN lastProcessedPos
                                        ELSE lastFlushPos)
    BY DEF OrderOK, InputInOrder
  <1>4. inOrder'
    BY <1>1, <1>3, WhereBlocksBegin
  <1>5. backlog' = inputPos' - (IF params'.fragment THEN lastProcessedPos'
                                ELSE lastFlushPos')
    BY <1>1, <1>2, <1>3
  <1>6. ASSUME params.fragment, params.catable,
               NextIsFirst # "BothCatableBytesWritten"
        PROVE  lastFlushPos' = lastProcessedPos'
    <2>1. lastFlushPos = lastProcessedPos
      BY <1>6, WhereBlocksBegin DEF OrderOK
    <2>2. QED
      BY <1>1, <1>2, <1>6, <2>1
  <1>7. QED
    BY <1>1, <1>4, <1>5, <1>6 DEF OrderOK, InputInOrder

(* Writing a metablock covers the input up to its end, once.               *)
LEMMA WriteUpToOrder ==
    ASSUME PositionsOK, OutputOK, OrderOK, NEW ix, NEW last, NEW start,
           NEW flushed,
           start = IF params.fragment THEN ProcessedPos ELSE FlushPos,
           flushed = IF params.fragment THEN FlushPos ELSE inputPos,
           WriteUpTo(start, flushed, ix, last),
           inputPos' = inputPos, params' = params, isFirst' = NextIsFirst
    PROVE  OrderOK' /\ backlog' = 0
  <1>1. /\ backlog' = backlog - (inputPos - start) - FirstBytes
        /\ inOrder' = /\ inOrder
                      /\ FirstBytes = 0 \/ lastFlushPos = Covered
                      /\ start = inputPos \/ start = Covered + FirstBytes
        /\ lastFlushPos' = flushed /\ lastProcessedPos' = inputPos
    BY DEF WriteUpTo
  <1>2. /\ inputPos \in Nat /\ lastProcessedPos \in Nat /\ lastFlushPos \in Nat
        /\ FirstBytes \in Nat
        /\ FlushPos = lastFlushPos + FirstBytes
        /\ ProcessedPos = lastProcessedPos + FirstBytes
    BY HeaderProperties DEF PositionsOK, FlushPos, ProcessedPos
  <1>3. inOrder /\ backlog = inputPos - (IF params.fragment
                                        THEN lastProcessedPos
                                        ELSE lastFlushPos)
    BY DEF OrderOK, InputInOrder
  <1>4. start = Covered + FirstBytes
    BY <1>2, WhereBlocksBegin
  <1>5. inOrder'
    BY <1>1, <1>3, <1>4, WhereBlocksBegin
  <1>6. backlog' = 0
    BY <1>1, <1>2, <1>3
  <1>7. inputPos' - (IF params'.fragment THEN lastProcessedPos'
                     ELSE lastFlushPos') = 0
    BY <1>1, <1>2
  <1>8. ASSUME params.fragment, params.catable,
               NextIsFirst # "BothCatableBytesWritten"
        PROVE  lastFlushPos' = lastProcessedPos'
    <2>1. lastFlushPos = lastProcessedPos /\ ProcessedPos = inputPos
      BY <1>8, WhereBlocksBegin DEF OrderOK
    <2>2. QED
      BY <1>1, <1>2, <1>8, <2>1
  <1>9. QED
    BY <1>5, <1>6, <1>7, <1>8 DEF OrderOK, InputInOrder

\* Whatever branch encode_data takes, the input stays in order; the last
\* block and a forced one cover all of it; and the last one ends as asked.
EndsAsAsked ==
    /\ lastBits' = 0
    /\ ~params.fragment =>
          /\ params.bare <=> ending' = "bare"
          /\ params.appendable => ending' # "data"
          /\ params.byteAlign => ending' \in {"bare", "aligned"}

LEMMA WriteUpToEnds ==
    ASSUME NEW ix, NEW last, NEW start, NEW flushed, ix % 8 = 0,
           WriteUpTo(start, flushed, ix, last)
    PROVE  lastBits' = 0 /\ ending' = last
  BY DEF WriteUpTo

(* So does a fragment of qualities 0 and 1.                                *)
LEMMA FragmentBlockOrder ==
    ASSUME PositionsOK, OutputOK, OrderOK, params.fragment,
           NEW isLast \in BOOLEAN, FragmentBlock(isLast),
           inputPos' = inputPos, params' = params, isFirst' = NextIsFirst
    PROVE  OrderOK' /\ backlog' = 0 /\ (isLast => EndsAsAsked)
  <1>1. PICK ix \in FragmentEnds(HeaderEnd, inputPos - ProcessedPos) :
            IF isLast
            THEN WriteUpTo(ProcessedPos, FlushPos, EmptyLast(ix), EmptyAt(ix))
            ELSE WriteUpTo(ProcessedPos, FlushPos, ix, ending)
    BY DEF FragmentBlock
  <1>2. ix \in Nat
    <2>1. HeaderEnd \in Nat /\ inputPos - ProcessedPos \in Nat
      BY HeaderProperties DEF PositionsOK
    <2>2. QED
      BY <2>1, EndsAreBits
  <1>3. PICK end, last : WriteUpTo(ProcessedPos, FlushPos, end, last)
    BY <1>1
  <1>4. OrderOK' /\ backlog' = 0
    BY <1>3, WriteUpToOrder
  <1>5. isLast => lastBits' = 0
    BY <1>1, <1>2, BlocksEndWhole, WriteUpToEnds
  <1>6. QED
    BY <1>4, <1>5 DEF EndsAsAsked

LEMMA MetablockOrder ==
    ASSUME PositionsOK, OutputOK, OrderOK, ParamsOK, ~params.fragment,
           NEW isLast \in BOOLEAN, Metablock(isLast),
           inputPos' = inputPos, params' = params, isFirst' = NextIsFirst
    PROVE  OrderOK' /\ backlog' = 0 /\ (isLast => EndsAsAsked)
  <1> DEFINE n == inputPos - FlushPos
             from == IF PadsEmptyStream THEN Padding(HeaderEnd) ELSE HeaderEnd
  <1>1. n \in Nat /\ from \in Nat
    <2>1. /\ HeaderEnd \in Nat /\ FlushPos \in Nat
          /\ inputPos \in Nat /\ FlushPos <= inputPos
      BY HeaderProperties DEF PositionsOK
    <2>2. Padding(HeaderEnd) \in Nat
      BY <2>1, BlocksAreBits
    <2>3. QED
      BY <2>1, <2>2
  <1>2. CASE isLast /\ LastHoldsData(n)
    <2>1. \/ \E ix \in CompressedEnds(from, n, TRUE) :
               WriteUpTo(FlushPos, inputPos, ix, "data")
          \/ WriteUpTo(FlushPos, inputPos,
                       EmptyLast(Uncompressed(from, n)), "aligned")
      BY <1>2 DEF Metablock
    <2>2. ~params.appendable /\ ~params.byteAlign /\ ~params.bare
      BY <1>2 DEF LastHoldsData, ParamsOK
    <2> HIDE DEF n, from
    <2>3. CASE \E ix \in CompressedEnds(from, n, TRUE) :
                 WriteUpTo(FlushPos, inputPos, ix, "data")
      <3>1. PICK ix \in CompressedEnds(from, n, TRUE) :
                WriteUpTo(FlushPos, inputPos, ix, "data")
        BY <2>3
      <3>2. ix % 8 = 0
        <4>1. PICK c \in CompressedBits : ix = Align(from + c)
          BY DEF CompressedEnds
        <4>2. from + c \in Nat
          BY <1>1, SizesAssumption
        <4>3. QED
          BY <4>1, <4>2, AlignIsWhole
      <3>3. lastBits' = 0 /\ ending' = "data"
        BY <3>1, <3>2, WriteUpToEnds
      <3>4. OrderOK' /\ backlog' = 0
        BY <3>1, WriteUpToOrder
      <3>5. QED
        BY <2>2, <3>3, <3>4 DEF EndsAsAsked
    <2>4. CASE WriteUpTo(FlushPos, inputPos,
                         EmptyLast(Uncompressed(from, n)), "aligned")
      <3>1. EmptyLast(Uncompressed(from, n)) % 8 = 0
        BY <1>1, BlocksAreBits, BlocksEndWhole
      <3>2. lastBits' = 0 /\ ending' = "aligned"
        BY <2>4, <3>1, WriteUpToEnds
      <3>3. OrderOK' /\ backlog' = 0
        BY <2>4, WriteUpToOrder
      <3>4. QED
        BY <2>2, <3>2, <3>3 DEF EndsAsAsked
    <2>5. QED
      BY <2>1, <2>3, <2>4
  <1>3. CASE ~(isLast /\ LastHoldsData(n))
    <2>1. PICK ix \in MetablockEnds(from, n) :
              LET last == LastBlockStart(ix)
              IN  IF isLast
                  THEN WriteUpTo(FlushPos, inputPos, LastBlockEnd(last),
                                 EndOf(last))
                  ELSE WriteUpTo(FlushPos, inputPos, ix, ending)
      BY <1>3 DEF Metablock
    <2> HIDE DEF n, from
    <2>2. ix \in Nat
      BY <1>1, EndsAreBits
    <2>3. PICK end, last : WriteUpTo(FlushPos, inputPos, end, last)
      BY <2>1
    <2>4. OrderOK' /\ backlog' = 0
      BY <2>3, WriteUpToOrder
    <2>5. ASSUME isLast PROVE EndsAsAsked
      <3> DEFINE start == LastBlockStart(ix)
      <3>1. WriteUpTo(FlushPos, inputPos, LastBlockEnd(start), EndOf(start))
        BY <2>1, <2>5
      <3>2. /\ start \in Nat
            /\ params.byteAlign => start % 8 = 0
        BY <2>2, BlocksAreBits, BlocksEndWhole DEF LastBlockStart
      <3> HIDE DEF start
      <3>3. LastBlockEnd(start) % 8 = 0
        BY <3>2, BlocksEndWhole DEF LastBlockEnd, ParamsOK
      <3>4. lastBits' = 0 /\ ending' = EndOf(start)
        BY <3>1, <3>3, WriteUpToEnds
      <3>5. QED
        BY <3>2, <3>4 DEF EndsAsAsked, EndOf, EmptyAt, ParamsOK
    <2>6. QED
      BY <2>4, <2>5
  <1>4. QED
    BY <1>2, <1>3

LEMMA EncodeBlockOrder ==
    ASSUME PositionsOK, OutputOK, OrderOK, ParamsOK,
           NEW isLast \in BOOLEAN, NEW force \in BOOLEAN,
           EncodeBlock(isLast, force),
           inputPos' = inputPos, params' = params, isFirst' = NextIsFirst
    PROVE  /\ OrderOK'
           /\ isLast \/ force => backlog' = 0
           /\ isLast => EndsAsAsked
           /\ ~isLast => ending' = ending
  <1>1. /\ inputPos \in Nat /\ lastProcessedPos \in Nat /\ lastFlushPos \in Nat
        /\ FirstBytes \in Nat
        /\ FlushPos = lastFlushPos + FirstBytes
        /\ ProcessedPos = lastProcessedPos + FirstBytes
        /\ backlog = inputPos - (IF params.fragment THEN lastProcessedPos
                                 ELSE lastFlushPos)
    BY HeaderProperties
    DEF PositionsOK, FlushPos, ProcessedPos, OrderOK, InputInOrder
  <1>2. ~isLast => ending' = ending
    BY DEF EncodeBlock, KeepHeader, FragmentBlock, Metablock, WriteUpTo
  <1>3. CASE params.fragment /\ inputPos = ProcessedPos /\ ~isLast
             /\ KeepHeader(ProcessedPos)
    <2>1. OrderOK' /\ backlog' = backlog - FirstBytes
      BY <1>3, KeepHeaderOrder
    <2>2. QED
      BY <1>1, <1>2, <1>3, <2>1
  <1>4. CASE params.fragment /\ FragmentBlock(isLast)
    BY <1>2, <1>4, FragmentBlockOrder
  <1>5. CASE ~params.fragment /\ MayPostpone(isLast, force)
             /\ KeepHeader(inputPos)
    <2>1. OrderOK'
      BY <1>5, KeepHeaderOrder
    <2>2. QED
      BY <1>2, <1>5, <2>1 DEF MayPostpone
  <1>6. CASE ~params.fragment /\ ~isLast /\ inputPos = FlushPos
             /\ KeepHeader(ProcessedPos)
    <2>1. OrderOK' /\ backlog' = backlog - FirstBytes
      BY <1>6, KeepHeaderOrder
    <2>2. QED
      BY <1>1, <1>2, <1>6, <2>1
  <1>7. CASE ~params.fragment /\ Metablock(isLast)
    BY <1>2, <1>7, MetablockOrder
  <1>8. QED
    BY <1>3, <1>4, <1>5, <1>6, <1>7 DEF EncodeBlock

\* encode_data, called from the loops as they call it.
LEMMA EncodeOrder ==
    ASSUME IInv, OrderOK, ParamsOK, pc \in {"slow", "metadata"},
           pc = "slow" => streamState = "PROCESSING",
           NEW isLast \in BOOLEAN, NEW force \in BOOLEAN, NEW s,
           Encode(isLast, force, s)
    PROVE  /\ OrderOK' /\ ParamsOK'
           /\ isLast \/ force => backlog' = 0
           /\ isLast => EndsAsAsked
           /\ streamState' = s
           /\ UNCHANGED <<inputPos, metadata, fixed, call>>
  <1>1. streamState \in {"PROCESSING", "METADATA_HEAD", "METADATA_BODY"}
    BY DEF IInv, CallOK, InMetadata
  <1>2. ~lastBlockEmitted /\ ~(Unprocessed > BlockSize)
    <2>1. Unprocessed <= BlockSize /\ Unprocessed \in Nat
      BY DEF IInv, PositionsOK, Unprocessed
    <2>2. QED
      BY <1>1, <2>1, BlockAssumption DEF IInv, StateOK
  <1>3. FirstBytesAssertion
    BY DEF IInv, FirstBytesOK, FirstBytesAssertion, FirstBytes
  <1>4. /\ isFirst' = NextIsFirst /\ streamState' = s
        /\ EncodeBlock(isLast, force)
        /\ UNCHANGED <<inputPos, metadata, fixed, call>>
    BY <1>2, <1>3 DEF Encode
  <1>5. params' = params /\ inputPos' = inputPos
    BY <1>4 DEF fixed
  <1>6. ParamsOK'
    BY <1>5 DEF ParamsOK
  <1>7. QED
    BY <1>4, <1>5, <1>6, EncodeBlockOrder DEF IInv

\* Where the positions, the parameters and the first bytes stay, so does the
\* order.
LEMMA UnmovedOrder ==
    ASSUME OrderOK, ParamsOK, UNCHANGED <<positions, params, isFirst>>
    PROVE  OrderOK' /\ ParamsOK'
  BY DEF OrderOK, ParamsOK, InputInOrder, positions

\* Steps that only move output, or metadata, within a call.
LEMMA QuietStep ==
    ASSUME KInv, pc # "idle", pc' \in {pc, "panic"},
           availIn' = availIn \/ pc = "metadata",
           lastBits' \in {lastBits, 0},
           UNCHANGED <<positions, fixed, isFirst, streamState, op, ending>>
    PROVE  KInv'
  <1>1. OrderOK' /\ ParamsOK'
    BY UnmovedOrder DEF KInv, fixed
  <1>2. CoveredOK'
    BY DEF KInv, CoveredOK, positions, fixed
  <1>3. LoopOK'
    BY DEF KInv, LoopOK, InLoop, InMetadata, fixed
  <1>4. OperationsComplete'
    BY DEF KInv, OperationsComplete, CoveredOK, positions
  <1>5. StreamEndsAsAsked'
    BY DEF KInv, StreamEndsAsAsked, fixed
  <1>6. QED
    BY <1>1, <1>2, <1>3, <1>4, <1>5 DEF KInv

LEMMA InjectOrPushOrder ==
    ASSUME IInv, KInv, pc # "idle", InjectFlushOrPush
    PROVE  KInv'
  <1>1. CASE InjectBytePadding
    <2>1. /\ pc' \in {pc, "panic"} /\ availIn' = availIn
          /\ lastBits' \in {lastBits, 0}
          /\ UNCHANGED <<positions, fixed, isFirst, streamState, op, ending>>
      BY <1>1 DEF InjectBytePadding, Panic, call, encoder, ghosts, positions,
                  fixed, block
    <2>2. QED
      BY <2>1, QuietStep
  <1>2. CASE PushOutput
    <2>1. /\ pc' = pc /\ availIn' = availIn /\ lastBits' = lastBits
          /\ UNCHANGED <<positions, fixed, isFirst, streamState, op, ending>>
      BY <1>2 DEF PushOutput, block
    <2>2. QED
      BY <2>1, QuietStep
  <1>3. QED
    BY <1>1, <1>2 DEF InjectFlushOrPush

LEMMA CopyInputOrder ==
    ASSUME IInv, KInv, CopyInput
    PROVE  KInv'
  <1> DEFINE n == Least(RemainingBlockSize, availIn)
  <1>1. /\ pc = "slow" /\ n # 0 /\ inputPos' = inputPos + n
        /\ availIn' = availIn - n /\ backlog' = backlog + n
        /\ UNCHANGED <<lastProcessedPos, lastFlushPos, inOrder, output,
                       metadata, block, fixed, streamState, pc, op, room,
                       result>>
    BY DEF CopyInput, MayCopy
  <1>2. /\ inputPos \in Nat /\ lastProcessedPos \in Nat /\ lastFlushPos \in Nat
        /\ lastProcessedPos <= inputPos /\ availIn \in Nat
        /\ RemainingBlockSize \in Int
    BY BlockAssumption
    DEF IInv, PositionsOK, CallOK, RemainingBlockSize, Unprocessed
  <1>3. n \in Int /\ availIn # 0
    <2>1. RemainingBlockSize \in Nat
      BY <1>2, BlockAssumption DEF RemainingBlockSize, Unprocessed
    <2>2. n \in Int
      BY <1>2 DEF Least
    <2>3. availIn = 0 => n = 0
      BY <2>1 DEF Least
    <2>4. QED
      BY <1>1, <2>2, <2>3
  <1> HIDE DEF n
  <1>4. streamState = "PROCESSING" /\ ~(params.fragment /\ ~params.catable)
    BY <1>1, <1>3 DEF KInv, LoopOK, InLoop
  <1>5. OrderOK' /\ ParamsOK'
    <2>1. /\ inOrder
          /\ backlog = inputPos - (IF params.fragment THEN lastProcessedPos
                                   ELSE lastFlushPos)
      BY DEF KInv, OrderOK, InputInOrder
    <2>2. inOrder'
      BY <1>1, <2>1
    <2>3. backlog' = inputPos' - (IF params'.fragment THEN lastProcessedPos'
                                  ELSE lastFlushPos')
      BY <1>1, <1>2, <1>3, <2>1 DEF fixed
    <2>4. params.fragment /\ params.catable
             /\ isFirst # "BothCatableBytesWritten"
          => lastFlushPos = lastProcessedPos
      BY DEF KInv, OrderOK
    <2>5. QED
      BY <1>1, <2>2, <2>3, <2>4
      DEF KInv, ParamsOK, OrderOK, InputInOrder, fixed, block
  <1>6. CoveredOK'
    BY <1>1, <1>4 DEF CoveredOK, fixed
  <1>7. LoopOK'
    BY <1>1, <1>4 DEF KInv, LoopOK, InLoop, InMetadata, fixed
  <1>8. OperationsComplete' /\ StreamEndsAsAsked'
    BY <1>1, <1>4 DEF OperationsComplete, StreamEndsAsAsked
  <1>9. QED
    BY <1>5, <1>6, <1>7, <1>8 DEF KInv

LEMMA SlowEncodeOrder ==
    ASSUME IInv, KInv, SlowEncode
    PROVE  KInv'
  <1>1. /\ pc = "slow" /\ streamState = "PROCESSING"
        /\ Encode(IsLast, ForceFlush, NextState(IsLast, ForceFlush))
    BY DEF SlowEncode, MustEncode
  <1>2. /\ IsLast \in BOOLEAN /\ ForceFlush \in BOOLEAN
        /\ IsLast \/ ForceFlush => availIn = 0
        /\ ForceFlush => op = "FLUSH"
    BY DEF IsLast, ForceFlush
  <1>3. PICK s : s = NextState(IsLast, ForceFlush)
    OBVIOUS
  <1>4. PICK last \in BOOLEAN, force \in BOOLEAN :
           last = IsLast /\ force = ForceFlush
    BY <1>2
  <1>5. /\ OrderOK' /\ ParamsOK'
        /\ last \/ force => backlog' = 0
        /\ last => EndsAsAsked
        /\ streamState' = s
        /\ UNCHANGED <<inputPos, metadata, fixed, call>>
    BY <1>1, <1>3, <1>4, EncodeOrder DEF KInv
  <1>6. /\ s \in {"FINISHED", "FLUSH_REQUESTED", "PROCESSING"}
        /\ s = "FINISHED" <=> last
        /\ s = "FLUSH_REQUESTED" => force
    BY <1>1, <1>3, <1>4 DEF NextState
  <1>7. CoveredOK'
    BY <1>1, <1>5, <1>6
    DEF CoveredOK, EndsAsAsked, KInv, LoopOK, fixed
  <1>8. LoopOK'
    BY <1>1, <1>2, <1>4, <1>5, <1>6
    DEF KInv, LoopOK, InLoop, InMetadata, fixed, call
  <1>9. OperationsComplete'
    BY <1>1, <1>5, <1>6 DEF OperationsComplete, call
  <1>10. StreamEndsAsAsked'
    BY <1>5, <1>6 DEF StreamEndsAsAsked, EndsAsAsked, fixed
  <1>11. QED
    BY <1>5, <1>7, <1>8, <1>9, <1>10 DEF KInv

\* A call returns: if it was asked for more than to process input and leaves
\* no output, then a flush is sealed or the stream is finished.
LEMMA ReturnOrder ==
    ASSUME IInv, KInv, InLoop, NothingToPush,
           (op # "PROCESS" /\ availableOut = 0) => streamState # "PROCESSING",
           Leave("ok"), CheckFlushComplete(availableOut),
           UNCHANGED <<positions, lastBits, availableOut, owed, metadata,
                       block, fixed>>
    PROVE  KInv'
  <1>1. /\ pc' = "idle" /\ op' = op /\ availIn' = availIn
        /\ streamState' = IF streamState = "FLUSH_REQUESTED"
                                 /\ availableOut = 0
                          THEN "PROCESSING" ELSE streamState
    BY DEF Leave, CheckFlushComplete
  <1>2. /\ streamState \in {"PROCESSING", "FLUSH_REQUESTED", "FINISHED"}
        /\ op \in {"PROCESS", "FLUSH", "FINISH"}
    BY DEF IInv, StateOK, States, KInv, LoopOK, InMetadata
  <1>3. streamState = "FLUSH_REQUESTED" => lastBits = 0
    BY DEF NothingToPush, MustPad
  <1>4. OrderOK' /\ ParamsOK'
    BY UnmovedOrder DEF KInv, fixed, block
  <1>5. CoveredOK'
    BY <1>1, <1>2 DEF KInv, CoveredOK, positions, fixed
  <1>6. LoopOK'
    BY <1>1 DEF LoopOK, InLoop
  <1>7. OperationsComplete'
    <2>1. streamState' # "METADATA_BODY"
      BY <1>1, <1>2
    <2>2. ASSUME clean, availableOut = 0, op # "PROCESS"
          PROVE  /\ backlog = 0 /\ lastBits = 0
                 /\ op = "FINISH" => streamState' = "FINISHED"
      <3>1. streamState \in {"FLUSH_REQUESTED", "FINISHED"}
        BY <1>2, <2>2
      <3>2. backlog = 0 /\ lastBits = 0
        BY <1>3, <3>1 DEF KInv, CoveredOK
      <3>3. op = "FINISH" => streamState = "FINISHED"
        BY <2>2, <3>1 DEF KInv, LoopOK
      <3>4. QED
        BY <1>1, <3>2, <3>3
    <2>3. QED
      BY <1>1, <1>2, <2>1, <2>2 DEF OperationsComplete, positions, fixed
  <1>8. StreamEndsAsAsked'
    BY <1>1 DEF KInv, StreamEndsAsAsked, fixed, block
  <1>9. QED
    BY <1>4, <1>5, <1>6, <1>7, <1>8 DEF KInv

LEMMA FastFlushNothingOrder ==
    ASSUME IInv, KInv, FastFlushNothing
    PROVE  KInv'
  <1>1. /\ pc = "fast" /\ op = "FLUSH" /\ availIn = 0
        /\ streamState' = "FLUSH_REQUESTED"
        /\ UNCHANGED <<positions, output, metadata, block, fixed, call>>
    BY DEF FastFlushNothing, FastForceFlush
  <1>2. OrderOK' /\ ParamsOK'
    BY <1>1, UnmovedOrder DEF KInv, fixed, block
  <1>3. CoveredOK'
    BY <1>1 DEF KInv, CoveredOK, LoopOK, positions, fixed
  <1>4. LoopOK'
    BY <1>1 DEF KInv, LoopOK, InLoop, InMetadata, call, fixed
  <1>5. OperationsComplete' /\ StreamEndsAsAsked'
    BY <1>1 DEF OperationsComplete, StreamEndsAsAsked, call
  <1>6. QED
    BY <1>2, <1>3, <1>4, <1>5 DEF KInv

LEMMA FastCompressOrder ==
    ASSUME IInv, KInv, FastCompress
    PROVE  KInv'
  <1>1. /\ pc = "fast" /\ streamState = "PROCESSING"
        /\ availIn' = availIn - FastBlock
        /\ streamState' = NextState(FastIsLast, FastForceFlush)
        /\ UNCHANGED <<positions, metadata, fixed, lastBlockEmitted, isFirst,
                       pc, op, result>>
    BY DEF FastCompress, MustCompress
  <1>2. /\ FastIsLast => availIn' = 0
        /\ FastForceFlush => availIn' = 0 /\ op = "FLUSH"
    BY <1>1 DEF FastIsLast, FastForceFlush, IInv, CallOK
  <1>3. FastIsLast => lastBits' = 0
    <2>1. PICK ix \in FragmentEnds(lastBits, FastBlock) :
             FastIsLast => lastBits' = EmptyLast(ix) % 8
      BY DEF FastCompress
    <2>2. FastBlock \in Nat /\ lastBits \in Nat
      BY BlockAssumption, LeastProperties
      DEF FastBlock, IInv, CallOK, OutputOK
    <2>3. ix \in Nat
      BY <2>2, EndsAreBits
    <2>4. QED
      BY <2>1, <2>3, BlocksEndWhole
  <1>4. /\ streamState' \in {"FINISHED", "FLUSH_REQUESTED", "PROCESSING"}
        /\ streamState' = "FINISHED" => FastIsLast
        /\ streamState' = "FLUSH_REQUESTED" => FastForceFlush
    BY <1>1 DEF NextState
  <1>5. params.fragment /\ ~params.catable /\ backlog = 0
    BY <1>1 DEF KInv, LoopOK, CoveredOK
  <1>6. OrderOK' /\ ParamsOK'
    BY <1>1, UnmovedOrder DEF KInv, fixed
  <1>7. CoveredOK'
    BY <1>1, <1>3, <1>4, <1>5 DEF CoveredOK, positions, fixed
  <1>8. LoopOK'
    BY <1>1, <1>2, <1>4 DEF KInv, LoopOK, InLoop, InMetadata, fixed
  <1>9. OperationsComplete' /\ StreamEndsAsAsked'
    BY <1>1, <1>4, <1>5 DEF OperationsComplete, StreamEndsAsAsked, fixed
  <1>10. QED
    BY <1>6, <1>7, <1>8, <1>9 DEF KInv

LEMMA MetadataFlushOrder ==
    ASSUME IInv, KInv, MetadataFlush
    PROVE  KInv'
  <1>1. /\ pc = "metadata" /\ inputPos # lastFlushPos
        /\ Encode(FALSE, TRUE, streamState)
    BY DEF MetadataFlush
  <1>2. streamState = "METADATA_HEAD"
    BY <1>1 DEF IInv, CallOK, InMetadata, KInv, CoveredOK
  <1>3. PICK last \in BOOLEAN, force \in BOOLEAN : ~last /\ force
    OBVIOUS
  <1>4. /\ OrderOK' /\ ParamsOK' /\ backlog' = 0
        /\ streamState' = streamState
        /\ UNCHANGED <<inputPos, metadata, fixed, call>>
    <2>1. Encode(last, force, streamState)
      BY <1>1, <1>3
    <2>2. QED
      BY <1>1, <1>3, <2>1, EncodeOrder DEF KInv
  <1>5. CoveredOK'
    BY <1>2, <1>4 DEF CoveredOK
  <1>6. LoopOK'
    BY <1>1, <1>4 DEF KInv, LoopOK, InLoop, call
  <1>7. OperationsComplete' /\ StreamEndsAsAsked'
    BY <1>1, <1>2, <1>4 DEF OperationsComplete, StreamEndsAsAsked, call
  <1>8. QED
    BY <1>4, <1>5, <1>6, <1>7 DEF KInv

\* Once the header of a metadata block is written, all input is covered.
LEMMA FlushedIsCovered ==
    ASSUME PositionsOK, OrderOK, inputPos = lastFlushPos
    PROVE  backlog = 0
  BY DEF PositionsOK, OrderOK, InputInOrder

LEMMA WriteMetadataHeaderOrder ==
    ASSUME IInv, KInv, WriteMetadataHeader
    PROVE  KInv'
  <1>1. /\ pc = "metadata" /\ inputPos = lastFlushPos
        /\ lastBits' = 0 /\ streamState' = "METADATA_BODY"
        /\ UNCHANGED <<positions, remainingMeta, block, fixed, call>>
    BY DEF WriteMetadataHeader, MetadataMovesOn
  <1>2. backlog = 0
    BY <1>1, FlushedIsCovered DEF IInv, KInv
  <1>3. OrderOK' /\ ParamsOK'
    BY <1>1, UnmovedOrder DEF KInv, fixed, block
  <1>4. CoveredOK'
    BY <1>1, <1>2 DEF CoveredOK, positions
  <1>5. LoopOK'
    BY <1>1 DEF KInv, LoopOK, InLoop, call
  <1>6. OperationsComplete' /\ StreamEndsAsAsked'
    BY <1>1, <1>2 DEF OperationsComplete, StreamEndsAsAsked, call, positions
  <1>7. QED
    BY <1>3, <1>4, <1>5, <1>6 DEF KInv

LEMMA MetadataDoneOrder ==
    ASSUME IInv, KInv, MetadataDone
    PROVE  KInv'
  <1>1. /\ pc = "metadata" /\ inputPos = lastFlushPos
        /\ streamState = "METADATA_BODY"
        /\ streamState' = "PROCESSING"
        /\ pc' = "idle" /\ op' = op /\ availIn' = availIn
        /\ UNCHANGED <<positions, output, announced, block, fixed>>
    BY DEF MetadataDone, MetadataMovesOn, Leave
  <1>2. backlog = 0 /\ lastBits = 0 /\ op = "METADATA"
    BY <1>1, FlushedIsCovered DEF IInv, KInv, CoveredOK, LoopOK
  <1>3. OrderOK' /\ ParamsOK'
    BY <1>1, UnmovedOrder DEF KInv, fixed, block
  <1>4. CoveredOK'
    BY <1>1, <1>2 DEF CoveredOK, positions
  <1>5. LoopOK'
    BY <1>1 DEF LoopOK, InLoop
  <1>6. OperationsComplete' /\ StreamEndsAsAsked'
    BY <1>1, <1>2 DEF OperationsComplete, StreamEndsAsAsked, positions, output
  <1>7. QED
    BY <1>3, <1>4, <1>5, <1>6 DEF KInv

LEMMA MetadataOutputIsFullOrder ==
    ASSUME IInv, KInv, MetadataOutputIsFull
    PROVE  KInv'
  <1>1. /\ pc = "metadata" /\ availableOut # 0 /\ pc' = "idle"
        /\ UNCHANGED <<encoder, ghosts>>
    BY DEF MetadataOutputIsFull, Leave
  <1>2. OrderOK' /\ ParamsOK' /\ CoveredOK' /\ StreamEndsAsAsked'
    BY <1>1 DEF KInv, OrderOK, ParamsOK, CoveredOK, StreamEndsAsAsked,
                InputInOrder, encoder, ghosts
  <1>3. LoopOK'
    BY <1>1 DEF LoopOK, InLoop
  <1>4. OperationsComplete'
    BY <1>1 DEF KInv, OperationsComplete, encoder, ghosts
  <1>5. QED
    BY <1>2, <1>3, <1>4 DEF KInv

LEMMA CopyMetadataOrder ==
    ASSUME IInv, KInv, CopyMetadata
    PROVE  KInv'
  <1>1. /\ pc = "metadata" /\ pc' = pc /\ lastBits' = lastBits
        /\ UNCHANGED <<positions, fixed, isFirst, streamState, op, ending>>
    BY DEF CopyMetadata, MetadataMovesOn, output, block
  <1>2. QED
    BY <1>1, QuietStep

LEMMA CompressStreamOrder ==
    ASSUME IInv, KInv, NEW o \in {"PROCESS", "FLUSH", "FINISH", "METADATA"},
           NEW n \in Nat, NEW m \in Nat, CompressStream(o, n, m)
    PROVE  KInv'
  <1>1. /\ pc = "idle" /\ ~Refuses(o, n) /\ pc' = Loop(o) /\ op' = o
        /\ availIn' = n
        /\ clean' = (streamState # "FLUSH_REQUESTED" \/ o = "FLUSH")
        /\ UNCHANGED <<params, customDict, result, positions, output,
                       announced, block>>
    BY DEF CompressStream
  <1>2. streamState' = IF o = "METADATA" /\ streamState = "PROCESSING"
                       THEN "METADATA_HEAD" ELSE streamState
    BY DEF CompressStream
  <1>3. OrderOK' /\ ParamsOK'
    BY <1>1, UnmovedOrder DEF KInv, block
  <1>4. CoveredOK'
    BY <1>1, <1>2 DEF KInv, CoveredOK, positions, output
  <1>5. LoopOK'
    <2>1. CASE o = "METADATA"
      BY <1>1, <2>1 DEF LoopOK, InLoop, Loop
    <2>2. CASE o # "METADATA"
      <3>1. /\ ~InMetadata
            /\ streamState # "PROCESSING" => n = 0
            /\ streamState' = streamState
        BY <1>1, <1>2, <2>2 DEF Refuses
      <3>2. pc' = IF params.fragment /\ ~params.catable THEN "fast" ELSE "slow"
        BY <1>1, <2>2 DEF Loop
      <3>3. QED
        BY <1>1, <2>2, <3>1, <3>2 DEF LoopOK, InLoop, InMetadata
    <2>3. QED
      BY <2>1, <2>2
  <1>6. pc' # "idle"
    BY <1>1 DEF Loop
  <1>7. OperationsComplete' /\ StreamEndsAsAsked'
    BY <1>1, <1>2, <1>6
    DEF KInv, OperationsComplete, StreamEndsAsAsked, positions, output, block
  <1>8. QED
    BY <1>3, <1>4, <1>5, <1>7 DEF KInv

LEMMA TakeOutputOrder ==
    ASSUME IInv, KInv, NEW size \in Nat, TakeOutput(size)
    PROVE  KInv'
  <1>1. /\ pc = "idle" /\ op' = "take"
        /\ streamState' \in {streamState, "PROCESSING"}
        /\ UNCHANGED <<lastBits, positions, metadata, block, fixed, pc,
                       availIn, room, result>>
    BY DEF TakeOutput
  <1>2. OrderOK' /\ ParamsOK'
    BY <1>1, UnmovedOrder DEF KInv, fixed, block
  <1>3. CoveredOK'
    BY <1>1 DEF KInv, CoveredOK, positions, fixed
  <1>4. LoopOK'
    BY <1>1 DEF LoopOK, InLoop
  <1>5. OperationsComplete' /\ StreamEndsAsAsked'
    BY <1>1 DEF KInv, OperationsComplete, StreamEndsAsAsked, positions, fixed,
                block
  <1>6. QED
    BY <1>2, <1>3, <1>4, <1>5 DEF KInv

LEMMA InitKInv == Init => KInv
  <1> SUFFICES ASSUME Init PROVE KInv
    OBVIOUS
  <1>1. PICK f \in Flags, d \in Dicts :
            /\ params = Catable(SanitizeParams(f), d)
            /\ inputPos = IF UsesDict(SanitizeParams(f), d) THEN d ELSE 0
    BY DEF Init
  <1>2. ParamsOK
    <2> DEFINE p == SanitizeParams(f)
    <2>1. p = [f EXCEPT !.appendable = f.appendable \/ f.catable,
                        !.byteAlign = f.bare \/ ((f.appendable \/ f.catable)
                                                 /\ f.byteAlign)]
      BY DEF SanitizeParams
    <2>2. /\ DOMAIN f = {"fragment", "catable", "appendable", "byteAlign",
                         "bare", "magic"}
          /\ f.bare \in BOOLEAN /\ f.byteAlign \in BOOLEAN
      BY FlagsAssumption
    <2> HIDE DEF p
    <2>3. p.bare => p.byteAlign
      BY <2>1, <2>2
    <2>4. params.bare = p.bare /\ params.byteAlign = p.byteAlign
      BY <1>1 DEF Catable, p
    <2>5. QED
      BY <2>3, <2>4 DEF ParamsOK
  <1>3. inputPos \in Nat
    BY <1>1, SizesAssumption
  <1>4. OrderOK
    BY <1>3 DEF Init, OrderOK, InputInOrder
  <1>5. CoveredOK /\ LoopOK
    BY DEF Init, CoveredOK, LoopOK, InLoop
  <1>6. OperationsComplete /\ StreamEndsAsAsked
    BY DEF Init, OperationsComplete, StreamEndsAsAsked
  <1>7. QED
    BY <1>2, <1>4, <1>5, <1>6 DEF KInv

LEMMA NextKInv == IInv /\ KInv /\ [Next]_vars => KInv'
  <1> SUFFICES ASSUME IInv, KInv, [Next]_vars PROVE KInv'
    OBVIOUS
  <1>1. CASE UNCHANGED vars
    BY <1>1 DEF KInv, ParamsOK, OrderOK, CoveredOK, LoopOK, InLoop, InMetadata,
                InputInOrder, OperationsComplete, StreamEndsAsAsked, vars,
                encoder, call, ghosts
  <1>2. ASSUME InjectFlushOrPush, pc # "idle" PROVE KInv'
    BY <1>2, InjectOrPushOrder
  <1>3. CASE Step
    <2>1. CASE CopyInput
      BY <2>1, CopyInputOrder
    <2>2. CASE SlowInjectOrPush
      BY <2>2, <1>2 DEF SlowInjectOrPush
    <2>3. CASE SlowEncode
      BY <2>3, SlowEncodeOrder
    <2>4. CASE SlowReturn
      BY <2>4, ReturnOrder DEF SlowReturn, InLoop, MustEncode
    <2>5. CASE FastInjectOrPush
      BY <2>5, <1>2 DEF FastInjectOrPush
    <2>6. CASE FastFlushNothing
      BY <2>6, FastFlushNothingOrder
    <2>7. CASE FastCompress
      BY <2>7, FastCompressOrder
    <2>8. CASE FastReturn
      BY <2>8, ReturnOrder DEF FastReturn, InLoop, MustCompress
    <2>9. CASE MetadataInjectOrPush
      BY <2>9, <1>2 DEF MetadataInjectOrPush
    <2>10. CASE MetadataOutputIsFull
      BY <2>10, MetadataOutputIsFullOrder
    <2>11. CASE MetadataFlush
      BY <2>11, MetadataFlushOrder
    <2>12. CASE WriteMetadataHeader
      BY <2>12, WriteMetadataHeaderOrder
    <2>13. CASE MetadataDone
      BY <2>13, MetadataDoneOrder
    <2>14. CASE CopyMetadata
      BY <2>14, CopyMetadataOrder
    <2>15. QED
      BY <1>3, <2>1, <2>2, <2>3, <2>4, <2>5, <2>6, <2>7, <2>8, <2>9, <2>10,
         <2>11, <2>12, <2>13, <2>14 DEF Step
  <1>4. CASE Client
    <2>1. ASSUME NEW o \in {"PROCESS", "FLUSH", "FINISH"}, NEW n \in Chunks,
                 NEW m \in Rooms, CompressStream(o, n, m)
          PROVE  KInv'
      BY <2>1, CompressStreamOrder, SizesAssumption
    <2>2. ASSUME NEW n \in Metadata \cup {remainingMeta}, n >= 0,
                 NEW m \in Rooms, CompressStream("METADATA", n, m)
          PROVE  KInv'
      <3>1. n \in Nat
        BY <2>2, SizesAssumption DEF IInv, StateOK, NoMeta
      <3>2. QED
        BY <2>2, <3>1, CompressStreamOrder, SizesAssumption
    <2>3. ASSUME NEW size \in Takes, TakeOutput(size) PROVE KInv'
      BY <2>3, TakeOutputOrder, SizesAssumption
    <2>4. QED
      BY <1>4, <2>1, <2>2, <2>3 DEF Client
  <1>5. QED
    BY <1>1, <1>3, <1>4 DEF Next

\* The second layer holds in every reachable state.
LEMMA SecondInvariance == Spec => []KInv
  BY InitKInv, NextKInv, Invariance, PTL DEF Spec

\* Whatever the flags, the dictionary and the lengths of the calls, every
\* metablock and fragment begins where the last one ended: no input byte is
\* encoded twice or left out.
THEOREM OrderCorrect == Spec => []InputInOrder
  <1>1. KInv => InputInOrder
    BY DEF KInv, OrderOK
  <1>2. QED
    BY <1>1, SecondInvariance, PTL

\* A flush, finish or metadata call that leaves no input and no output has
\* everything covered, on a byte boundary, and has ended the stream or sent the
\* metadata; a call that switched away from an incomplete flush is left out.
THEOREM OperationsCorrect == Spec => []OperationsComplete
  <1>1. KInv => OperationsComplete
    BY DEF KInv
  <1>2. QED
    BY <1>1, SecondInvariance, PTL

\* A finished stream of quality 2 or more ends as bare_stream, appendable and
\* byte_align ask.
THEOREM EndCorrect == Spec => []StreamEndsAsAsked
  <1>1. KInv => StreamEndsAsAsked
    BY DEF KInv
  <1>2. QED
    BY <1>1, SecondInvariance, PTL
-----------------------------------------------------------------------------
\* A third layer: the buffer a seal is appended to.

\* A flush that waits for its seal runs, with no output left in tiny_buf_;
\* bits of a started byte stay behind output in tiny_buf_ only in a stream
\* that compress_stream_fast writes; and it is there that a seal runs off.
SealOK ==
    /\ MustPad => /\ pc \in {"slow", "fast", "panic"} /\ op = "FLUSH"
                  /\ nextOut.kind = "tiny" => availableOut = 0
    /\ nextOut.kind = "tiny" /\ lastBits # 0 =>
          params.fragment /\ ~params.catable
    /\ pc = "panic" => SealRunsOff

\* encode_data leaves its output in storage, or the output as it was.
LEMMA BlockOutput ==
    ASSUME NEW isLast \in BOOLEAN, NEW force \in BOOLEAN,
           EncodeBlock(isLast, force)
    PROVE  nextOut' = Storage \/ (nextOut' = nextOut /\ lastBits' = lastBits)
  BY DEF EncodeBlock, KeepHeader, FragmentBlock, Metablock, WriteUpTo

\* In the states in which it is called, encode_data gets to a block.
LEMMA EncodeGetsThrough ==
    ASSUME IInv, streamState # "FINISHED", NEW isLast \in BOOLEAN,
           NEW force \in BOOLEAN, NEW s, Encode(isLast, force, s)
    PROVE  /\ EncodeBlock(isLast, force)
           /\ streamState' = s
           /\ UNCHANGED <<fixed, call>>
  <1>1. ~lastBlockEmitted /\ ~(Unprocessed > BlockSize)
    <2>1. Unprocessed <= BlockSize /\ Unprocessed \in Nat
      BY DEF IInv, PositionsOK, Unprocessed
    <2>2. QED
      BY <2>1, BlockAssumption DEF IInv, StateOK
  <1>2. FirstBytesAssertion
    BY DEF IInv, FirstBytesOK, FirstBytesAssertion, FirstBytes
  <1>3. QED
    BY <1>1, <1>2 DEF Encode

\* Steps after which no flush waits for its seal.
LEMMA NoSealWaits ==
    ASSUME SealOK, ~MustPad',
           nextOut'.kind = "tiny" =>
              lastBits' = 0 \/ (nextOut.kind = "tiny" /\ lastBits' = lastBits),
           pc' # "panic", params' = params
    PROVE  SealOK'
  BY DEF SealOK

\* Where a seal runs off tiny_buf_: with one or two bytes, behind the
\* fifteenth or the sixteenth.
LEMMA SealStep ==
    ASSUME IInv, SealOK, pc # "panic", InjectFlushOrPush
    PROVE  SealOK'
  <1>1. /\ availableOut \in Nat /\ nextOut \in NextOuts /\ lastBits \in 0..14
        /\ nextOut.kind = "tiny" => nextOut.off + availableOut <= 16
        /\ lastBits > 7 => nextOut = Null
    BY DEF IInv, OutputOK, TinyBuf
  <1>2. CASE PushOutput
    <2>1. ~MustPad /\ nextOut' = NextOutIncrement(Least(availableOut, room))
      BY <1>2 DEF PushOutput
    <2>2. UNCHANGED <<streamState, lastBits, pc, fixed>>
      BY <1>2 DEF PushOutput
    <2>3. nextOut'.kind = "tiny" => nextOut.kind = "tiny"
      BY <2>1 DEF NextOutIncrement
    <2>4. QED
      BY <2>1, <2>2, <2>3, NoSealWaits DEF MustPad, fixed
  <1>3. CASE InjectBytePadding /\ nextOut.kind # "storage"
                               /\ SealAt + SealBytes > TinyBuf
    <2>1. MustPad /\ Panic
      BY <1>3 DEF InjectBytePadding
    <2>2. SealBytes \in 0..3 /\ (lastBits <= 7 => SealBytes <= 2)
      BY <1>1, SealProperties DEF SealBytes
    <2>3. nextOut # Null
      BY <1>3, <2>2 DEF SealAt, TinyBuf
    <2>4. PICK off \in 0..16 : nextOut = Tiny(off)
      BY <1>1, <1>3, <2>3 DEF NextOuts, Storage, TinyBuf
    <2>5. nextOut.kind = "tiny" /\ nextOut.off = off
      BY <2>4 DEF Tiny
    <2>6. availableOut = 0 /\ op = "FLUSH"
      BY <2>1, <2>5 DEF SealOK
    <2>7. SealAt = off
      BY <2>3, <2>5, <2>6 DEF SealAt
    <2>8. off \in {15, 16}
      BY <1>1, <1>3, <2>2, <2>3, <2>7 DEF TinyBuf
    <2>9. params.fragment /\ ~params.catable
      BY <2>1, <2>5 DEF SealOK, MustPad
    <2>10. SealRunsOff
      BY <2>1, <2>4, <2>6, <2>8, <2>9 DEF SealRunsOff
    <2>11. pc' = "panic" /\ UNCHANGED <<op, encoder>>
      BY <2>1 DEF Panic
    <2>12. QED
      BY <2>1, <2>6, <2>9, <2>10, <2>11
      DEF SealOK, SealRunsOff, MustPad, encoder
  <1>4. CASE InjectBytePadding /\ ~(nextOut.kind # "storage"
                                    /\ SealAt + SealBytes > TinyBuf)
    <2>1. lastBits' = 0 /\ UNCHANGED <<fixed, call>>
      BY <1>4 DEF InjectBytePadding
    <2>2. QED
      BY <2>1, NoSealWaits DEF MustPad, call, fixed
  <1>5. QED
    BY <1>2, <1>3, <1>4 DEF InjectFlushOrPush

\* Only a flush requests one, after the last output is gone, and a slow
\* stream has no bits behind tiny_buf_ then.
LEMMA SlowEncodeSeal ==
    ASSUME IInv, SealOK, KInv, SlowEncode
    PROVE  SealOK'
  <1>1. /\ pc = "slow" /\ streamState = "PROCESSING"
        /\ Encode(IsLast, ForceFlush, NextState(IsLast, ForceFlush))
    BY DEF SlowEncode, MustEncode
  <1>2. IsLast \in BOOLEAN /\ ForceFlush \in BOOLEAN
    BY DEF IsLast, ForceFlush
  <1>3. /\ EncodeBlock(IsLast, ForceFlush)
        /\ streamState' = NextState(IsLast, ForceFlush)
        /\ UNCHANGED <<fixed, call>>
    BY <1>1, <1>2, EncodeGetsThrough
  <1>4. nextOut' = Storage \/ (nextOut' = nextOut /\ lastBits' = lastBits)
    BY <1>2, <1>3, BlockOutput
  <1>5. ~(params.fragment /\ ~params.catable)
    BY <1>1 DEF KInv, LoopOK
  <1>6. nextOut'.kind = "tiny" => lastBits' = 0
    BY <1>4, <1>5 DEF SealOK, Storage
  <1>7. MustPad' => op' = "FLUSH"
    BY <1>1, <1>3 DEF MustPad, NextState, ForceFlush, call
  <1>8. QED
    BY <1>1, <1>3, <1>6, <1>7 DEF SealOK, MustPad, call

LEMMA FastCompressSeal ==
    ASSUME SealOK, KInv, FastCompress
    PROVE  SealOK'
  <1>1. /\ pc = "fast" /\ availableOut = 0 /\ streamState = "PROCESSING"
        /\ streamState' = NextState(FastIsLast, FastForceFlush)
        /\ UNCHANGED <<fixed, pc, op>>
        /\ nextOut' = Storage \/ UNCHANGED <<availableOut, nextOut>>
    BY DEF FastCompress, MustCompress
  <1>2. params.fragment /\ ~params.catable
    BY <1>1 DEF KInv, LoopOK
  <1>3. MustPad' => op' = "FLUSH"
    BY <1>1 DEF MustPad, NextState, FastForceFlush
  <1>4. QED
    BY <1>1, <1>2, <1>3 DEF SealOK, Storage, fixed

\* Metadata begin with all bits written.
LEMMA MetadataSeal ==
    ASSUME IInv, KInv, SealOK,
           MetadataFlush \/ WriteMetadataHeader \/ MetadataDone
              \/ CopyMetadata \/ MetadataOutputIsFull
    PROVE  SealOK'
  <1>1. ~MustPad
    BY DEF MetadataFlush, WriteMetadataHeader, MetadataDone, CopyMetadata,
           MetadataOutputIsFull, MetadataMovesOn, NothingToPush
  <1>2. pc = "metadata" /\ InMetadata
    BY DEF MetadataFlush, WriteMetadataHeader, MetadataDone, CopyMetadata,
           MetadataOutputIsFull, MetadataMovesOn, IInv, CallOK
  <1>3. CASE MetadataFlush
    <2>1. Encode(FALSE, TRUE, streamState) /\ streamState # "FINISHED"
      BY <1>2, <1>3 DEF MetadataFlush, InMetadata
    <2>2. /\ EncodeBlock(FALSE, TRUE) /\ streamState' = streamState
          /\ UNCHANGED <<fixed, call>>
      BY <2>1, EncodeGetsThrough
    <2>3. nextOut' = Storage \/ (nextOut' = nextOut /\ lastBits' = lastBits)
      BY <2>2, BlockOutput
    <2>4. QED
      BY <1>2, <2>2, <2>3, NoSealWaits
      DEF MustPad, InMetadata, Storage, call, fixed
  <1>4. CASE WriteMetadataHeader
    BY <1>2, <1>4, NoSealWaits DEF WriteMetadataHeader, MustPad, call,
                                   fixed
  <1>5. CASE MetadataDone
    BY <1>5, NoSealWaits DEF MetadataDone, MustPad, Leave, output,
                                   fixed
  <1>6. CASE CopyMetadata
    <2>1. /\ streamState = "METADATA_BODY"
          /\ UNCHANGED <<fixed, streamState, pc, lastBits>>
      BY <1>6 DEF CopyMetadata, output
    <2>2. lastBits' = 0
      BY <2>1 DEF KInv, CoveredOK
    <2>3. QED
      BY <1>2, <2>1, <2>2, NoSealWaits DEF MustPad, fixed
  <1>7. CASE MetadataOutputIsFull
    BY <1>1, <1>7, NoSealWaits
    DEF MetadataOutputIsFull, MustPad, Leave, encoder, ghosts, fixed
  <1>8. QED
    BY <1>3, <1>4, <1>5, <1>6, <1>7

LEMMA NextSealOK == IInv /\ KInv /\ SealOK /\ [Next]_vars => SealOK'
  <1> SUFFICES ASSUME IInv, KInv, SealOK, [Next]_vars PROVE SealOK'
    OBVIOUS
  <1>1. CASE UNCHANGED vars
    BY <1>1 DEF SealOK, SealRunsOff, MustPad, vars, encoder, call
  <1>2. CASE CopyInput
    BY <1>2 DEF CopyInput, SealOK, MustPad, output, fixed
  <1>3. CASE SlowInjectOrPush \/ FastInjectOrPush \/ MetadataInjectOrPush
    BY <1>3, SealStep
    DEF SlowInjectOrPush, FastInjectOrPush, MetadataInjectOrPush
  <1>4. CASE SlowEncode
    BY <1>4, SlowEncodeSeal
  <1>5. CASE SlowReturn \/ FastReturn
    <2>1. /\ ~MustPad /\ pc' = "idle" /\ UNCHANGED <<lastBits, fixed>>
          /\ streamState' \in {streamState, "PROCESSING"}
          /\ nextOut' \in {nextOut, Null}
      BY <1>5 DEF SlowReturn, FastReturn, NothingToPush, Leave,
                  CheckFlushComplete
    <2>2. QED
      BY <2>1, NoSealWaits DEF MustPad, Null, fixed
  <1>6. CASE FastFlushNothing
    BY <1>6 DEF FastFlushNothing, MustCompress, FastForceFlush, SealOK,
                MustPad, output, fixed, call
  <1>7. CASE FastCompress
    BY <1>7, FastCompressSeal
  <1>8. CASE MetadataOutputIsFull \/ MetadataFlush \/ WriteMetadataHeader
             \/ MetadataDone \/ CopyMetadata
    BY <1>8, MetadataSeal
  <1>9. ASSUME NEW o, NEW n, NEW m, CompressStream(o, n, m) PROVE SealOK'
    <2>1. /\ pc = "idle" /\ UNCHANGED <<output, params>>
          /\ streamState' \in {streamState, "METADATA_HEAD"}
          /\ pc' # "panic"
      BY <1>9 DEF CompressStream, Loop
    <2>2. ~MustPad
      BY <2>1 DEF SealOK
    <2>3. nextOut' = nextOut /\ lastBits' = lastBits /\ ~MustPad'
      BY <2>1, <2>2 DEF MustPad, output
    <2>4. QED
      BY <2>1, <2>3, NoSealWaits
  <1>10. ASSUME NEW size, TakeOutput(size) PROVE SealOK'
    <2>1. /\ pc = "idle" /\ pc' = "idle" /\ UNCHANGED <<lastBits, fixed>>
          /\ streamState' \in {streamState, "PROCESSING"}
          /\ nextOut'.kind = "tiny" => nextOut.kind = "tiny"
      BY <1>10 DEF TakeOutput, NextOutIncrement, Null
    <2>2. QED
      BY <2>1, NoSealWaits DEF SealOK, MustPad, fixed
  <1>11. CASE Client
    BY <1>9, <1>10, <1>11 DEF Client
  <1>12. QED
    BY <1>1, <1>2, <1>3, <1>4, <1>5, <1>6, <1>7, <1>8, <1>11 DEF Next, Step

\* With metadata of any lengths, compress_stream never has encode_data refuse
\* a block or trip its assertion about the first two bytes, and appends a seal
\* behind the end of tiny_buf_ in the one case of SealRunsOff: no stream of
\* quality 2 or more, and no catable one, ever does.
THEOREM CallsSucceed == Spec => []AcceptedCallsSucceed
  <1>1. Init => SealOK
    BY DEF Init, SealOK, MustPad, Null
  <1>2. IInv /\ SealOK => AcceptedCallsSucceed
    BY DEF IInv, CallOK, SealOK, AcceptedCallsSucceed
  <1>3. QED
    BY <1>1, <1>2, NextSealOK, Invariance, SecondInvariance, PTL DEF Spec
-----------------------------------------------------------------------------
(* The adapters.                                                           *)

\* Adapters write no metadata: tiny_buf_ holds nothing but the seal of the
\* flush that is under way.  The end of the stream has been asked for, and a
\* call that meets the flush of an earlier one does nothing but go on with it.
Sealed == streamState = "FLUSH_REQUESTED" /\ lastBits = 0
UseOK ==
    /\ remainingMeta = NoMeta
    /\ pc \in {"idle", "slow", "fast"}
    /\ op \in {"none", "PROCESS", "FLUSH", "FINISH"}
    /\ nextOut.kind = "tiny" => Sealed
    /\ pc = "idle" /\ streamState = "FLUSH_REQUESTED" => availableOut # 0
    /\ streamState = "FINISHED" => op = "FINISH" /\ clean
    /\ op \in {"FLUSH", "FINISH"} => availIn = 0
    /\ op = "FLUSH" => clean
    /\ pc # "idle" /\ ~clean => streamState = "FLUSH_REQUESTED"

\* Where an adapter of each kind can be, and that it is inside
\* compress_stream exactly while the encoder runs.
StageOK ==
    /\ kind \in {"writer", "reader", "copy"}
    /\ bufLen \in Nat \ {0}
    /\ kind = "writer" =>
          /\ api \in {"none", "write", "flush", "close", "closed", "panic"}
          /\ stage \in {"idle", "encode", "running", "returned"}
    /\ kind = "reader" =>
          /\ api \in {"none", "read"}
          /\ stage \in {"idle", "fetch", "encode", "running", "returned"}
    /\ kind = "copy" =>
          /\ api \in {"none", "copy", "closed"}
          /\ stage \in {"idle", "fetch", "encode", "running", "returned",
                        "writing", "written"}
    /\ api \in {"none", "closed"} <=> stage = "idle"
    /\ stage = "running" <=> pc # "idle"
    /\ ret \in BOOLEAN
    /\ api = "panic" => stage = "returned" /\ ~ret

\* Which operation the encoder was last asked for, and which calls it refuses.
AnswerOK ==
    /\ kind = "writer" /\ (stage = "running" \/ (stage = "returned" /\ ret))
          => op = WriterOp
    /\ kind = "writer" /\ stage = "returned" /\ ~ret =>
          /\ api \in {"write", "panic"} /\ pending # 0
          /\ streamState = "FLUSH_REQUESTED" /\ availableOut # 0
    /\ kind = "writer" /\ op = "FINISH" => api \in {"close", "closed"}
    /\ kind # "writer" =>
          ret /\ op # "FLUSH" /\ streamState # "FLUSH_REQUESTED"

\* The output at hand.
MadeOK ==
    /\ made \in Nat /\ readRoom \in Nat
    /\ stage \in {"idle", "written"} => made = 0
    /\ kind # "copy" /\ stage \in {"fetch", "encode"} => made = 0
    /\ kind = "copy" => made <= bufLen
    /\ kind = "copy" /\ stage = "running" => made + room <= bufLen

\* The input at hand.
InputOK ==
    /\ pending \in Nat /\ inOff \in Nat /\ inLen \in Nat
    /\ eof \in BOOLEAN
    /\ op = "FINISH" => pending = 0
    /\ api \in {"flush", "close"} => pending = 0
    /\ kind # "reader" => inOff = 0 /\ inLen = 0
    /\ kind = "reader" =>
          /\ inOff <= inLen /\ inLen <= bufLen /\ inOff < bufLen
          /\ stage \in {"fetch", "encode"} => pending = inLen - inOff
          /\ stage = "running" => availIn <= inLen - inOff
          /\ stage = "returned" => pending <= inLen - inOff
    /\ kind # "writer" =>
          /\ stage = "encode" /\ pending = 0 => eof
          /\ op = "FINISH" => eof /\ inOff = inLen

\* What was refused or taken from the prepared errors was told, and what was
\* dropped without an error was dropped by a close or when none was prepared.
ErrorsOK ==
    /\ tokens \subseteq {"zero", "invalid"}
    /\ errors \in 0..2 /\ untold \in Nat
    /\ "zero" \notin tokens => errors # 0 \/ api = "closed"
    /\ "invalid" \notin tokens => errors = 2 \/ api = "closed"
    /\ untold # 0 => \/ api \in {"close", "closed"}
                     \/ kind = "writer" /\ tokens = {}
    /\ ~ret => errors # 0
    /\ api = "panic" => errors = 2 /\ "invalid" \notin tokens

\* A flush is left to complete only after an error; one that returned without
\* an error is complete, and so is a stream that was closed in silence.
QuietOK ==
    /\ errors = 0 /\ streamState = "FLUSH_REQUESTED" => api = "flush"
    /\ kind = "writer" /\ op = "FLUSH" /\ api = "none" /\ ~told =>
          availableOut = 0
    /\ api = "closed" /\ ~told /\ untold = 0 => IsFinished

AInv ==
    /\ UseOK /\ StageOK /\ AnswerOK /\ MadeOK /\ InputOK /\ ErrorsOK /\ QuietOK

EncoderInv == IInv /\ KInv
-----------------------------------------------------------------------------
\* The encoder under an adapter

\* What a step of compress_stream does to what the adapters look at.
StepEffect ==
    /\ UseOK'
    /\ op' = op
    /\ availIn' <= availIn
    /\ pc' # "idle" => room' <= room
    /\ \/ streamState' \in {streamState, "PROCESSING"}
       \/ streamState' = "FINISHED" /\ op = "FINISH"
       \/ streamState' = "FLUSH_REQUESTED" /\ op = "FLUSH"

LEMMA CopyInputEffect ==
    ASSUME IInv, UseOK, CopyInput
    PROVE  StepEffect
  <1> DEFINE n == Least(RemainingBlockSize, availIn)
  <1>1. availIn \in Nat /\ RemainingBlockSize \in Nat /\ room \in Nat
    BY BlockAssumption
    DEF IInv, PositionsOK, CallOK, RemainingBlockSize, Unprocessed
  <1>2. n \in Nat /\ n <= availIn /\ n # 0
    BY <1>1, LeastProperties DEF CopyInput, MayCopy
  <1>3. /\ availIn' = availIn - n /\ pc = "slow"
        /\ UNCHANGED <<output, metadata, fixed, streamState, pc, op, room>>
    BY DEF CopyInput
  <1> HIDE DEF n
  <1>4. op \notin {"FLUSH", "FINISH"}
    <2>1. availIn # 0
      BY <1>1, <1>2
    <2>2. QED
      BY <2>1 DEF UseOK
  <1>5. UseOK'
    BY <1>3, <1>4 DEF UseOK, Sealed, output, metadata, fixed
  <1>6. QED
    BY <1>1, <1>2, <1>3, <1>5 DEF StepEffect, fixed

\* The seal of a flush finds tiny_buf_ empty.
LEMMA InjectOrPushEffect ==
    ASSUME IInv, UseOK, InjectFlushOrPush, pc \in {"slow", "fast"}
    PROVE  StepEffect
  <1>1. /\ availableOut \in Nat /\ room \in Nat /\ nextOut \in NextOuts
        /\ lastBits \in 0..14
    BY DEF IInv, OutputOK, CallOK
  <1>2. CASE InjectBytePadding
    <2>1. streamState = "FLUSH_REQUESTED" /\ lastBits # 0
      BY <1>2 DEF InjectBytePadding, MustPad
    <2>2. nextOut = Null \/ nextOut.kind = "storage"
      BY <1>1, <2>1 DEF UseOK, Sealed, NextOuts, Tiny, Storage
    <2>3. SealBytes \in 0..3
      BY <1>1, SealProperties DEF SealBytes
    <2>4. ~(nextOut.kind # "storage" /\ SealAt + SealBytes > TinyBuf)
      <3>1. CASE nextOut = Null
        <4>1. SealAt = 0
          BY <3>1 DEF SealAt
        <4>2. ~(SealAt + SealBytes > 16)
          BY <2>3, <4>1
        <4>3. QED
          BY <4>2 DEF TinyBuf
      <3>2. QED
        BY <2>2, <3>1
    <2>5. /\ lastBits' = 0
          /\ UNCHANGED <<metadata, fixed, streamState, call>>
      BY <1>2, <2>4 DEF InjectBytePadding
    <2>6. UseOK'
      BY <2>1, <2>5 DEF UseOK, Sealed, metadata, fixed, call
    <2>7. QED
      BY <1>1, <2>5, <2>6 DEF StepEffect, IInv, CallOK, fixed, call
  <1>3. CASE PushOutput
    <2> DEFINE n == Least(availableOut, room)
    <2>1. n \in Nat /\ n <= room
      BY <1>1, LeastProperties
    <2>2. /\ room' = room - n
          /\ nextOut' = NextOutIncrement(n)
          /\ UNCHANGED <<lastBits, metadata, fixed, streamState, pc, op,
                         availIn>>
      BY <1>3 DEF PushOutput
    <2> HIDE DEF n
    <2>3. nextOut'.kind = "tiny" => nextOut.kind = "tiny"
      BY <2>2 DEF NextOutIncrement
    <2>4. UseOK'
      BY <2>2, <2>3 DEF UseOK, Sealed, metadata, fixed
    <2>5. QED
      BY <1>1, <2>1, <2>2, <2>4 DEF StepEffect, IInv, CallOK, fixed
  <1>4. QED
    BY <1>2, <1>3 DEF InjectFlushOrPush

LEMMA SlowEncodeEffect ==
    ASSUME IInv, UseOK, SlowEncode
    PROVE  StepEffect
  <1>1. /\ pc = "slow" /\ availableOut = 0 /\ streamState = "PROCESSING"
        /\ Encode(IsLast, ForceFlush, NextState(IsLast, ForceFlush))
    BY DEF SlowEncode, MustEncode
  <1>2. ~lastBlockEmitted /\ ~(Unprocessed > BlockSize)
    <2>1. Unprocessed <= BlockSize /\ Unprocessed \in Nat
      BY DEF IInv, PositionsOK, Unprocessed
    <2>2. QED
      BY <1>1, <2>1, BlockAssumption DEF IInv, StateOK
  <1>3. FirstBytesAssertion
    BY DEF IInv, FirstBytesOK, FirstBytesAssertion, FirstBytes
  <1>4. /\ streamState' = NextState(IsLast, ForceFlush)
        /\ EncodeBlock(IsLast, ForceFlush)
        /\ UNCHANGED <<metadata, fixed, call>>
    BY <1>1, <1>2, <1>3 DEF Encode
  <1>5. IsLast \in BOOLEAN /\ ForceFlush \in BOOLEAN
    BY DEF IsLast, ForceFlush
  <1>6. nextOut' = Storage \/ nextOut' = nextOut
    BY <1>1, <1>4, <1>5, EncodeBlockEffect DEF IInv, BlockEffect
  <1>7. /\ streamState' \in {"PROCESSING", "FLUSH_REQUESTED", "FINISHED"}
        /\ streamState' = "FINISHED" => op = "FINISH"
        /\ streamState' = "FLUSH_REQUESTED" => op = "FLUSH"
    BY <1>1, <1>4 DEF NextState, IsLast, ForceFlush
  <1>8. nextOut'.kind # "tiny"
    BY <1>1, <1>6 DEF UseOK, Sealed, Storage
  <1>9. UseOK'
    BY <1>1, <1>4, <1>7, <1>8 DEF UseOK, metadata, fixed, call
  <1>10. QED
    BY <1>4, <1>7, <1>9 DEF StepEffect, IInv, CallOK, fixed, call

\* A call returns with a flush under way only if output is left.
LEMMA ReturnEffect ==
    ASSUME IInv, UseOK, Leave("ok"), CheckFlushComplete(availableOut),
           UNCHANGED <<lastBits, availableOut, metadata, fixed>>
    PROVE  StepEffect
  <1>1. \/ UNCHANGED <<streamState, nextOut>>
           /\ ~(streamState = "FLUSH_REQUESTED" /\ availableOut = 0)
        \/ streamState' = "PROCESSING" /\ nextOut' = Null
    BY DEF CheckFlushComplete
  <1>2. pc' = "idle" /\ UNCHANGED <<op, availIn>>
    BY DEF Leave
  <1>3. UseOK'
    <2>1. CASE UNCHANGED <<streamState, nextOut>>
               /\ ~(streamState = "FLUSH_REQUESTED" /\ availableOut = 0)
      BY <1>2, <2>1 DEF UseOK, Sealed, metadata, fixed
    <2>2. CASE streamState' = "PROCESSING" /\ nextOut' = Null
      BY <1>2, <2>2 DEF UseOK, Null, metadata, fixed
    <2>3. QED
      BY <1>1, <2>1, <2>2
  <1>4. QED
    BY <1>1, <1>2, <1>3 DEF StepEffect, IInv, CallOK, fixed

LEMMA FastCompressEffect ==
    ASSUME IInv, UseOK, FastCompress
    PROVE  StepEffect
  <1>1. /\ pc = "fast" /\ availableOut = 0 /\ streamState = "PROCESSING"
        /\ availIn' = availIn - FastBlock
        /\ streamState' = NextState(FastIsLast, FastForceFlush)
        /\ UNCHANGED <<metadata, fixed, pc, op>>
        /\ nextOut' \in {nextOut, Storage}
    BY DEF FastCompress, MustCompress
  <1>2. /\ FastBlock \in Nat /\ FastBlock <= availIn
        /\ availIn \in Nat /\ room \in Nat
    BY LeastProperties, BlockAssumption DEF FastBlock, IInv, CallOK
  <1>3. room' <= room
    <2>1. PICK ix \in FragmentEnds(lastBits, FastBlock) :
              LET end == IF FastIsLast THEN EmptyLast(ix) ELSE ix
              IN  IF FitsInPlace THEN room' = room - (end \div 8)
                  ELSE UNCHANGED room
      BY DEF FastCompress
    <2> DEFINE stop == IF FastIsLast THEN EmptyLast(ix) ELSE ix
    <2>2. stop \in Nat
      <3>1. FragmentEnds(lastBits, FastBlock) \subseteq Nat
        <4>1. lastBits \in Nat
          BY DEF IInv, OutputOK
        <4>2. QED
          BY <1>2, <4>1, EndsAreBits
      <3>2. ix \in Nat /\ EmptyLast(ix) \in Nat
        BY <3>1, BlocksAreBits
      <3>3. QED
        BY <3>2
    <2>3. room' = room \/ room' = room - (stop \div 8)
      BY <2>1
    <2> HIDE DEF stop
    <2>4. stop \div 8 \in Nat
      BY <2>2, Split
    <2>5. QED
      BY <1>2, <2>3, <2>4
  <1>4. /\ streamState' \in {"PROCESSING", "FLUSH_REQUESTED", "FINISHED"}
        /\ streamState' = "FINISHED" => op = "FINISH"
        /\ streamState' = "FLUSH_REQUESTED" => op = "FLUSH"
    BY <1>1 DEF NextState, FastIsLast, FastForceFlush
  <1>5. nextOut'.kind # "tiny"
    BY <1>1 DEF UseOK, Sealed, Storage
  <1>6. op \in {"FLUSH", "FINISH"} => availIn' = 0
    BY <1>1, <1>2 DEF UseOK
  <1>7. UseOK'
    BY <1>1, <1>4, <1>5, <1>6 DEF UseOK, metadata, fixed
  <1>8. QED
    BY <1>1, <1>2, <1>3, <1>4, <1>7 DEF StepEffect, fixed

\* Every step of a call of an adapter keeps the encoder's invariants, and
\* none of them fails.
LEMMA EncoderSteps ==
    ASSUME EncoderInv, UseOK, Step
    PROVE  EncoderInv' /\ StepEffect
  <1>1. EncoderInv'
    BY NextIInv, NextKInv DEF EncoderInv, Next
  <1>2. pc # "metadata"
    BY DEF UseOK
  <1>3. IInv
    BY DEF EncoderInv
  <1>4. CASE CopyInput
    BY <1>1, <1>3, <1>4, CopyInputEffect
  <1>5. CASE SlowInjectOrPush \/ FastInjectOrPush
    BY <1>1, <1>3, <1>5, InjectOrPushEffect DEF SlowInjectOrPush, FastInjectOrPush
  <1>6. CASE SlowEncode
    BY <1>1, <1>3, <1>6, SlowEncodeEffect
  <1>7. CASE SlowReturn \/ FastReturn
    BY <1>1, <1>3, <1>7, ReturnEffect DEF SlowReturn, FastReturn
  <1>8. CASE FastFlushNothing
    <2>1. /\ pc = "fast" /\ streamState = "PROCESSING" /\ op = "FLUSH"
          /\ streamState' = "FLUSH_REQUESTED"
          /\ UNCHANGED <<output, metadata, fixed, call>>
      BY <1>8 DEF FastFlushNothing, MustCompress, FastForceFlush
    <2>2. UseOK'
      BY <2>1 DEF UseOK, Sealed, output, metadata, fixed, call
    <2>3. QED
      BY <1>1, <1>3, <2>1, <2>2 DEF StepEffect, IInv, CallOK, fixed, call
  <1>9. CASE FastCompress
    BY <1>1, <1>3, <1>9, FastCompressEffect
  <1>10. QED
    BY <1>1, <1>2, <1>4, <1>5, <1>6, <1>7, <1>8, <1>9
    DEF Step, MetadataInjectOrPush, MetadataOutputIsFull, MetadataFlush,
        WriteMetadataHeader, MetadataDone, CopyMetadata, MetadataMovesOn

\* Nor does a step that leaves the encoder alone.
LEMMA EncoderRests ==
    ASSUME EncoderInv, UNCHANGED vars
    PROVE  /\ EncoderInv'
           /\ UseOK => UseOK'
           /\ UNCHANGED <<pc, op, availIn, room, streamState,
                          availableOut>>
           /\ IsFinished' = IsFinished
  <1>1. EncoderInv'
    BY NextIInv, NextKInv DEF EncoderInv
  <1>2. QED
    BY <1>1
    DEF UseOK, Sealed, IsFinished, HasMoreOutput, vars, encoder, call, ghosts

\* compress_stream is refused only with input, and when the stream is not in
\* its normal state.
CallEffect(o, n, m) ==
    \/ /\ n # 0 /\ streamState # "PROCESSING"
       /\ stage' = "returned" /\ ret' = FALSE
       /\ UNCHANGED vars
    \/ /\ stage' = "running" /\ ret' = ret
       /\ pc' # "idle" /\ op' = o /\ availIn' = n /\ room' = m
       /\ UNCHANGED <<streamState, availableOut>>

LEMMA EncoderCalled ==
    ASSUME EncoderInv, UseOK, NEW o \in {"PROCESS", "FLUSH", "FINISH"},
           NEW n \in Nat, NEW m \in Nat, o # "PROCESS" => n = 0,
           streamState = "FINISHED" => o = "FINISH",
           CallEncoder(o, n, m)
    PROVE  /\ EncoderInv' /\ UseOK'
           /\ stage = "encode"
           /\ CallEffect(o, n, m)
           /\ UNCHANGED <<kind, bufLen, api, pending, made, readRoom, inOff,
                          inLen, eof, given, tokens, failure,
                          untold, errors, told>>
  <1>1. /\ stage = "encode"
        /\ UNCHANGED <<kind, bufLen, api, pending, made, readRoom, inOff,
                       inLen, eof, given, tokens, failure,
                       untold, errors, told>>
    BY DEF CallEncoder, setup, input, faults, reports
  <1>2. CASE Refuses(o, n)
    <2>1. stage' = "returned" /\ ret' = FALSE /\ UNCHANGED vars
      BY <1>2 DEF CallEncoder
    <2>2. n # 0 /\ streamState # "PROCESSING"
      BY <1>2 DEF Refuses, UseOK, EncoderInv, IInv, StateOK, InMetadata
    <2>3. QED
      BY <1>1, <2>1, <2>2, EncoderRests DEF CallEffect
  <1>3. CASE ~Refuses(o, n)
    <2>1. stage' = "running" /\ ret' = ret /\ CompressStream(o, n, m)
      BY <1>3 DEF CallEncoder
    <2>2. EncoderInv'
      BY <2>1, CompressStreamPreserves, CompressStreamOrder DEF EncoderInv
    <2>3. /\ pc' \in {"slow", "fast"} /\ op' = o /\ availIn' = n
          /\ room' = m
          /\ clean' = (streamState # "FLUSH_REQUESTED" \/ o = "FLUSH")
          /\ UNCHANGED <<streamState, remainingMeta, output>>
      BY <2>1 DEF CompressStream, Loop
    <2>4. UseOK'
      BY <2>3 DEF UseOK, Sealed, output
    <2>5. QED
      BY <1>1, <2>1, <2>2, <2>3, <2>4 DEF CallEffect, output
  <1>4. QED
    BY <1>2, <1>3
-----------------------------------------------------------------------------
\* CompressorWriter

LEMMA WriteKeeps ==
    ASSUME EncoderInv, AInv, NEW n \in Nat \ {0}, Write(n)
    PROVE  EncoderInv' /\ AInv'
  <1>1. /\ api = "none" /\ kind = "writer"
        /\ api' = "write" /\ stage' = "encode" /\ pending' = n
        /\ UNCHANGED vars
        /\ UNCHANGED <<kind, bufLen, ret, made, readRoom, inOff, inLen, eof,
                       tokens, failure, untold, errors>> /\ told' = FALSE
    BY DEF Write, NothingTold, setup
  <1>2. /\ EncoderInv' /\ UseOK' /\ IsFinished' = IsFinished
        /\ UNCHANGED <<pc, op, availIn, room, streamState,
                       availableOut>>
    BY <1>1, EncoderRests DEF AInv
  <1>3. stage = "idle" /\ made = 0 /\ op # "FINISH"
    BY <1>1 DEF AInv, StageOK, MadeOK, AnswerOK
  <1>4. StageOK' /\ AnswerOK'
    BY <1>1, <1>2, <1>3 DEF AInv, StageOK, AnswerOK
  <1>5. MadeOK' /\ InputOK'
    BY <1>1, <1>2, <1>3 DEF AInv, MadeOK, InputOK
  <1>6. ErrorsOK' /\ QuietOK'
    BY <1>1, <1>2, <1>3 DEF AInv, ErrorsOK, QuietOK
  <1>7. QED
    BY <1>2, <1>4, <1>5, <1>6 DEF AInv

LEMMA FlushOrCloseKeeps ==
    ASSUME EncoderInv, AInv, NEW a \in {"flush", "close"}, FlushOrClose(a)
    PROVE  EncoderInv' /\ AInv'
  <1>1. /\ api = "none" /\ kind = "writer"
        /\ api' = a /\ stage' = "encode" /\ pending' = 0
        /\ UNCHANGED vars
        /\ UNCHANGED <<kind, bufLen, ret, made, readRoom, inOff, inLen, eof,
                       tokens, failure, untold, errors>> /\ told' = FALSE
    BY DEF FlushOrClose, NothingTold, setup, input
  <1>2. /\ EncoderInv' /\ UseOK' /\ IsFinished' = IsFinished
        /\ UNCHANGED <<pc, op, availIn, room, streamState,
                       availableOut>>
    BY <1>1, EncoderRests DEF AInv
  <1>3. stage = "idle" /\ made = 0 /\ op # "FINISH"
    BY <1>1 DEF AInv, StageOK, MadeOK, AnswerOK
  <1>4. StageOK' /\ AnswerOK'
    BY <1>1, <1>2, <1>3 DEF AInv, StageOK, AnswerOK
  <1>5. MadeOK' /\ InputOK'
    BY <1>1, <1>2, <1>3 DEF AInv, MadeOK, InputOK
  <1>6. ErrorsOK' /\ QuietOK'
    BY <1>1, <1>2, <1>3 DEF AInv, ErrorsOK, QuietOK
  <1>7. QED
    BY <1>2, <1>4, <1>5, <1>6 DEF AInv

\* A writer's operations: input only with write, the end only with close.
LEMMA WriterEncodesKeeps ==
    ASSUME EncoderInv, AInv, WriterEncodes
    PROVE  EncoderInv' /\ AInv'
  <1>1. /\ kind = "writer" /\ stage = "encode"
        /\ CallEncoder(WriterOp, pending, bufLen)
    BY DEF WriterEncodes, CallEncoder
  <1>2. api \in {"write", "flush", "close"}
    BY <1>1 DEF AInv, StageOK
  <1>3. /\ WriterOp \in {"PROCESS", "FLUSH", "FINISH"}
        /\ api = "write" <=> WriterOp = "PROCESS"
        /\ api = "flush" <=> WriterOp = "FLUSH"
        /\ api = "close" <=> WriterOp = "FINISH"
    BY <1>2 DEF WriterOp
  <1>4. /\ pending \in Nat /\ bufLen \in Nat
        /\ WriterOp # "PROCESS" => pending = 0
    BY <1>2, <1>3 DEF AInv, InputOK, StageOK
  <1>5. streamState = "FINISHED" => WriterOp = "FINISH"
    BY <1>1, <1>2, <1>3 DEF AInv, UseOK, AnswerOK
  <1>6. /\ EncoderInv' /\ UseOK'
        /\ CallEffect(WriterOp, pending, bufLen)
        /\ UNCHANGED <<kind, bufLen, api, pending, made, readRoom, inOff,
                       inLen, eof, given, tokens, failure,
                       untold, errors, told>>
    BY <1>1, <1>3, <1>4, <1>5, EncoderCalled DEF AInv, StageOK, InputOK
  <1>7. WriterOp' = WriterOp
    BY <1>6 DEF WriterOp
  <1>8. CASE /\ pending # 0 /\ streamState # "PROCESSING"
             /\ stage' = "returned" /\ ret' = FALSE /\ UNCHANGED vars
    <2>1. /\ IsFinished' = IsFinished
          /\ UNCHANGED <<pc, op, availIn, room, streamState,
                         availableOut>>
      BY <1>8, EncoderRests
    <2>2. api = "write"
      BY <1>2, <1>8 DEF AInv, InputOK
    <2>3. errors # 0
      BY <1>1, <1>8, <2>2 DEF AInv, QuietOK, UseOK, AnswerOK, EncoderInv,
            IInv, StateOK, States, InMetadata
    <2>4. streamState = "FLUSH_REQUESTED" /\ availableOut # 0
      BY <1>1, <1>8, <2>2 DEF AInv, StageOK, UseOK, AnswerOK, EncoderInv,
            IInv, StateOK, States, InMetadata
    <2>5. StageOK' /\ AnswerOK'
      BY <1>1, <1>6, <1>8, <2>1, <2>2, <2>4 DEF AInv, StageOK, AnswerOK
    <2>6. MadeOK' /\ InputOK'
      BY <1>1, <1>6, <1>8, <2>1, <2>2 DEF AInv, MadeOK, InputOK
    <2>7. ErrorsOK' /\ QuietOK'
      BY <1>1, <1>6, <1>8, <2>1, <2>2, <2>3 DEF AInv, ErrorsOK, QuietOK
    <2>8. QED
      BY <1>6, <2>5, <2>6, <2>7 DEF AInv
  <1>9. CASE /\ stage' = "running" /\ ret' = ret
             /\ pc' # "idle" /\ op' = WriterOp /\ availIn' = pending
             /\ room' = bufLen
             /\ UNCHANGED <<streamState, availableOut>>
    <2>1. StageOK' /\ AnswerOK'
      BY <1>1, <1>2, <1>3, <1>6, <1>7, <1>9 DEF AInv, StageOK, AnswerOK
    <2>2. MadeOK' /\ InputOK'
      BY <1>1, <1>2, <1>3, <1>4, <1>6, <1>9 DEF AInv, MadeOK, InputOK
    <2>3. ErrorsOK' /\ QuietOK'
      BY <1>1, <1>2, <1>3, <1>6, <1>9 DEF AInv, ErrorsOK, QuietOK
    <2>4. QED
      BY <1>6, <2>1, <2>2, <2>3 DEF AInv
  <1>10. QED
    BY <1>6, <1>8, <1>9 DEF CallEffect

\* The inner writer takes what it is offered, or a part of it.
LEMMA InnerAcceptsKeeps ==
    ASSUME EncoderInv, AInv, NEW n \in 1..made, InnerAccepts(n)
    PROVE  EncoderInv' /\ AInv'
  <1>1. /\ kind = "writer" /\ stage = "returned" /\ made' = made - n
        /\ UNCHANGED vars
        /\ UNCHANGED <<kind, bufLen, api, stage, ret, pending, readRoom,
                       inOff, inLen, eof, tokens, failure,
                       untold, errors, told>>
    BY DEF InnerAccepts, Delivering, setup, input, faults, reports
  <1>2. /\ EncoderInv' /\ UseOK' /\ IsFinished' = IsFinished
        /\ UNCHANGED <<pc, op, availIn, room, streamState,
                       availableOut>>
    BY <1>1, EncoderRests DEF AInv
  <1>3. WriterOp' = WriterOp
    BY <1>1 DEF WriterOp
  <1>4. StageOK' /\ AnswerOK'
    BY <1>1, <1>2, <1>3 DEF AInv, StageOK, AnswerOK
  <1>5. MadeOK' /\ InputOK'
    BY <1>1, <1>2 DEF AInv, MadeOK, InputOK
  <1>6. ErrorsOK' /\ QuietOK'
    BY <1>1, <1>2 DEF AInv, ErrorsOK, QuietOK
  <1>7. QED
    BY <1>2, <1>4, <1>5, <1>6 DEF AInv

\* A call that gives up tells its caller, unless it is a close.
LEMMA InnerFailsKeeps ==
    ASSUME EncoderInv, AInv, InnerFails
    PROVE  EncoderInv' /\ AInv'
  <1>1. /\ kind = "writer" /\ stage = "returned" /\ made # 0
        /\ made' = 0 /\ DropWithError
        /\ UNCHANGED vars
        /\ UNCHANGED <<kind, bufLen, ret, pending, readRoom,
                       inOff, inLen, eof, tokens, failure>>
    BY DEF InnerFails, Delivering, setup, input
  <1>2. /\ EncoderInv' /\ UseOK' /\ IsFinished' = IsFinished
        /\ UNCHANGED <<pc, op, availIn, room, streamState,
                       availableOut>>
    BY <1>1, EncoderRests DEF AInv
  <1>3. /\ api \in {"write", "flush", "close", "panic"}
        /\ made \in Nat /\ untold \in Nat /\ errors \in 0..2
        /\ api = "panic" => errors = 2
    BY <1>1 DEF AInv, StageOK, MadeOK, ErrorsOK
  <1>4. /\ stage' = "idle"
        /\ api = "close" =>
              /\ api' = "closed" /\ UNCHANGED <<errors, told>>
              /\ untold' \in Nat /\ untold' # 0
        /\ api # "close" =>
              /\ api' = "none" /\ untold' = untold
              /\ errors' \in 1..2 /\ errors' >= errors /\ told' = TRUE
    BY <1>1, <1>3
    DEF Ends, DropWithError, DropSilently, reports, Tell, Least
  <1>5. StageOK' /\ AnswerOK'
    BY <1>1, <1>2, <1>3, <1>4 DEF AInv, StageOK, AnswerOK
  <1>6. MadeOK' /\ InputOK'
    BY <1>1, <1>2, <1>3, <1>4 DEF AInv, MadeOK, InputOK
  <1>7. ErrorsOK' /\ QuietOK'
    BY <1>1, <1>2, <1>3, <1>4 DEF AInv, ErrorsOK, QuietOK
  <1>8. QED
    BY <1>2, <1>5, <1>6, <1>7 DEF AInv

\* One error is prepared for each thing that can go wrong, and the other one
\* serves when it is used up.  With none left, two errors were told.
LEMMA InnerTakesNothingKeeps ==
    ASSUME EncoderInv, AInv, InnerTakesNothing
    PROVE  EncoderInv' /\ AInv'
  <1>1. /\ kind = "writer" /\ stage = "returned" /\ made # 0
        /\ tokens' = tokens \ ZeroWriteError
        /\ made' = 0
        /\ UNCHANGED vars
        /\ UNCHANGED <<kind, bufLen, ret, pending, readRoom,
                       inOff, inLen, eof, failure>>
    BY DEF InnerTakesNothing, Delivering, setup, input
  <1>2. /\ EncoderInv' /\ UseOK' /\ IsFinished' = IsFinished
        /\ UNCHANGED <<pc, op, availIn, room, streamState,
                       availableOut>>
    BY <1>1, EncoderRests DEF AInv
  <1>3. /\ api \in {"write", "flush", "close", "panic"}
        /\ made \in Nat /\ untold \in Nat /\ errors \in 0..2
        /\ tokens \subseteq {"zero", "invalid"}
        /\ api = "panic" => errors = 2 /\ "invalid" \notin tokens
        /\ "zero" \notin tokens => errors # 0
        /\ "invalid" \notin tokens => errors = 2
    BY <1>1 DEF AInv, StageOK, MadeOK, ErrorsOK
  <1>4. CASE ZeroWriteError # {}
    <2>1. /\ stage' = "idle"
          /\ api = "close" =>
                /\ api' = "closed" /\ UNCHANGED <<errors, told>>
                /\ untold' \in Nat /\ untold' # 0
          /\ api # "close" =>
                /\ api' = "none" /\ untold' = untold
                /\ errors' \in 1..2 /\ told' = TRUE
                /\ errors # 0 => errors' = 2
      BY <1>1, <1>3, <1>4
      DEF InnerTakesNothing, Ends, DropWithError, DropSilently, reports,
          Tell, Least
    <2>2. /\ tokens' \subseteq tokens
          /\ "invalid" \notin tokens' =>
                "zero" \notin tokens \/ "invalid" \notin tokens
      BY <1>1 DEF ZeroWriteError
    <2>3. "invalid" \notin tokens' => errors' = 2 \/ api' = "closed"
      BY <1>3, <2>1, <2>2
    <2>4. StageOK' /\ AnswerOK'
      BY <1>1, <1>2, <1>3, <2>1 DEF AInv, StageOK, AnswerOK
    <2>5. MadeOK' /\ InputOK'
      BY <1>1, <1>2, <1>3, <2>1 DEF AInv, MadeOK, InputOK
    <2>6. /\ tokens' \subseteq {"zero", "invalid"}
          /\ tokens = {} => tokens' = {}
      BY <1>3, <2>2
    <2>7. ErrorsOK'
      BY <1>1, <1>2, <1>3, <2>1, <2>3, <2>6 DEF AInv, ErrorsOK
    <2>8. QuietOK'
      BY <1>1, <1>2, <1>3, <2>1 DEF AInv, QuietOK
    <2>9. QED
      BY <1>2, <2>4, <2>5, <2>7, <2>8 DEF AInv
  <1>5. CASE ZeroWriteError = {}
    <2>1. /\ UNCHANGED <<api, stage, errors, told>> /\ tokens' = tokens
          /\ untold' \in Nat
      BY <1>1, <1>3, <1>5 DEF InnerTakesNothing, DropSilently, reports
    <2>2. tokens = {} /\ errors = 2
      BY <1>3, <1>5 DEF ZeroWriteError
    <2>3. WriterOp' = WriterOp
      BY <2>1 DEF WriterOp
    <2>4. StageOK' /\ AnswerOK'
      BY <1>1, <1>2, <2>1, <2>3 DEF AInv, StageOK, AnswerOK
    <2>5. MadeOK' /\ InputOK'
      BY <1>1, <1>2, <2>1 DEF AInv, MadeOK, InputOK
    <2>6. ret' = ret
      BY <1>1
    <2>7. ErrorsOK' /\ QuietOK'
      BY <1>1, <1>2, <1>3, <2>1, <2>2, <2>6 DEF AInv, ErrorsOK, QuietOK
    <2>8. QED
      BY <1>2, <2>4, <2>5, <2>7 DEF AInv
  <1>6. QED
    BY <1>4, <1>5

\* A write can be refused, after a flush that failed.
LEMMA WriterIsRefusedKeeps ==
    ASSUME EncoderInv, AInv, WriterIsRefused
    PROVE  EncoderInv' /\ AInv'
  <1>1. /\ kind = "writer" /\ stage = "returned" /\ made = 0 /\ ~ret
        /\ RefusedByEncoder
        /\ UNCHANGED vars
        /\ UNCHANGED <<kind, bufLen, ret, pending, made, readRoom,
                       inOff, inLen, eof, failure, untold>>
    BY DEF WriterIsRefused, Checks, setup, input
  <1>2. /\ EncoderInv' /\ UseOK' /\ IsFinished' = IsFinished
        /\ UNCHANGED <<pc, op, availIn, room, streamState,
                       availableOut>>
    BY <1>1, EncoderRests DEF AInv
  <1>3. /\ api \in {"write", "panic"} /\ op # "FINISH"
        /\ errors \in 1..2 /\ tokens \subseteq {"zero", "invalid"}
        /\ "invalid" \notin tokens => errors = 2
    BY <1>1 DEF AInv, StageOK, AnswerOK, ErrorsOK
  <1>4. CASE "invalid" \in tokens
    <2>1. /\ tokens' = tokens \ {"invalid"} /\ errors' = 2
          /\ told' = TRUE /\ api' = "none" /\ stage' = "idle"
      BY <1>1, <1>3, <1>4 DEF RefusedByEncoder, Tell, Return, Least
    <2>2. StageOK' /\ AnswerOK'
      BY <1>1, <1>2, <1>3, <2>1 DEF AInv, StageOK, AnswerOK
    <2>3. MadeOK' /\ InputOK'
      BY <1>1, <1>2, <1>3, <2>1 DEF AInv, MadeOK, InputOK
    <2>4. ErrorsOK' /\ QuietOK'
      BY <1>1, <1>2, <1>3, <2>1 DEF AInv, ErrorsOK, QuietOK
    <2>5. QED
      BY <1>2, <2>2, <2>3, <2>4 DEF AInv
  <1>5. CASE "invalid" \notin tokens
    <2>1. api' = "panic" /\ UNCHANGED <<stage, tokens, errors, told>>
      BY <1>1, <1>5 DEF RefusedByEncoder, reports
    <2>2. StageOK' /\ AnswerOK'
      BY <1>1, <1>2, <1>3, <2>1 DEF AInv, StageOK, AnswerOK
    <2>3. MadeOK' /\ InputOK'
      BY <1>1, <1>2, <1>3, <2>1 DEF AInv, MadeOK, InputOK
    <2>4. ErrorsOK' /\ QuietOK'
      BY <1>1, <1>2, <1>3, <1>5, <2>1 DEF AInv, ErrorsOK, QuietOK
    <2>5. QED
      BY <1>2, <2>2, <2>3, <2>4 DEF AInv
  <1>6. QED
    BY <1>4, <1>5

LEMMA WriterGoesOnKeeps ==
    ASSUME EncoderInv, AInv, WriterGoesOn
    PROVE  EncoderInv' /\ AInv'
  <1>1. /\ kind = "writer" /\ stage = "returned" /\ made = 0 /\ ret
        /\ stage' = "encode"
        /\ UNCHANGED vars
        /\ UNCHANGED <<kind, bufLen, api, ret, pending, made, readRoom,
                       inOff, inLen, eof, tokens, failure,
                       untold, errors, told>>
    BY DEF WriterGoesOn, Checks, setup, input, faults, reports
  <1>2. /\ EncoderInv' /\ UseOK' /\ IsFinished' = IsFinished
        /\ UNCHANGED <<pc, op, availIn, room, streamState,
                       availableOut>>
    BY <1>1, EncoderRests DEF AInv
  <1>3. StageOK' /\ AnswerOK'
    BY <1>1, <1>2 DEF AInv, StageOK, AnswerOK
  <1>4. MadeOK' /\ InputOK'
    BY <1>1, <1>2 DEF AInv, MadeOK, InputOK
  <1>5. ErrorsOK' /\ QuietOK'
    BY <1>1, <1>2 DEF AInv, ErrorsOK, QuietOK
  <1>6. QED
    BY <1>2, <1>3, <1>4, <1>5 DEF AInv

\* A flush that returns has nothing left in the encoder, a close the end.
LEMMA WriterReturnsKeeps ==
    ASSUME EncoderInv, AInv, WriterReturns
    PROVE  EncoderInv' /\ AInv'
  <1>1. /\ kind = "writer" /\ stage = "returned" /\ made = 0 /\ ret
        /\ WriterDone /\ api' = Ends(api) /\ stage' = "idle"
        /\ UNCHANGED <<errors, told>> \/ (api = "flush" /\ Tell)
        /\ UNCHANGED vars
        /\ UNCHANGED <<kind, bufLen, ret, pending, made, readRoom,
                       inOff, inLen, eof, tokens, failure, untold>>
    BY DEF WriterReturns, Checks, setup, input, reports
  <1>2. /\ EncoderInv' /\ UseOK' /\ IsFinished' = IsFinished
        /\ UNCHANGED <<pc, op, availIn, room, streamState,
                       availableOut>>
    BY <1>1, EncoderRests DEF AInv
  <1>3. /\ api \in {"write", "flush", "close"} /\ op = WriterOp
        /\ errors \in 0..2
    BY <1>1 DEF AInv, StageOK, AnswerOK, ErrorsOK
  <1>4. /\ api = "write" => op = "PROCESS"
        /\ api = "flush" => op = "FLUSH" /\ availableOut = 0
        /\ api = "close" => op = "FINISH" /\ IsFinished
    BY <1>1, <1>3 DEF WriterOp, WriterDone, HasMoreOutput
  <1>5. /\ api = "close" => api' = "closed"
        /\ api # "close" => api' = "none"
        /\ errors' \in 0..2 /\ errors' >= errors
    BY <1>1, <1>3 DEF Ends, Tell, Least
  <1>6. StageOK' /\ AnswerOK'
    BY <1>1, <1>2, <1>3, <1>4, <1>5 DEF AInv, StageOK, AnswerOK
  <1>7. MadeOK' /\ InputOK'
    BY <1>1, <1>2, <1>3, <1>5 DEF AInv, MadeOK, InputOK
  <1>8. ErrorsOK'
    BY <1>1, <1>2, <1>3, <1>4, <1>5 DEF AInv, ErrorsOK
  <1>9. QuietOK'
    <2>1. api = "flush" => streamState # "FLUSH_REQUESTED"
      BY <1>1, <1>4 DEF AInv, StageOK, UseOK
    <2>2. QED
      BY <1>1, <1>2, <1>3, <1>4, <1>5, <2>1 DEF AInv, QuietOK, ErrorsOK
  <1>10. QED
    BY <1>2, <1>6, <1>7, <1>8, <1>9 DEF AInv
-----------------------------------------------------------------------------
\* CompressorReader

LEMMA ReadKeeps ==
    ASSUME EncoderInv, AInv, NEW m \in Nat, Read(m)
    PROVE  EncoderInv' /\ AInv'
  <1>1. /\ api = "none" /\ kind = "reader"
        /\ api' = "read" /\ stage' = "fetch" /\ readRoom' = m
        /\ pending' = inLen - inOff
        /\ UNCHANGED vars
        /\ UNCHANGED <<kind, bufLen, ret, made, inOff, inLen, eof, tokens,
                       failure, untold, errors>> /\ told' = FALSE
    BY DEF Read, NothingTold, setup, input
  <1>2. /\ EncoderInv' /\ UseOK' /\ IsFinished' = IsFinished
        /\ UNCHANGED <<pc, op, availIn, room, streamState,
                       availableOut>>
    BY <1>1, EncoderRests DEF AInv
  <1>3. stage = "idle" /\ made = 0
    BY <1>1 DEF AInv, StageOK, MadeOK
  <1>4. StageOK' /\ AnswerOK'
    BY <1>1, <1>2, <1>3 DEF AInv, StageOK, AnswerOK
  <1>5. MadeOK'
    BY <1>1, <1>2, <1>3 DEF AInv, MadeOK
  <1>6. InputOK'
    BY <1>1, <1>2, <1>3 DEF AInv, InputOK
  <1>7. ErrorsOK' /\ QuietOK'
    BY <1>1, <1>2, <1>3 DEF AInv, ErrorsOK, QuietOK
  <1>8. QED
    BY <1>2, <1>4, <1>5, <1>6, <1>7 DEF AInv

\* The inner reader gives bytes for the free part of the buffer, or the end.
LEMMA ReaderFetchesKeeps ==
    ASSUME EncoderInv, AInv, NEW n \in 0..(bufLen - inLen), ReaderFetches(n)
    PROVE  EncoderInv' /\ AInv'
  <1>1. /\ kind = "reader" /\ stage = "fetch" /\ inLen < bufLen /\ ~eof
        /\ stage' = "encode" /\ eof' = (n = 0) /\ inLen' = inLen + n
        /\ pending' = IF n = 0 THEN pending ELSE inLen + n - inOff
        /\ UNCHANGED vars
        /\ UNCHANGED <<kind, bufLen, api, ret, made, readRoom, inOff, tokens,
                       failure, untold, errors, told>>
    BY DEF ReaderFetches, Fetching, MustFetch, setup, faults, reports
  <1>2. /\ EncoderInv' /\ UseOK' /\ IsFinished' = IsFinished
        /\ UNCHANGED <<pc, op, availIn, room, streamState,
                       availableOut>>
    BY <1>1, EncoderRests DEF AInv
  <1>3. /\ inOff \in Nat /\ inLen \in Nat /\ bufLen \in Nat /\ n \in Nat
        /\ inOff <= inLen /\ inOff < bufLen /\ n <= bufLen - inLen
        /\ pending = inLen - inOff /\ op # "FINISH" /\ api = "read"
    BY <1>1 DEF AInv, StageOK, InputOK
  <1>4. StageOK' /\ AnswerOK'
    BY <1>1, <1>2, <1>3 DEF AInv, StageOK, AnswerOK
  <1>5. MadeOK'
    BY <1>1, <1>2 DEF AInv, MadeOK
  <1>6. InputOK'
    <2>1. /\ pending' = inLen' - inOff' /\ pending' \in Nat
          /\ inLen' \in Nat /\ inOff' \in Nat
          /\ inOff' <= inLen' /\ inLen' <= bufLen' /\ inOff' < bufLen'
      BY <1>1, <1>3
    <2>2. (n = 0) => eof'
      BY <1>1
    <2>3. pending' = 0 => n = 0
      BY <1>1, <1>3
    <2>4. eof' \in BOOLEAN
      BY <1>1
    <2>5. QED
      BY <1>1, <1>2, <1>3, <2>1, <2>2, <2>3, <2>4 DEF InputOK
  <1>7. ErrorsOK' /\ QuietOK'
    BY <1>1, <1>2, <1>3 DEF AInv, ErrorsOK, QuietOK
  <1>8. QED
    BY <1>2, <1>4, <1>5, <1>6, <1>7 DEF AInv

LEMMA InnerReadFailsKeeps ==
    ASSUME EncoderInv, AInv, InnerReadFails
    PROVE  EncoderInv' /\ AInv'
  <1>1. /\ kind = "reader" /\ stage = "fetch"
        /\ api' = "none" /\ stage' = "idle" /\ Tell
        /\ UNCHANGED vars
        /\ UNCHANGED <<kind, bufLen, ret, pending, made, readRoom, inOff,
                       inLen, eof, tokens, failure, untold>>
    BY DEF InnerReadFails, Fetching, Return, setup, input
  <1>2. /\ EncoderInv' /\ UseOK' /\ IsFinished' = IsFinished
        /\ UNCHANGED <<pc, op, availIn, room, streamState,
                       availableOut>>
    BY <1>1, EncoderRests DEF AInv
  <1>3. /\ errors \in 0..2 /\ errors' \in 1..2 /\ errors' >= errors
        /\ told' = TRUE
    BY <1>1 DEF AInv, ErrorsOK, Tell, Least
  <1>4. api = "read" /\ made = 0
    BY <1>1 DEF AInv, StageOK, MadeOK
  <1>5. StageOK' /\ AnswerOK'
    BY <1>1, <1>2 DEF AInv, StageOK, AnswerOK
  <1>6. MadeOK' /\ InputOK'
    BY <1>1, <1>2, <1>4 DEF AInv, MadeOK, InputOK
  <1>7. ErrorsOK' /\ QuietOK'
    BY <1>1, <1>2, <1>3, <1>4 DEF AInv, ErrorsOK, QuietOK
  <1>8. QED
    BY <1>2, <1>5, <1>6, <1>7 DEF AInv

\* Nothing is fetched while the buffer is full or the input has ended; a full
\* buffer is not empty, since the reader moves its input up in time.
LEMMA FetchesNothingKeeps ==
    ASSUME EncoderInv, AInv, FetchesNothing
    PROVE  EncoderInv' /\ AInv'
  <1>1. /\ kind = "reader" /\ stage = "fetch"
        /\ ~(inLen < bufLen) \/ eof
        /\ stage' = "encode"
        /\ UNCHANGED vars
        /\ UNCHANGED <<kind, bufLen, api, ret, pending, made, readRoom, inOff,
                       inLen, eof, tokens, failure, untold, errors, told>>
    BY DEF FetchesNothing, Fetching, MustFetch, setup, input, faults, reports
  <1>2. /\ EncoderInv' /\ UseOK' /\ IsFinished' = IsFinished
        /\ UNCHANGED <<pc, op, availIn, room, streamState,
                       availableOut>>
    BY <1>1, EncoderRests DEF AInv
  <1>3. bufLen \in Nat
    BY DEF AInv, StageOK
  <1>4. StageOK' /\ AnswerOK'
    BY <1>1, <1>2 DEF AInv, StageOK, AnswerOK
  <1>5. MadeOK'
    BY <1>1, <1>2 DEF AInv, MadeOK
  <1>6. InputOK'
    BY <1>1, <1>2, <1>3 DEF AInv, InputOK
  <1>7. ErrorsOK' /\ QuietOK'
    BY <1>1, <1>2 DEF AInv, ErrorsOK, QuietOK
  <1>8. QED
    BY <1>2, <1>4, <1>5, <1>6, <1>7 DEF AInv

\* A reader is never refused: it has no input once it has asked for the end,
\* and it asks for no flush.
LEMMA ReaderEncodesKeeps ==
    ASSUME EncoderInv, AInv, ReaderEncodes
    PROVE  EncoderInv' /\ AInv'
  <1>1. /\ kind = "reader" /\ stage = "encode"
        /\ CallEncoder(ReaderOp, pending, readRoom)
    BY DEF ReaderEncodes, CallEncoder
  <1>2. /\ ReaderOp \in {"PROCESS", "FINISH"}
        /\ ReaderOp = "FINISH" <=> pending = 0
        /\ pending \in Nat /\ readRoom \in Nat
    BY DEF ReaderOp, AInv, InputOK, MadeOK
  <1>3. streamState = "FINISHED" => pending = 0
    BY DEF AInv, UseOK, InputOK
  <1>4. /\ EncoderInv' /\ UseOK'
        /\ CallEffect(ReaderOp, pending, readRoom)
        /\ UNCHANGED <<kind, bufLen, api, pending, made, readRoom, inOff,
                       inLen, eof, given, tokens, failure,
                       untold, errors, told>>
    BY <1>1, <1>2, <1>3, EncoderCalled DEF AInv
  <1>5. ~(pending # 0 /\ streamState # "PROCESSING")
    BY <1>1, <1>3 DEF AInv, AnswerOK, UseOK, EncoderInv, IInv, StateOK,
                      States, InMetadata
  <1>6. /\ stage' = "running" /\ ret' = ret
        /\ pc' # "idle" /\ op' = ReaderOp /\ availIn' = pending
        /\ room' = readRoom
        /\ UNCHANGED <<streamState, availableOut>>
    BY <1>4, <1>5 DEF CallEffect
  <1>7. streamState # "FLUSH_REQUESTED" /\ api = "read" /\ op' # "FLUSH"
    BY <1>1, <1>2, <1>6 DEF AInv, AnswerOK, StageOK
  <1>8. StageOK' /\ AnswerOK'
    BY <1>1, <1>4, <1>6, <1>7 DEF AInv, StageOK, AnswerOK
  <1>9. MadeOK'
    BY <1>1, <1>4, <1>6 DEF AInv, MadeOK
  <1>10. InputOK'
    BY <1>1, <1>2, <1>4, <1>6, <1>7 DEF AInv, InputOK
  <1>11. ErrorsOK' /\ QuietOK'
    BY <1>1, <1>4, <1>6, <1>7 DEF AInv, ErrorsOK, QuietOK
  <1>12. QED
    BY <1>4, <1>8, <1>9, <1>10, <1>11 DEF AInv

\* What the encoder took is passed over; an input buffer that is used up goes
\* on from its front.
LEMMA ReaderReturnedKeeps ==
    ASSUME EncoderInv, AInv, ReaderReturned
    PROVE  EncoderInv' /\ AInv'
  <1> DEFINE off   == inLen - pending
             front == pending = 0 /\ MovesUp(off, pending)
  <1>1. /\ kind = "reader" /\ stage = "returned"
        /\ inOff' = IF front THEN 0 ELSE off
        /\ inLen' = IF front THEN pending ELSE inLen
        /\ made' = 0
        /\ UNCHANGED vars
        /\ UNCHANGED <<kind, bufLen, ret, pending, readRoom, eof, failure,
                       untold>>
    BY DEF ReaderReturned, Returned, setup
  <1>2. /\ EncoderInv' /\ UseOK' /\ IsFinished' = IsFinished
        /\ UNCHANGED <<pc, op, availIn, room, streamState,
                       availableOut>>
    BY <1>1, EncoderRests DEF AInv
  <1>3. ret /\ api = "read"
    BY <1>1 DEF AInv, AnswerOK, StageOK
  <1>4. /\ UNCHANGED <<tokens, errors, told>>
        /\ \/ api' = "none" /\ stage' = "idle"
           \/ stage' = "fetch" /\ api' = api
    BY <1>1, <1>3 DEF ReaderReturned, Return, reports
  <1>5. /\ inOff \in Nat /\ inLen \in Nat /\ pending \in Nat
        /\ bufLen \in Nat \ {0}
        /\ inOff <= inLen /\ inLen <= bufLen /\ inOff < bufLen
        /\ pending <= inLen - inOff
        /\ op = "FINISH" => pending = 0 /\ eof
    BY <1>1 DEF AInv, InputOK, StageOK
  <1>6. front => pending = 0
    OBVIOUS
  <1>7. off = bufLen => front
    BY <1>5 DEF MovesUp
  <1> HIDE DEF front
  <1>8. /\ inOff' \in Nat /\ inLen' \in Nat /\ inOff' <= inLen'
        /\ inLen' <= bufLen /\ inOff' < bufLen
        /\ pending = inLen' - inOff'
    <2>1. CASE front
      BY <1>1, <1>5, <1>6, <2>1
    <2>2. CASE ~front
      BY <1>1, <1>5, <1>7, <2>2
    <2>3. QED
      BY <2>1, <2>2
  <1>9. StageOK' /\ AnswerOK'
    BY <1>1, <1>2, <1>3, <1>4 DEF AInv, StageOK, AnswerOK
  <1>10. MadeOK'
    BY <1>1, <1>2, <1>4 DEF AInv, MadeOK
  <1>11. InputOK'
    BY <1>1, <1>2, <1>3, <1>4, <1>5, <1>8 DEF AInv, InputOK
  <1>12. ErrorsOK' /\ QuietOK'
    BY <1>1, <1>2, <1>3, <1>4 DEF AInv, ErrorsOK, QuietOK, AnswerOK
  <1>13. QED
    BY <1>2, <1>9, <1>10, <1>11, <1>12 DEF AInv
-----------------------------------------------------------------------------
\* BrotliCompressCustomIo

LEMMA StartCopyKeeps ==
    ASSUME EncoderInv, AInv, StartCopy
    PROVE  EncoderInv' /\ AInv'
  <1>1. /\ api = "none" /\ kind = "copy"
        /\ api' = "copy" /\ stage' = "fetch"
        /\ UNCHANGED vars
        /\ UNCHANGED <<kind, bufLen, ret, pending, made, readRoom, inOff,
                       inLen, eof, tokens, failure, untold, errors>>
        /\ told' = FALSE
    BY DEF StartCopy, NothingTold, setup, input
  <1>2. /\ EncoderInv' /\ UseOK' /\ IsFinished' = IsFinished
        /\ UNCHANGED <<pc, op, availIn, room, streamState,
                       availableOut>>
    BY <1>1, EncoderRests DEF AInv
  <1>3. stage = "idle"
    BY <1>1 DEF AInv, StageOK
  <1>4. StageOK' /\ AnswerOK'
    BY <1>1, <1>2, <1>3 DEF AInv, StageOK, AnswerOK
  <1>5. MadeOK' /\ InputOK'
    BY <1>1, <1>2, <1>3 DEF AInv, MadeOK, InputOK
  <1>6. ErrorsOK' /\ QuietOK'
    BY <1>1, <1>2, <1>3 DEF AInv, ErrorsOK, QuietOK
  <1>7. QED
    BY <1>2, <1>4, <1>5, <1>6 DEF AInv

\* Whatever the inner reader answers: bytes, the end, an error, or nothing
\* when it is not asked.
CopyFetched ==
    /\ kind = "copy" /\ stage = "fetch" /\ stage' = "encode"
    /\ pending' \in Nat /\ eof' \in BOOLEAN
    /\ eof => eof' /\ pending' = pending
    /\ pending' = 0 => eof'
    /\ UNCHANGED vars
    /\ UNCHANGED <<kind, bufLen, api, ret, made, readRoom, inOff, inLen,
                   tokens, untold, errors, told>>

LEMMA CopyFetchedKeeps ==
    ASSUME EncoderInv, AInv, CopyFetched
    PROVE  EncoderInv' /\ AInv'
  <1>1. /\ EncoderInv' /\ UseOK' /\ IsFinished' = IsFinished
        /\ UNCHANGED <<pc, op, availIn, room, streamState,
                       availableOut>>
    BY EncoderRests DEF AInv, CopyFetched
  <1>2. api = "copy"
    BY DEF AInv, StageOK, CopyFetched
  <1>3. StageOK' /\ AnswerOK'
    BY <1>1, <1>2 DEF AInv, StageOK, AnswerOK, CopyFetched
  <1>4. MadeOK'
    BY <1>1 DEF AInv, MadeOK, CopyFetched
  <1>5. InputOK'
    BY <1>1, <1>2 DEF AInv, InputOK, CopyFetched
  <1>6. ErrorsOK' /\ QuietOK'
    BY <1>1, <1>2 DEF AInv, ErrorsOK, QuietOK, CopyFetched
  <1>7. QED
    BY <1>1, <1>3, <1>4, <1>5, <1>6 DEF AInv

LEMMA CopyFetchesKeeps ==
    ASSUME EncoderInv, AInv,
           (\E n \in 0..bufLen : CopyFetches(n)) \/ CopyReadFails
              \/ CopyFetchesNothing
    PROVE  EncoderInv' /\ AInv'
  <1>1. bufLen \in Nat /\ pending \in Nat /\ eof \in BOOLEAN
    BY DEF AInv, StageOK, InputOK
  <1>2. ASSUME NEW n \in 0..bufLen, CopyFetches(n) PROVE CopyFetched
    <2>1. /\ kind = "copy" /\ stage = "fetch" /\ stage' = "encode" /\ ~eof
          /\ eof' = (n = 0) /\ pending' = n
          /\ UNCHANGED vars
          /\ UNCHANGED <<kind, bufLen, api, ret, made, readRoom, inOff,
                         inLen, tokens, untold, errors, told>>
      BY <1>2 DEF CopyFetches, CopyFetching, CopyMustFetch, setup, faults,
                  reports
    <2>2. pending' \in Nat /\ eof' \in BOOLEAN
      BY <1>1, <2>1
    <2>3. (n = 0) => eof'
      BY <2>1
    <2>4. QED
      BY <2>1, <2>2, <2>3 DEF CopyFetched
  <1>3. CopyReadFails => CopyFetched
    BY <1>1
    DEF CopyReadFails, CopyFetching, CopyMustFetch, CopyFetched, setup,
        reports
  <1>4. CopyFetchesNothing => CopyFetched
    BY <1>1 DEF CopyFetchesNothing, CopyFetching, CopyMustFetch, CopyFetched,
                setup, input, faults, reports
  <1>5. QED
    BY <1>2, <1>3, <1>4, CopyFetchedKeeps

LEMMA CopyEncodesKeeps ==
    ASSUME EncoderInv, AInv, CopyEncodes
    PROVE  EncoderInv' /\ AInv'
  <1>1. /\ kind = "copy" /\ stage = "encode"
        /\ CallEncoder(CopyOp, pending, bufLen - made)
    BY DEF CopyEncodes, CallEncoder
  <1>2. /\ CopyOp \in {"PROCESS", "FINISH"}
        /\ CopyOp = "FINISH" <=> pending = 0
        /\ pending \in Nat /\ bufLen \in Nat /\ made \in Nat
        /\ bufLen - made \in Nat
    BY <1>1 DEF CopyOp, AInv, InputOK, MadeOK, StageOK
  <1>3. streamState = "FINISHED" => pending = 0
    BY DEF AInv, UseOK, InputOK
  <1>4. /\ EncoderInv' /\ UseOK'
        /\ CallEffect(CopyOp, pending, bufLen - made)
        /\ UNCHANGED <<kind, bufLen, api, pending, made, readRoom, inOff,
                       inLen, eof, given, tokens, failure,
                       untold, errors, told>>
    BY <1>1, <1>2, <1>3, EncoderCalled DEF AInv
  <1>5. ~(pending # 0 /\ streamState # "PROCESSING")
    BY <1>1, <1>3 DEF AInv, AnswerOK, UseOK, EncoderInv, IInv, StateOK,
                      States, InMetadata
  <1>6. /\ stage' = "running" /\ ret' = ret
        /\ pc' # "idle" /\ op' = CopyOp /\ availIn' = pending
        /\ room' = bufLen - made
        /\ UNCHANGED <<streamState, availableOut>>
    BY <1>4, <1>5 DEF CallEffect
  <1>7. streamState # "FLUSH_REQUESTED" /\ api = "copy" /\ op' # "FLUSH"
    BY <1>1, <1>2, <1>6 DEF AInv, AnswerOK, StageOK
  <1>8. StageOK' /\ AnswerOK'
    BY <1>1, <1>4, <1>6, <1>7 DEF AInv, StageOK, AnswerOK
  <1>9. MadeOK'
    BY <1>1, <1>2, <1>4, <1>6 DEF AInv, MadeOK
  <1>10. InputOK'
    BY <1>1, <1>2, <1>4, <1>6, <1>7 DEF AInv, InputOK
  <1>11. ErrorsOK' /\ QuietOK'
    BY <1>1, <1>4, <1>6, <1>7 DEF AInv, ErrorsOK, QuietOK
  <1>12. QED
    BY <1>4, <1>8, <1>9, <1>10, <1>11 DEF AInv

LEMMA CopyWritesKeeps ==
    ASSUME EncoderInv, AInv, NEW n \in 1..made, CopyWrites(n) \/ CopyWritesOn(n)
    PROVE  EncoderInv' /\ AInv'
  <1>1. /\ kind = "copy" /\ stage \in {"returned", "writing"}
        /\ stage' = IF n = made THEN "written" ELSE "writing"
        /\ made' = made - n
        /\ UNCHANGED vars
        /\ UNCHANGED <<kind, bufLen, api, ret, pending, readRoom, inOff,
                       inLen, eof, tokens, failure, untold, errors, told>>
    BY DEF CopyWrites, CopyWritesOn, CopyReturned, setup, input, faults,
           reports
  <1>2. /\ EncoderInv' /\ UseOK' /\ IsFinished' = IsFinished
        /\ UNCHANGED <<pc, op, availIn, room, streamState,
                       availableOut>>
    BY <1>1, EncoderRests DEF AInv
  <1>3. made \in Nat /\ bufLen \in Nat /\ api = "copy" /\ made <= bufLen
    BY <1>1 DEF AInv, StageOK, MadeOK
  <1>4. StageOK' /\ AnswerOK'
    BY <1>1, <1>2, <1>3 DEF AInv, StageOK, AnswerOK
  <1>5. MadeOK'
    BY <1>1, <1>2, <1>3 DEF AInv, MadeOK
  <1>6. InputOK'
    BY <1>1, <1>2 DEF AInv, InputOK
  <1>7. ErrorsOK' /\ QuietOK'
    BY <1>1, <1>2, <1>3 DEF AInv, ErrorsOK, QuietOK
  <1>8. QED
    BY <1>2, <1>4, <1>5, <1>6, <1>7 DEF AInv

LEMMA CopyWriteFailsKeeps ==
    ASSUME EncoderInv, AInv, CopyWriteFails
    PROVE  EncoderInv' /\ AInv'
  <1>1. /\ kind = "copy" /\ stage \in {"returned", "writing"}
        /\ api' = "closed" /\ stage' = "idle" /\ made' = 0
        /\ untold' = untold /\ Tell
        /\ UNCHANGED vars
        /\ UNCHANGED <<kind, bufLen, ret, pending, readRoom, inOff,
                       inLen, eof, tokens, failure>>
    BY DEF CopyWriteFails, CopyReturned, setup, input
  <1>2. /\ EncoderInv' /\ UseOK' /\ IsFinished' = IsFinished
        /\ UNCHANGED <<pc, op, availIn, room, streamState,
                       availableOut>>
    BY <1>1, EncoderRests DEF AInv
  <1>3. /\ errors \in 0..2 /\ errors' \in 1..2 /\ told' = TRUE
        /\ bufLen \in Nat
    BY <1>1 DEF AInv, ErrorsOK, MadeOK, StageOK, Tell, Least
  <1>4. StageOK' /\ AnswerOK'
    BY <1>1, <1>2 DEF AInv, StageOK, AnswerOK
  <1>5. MadeOK' /\ InputOK'
    BY <1>1, <1>2, <1>3 DEF AInv, MadeOK, InputOK
  <1>6. ErrorsOK' /\ QuietOK'
    BY <1>1, <1>2, <1>3 DEF AInv, ErrorsOK, QuietOK
  <1>7. QED
    BY <1>2, <1>4, <1>5, <1>6 DEF AInv

\* The call ends without an error only when the whole stream is written.
LEMMA CopyRoundEndsKeeps ==
    ASSUME EncoderInv, AInv, CopyRoundEnds
    PROVE  EncoderInv' /\ AInv'
  <1>1. /\ kind = "copy"
        /\ \/ stage = "written"
           \/ stage = "returned" /\ (~MustWrite \/ made = 0)
        /\ UNCHANGED vars
        /\ UNCHANGED <<kind, bufLen, ret, pending, made, readRoom, inOff,
                       inLen, eof, tokens, failure, untold>>
    BY DEF CopyRoundEnds, setup, input
  <1>2. /\ EncoderInv' /\ UseOK' /\ IsFinished' = IsFinished
        /\ UNCHANGED <<pc, op, availIn, room, streamState,
                       availableOut>>
    BY <1>1, EncoderRests DEF AInv
  <1>3. ret /\ api = "copy" /\ errors \in 0..2
    BY <1>1 DEF AInv, AnswerOK, StageOK, ErrorsOK
  <1>4. CASE IsFinished
    <2>1. made = 0
      BY <1>1, <1>4 DEF AInv, MadeOK, MustWrite
    <2>2. /\ api' = "closed" /\ stage' = "idle"
          /\ errors' \in 0..2 /\ errors' >= errors
      BY <1>3, <1>4 DEF CopyRoundEnds, Tell, Least, reports
    <2>3. StageOK' /\ AnswerOK'
      BY <1>1, <1>2, <1>3, <2>2 DEF AInv, StageOK, AnswerOK
    <2>4. MadeOK' /\ InputOK'
      BY <1>1, <1>2, <1>3, <2>1, <2>2 DEF AInv, MadeOK, InputOK
    <2>5. ErrorsOK' /\ QuietOK'
      BY <1>1, <1>2, <1>3, <1>4, <2>2 DEF AInv, ErrorsOK, QuietOK, AnswerOK
    <2>6. QED
      BY <1>2, <2>3, <2>4, <2>5 DEF AInv
  <1>5. CASE ~IsFinished
    <2>1. stage' = "fetch" /\ UNCHANGED <<api, errors, told>>
      BY <1>3, <1>5 DEF CopyRoundEnds, reports
    <2>2. StageOK' /\ AnswerOK'
      BY <1>1, <1>2, <1>3, <2>1 DEF AInv, StageOK, AnswerOK
    <2>3. MadeOK' /\ InputOK'
      BY <1>1, <1>2, <1>3, <2>1 DEF AInv, MadeOK, InputOK
    <2>4. ErrorsOK' /\ QuietOK'
      BY <1>1, <1>2, <1>3, <2>1 DEF AInv, ErrorsOK, QuietOK
    <2>5. QED
      BY <1>2, <2>2, <2>3, <2>4 DEF AInv
  <1>6. QED
    BY <1>4, <1>5
-----------------------------------------------------------------------------
\* Output goes from the room that is left to the bytes made.
LEMMA RoomIsMade ==
    ASSUME NEW old \in Nat, NEW before \in Nat, NEW after \in Nat,
           after <= before
    PROVE  /\ old + before - after \in Nat
           /\ (old + before - after) + after = old + before
  BY SMT

\* A sum is no greater for a part of it.
LEMMA PartFits ==
    ASSUME NEW new \in Nat, NEW after \in Nat, NEW total, NEW limit \in Nat,
           new + after = total, total <= limit
    PROVE  new + after <= limit /\ new <= limit
  BY SMT

\* The encoder at work for an adapter of any kind.
LEMMA EncoderRunsKeeps ==
    ASSUME EncoderInv, AInv, EncoderRuns
    PROVE  EncoderInv' /\ AInv'
  <1>1. /\ stage = "running" /\ Step
        /\ made' = IF pc' = "idle" THEN made ELSE made + room - room'
        /\ stage' = IF pc' = "idle" THEN "returned" ELSE stage
        /\ ret' = IF pc' = "idle" THEN result' = "ok" ELSE ret
        /\ pending' = IF pc' = "idle" THEN availIn' ELSE pending
        /\ UNCHANGED <<kind, bufLen, api, readRoom, inOff, inLen, eof,
                       tokens, failure, untold, errors, told>>
    BY DEF EncoderRuns, setup, input, faults, reports
  <1>2. EncoderInv' /\ StepEffect
    BY <1>1, EncoderSteps DEF AInv
  <1>3. /\ UseOK' /\ op' = op /\ availIn' <= availIn
        /\ pc' # "idle" => room' <= room
    BY <1>2 DEF StepEffect
  <1>4. /\ availIn \in Nat /\ availIn' \in Nat /\ room \in Nat
        /\ room' \in Nat /\ result' = "ok"
    BY <1>2 DEF EncoderInv, IInv, CallOK
  <1>5. /\ api \in {"write", "flush", "close", "read", "copy"}
        /\ kind = "writer" => op = WriterOp
        /\ bufLen \in Nat
    BY <1>1 DEF AInv, StageOK, AnswerOK
  <1>6. ret' \in BOOLEAN /\ (ret' \/ (stage' = "running" /\ ret' = ret))
    BY <1>1, <1>4 DEF AInv, StageOK
  <1>7. WriterOp' = WriterOp
    BY <1>1 DEF WriterOp
  <1>8. StageOK'
    BY <1>1, <1>5, <1>6 DEF AInv, StageOK
  <1>9. AnswerOK'
    <2>1. kind # "writer" => streamState' # "FLUSH_REQUESTED"
      BY <1>2 DEF AInv, AnswerOK, StepEffect
    <2>2. stage' \in {"running", "returned"} /\ (kind # "writer" => ret')
      BY <1>1, <1>6 DEF AInv, AnswerOK
    <2>3. QED
      BY <1>1, <1>3, <1>5, <1>6, <1>7, <2>1, <2>2 DEF AInv, AnswerOK
  <1>10. MadeOK'
    <2>1. CASE pc' = "idle"
      BY <1>1, <2>1 DEF AInv, MadeOK
    <2>2. CASE pc' # "idle"
      <3>1. /\ made \in Nat
            /\ kind = "copy" => made + room <= bufLen
        BY <1>1 DEF AInv, MadeOK
      <3>2. made' = made + room - room' /\ stage' = "running"
        BY <1>1, <2>2
      <3>3. room' <= room
        BY <1>3, <2>2
      <3>4. made' \in Nat /\ made' + room' = made + room
        <4>1. /\ made + room - room' \in Nat
              /\ (made + room - room') + room' = made + room
          BY <1>4, <3>1, <3>3, RoomIsMade
        <4>2. QED
          BY ONLY <3>2, <4>1
      <3>5. kind = "copy" => made' + room' <= bufLen /\ made' <= bufLen
        BY <1>4, <1>5, <3>1, <3>4, PartFits
      <3>6. QED
        BY <1>1, <3>2, <3>4, <3>5 DEF AInv, MadeOK
    <2>3. QED
      BY <2>1, <2>2
  <1>11. InputOK'
    <2>1. op \in {"FLUSH", "FINISH"} => availIn = 0 /\ availIn' = 0
      BY <1>3 DEF AInv, UseOK
    <2>2. api \in {"flush", "close"} => op \in {"FLUSH", "FINISH"}
      BY <1>1, <1>5 DEF AInv, StageOK, WriterOp
    <2>3. CASE pc' = "idle"
      BY <1>1, <1>3, <1>4, <2>1, <2>2, <2>3 DEF AInv, InputOK
    <2>4. CASE pc' # "idle"
      BY <1>1, <1>3, <1>4, <2>1, <2>2, <2>4 DEF AInv, InputOK
    <2>5. QED
      BY <2>3, <2>4
  <1>12. ErrorsOK'
    BY <1>1, <1>5, <1>6 DEF AInv, ErrorsOK
  <1>13. QuietOK'
    <2>1. op = "FLUSH" => api = "flush"
      BY <1>1, <1>5 DEF AInv, StageOK, AnswerOK, WriterOp
    <2>2. streamState' = "FLUSH_REQUESTED" =>
             streamState = "FLUSH_REQUESTED" \/ op = "FLUSH"
      BY <1>2 DEF StepEffect
    <2>3. QED
      BY <1>1, <1>3, <1>5, <2>1, <2>2 DEF AInv, QuietOK
  <1>14. QED
    BY <1>2, <1>3, <1>8, <1>9, <1>10, <1>11, <1>12, <1>13 DEF AInv
-----------------------------------------------------------------------------
\* The invariant

LEMMA InitAdapterInv == InitAll => EncoderInv /\ AInv
  <1> SUFFICES ASSUME InitAll PROVE EncoderInv /\ AInv
    OBVIOUS
  <1>1. PICK k \in {"writer", "reader", "copy"} : InitAdapter(k)
    BY DEF InitAll
  <1>2. /\ Init /\ kind = k /\ bufLen \in BufLens /\ api = "none"
        /\ stage = "idle" /\ ret = TRUE /\ pending = 0 /\ made = 0
        /\ readRoom = 0 /\ inOff = 0 /\ inLen = 0 /\ eof = FALSE
        /\ tokens = {"zero", "invalid"} /\ untold = 0 /\ errors = 0
        /\ told = FALSE
    BY <1>1 DEF InitAdapter
  <1>3. EncoderInv
    BY <1>2, InitIInv, InitKInv DEF EncoderInv
  <1>4. /\ pc = "idle" /\ op = "none" /\ streamState = "PROCESSING"
        /\ remainingMeta = NoMeta /\ nextOut = Null /\ availIn = 0
        /\ clean = TRUE
    BY <1>2 DEF Init
  <1>5. bufLen \in Nat \ {0}
    BY <1>2, AdapterAssumption
  <1>6. UseOK
    BY <1>4 DEF UseOK, Null
  <1>7. StageOK /\ AnswerOK
    BY <1>2, <1>4, <1>5 DEF StageOK, AnswerOK
  <1>8. MadeOK
    BY <1>2, <1>5 DEF MadeOK
  <1>9. InputOK
    <2>1. 0 <= 0 /\ 0 <= bufLen /\ 0 < bufLen /\ 0 = 0 - 0
      BY <1>5
    <2>2. QED
      BY <1>2, <1>4, <2>1 DEF InputOK
  <1>10. ErrorsOK /\ QuietOK
    <2>1. 0 \in 0..2 /\ 0 \in Nat
      OBVIOUS
    <2>2. QED
      BY <1>2, <1>4, <2>1 DEF ErrorsOK, QuietOK
  <1>11. QED
    BY <1>3, <1>6, <1>7, <1>8, <1>9, <1>10 DEF AInv

LEMMA WriterKeeps ==
    ASSUME EncoderInv, AInv, WriterCall \/ WriterWork
    PROVE  EncoderInv' /\ AInv'
  <1>1. ASSUME NEW n \in Chunks \ {0}, Write(n) PROVE EncoderInv' /\ AInv'
    BY <1>1, WriteKeeps, SizesAssumption
  <1>2. QED
    BY <1>1, FlushOrCloseKeeps, WriterEncodesKeeps, InnerFailsKeeps,
       InnerTakesNothingKeeps, InnerAcceptsKeeps, WriterIsRefusedKeeps,
       WriterGoesOnKeeps, WriterReturnsKeeps
    DEF WriterCall, WriterWork

LEMMA ReaderKeeps ==
    ASSUME EncoderInv, AInv, ReaderCall \/ ReaderWork
    PROVE  EncoderInv' /\ AInv'
  <1>1. ASSUME NEW m \in Rooms, Read(m) PROVE EncoderInv' /\ AInv'
    BY <1>1, ReadKeeps, SizesAssumption
  <1>2. QED
    BY <1>1, ReaderFetchesKeeps, InnerReadFailsKeeps, FetchesNothingKeeps,
       ReaderEncodesKeeps, ReaderReturnedKeeps
    DEF ReaderCall, ReaderWork

LEMMA CopyKeeps ==
    ASSUME EncoderInv, AInv, StartCopy \/ CopyWork
    PROVE  EncoderInv' /\ AInv'
  BY StartCopyKeeps, CopyFetchesKeeps, CopyEncodesKeeps, CopyWritesKeeps,
     CopyWriteFailsKeeps, CopyRoundEndsKeeps
  DEF CopyWork

LEMMA NextAdapterInv ==
    EncoderInv /\ AInv /\ [NextAll]_allVars => EncoderInv' /\ AInv'
  <1> SUFFICES ASSUME EncoderInv, AInv, [NextAll]_allVars
               PROVE  EncoderInv' /\ AInv'
    OBVIOUS
  <1>1. CASE UNCHANGED allVars
    <2>1. UNCHANGED vars /\ UNCHANGED adapter
      BY <1>1 DEF allVars
    <2>2. EncoderInv' /\ UseOK' /\ IsFinished' = IsFinished
          /\ UNCHANGED <<pc, op, availIn, room, streamState,
                         availableOut>>
      BY <2>1, EncoderRests DEF AInv
    <2>3. WriterOp' = WriterOp
      BY <2>1 DEF WriterOp, adapter
    <2>4. StageOK' /\ AnswerOK'
      BY <2>1, <2>2, <2>3 DEF AInv, StageOK, AnswerOK, adapter
    <2>5. MadeOK' /\ InputOK'
      BY <2>1, <2>2 DEF AInv, MadeOK, InputOK, adapter
    <2>6. ErrorsOK' /\ QuietOK'
      BY <2>1, <2>2 DEF AInv, ErrorsOK, QuietOK, adapter
    <2>7. QED
      BY <2>2, <2>4, <2>5, <2>6 DEF AInv
  <1>2. CASE NextAll
    BY <1>2, WriterKeeps, ReaderKeeps, CopyKeeps, EncoderRunsKeeps
    DEF NextAll, Calls, Work
  <1>3. QED
    BY <1>1, <1>2

\* The invariants hold in every reachable state of every adapter.
LEMMA AdapterInvariance == AdapterSpec => [](EncoderInv /\ AInv)
  BY InitAdapterInv, NextAdapterInv, PTL DEF AdapterSpec

\* write_all, flush, close and the copy loop: output that an inner writer did
\* not take is dropped without an error for it only by a close, or by a writer
\* whose two prepared errors are used up and told, for any buffers, rooms and
\* failures.
THEOREM LossTold == AdapterSpec => []LossIsTold
  <1>1. AInv => LossIsTold
    BY DEF AInv, StageOK, ErrorsOK, LossIsTold
  <1>2. QED
    BY <1>1, AdapterInvariance, PTL

\* The reader and the copy loop ask for the end of the stream only when the
\* inner reader is at its end and the encoder has everything.
THEOREM FinishesAtEnd == AdapterSpec => []FinishOnlyAtEnd
  <1>1. AInv => FinishOnlyAtEnd
    BY DEF AInv, InputOK, UseOK, FinishOnlyAtEnd
  <1>2. QED
    BY <1>1, AdapterInvariance, PTL

\* compress_stream refuses no call of the reader and of the copy loop, and of
\* a writer's none but a write after a flush that failed and left output; that
\* write panics when the error for it has been told before.
THEOREM EncoderIsAccepting == AdapterSpec => []EncoderAccepts
  <1>1. AInv => EncoderAccepts
    BY DEF AInv, UseOK, StageOK, AnswerOK, ErrorsOK, EncoderAccepts
  <1>2. QED
    BY <1>1, AdapterInvariance, PTL

\* Whatever errors were told and bytes were dropped before: a flush that
\* returns no error has everything delivered, and so has a reader at its end,
\* a copy without an error and a close that dropped nothing, with the whole
\* stream.
THEOREM Success == AdapterSpec => []SuccessMeansAll
  <1>1. EncoderInv /\ AInv => SuccessMeansAll
    <2> SUFFICES ASSUME EncoderInv, AInv PROVE SuccessMeansAll
      OBVIOUS
    <2>1. result = "ok" /\ BitsAddUp
      BY DEF EncoderInv, IInv, CallOK, OutputOK
    <2>2. ASSUME pc = "idle", clean, op \in {"FLUSH", "FINISH"},
                 availableOut = 0
          PROVE  backlog = 0 /\ owed = 0
      <3>1. backlog = 0 /\ lastBits = 0
        BY <2>1, <2>2 DEF AInv, UseOK, EncoderInv, KInv, OperationsComplete
      <3>2. QED
        BY <2>1, <2>2, <3>1 DEF BitsAddUp
    <2>3. ASSUME kind = "writer", api = "none", op = "FLUSH", ~told
          PROVE  backlog = 0 /\ owed = 0 /\ made = 0
      <3>1. pc = "idle" /\ made = 0
        BY <2>3 DEF AInv, StageOK, MadeOK
      <3>2. clean /\ availableOut = 0
        BY <2>3 DEF AInv, UseOK, QuietOK
      <3>3. QED
        BY <2>2, <2>3, <3>1, <3>2
    <2>4. ASSUME \/ kind = "reader" /\ api = "none" /\ IsFinished
                 \/ api = "closed" /\ ~told /\ untold = 0
          PROVE  /\ IsFinished
                 /\ backlog = 0 /\ owed = 0 /\ made = 0 /\ pending = 0
                 /\ kind # "writer" => eof
      <3>1. IsFinished
        BY <2>4 DEF AInv, QuietOK
      <3>2. pc = "idle" /\ made = 0
        BY <2>4 DEF AInv, StageOK, MadeOK
      <3>3. op = "FINISH" /\ clean /\ availableOut = 0
        BY <3>1 DEF AInv, UseOK, IsFinished, HasMoreOutput
      <3>4. pending = 0 /\ (kind # "writer" => eof)
        BY <3>3 DEF AInv, InputOK
      <3>5. QED
        BY <2>2, <3>1, <3>2, <3>3, <3>4
    <2>5. QED
      BY <2>3, <2>4 DEF SuccessMeansAll
  <1>2. QED
    BY <1>1, AdapterInvariance, PTL
=============================================================================
