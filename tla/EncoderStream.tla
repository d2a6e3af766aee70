--------------------------- MODULE EncoderStream ----------------------------
(***************************************************************************)
(* The stream machine of BrotliEncoderStateStruct (enc/encode.rs): what    *)
(* compress_stream, process_metadata, encode_data and take_output do to    *)
(* the positions in the input, to the bits not yet written out and to the  *)
(* stream state, for every call a client can make.                         *)
(*                                                                         *)
(* One action is one iteration of the loop a call is in: pc says which.    *)
(* Input and output are lengths.  What a metablock compresses to is one of *)
(* CompressedBits bits, or it is stored uncompressed; whether the encoder  *)
(* puts a metablock off is free where the code decides by the number of    *)
(* literals and commands found.  The storage buffer is always big enough   *)
(* (get_brotli_storage), the 16-byte tiny_buf_ is modelled.                *)
(***************************************************************************)
EXTENDS Integers, StreamBits

CONSTANTS
    Flags,          \* the parameter records a client asks for
    HeaderBits,     \* lengths of the window header: 1, 4, 7 or 14 bits
    Dicts,          \* sizes given to set_custom_dictionary, 0 for no call
    BlockSize,      \* input_block_size() = 1 << lgblock
    MaxMetablock,   \* MaxMetablockSize(params)
    CompressedBits, \* lengths of a compressed metablock
    MaxMetadata,    \* the longest metadata block, 2^24 in the code
    Chunks,         \* input lengths a client passes
    Metadata,       \* metadata lengths a client passes
    Rooms,          \* output room a client passes
    Takes,          \* sizes passed to take_output
    MaxInput        \* bound on input_pos_

\* The booleans of BrotliEncoderParams the stream machine looks at; fragment
\* stands for the qualities 0 and 1.
ASSUME FlagsAssumption ==
    Flags \subseteq [fragment : BOOLEAN, catable : BOOLEAN,
                     appendable : BOOLEAN, byteAlign : BOOLEAN,
                     bare : BOOLEAN, magic : BOOLEAN]

ASSUME BlockAssumption ==
    /\ BlockSize \in Nat \ {0}
    /\ MaxMetablock \in Nat
    /\ BlockSize <= MaxMetablock

ASSUME SizesAssumption ==
    /\ HeaderBits \subseteq 1..14
    /\ Dicts \subseteq Nat /\ Chunks \subseteq Nat /\ Metadata \subseteq Nat
    /\ Rooms \subseteq Nat /\ Takes \subseteq Nat
    /\ CompressedBits \subseteq Nat
    /\ MaxMetadata \in Nat /\ MaxInput \in Nat

VARIABLES
    params,             \* the sanitized flags
    inputPos,           \* input_pos_
    lastProcessedPos,   \* last_processed_pos_
    lastFlushPos,       \* last_flush_pos_
    lastBits,           \* last_bytes_bits_
    availableOut,       \* available_out_
    nextOut,            \* next_out_: which buffer, and the offset in tiny_buf_
    streamState,        \* stream_state_
    remainingMeta,      \* remaining_metadata_bytes_, -1 for u32::MAX
    lastBlockEmitted,   \* is_last_block_emitted_
    isFirst,            \* is_first_mb
    customDict,         \* custom_dictionary
    pc,                 \* the loop the call is in
    op,                 \* the operation of the call, or of the last one
    availIn,            \* available_in of the call
    room,               \* available_out of the call
    result,             \* what the last call returned
    owed,       \* ghost: bits written by the block writers, not yet delivered
    backlog,    \* ghost: input bytes accepted that no metablock covers
    inOrder,    \* ghost: every metablock began where the last one ended
    announced,  \* ghost: metadata bytes the header promised, less those sent
    ending,     \* ghost: how the stream was ended
    clean       \* ghost: no flush of an earlier call was left to complete

encoder == <<params, inputPos, lastProcessedPos, lastFlushPos, lastBits,
             availableOut, nextOut, streamState, remainingMeta,
             lastBlockEmitted, isFirst, customDict>>
call == <<pc, op, availIn, room, result>>
ghosts == <<owed, backlog, inOrder, announced, ending, clean>>
vars == <<encoder, call, ghosts>>

positions == <<inputPos, lastProcessedPos, lastFlushPos, backlog, inOrder>>
output == <<lastBits, availableOut, nextOut, owed>>
metadata == <<remainingMeta, announced>>
block == <<lastBlockEmitted, isFirst, ending>>
fixed == <<params, customDict, clean>>

Least(a, b) == IF a <= b THEN a ELSE b

Null == [kind |-> "none", off |-> 0]
Storage == [kind |-> "storage", off |-> 0]
Tiny(off) == [kind |-> "tiny", off |-> off]
TinyBuf == 16
NoMeta == -1
-----------------------------------------------------------------------------
\* Initialisation

SanitizeParams(p) ==
    LET appendable == p.appendable \/ p.catable
    IN  [p EXCEPT !.appendable = appendable,
                  !.byteAlign = p.bare \/ (appendable /\ p.byteAlign)]

\* set_custom_dictionary with d bytes, after ensure_initialized: a
\* dictionary too short, or one the fragment coders ignore, makes the stream
\* catable instead.
Catable(p, d) ==
    IF d # 0 /\ (p.fragment \/ d = 1)
    THEN [p EXCEPT !.catable = TRUE, !.appendable = TRUE]
    ELSE p

UsesDict(p, d) == d > 1 /\ ~p.fragment

\* The state ensure_initialized leaves, before the first call.
Init ==
    /\ \E p \in {SanitizeParams(f) : f \in Flags}, d \in Dicts :
          /\ params = Catable(p, d)
          /\ customDict = UsesDict(p, d)
          /\ inputPos = IF UsesDict(p, d) THEN d ELSE 0
          /\ lastBits \in IF p.catable /\ p.bare THEN {0}
                          ELSE IF p.fragment THEN HeaderBits \cap {4, 14}
                          ELSE HeaderBits
    /\ lastProcessedPos = inputPos
    /\ lastFlushPos = inputPos
    /\ availableOut = 0
    /\ nextOut = Null
    /\ streamState = "PROCESSING"
    /\ remainingMeta = NoMeta
    /\ lastBlockEmitted = FALSE
    /\ isFirst = "NothingWritten"
    /\ pc = "idle"
    /\ op = "none"
    /\ availIn = 0
    /\ room = 0
    /\ result = "ok"
    /\ owed = lastBits
    /\ backlog = 0
    /\ inOrder = TRUE
    /\ announced = 0
    /\ ending = "open"
    /\ clean = TRUE
-----------------------------------------------------------------------------
\* Parts of a call

Unprocessed == inputPos - lastProcessedPos

\* Mutant: a flush that is complete stays requested.
CheckFlushComplete_Never(left) == UNCHANGED <<streamState, nextOut>>

\* CheckFlushCompleteInner, with the output left after the step.
CheckFlushComplete(left) ==
    LET complete == streamState = "FLUSH_REQUESTED" /\ left = 0
    IN  /\ streamState' = IF complete THEN "PROCESSING" ELSE streamState
        /\ nextOut' = IF complete THEN Null ELSE nextOut

Leave(r) ==
    /\ pc' = "idle"
    /\ result' = r
    /\ room' = 0
    /\ UNCHANGED <<op, availIn>>

\* A failed assertion or an index out of bounds.
Panic ==
    /\ pc' = "panic"
    /\ UNCHANGED <<op, availIn, room, result, encoder, ghosts>>

\* Mutant: a flush is not sealed.
MustPad_Never == FALSE

\* A requested flush ends with a seal when a byte is started.
MustPad == streamState = "FLUSH_REQUESTED" /\ lastBits # 0

\* Mutant: the bits that fill up the last byte are forgotten.
SealBytes_Down == (lastBits + 6) \div 8

\* inject_byte_padding_block appends the seal to the pending output, or to
\* tiny_buf_ where next_out_ has stayed.
SealBytes == (lastBits + 13) \div 8
SealAt == IF nextOut = Null THEN 0 ELSE nextOut.off + availableOut

InjectBytePadding ==
    /\ MustPad
    /\ IF nextOut.kind # "storage" /\ SealAt + SealBytes > TinyBuf
       THEN Panic
       ELSE /\ nextOut' = IF nextOut = Null THEN Tiny(0) ELSE nextOut
            /\ availableOut' = availableOut + SealBytes
            /\ lastBits' = 0
            /\ owed' = owed + (Align(lastBits + 6) - lastBits)
            /\ UNCHANGED <<positions, metadata, block, fixed, streamState,
                           call>>

NextOutIncrement(n) ==
    IF nextOut.kind = "tiny" THEN Tiny(nextOut.off + n) ELSE nextOut

PushOutput ==
    LET n == Least(availableOut, room)
    IN  /\ ~MustPad
        /\ n # 0
        /\ room' = room - n
        /\ nextOut' = NextOutIncrement(n)
        /\ availableOut' = availableOut - n
        /\ owed' = owed - 8 * n
        /\ UNCHANGED <<lastBits, positions, metadata, block, fixed,
                       streamState, pc, op, availIn, result>>

\* inject_flush_or_push_output, and the case in which it returns false.
InjectFlushOrPush == InjectBytePadding \/ PushOutput
NothingToPush == ~MustPad /\ Least(availableOut, room) = 0
-----------------------------------------------------------------------------
\* encode_data

\* The blocks that open a stream: the magic number, then up to two
\* uncompressed bytes of a catable stream, or the padding of an empty one.
WritesMagic == isFirst = "NothingWritten" /\ params.magic
FirstBytes ==
    IF params.catable /\ isFirst # "BothCatableBytesWritten"
    THEN Least(2, Unprocessed) ELSE 0
AfterMagic == IF WritesMagic THEN Magic(lastBits, 1) ELSE lastBits
HeaderEnd ==
    IF FirstBytes = 0 THEN AfterMagic ELSE Uncompressed(AfterMagic, FirstBytes)
HasHeader == WritesMagic \/ FirstBytes # 0
PadsEmptyStream ==
    /\ isFirst = "NothingWritten"
    /\ Unprocessed = 0
    /\ params.byteAlign /\ params.appendable /\ ~params.catable

NextIsFirst ==
    IF ~params.catable \/ FirstBytes = 2 THEN "BothCatableBytesWritten"
    ELSE IF FirstBytes = 1 /\ isFirst = "FirstCatableByteWritten"
    THEN "BothCatableBytesWritten"
    ELSE IF FirstBytes = 1 THEN "FirstCatableByteWritten"
    ELSE IF WritesMagic THEN "HeaderWritten"
    ELSE isFirst

\* assert!(self.last_processed_pos_ < 2 || self.custom_dictionary)
FirstBytesAssertion ==
    FirstBytes = 0 \/ lastProcessedPos < 2 \/ customDict

\* Mutant: the bytes of the header stay unflushed.
FlushPos_Unmoved == lastFlushPos

\* The part of the input that is left for a fragment or a metablock.
FlushPos == lastFlushPos + FirstBytes
ProcessedPos == lastProcessedPos + FirstBytes
Covered == inputPos - backlog

\* The header is all that is written.  A padding block of an empty stream is
\* written to storage but not kept.
KeepHeader(processed) ==
    /\ availableOut' = IF HasHeader THEN HeaderEnd \div 8 ELSE 0
    /\ lastBits' = IF HasHeader THEN HeaderEnd % 8 ELSE lastBits
    /\ nextOut' = IF HasHeader THEN Storage ELSE nextOut
    /\ owed' = owed + (HeaderEnd - lastBits)
    /\ backlog' = backlog - FirstBytes
    /\ inOrder' = (inOrder /\ (FirstBytes = 0 \/ lastFlushPos = Covered))
    /\ lastFlushPos' = FlushPos
    /\ lastProcessedPos' = processed
    /\ UNCHANGED ending

\* Everything up to inputPos is written, the rest from `start` on in blocks
\* that end at bit ix.
WriteUpTo(start, flushed, ix, last) ==
    /\ availableOut' = ix \div 8
    /\ lastBits' = ix % 8
    /\ nextOut' = Storage
    /\ owed' = owed + (ix - lastBits)
    /\ backlog' = backlog - (inputPos - start) - FirstBytes
    /\ inOrder' = /\ inOrder
                  /\ FirstBytes = 0 \/ lastFlushPos = Covered
                  /\ start = inputPos \/ start = Covered + FirstBytes
    /\ lastFlushPos' = flushed
    /\ lastProcessedPos' = inputPos
    /\ ending' = last

\* Where n bytes from bit ix on end: compressed, unless that is too long, or
\* stored.  A last metablock that holds the data is rounded up to a byte.
FragmentEnds(ix, n) ==
    IF n = 0 THEN {ix}
    ELSE {ix + c : c \in {d \in CompressedBits : d <= 31 + 8 * n}}
         \cup {Uncompressed(ix, n)}

CompressedEnds(ix, n, last) ==
    {end \in {IF last THEN Align(ix + c) ELSE ix + c : c \in CompressedBits} :
        end \div 8 <= n + 4 + (ix \div 8)}
MetablockEnds(ix, n) ==
    IF n = 0 THEN {ix}
    ELSE CompressedEnds(ix, n, FALSE) \cup {Uncompressed(ix, n)}

\* compress_fragment_fast and compress_fragment_two_pass: n bytes, then the
\* last block.  EmptyAt is how a stream ends whose last block, an empty one,
\* begins at bit ix.
EmptyAt(ix) == IF ix % 8 = 0 THEN "aligned" ELSE "empty"

FragmentBlock(isLast) ==
    \E ix \in FragmentEnds(HeaderEnd, inputPos - ProcessedPos) :
        IF isLast
        THEN WriteUpTo(ProcessedPos, FlushPos, EmptyLast(ix), EmptyAt(ix))
        ELSE WriteUpTo(ProcessedPos, FlushPos, ix, ending)

\* Mutant: the last block begins in the middle of a byte.
LastBlockStart_Anywhere(ix) == ix

\* WriteEmptyLastBlocksInternal, from bit ix
LastBlockStart(ix) == IF params.byteAlign THEN Padding(ix) ELSE ix
LastBlockEnd(ix) == IF params.bare THEN ix ELSE EmptyLast(ix)
EndOf(ix) == IF params.bare THEN "bare" ELSE EmptyAt(ix)

\* WriteMetaBlockInternal.  A metablock that holds data is marked as the last
\* one only if nothing may follow it; one stored uncompressed never is.
LastHoldsData(n) == n # 0 /\ ~params.appendable /\ ~params.byteAlign

Metablock(isLast) ==
    LET n    == inputPos - FlushPos
        from == IF PadsEmptyStream THEN Padding(HeaderEnd) ELSE HeaderEnd
    IN  IF isLast /\ LastHoldsData(n)
        THEN \/ \E ix \in CompressedEnds(from, n, TRUE) :
                    WriteUpTo(FlushPos, inputPos, ix, "data")
             \/ WriteUpTo(FlushPos, inputPos,
                          EmptyLast(Uncompressed(from, n)), "aligned")
        ELSE \E ix \in MetablockEnds(from, n) :
                LET last == LastBlockStart(ix)
                IN  IF isLast
                    THEN WriteUpTo(FlushPos, inputPos, LastBlockEnd(last),
                                   EndOf(last))
                    ELSE WriteUpTo(FlushPos, inputPos, ix, ending)

\* Mutant: one more block is not reckoned with.
MayPostpone_Longer(isLast, force) ==
    ~isLast /\ ~force /\ inputPos - FlushPos <= MaxMetablock

MayPostpone(isLast, force) ==
    /\ ~isLast /\ ~force
    /\ inputPos - FlushPos + BlockSize <= MaxMetablock

EncodeFails(isLast) ==
    /\ lastBlockEmitted' = (lastBlockEmitted \/ isLast)
    /\ Leave("failed")
    /\ UNCHANGED <<positions, output, metadata, fixed, isFirst, ending,
                   streamState>>

EncodeBlock(isLast, force) ==
    \/ params.fragment /\ inputPos = ProcessedPos /\ ~isLast
       /\ KeepHeader(ProcessedPos)
    \/ params.fragment /\ (inputPos # ProcessedPos \/ isLast)
       /\ FragmentBlock(isLast)
    \/ ~params.fragment /\ MayPostpone(isLast, force)
       /\ KeepHeader(inputPos)
    \/ ~params.fragment /\ ~isLast /\ inputPos = FlushPos
       /\ KeepHeader(ProcessedPos)
    \/ ~params.fragment /\ (isLast \/ inputPos # FlushPos)
       /\ Metablock(isLast)

\* encode_data(isLast, force); the caller goes on in state s.
Encode(isLast, force, s) ==
    IF lastBlockEmitted \/ Unprocessed > BlockSize THEN EncodeFails(isLast)
    ELSE IF ~FirstBytesAssertion THEN Panic
    ELSE /\ lastBlockEmitted' = isLast
         /\ isFirst' = NextIsFirst
         /\ streamState' = s
         /\ EncodeBlock(isLast, force)
         /\ UNCHANGED <<inputPos, metadata, fixed, call>>
-----------------------------------------------------------------------------
\* compress_stream, qualities 2 and up and catable streams

\* Mutant: room for one byte more than a block.
RemainingBlockSize_OneMore == BlockSize + 1 - Least(Unprocessed, BlockSize)

RemainingBlockSize ==
    IF Unprocessed >= BlockSize THEN 0 ELSE BlockSize - Unprocessed
MayCopy == Least(RemainingBlockSize, availIn) # 0

CopyInput ==
    LET n == Least(RemainingBlockSize, availIn)
    IN  /\ pc = "slow"
        /\ MayCopy
        /\ inputPos' = inputPos + n
        /\ availIn' = availIn - n
        /\ backlog' = backlog + n
        /\ UNCHANGED <<lastProcessedPos, lastFlushPos, inOrder, output,
                       metadata, block, fixed, streamState, pc, op, room,
                       result>>

SlowInjectOrPush ==
    /\ pc = "slow"
    /\ ~MayCopy
    /\ InjectFlushOrPush

IsLast == availIn = 0 /\ op = "FINISH"
ForceFlush == availIn = 0 /\ op = "FLUSH"

\* Mutant: a flush that is asked for already is asked for again.
MustEncode_Again ==
    availableOut = 0 /\ (RemainingBlockSize = 0 \/ op # "PROCESS")

MustEncode ==
    /\ availableOut = 0
    /\ streamState = "PROCESSING"
    /\ RemainingBlockSize = 0 \/ op # "PROCESS"
NextState(isLast, force) ==
    IF isLast THEN "FINISHED"
    ELSE IF force THEN "FLUSH_REQUESTED" ELSE streamState

SlowEncode ==
    /\ pc = "slow"
    /\ ~MayCopy
    /\ NothingToPush
    /\ MustEncode
    /\ Encode(IsLast, ForceFlush, NextState(IsLast, ForceFlush))

SlowReturn ==
    /\ pc = "slow"
    /\ ~MayCopy
    /\ NothingToPush
    /\ ~MustEncode
    /\ Leave("ok")
    /\ CheckFlushComplete(availableOut)
    /\ UNCHANGED <<positions, lastBits, availableOut, owed, metadata, block,
                   fixed>>
-----------------------------------------------------------------------------
\* compress_stream_fast: qualities 0 and 1, straight from the client's input

FastInjectOrPush ==
    /\ pc = "fast"
    /\ InjectFlushOrPush

FastBlock == Least(BlockSize, availIn)
FastIsLast == availIn = FastBlock /\ op = "FINISH"
FastForceFlush == availIn = FastBlock /\ op = "FLUSH"

MustCompress ==
    /\ availableOut = 0
    /\ streamState = "PROCESSING"
    /\ availIn # 0 \/ op # "PROCESS"

FastFlushNothing ==
    /\ pc = "fast"
    /\ NothingToPush
    /\ MustCompress
    /\ FastForceFlush /\ FastBlock = 0
    /\ streamState' = "FLUSH_REQUESTED"
    /\ UNCHANGED <<positions, output, metadata, block, fixed, call>>

\* The block goes to the client's buffer if its largest size fits there.
FitsInPlace == 2 * FastBlock + 503 <= room

FastCompress ==
    /\ pc = "fast"
    /\ NothingToPush
    /\ MustCompress
    /\ ~(FastForceFlush /\ FastBlock = 0)
    /\ \E ix \in FragmentEnds(lastBits, FastBlock) :
          LET end == IF FastIsLast THEN EmptyLast(ix) ELSE ix
          IN  /\ lastBits' = end % 8
              /\ ending' = IF FastIsLast THEN EmptyAt(ix) ELSE ending
              /\ IF FitsInPlace
                 THEN /\ room' = room - (end \div 8)
                      /\ owed' = owed + (end - lastBits) - 8 * (end \div 8)
                      /\ UNCHANGED <<availableOut, nextOut>>
                 ELSE /\ availableOut' = end \div 8
                      /\ nextOut' = Storage
                      /\ owed' = owed + (end - lastBits)
                      /\ UNCHANGED room
    /\ availIn' = availIn - FastBlock
    /\ streamState' = NextState(FastIsLast, FastForceFlush)
    /\ UNCHANGED <<positions, metadata, fixed, lastBlockEmitted, isFirst,
                   pc, op, result>>

FastReturn ==
    /\ pc = "fast"
    /\ NothingToPush
    /\ ~MustCompress
    /\ Leave("ok")
    /\ CheckFlushComplete(availableOut)
    /\ UNCHANGED <<positions, lastBits, availableOut, owed, metadata, block,
                   fixed>>
-----------------------------------------------------------------------------
\* process_metadata

InMetadata == streamState \in {"METADATA_HEAD", "METADATA_BODY"}

MetadataInjectOrPush ==
    /\ pc = "metadata"
    /\ InjectFlushOrPush

MetadataOutputIsFull ==
    /\ pc = "metadata"
    /\ NothingToPush
    /\ availableOut # 0
    /\ Leave("ok")
    /\ UNCHANGED <<encoder, ghosts>>

MetadataFlush ==
    /\ pc = "metadata"
    /\ NothingToPush
    /\ availableOut = 0
    /\ inputPos # lastFlushPos
    /\ Encode(FALSE, TRUE, streamState)

MetadataMovesOn ==
    /\ pc = "metadata"
    /\ NothingToPush
    /\ availableOut = 0
    /\ inputPos = lastFlushPos

WriteMetadataHeader ==
    /\ MetadataMovesOn
    /\ streamState = "METADATA_HEAD"
    /\ LET end == MetadataHeader(lastBits, remainingMeta)
       IN  /\ availableOut' = (end + 7) \div 8
           /\ owed' = owed + (Align(end) - lastBits)
    /\ lastBits' = 0
    /\ nextOut' = Tiny(0)
    /\ announced' = Announced(remainingMeta)
    /\ streamState' = "METADATA_BODY"
    /\ UNCHANGED <<positions, remainingMeta, block, fixed, call>>

MetadataDone ==
    /\ MetadataMovesOn
    /\ streamState = "METADATA_BODY"
    /\ remainingMeta = 0
    /\ remainingMeta' = NoMeta
    /\ streamState' = "PROCESSING"
    /\ Leave("ok")
    /\ UNCHANGED <<positions, output, announced, block, fixed>>

\* Metadata goes to the client's buffer, or 16 bytes of it to tiny_buf_.
CopyMetadata ==
    LET n == Least(remainingMeta, IF room # 0 THEN room ELSE TinyBuf)
    IN  /\ MetadataMovesOn
        /\ streamState = "METADATA_BODY"
        /\ remainingMeta # 0
        /\ availIn' = availIn - n
        /\ remainingMeta' = remainingMeta - n
        /\ announced' = announced - n
        /\ IF room # 0
           THEN /\ room' = room - n
                /\ UNCHANGED <<output>>
           ELSE /\ nextOut' = Tiny(0)
                /\ availableOut' = n
                /\ owed' = owed + 8 * n
                /\ UNCHANGED <<lastBits, room>>
        /\ UNCHANGED <<positions, block, fixed, streamState, pc, op, result>>
-----------------------------------------------------------------------------
\* The calls of a client

\* What compress_stream and process_metadata refuse at once, changing nothing:
\* a refused call is a stuttering step.
Refuses(o, n) ==
    \/ remainingMeta # NoMeta /\ (n # remainingMeta \/ o # "METADATA")
    \/ /\ o = "METADATA"
       /\ \/ n > MaxMetadata
          \/ streamState \in {"FLUSH_REQUESTED", "FINISHED"}
    \/ /\ o # "METADATA"
       /\ InMetadata \/ (streamState # "PROCESSING" /\ n # 0)

Loop(o) ==
    IF o = "METADATA" THEN "metadata"
    ELSE IF params.fragment /\ ~params.catable THEN "fast" ELSE "slow"

CompressStream(o, n, m) ==
    /\ pc = "idle"
    /\ ~Refuses(o, n)
    /\ pc' = Loop(o)
    /\ op' = o
    /\ availIn' = n
    /\ room' = m
    /\ clean' = (streamState # "FLUSH_REQUESTED" \/ o = "FLUSH")
    /\ IF o = "METADATA" /\ streamState = "PROCESSING"
       THEN remainingMeta' = n /\ streamState' = "METADATA_HEAD"
       ELSE UNCHANGED <<remainingMeta, streamState>>
    /\ UNCHANGED <<params, customDict, result, positions, output, announced,
                   block>>

\* take_output: size 0 takes all there is.
TakeOutput(size) ==
    LET n    == IF size = 0 THEN availableOut ELSE Least(size, availableOut)
        left == availableOut - n
    IN  /\ pc = "idle"
        /\ n # 0
        /\ op' = "take"
        /\ availableOut' = left
        /\ owed' = owed - 8 * n
        /\ LET complete == streamState = "FLUSH_REQUESTED" /\ left = 0
           IN  /\ nextOut' = IF complete THEN Null ELSE NextOutIncrement(n)
               /\ streamState' = IF complete THEN "PROCESSING"
                                 ELSE streamState
        /\ UNCHANGED <<lastBits, positions, metadata, block, fixed, pc,
                       availIn, room, result>>

Client ==
    \/ \E o \in {"PROCESS", "FLUSH", "FINISH"}, n \in Chunks, m \in Rooms :
          /\ inputPos + n <= MaxInput
          /\ CompressStream(o, n, m)
    \/ \E n \in Metadata \cup {remainingMeta}, m \in Rooms :
          /\ n >= 0
          /\ CompressStream("METADATA", n, m)
    \/ \E size \in Takes : TakeOutput(size)

Step ==
    \/ CopyInput \/ SlowInjectOrPush \/ SlowEncode \/ SlowReturn
    \/ FastInjectOrPush \/ FastFlushNothing \/ FastCompress \/ FastReturn
    \/ MetadataInjectOrPush \/ MetadataOutputIsFull \/ MetadataFlush
    \/ WriteMetadataHeader \/ MetadataDone \/ CopyMetadata

Next == Client \/ Step

Spec == Init /\ [][Next]_vars

\* A call runs on; the client asks again and again for the end of the stream,
\* with room for output.
FinishAgain == \E m \in Rooms \ {0} : CompressStream("FINISH", 0, m)
FairSpec == Spec /\ WF_vars(Step) /\ SF_vars(FinishAgain)
-----------------------------------------------------------------------------
\* Properties

\* The types, and that a stream is in a metadata block exactly while bytes of
\* it are awaited, and that pending output has a buffer.
TypeOK ==
    /\ inputPos \in Nat /\ lastProcessedPos \in Nat /\ lastFlushPos \in Nat
    /\ lastFlushPos <= lastProcessedPos /\ lastProcessedPos <= inputPos
    /\ lastBits \in 0..14
    /\ availableOut \in Nat
    /\ nextOut \in {Null, Storage} \cup {Tiny(i) : i \in 0..TinyBuf}
    /\ nextOut = Null => availableOut = 0
    /\ streamState \in {"PROCESSING", "FLUSH_REQUESTED", "FINISHED",
                        "METADATA_HEAD", "METADATA_BODY"}
    /\ remainingMeta \in 0..MaxMetadata \cup {NoMeta}
    /\ InMetadata <=> remainingMeta # NoMeta
    /\ lastBlockEmitted \in BOOLEAN
    /\ isFirst \in {"NothingWritten", "HeaderWritten",
                    "FirstCatableByteWritten", "BothCatableBytesWritten"}
    /\ pc \in {"idle", "slow", "fast", "metadata", "panic"}
    /\ op \in {"none", "take", "PROCESS", "FLUSH", "FINISH", "METADATA"}
    /\ availIn \in Nat /\ room \in Nat
    /\ result \in {"ok", "failed"}

\* No bit is lost or counted twice between the block writers and the client:
\* what was written and not delivered is the pending output and the bits of
\* the started byte.
BitsAddUp == owed = 8 * availableOut + lastBits

\* Every metablock continues the input where the last one stopped, and what
\* no metablock covers yet is what the encoder believes it still holds.
InputInOrder ==
    /\ inOrder
    /\ backlog = inputPos -
           (IF params.fragment THEN lastProcessedPos ELSE lastFlushPos)

\* A metablock that is put off never outgrows the longest metablock.
UnflushedFits == params.fragment \/ inputPos - lastFlushPos <= MaxMetablock

\* c/brotli/encode.h: once a repeated flush, finish or metadata call leaves
\* no input and no output, it is complete: all input is covered and on a byte
\* boundary, and the stream is ended or the metadata sent.  A client that
\* switches from an incomplete flush to another operation is not promised it.
OperationsComplete ==
    /\ /\ pc = "idle" /\ result = "ok" /\ clean
       /\ availIn = 0 /\ availableOut = 0
       /\ op \in {"FLUSH", "FINISH", "METADATA"}
       => /\ backlog = 0 /\ lastBits = 0
          /\ op = "FINISH" => streamState = "FINISHED"
          /\ op = "METADATA" => streamState = "PROCESSING"
    /\ streamState = "METADATA_BODY" => backlog = 0

\* A call that compress_stream accepts never fails in encode_data, and trips
\* an assertion or runs off a buffer in one case only: the flush of a stream
\* of quality 0 or 1, with bits of a started byte, whose last output was the
\* fifteenth or sixteenth byte of a piece of metadata.  next_out_ is still
\* behind that piece in tiny_buf_, and the seal does not fit after it.
SealRunsOff ==
    /\ params.fragment /\ ~params.catable
    /\ op = "FLUSH" /\ MustPad
    /\ availableOut = 0 /\ nextOut \in {Tiny(15), Tiny(16)}

AcceptedCallsSucceed == result # "failed" /\ (pc = "panic" => SealRunsOff)

\* backward_references/mod.rs: what byte_align, bare_stream and appendable
\* promise about the end of a stream.
StreamEndsAsAsked ==
    streamState = "FINISHED" /\ ~params.fragment =>
        /\ params.bare <=> ending = "bare"
        /\ params.appendable => ending # "data"
        /\ params.byteAlign => ending \in {"bare", "aligned"} /\ lastBits = 0

\* A client that in the end only asks to finish gets the whole stream, however
\* small the room of each call and whatever was left undone before.
FinishGoesThrough ==
    <>[](op = "FINISH" /\ availIn = 0) =>
        <>(streamState = "FINISHED" /\ availableOut = 0)

\* c/brotli/encode.h: a call returns once nothing can move forward.
CallsReturn == (pc # "idle") ~> (pc = "idle")

\* The same for every stream but the catable ones of qualities 0 and 1, but
\* for the panic of SealRunsOff, after which the encoder is gone.
OtherCallsReturn ==
    (pc # "idle" /\ ~(params.fragment /\ params.catable))
        ~> (pc \in {"idle", "panic"})

\* Not so in the code, see the README, for metadata of 15 bytes: completing
\* a flush never indexes past the buffer the seal is appended to:
\* no call of the client panics.
NeverPanics == pc # "panic"

\* Nor this, for metadata of one byte.  c/brotli/encode.h: the whole input is
\* the content of the metadata block.
MetadataAsAnnounced ==
    streamState = "METADATA_BODY" => announced = remainingMeta
=============================================================================
