----------------------------- MODULE RingBuffer -----------------------------
(***************************************************************************)
(* The input ring buffer of the encoder (enc/encode.rs): a buffer that     *)
(* starts compact, is grown once, mirrors its first bytes behind its end,  *)
(* and whose 32-bit positions go round at WrapAt = 2^30, while encode_data *)
(* indexes it with WrapPosition of a 64-bit position and the hash tables   *)
(* remember such wrapped positions.                                        *)
(*                                                                         *)
(* A byte of the input is named by its position, so that reading the wrong *)
(* or a stale byte shows.  Index -2 of data is the code's data_mo[0].      *)
(***************************************************************************)
EXTENDS Integers, Sequences

CONSTANTS
    Size,           \* size_ = 1 << (1 + max(lgwin, lgblock))
    TailSize,       \* tail_size_ = 1 << lgblock, the input block size
    WrapAt,         \* 1 << 30
    Slack,          \* 7, the bytes a hash may read ahead
    Hints,          \* values of size_hint
    Dicts,          \* lengths of the custom dictionary, 0 for none
    MaxInput        \* bound on input_pos_

ASSUME SizesAssumption ==
    /\ TailSize \in Nat \ {0} /\ Size \in Nat /\ 2 * TailSize <= Size
    /\ WrapAt \in Nat /\ Slack \in Nat /\ MaxInput \in Nat
    /\ Hints \subseteq Nat /\ Dicts \subseteq 0..Size

VARIABLES
    compactSize,    \* compact_size_
    data,           \* data_mo, from buffer_index on
    curSize,        \* cur_size_
    ringPos,        \* pos_
    inputPos,       \* input_pos_
    lastProcessed,  \* last_processed_pos_
    hashed,         \* the wrapped positions in the hash tables, by the byte
                    \* they were stored for
    panicked        \* an index was out of bounds

buffer == <<data, curSize, ringPos, inputPos>>
vars == <<compactSize, buffer, lastProcessed, hashed, panicked>>

Least(a, b) == IF a <= b THEN a ELSE b
Greatest(a, b) == IF a >= b THEN a ELSE b

Zero == -1          \* the byte 0, where no input was written
TotalSize == Size + TailSize
-----------------------------------------------------------------------------
\* Positions

\* 32 bits, of which the two highest go 1, 2, 1, 2, ... once both were set.
WrapPosition(position) ==
    LET gb == position \div WrapAt
    IN  IF gb > 2
        THEN (position % WrapAt) + (((gb - 1) % 2) + 1) * WrapAt
        ELSE position

\* Mutant: the bit that says that the buffer has been filled is lost.
WrapRingPos_Restarts(pos) == IF pos > WrapAt THEN pos % WrapAt ELSE pos

WrapRingPos(pos) == IF pos > WrapAt THEN (pos % WrapAt) + WrapAt ELSE pos

\* pos_ & mask_, position & mask
Masked(pos) == pos % Size
-----------------------------------------------------------------------------
\* Writes into a buffer: n bytes of input from `first` on, or zeros.

Fits(buf, at, n) == at..(at + n - 1) \subseteq DOMAIN buf

Copy(buf, at, first, n) ==
    [i \in DOMAIN buf |-> IF i \in at..(at + n - 1) THEN first + i - at
                          ELSE buf[i]]

Clear(buf, at, n) ==
    [i \in DOMAIN buf |-> IF i \in at..(at + n - 1) THEN Zero ELSE buf[i]]

\* RingBufferInitBuffer: a longer buffer with the old bytes.
InitBuffer(buflen) ==
    [i \in -2..(buflen + Slack - 1) |->
        IF i < 0 \/ i >= buflen \/ i \notin DOMAIN data THEN Zero
        ELSE data[i]]

\* Mutant: only whole blocks are mirrored.
WriteTail_WholeBlocks(buf, n) ==
    IF Masked(ringPos) = 0 THEN Copy(buf, Size, inputPos, Least(n, TailSize))
    ELSE buf

\* The first TailSize bytes of a lap are kept behind its end, too.
WriteTail(buf, n) ==
    LET masked == Masked(ringPos)
    IN  IF masked < TailSize
        THEN Copy(buf, Size + masked, inputPos, Least(n, TailSize - masked))
        ELSE buf

\* The ends of the write that pass the end of the lap.
WriteLap(buf, n) ==
    LET masked == Masked(ringPos)
        left   == Size - masked
    IN  IF n <= left THEN Copy(buf, masked, inputPos, n)
        ELSE Copy(Copy(buf, masked, inputPos, Least(n, TotalSize - masked)),
                  0, inputPos + left, n - left)

LastTwo(buf) == [buf EXCEPT ![-2] = buf[Size - 2], ![-1] = buf[Size - 1]]

\* copy_input_to_ring_buffer, after RingBufferWrite has left buf and pos: on
\* the first lap the bytes a hash reads ahead are cleared.
Wrote(buf, cur, pos, n) ==
    IF pos < Size /\ ~Fits(buf, pos, Slack)
    THEN panicked' = TRUE /\ UNCHANGED buffer
    ELSE /\ data' = IF pos < Size THEN Clear(buf, pos, Slack) ELSE buf
         /\ curSize' = cur
         /\ ringPos' = pos
         /\ inputPos' = inputPos + n
         /\ UNCHANGED panicked

\* The three ways of RingBufferWrite: the first write, if it is short, into
\* a buffer just as long; a later one into the room that is left there; and
\* any other into the whole buffer.
WriteFirst(n) ==
    LET cur == Greatest(n, compactSize)
        buf == Clear(Copy(InitBuffer(cur), 0, inputPos, n), n, Slack)
    IN  /\ ringPos = 0 /\ n < TailSize
        /\ Wrote(buf, cur, n, n)

\* Mutant: room for one more byte.
HasRoom_OneMore(n) == curSize < TotalSize /\ ringPos + n <= curSize + 1

HasRoom(n) == curSize < TotalSize /\ ringPos + n <= curSize

WriteCompact(n) ==
    /\ ~(ringPos = 0 /\ n < TailSize)
    /\ HasRoom(n)
    /\ IF ~Fits(data, ringPos + n, Slack)
       THEN panicked' = TRUE /\ UNCHANGED buffer
       ELSE Wrote(Clear(Copy(data, ringPos, inputPos, n), ringPos + n, Slack),
                  curSize, ringPos + n, n)

Grown ==
    IF curSize < TotalSize THEN Clear(InitBuffer(TotalSize), Size - 2, 2)
    ELSE data

WriteRing(n) ==
    /\ ~(ringPos = 0 /\ n < TailSize)
    /\ ~HasRoom(n)
    /\ Wrote(LastTwo(WriteLap(WriteTail(Grown, n), n)), TotalSize,
             WrapRingPos(ringPos + n), n)

RingBufferWrite(n) == WriteFirst(n) \/ WriteCompact(n) \/ WriteRing(n)
-----------------------------------------------------------------------------
\* The stream around the buffer

\* RingBufferSetup
Init ==
    /\ compactSize \in {IF h < TailSize THEN h ELSE 0 : h \in Hints}
    /\ data = [i \in {} |-> Zero]
    /\ curSize = 0
    /\ ringPos = 0
    /\ inputPos = 0
    /\ lastProcessed = 0
    /\ hashed = [p \in {} |-> 0]
    /\ panicked = FALSE

\* set_custom_dictionary: the dictionary is history from the start.
SetDictionary(d) ==
    /\ ~panicked
    /\ inputPos = 0 /\ d # 0
    /\ RingBufferWrite(d)
    /\ lastProcessed' = d
    /\ hashed' = [p \in 0..(d - 1) |-> p]
    /\ UNCHANGED compactSize

\* compress_stream buffers at most one input block before encode_data.
CopyInput(n) ==
    /\ ~panicked
    /\ n <= TailSize - (inputPos - lastProcessed)
    /\ inputPos + n <= MaxInput
    /\ RingBufferWrite(n)
    /\ UNCHANGED <<compactSize, lastProcessed, hashed>>

\* Mutant: the hash tables keep their positions.
MustReset_Never == FALSE

\* update_last_processed_pos says whether wrapped positions went back; then
\* the hash tables are prepared anew.
MustReset == WrapPosition(inputPos) < WrapPosition(lastProcessed)

\* encode_data of the block that was buffered: each of its positions, and
\* the three before it (StitchToPreviousBlock), may get into the hash tables.
Stored ==
    LET wrapped == WrapPosition(lastProcessed)
        first   == lastProcessed - (IF wrapped >= 3 THEN 3 ELSE 0)
    IN  [p \in first..(inputPos - 1) |-> wrapped + p - lastProcessed]

EncodeData ==
    LET known  == {p \in DOMAIN hashed : p >= inputPos - Size}
        stored == Stored
    IN  /\ ~panicked
        /\ inputPos # lastProcessed
        /\ hashed' = IF MustReset THEN [p \in {} |-> 0]
                     ELSE [p \in known \cup DOMAIN stored |->
                             IF p \in DOMAIN stored THEN stored[p]
                             ELSE hashed[p]]
        /\ lastProcessed' = inputPos
        /\ UNCHANGED <<compactSize, buffer, panicked>>

Next ==
    \/ \E d \in Dicts : SetDictionary(d)
    \/ \E n \in 1..TailSize : CopyInput(n)
    \/ EncodeData

Spec == Init /\ [][Next]_vars
-----------------------------------------------------------------------------
\* Properties

\* Where encode_data reads the byte at a position of the input.
Read(position) == data[Masked(WrapPosition(position))]

History == Greatest(0, inputPos - Size)..(inputPos - 1)

\* No write, whatever the hint, the dictionary and the lengths, runs past the
\* end of the allocation; the buffer is compact or whole.
TypeOK ==
    /\ ~panicked
    /\ curSize \in 0..(TailSize - 1) \cup {TotalSize}
    /\ curSize = 0 \/ DOMAIN data = -2..(curSize + Slack - 1)
    /\ ringPos \in 0..(2 * WrapAt)
    /\ lastProcessed <= inputPos

\* Every byte of the last Size bytes is read back at its wrapped position, and
\* no write takes another one away: the buffer is a sliding window.
Window == INSTANCE SlidingWindow WITH
    length <- inputPos,
    window <- [i \in 1..Least(inputPos, Size) |->
                  Read(Greatest(0, inputPos - Size) + i - 1)]
ImplementsWindow == Window!Spec

\* A run of up to TailSize bytes is read on from its first index without a
\* mask, over the end of the lap: FindMatchLength and the hashes rely on the
\* mirrored tail.
RunsAreContiguous ==
    \A p \in History : \A i \in 0..Least(TailSize, inputPos - p) - 1 :
        data[Masked(WrapPosition(p)) + i] = p + i

\* The distance the match finders compute from a remembered wrapped position
\* is the real one: the tables are reset before wrapped positions go back.
DistancesAreReal ==
    \A p \in DOMAIN hashed :
        WrapPosition(lastProcessed) - hashed[p] = lastProcessed - p
=============================================================================
