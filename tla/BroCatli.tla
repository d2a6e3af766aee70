------------------------------ MODULE BroCatli ------------------------------
(***************************************************************************)
(* BroCatli (src/concat/mod.rs) and the loop that drives it                *)
(* (src/bin/catbrotli.rs): brotli streams arrive file by file, in chunks   *)
(* of any size, and leave as one stream through output buffers of any      *)
(* size.  The last two bytes are held back, since the end marker of one    *)
(* file has to go when another file follows it.                            *)
(*                                                                         *)
(* stream() and finish() are functions on a record: the fields of struct   *)
(* BroCatli and the arguments of the call.  Each stage of stream() that    *)
(* returns early leaves its answer in ret, and later stages then pass.     *)
(* A byte is OR-ed into bits that are zero, so that is a concatenation.    *)
(***************************************************************************)
EXTENDS CatableFormat, SequencesExt

CONSTANTS
    Plans,          \* the lists of files to concatenate
    Windows,        \* the arguments of -w; 0 when there is none
    Chunks,         \* how many bytes a read may return
    Buffers,        \* the sizes of the output buffers
    None            \* the None of Option

ASSUME WindowsAreValid == Windows \subseteq {0} \cup 10..30

VARIABLES
    plan,           \* the files
    override,       \* the argument of -w
    c,              \* the BroCatli and the arguments of a call
    opened,         \* how many files were begun
    rest,           \* what was not read yet of the open file
    pc              \* where catbrotli is

vars == <<plan, override, c, opened, rest, pc>>

NUM_STREAM_HEADER_BYTES == 5
Errors == {"BrotliFileNotCraftedForAppend", "InvalidWindowSize",
           "WindowSizeLargerThanPreviousFile",
           "BrotliFileNotCraftedForConcatenation"}
ZeroByte == Zeros(8)
Smaller(a, b) == IF a < b THEN a ELSE b

NewStreamData == [bytes |-> <<>>, written |-> None]

(* new, and new_with_window_size, which starts from an empty stream, but   *)
(* for 16: the header of that window is a 0, and the code sets a 1.        *)
New(lgwin) ==
    LET window == IF lgwin = 16 THEN <<1>> ELSE WindowBits(lgwin)
        empty == Bytes(window \o EndMarker)
    IN  [last |-> IF lgwin = 0 THEN <<ZeroByte, ZeroByte>>
                  ELSE SubSeq(Append(empty, ZeroByte), 1, 2),
         lastLen |-> IF lgwin = 0 THEN 0 ELSE Len(empty),
         sanitized |-> FALSE, emitted |-> FALSE, bitOffset |-> 0,
         window |-> lgwin, pending |-> None,
         input |-> <<>>, out |-> <<>>, room |-> 0, ret |-> "Success"]

(* A stage works on the value that the stage before it left.               *)
After(d, Stage(_)) == CHOOSE e \in {Stage(x) : x \in {d}} : TRUE

Answer(d, ret) == [d EXCEPT !.ret = ret]
Put(d, byte) == [d EXCEPT !.out = Append(@, byte), !.room = @ - 1,
                          !.emitted = TRUE]

-----------------------------------------------------------------------------
(* stream()                                                                *)

(* The place of the highest bit set among the first n; 1 when none is.     *)
HighestSet(bits, n) ==
    LET set == {i \in 1..n : bits[i] = 1} IN IF set = {} THEN 1 ELSE Max(set)

FlushPreviousStream(d) ==
    LET bits == BitsOf(d.last)
        top == HighestSet(bits, 8 * d.lastLen)
        index == top - 2
        masked == SubSeq(bits, 1, index) \o Zeros(16 - index)
        kept == [d EXCEPT !.last = <<SubSeq(masked, 1, 8), SubSeq(masked, 9, 16)>>]
        moved == [Put(kept, kept.last[1]) EXCEPT
                    !.last = <<kept.last[2], kept.last[2]>>,
                    !.lastLen = @ - 1, !.bitOffset = index - 8,
                    !.sanitized = TRUE]
    IN  IF d.sanitized THEN d
        ELSE IF d.lastLen = 0 THEN [d EXCEPT !.sanitized = TRUE]
        ELSE IF top = 1 \/ SubSeq(bits, top - 1, 16) # EndMarker \o Zeros(16 - top)
        THEN Answer(d, "BrotliFileNotCraftedForAppend")
        ELSE IF index < 8
        THEN [kept EXCEPT !.bitOffset = index, !.sanitized = TRUE]
        ELSE IF d.room = 0 THEN Answer(kept, "NeedsMoreOutput")
        ELSE moved

ReadHeader(d) ==
    LET n == Smaller(NUM_STREAM_HEADER_BYTES - Len(d.pending.bytes), Len(d.input))
        read == [d EXCEPT !.pending.bytes = @ \o SubSeq(d.input, 1, n),
                          !.input = SubSeq(@, n + 1, Len(@))]
        bytes == read.pending.bytes
        sufficient == \/ Len(bytes) = 4 /\ Number(bytes[1], 0, 7) # 17
                      \/ Len(bytes) = 5
    IN  IF d.ret # "Success" THEN d
        ELSE IF ~sufficient THEN Answer(read, "NeedsMoreInput")
        ELSE IF read.room = 0 THEN Answer(read, "NeedsMoreOutput")
        ELSE read

(* A mutant: the last byte of the header stays in the output.              *)
WriteHeader_KeepsLast(d) ==
    LET bytes == d.pending.bytes
        n == Smaller(d.room, Len(bytes) - d.pending.written)
        wrote == [d EXCEPT
                    !.out = @ \o SubSeq(bytes, d.pending.written + 1,
                                        d.pending.written + n),
                    !.room = @ - n,
                    !.pending.written = @ + n]
    IN  IF d.ret # "Success" THEN d
        ELSE IF wrote.pending.written # Len(bytes)
        THEN Answer(wrote, "NeedsMoreOutput")
        ELSE [wrote EXCEPT !.pending = None, !.sanitized = FALSE,
                           !.bitOffset = 0, !.lastLen = 1,
                           !.last = <<Last(wrote.out), ZeroByte>>]

(* Write what fits of the header; when all is written, take the last byte  *)
(* back, as it may hold the end marker.                                    *)
WriteHeader(d) ==
    LET bytes == d.pending.bytes
        n == Smaller(d.room, Len(bytes) - d.pending.written)
        wrote == [d EXCEPT
                    !.out = @ \o SubSeq(bytes, d.pending.written + 1,
                                        d.pending.written + n),
                    !.room = @ - n,
                    !.emitted = @ \/ n # 0,
                    !.pending.written = @ + n]
    IN  IF d.ret # "Success" THEN d
        ELSE IF wrote.pending.written # Len(bytes)
        THEN Answer(wrote, "NeedsMoreOutput")
        ELSE [wrote EXCEPT !.pending = None, !.sanitized = FALSE,
                           !.bitOffset = 0, !.lastLen = 1,
                           !.last = <<Last(wrote.out), ZeroByte>>,
                           !.out = Front(@), !.room = @ + 1]

ShiftHeader(d, end) ==
    LET bytes == d.pending.bytes
        bits == BitsOf(bytes)
        joined == SubSeq(d.last[1], 1, d.bitOffset)
                    \o SubSeq(bits, ParseWindow(bits).bits + 1, end)
        header == Bytes(joined) \o SubSeq(bytes, CeilDiv8(end) + 1, Len(bytes))
    IN  [Put(d, Head(header)) EXCEPT
            !.pending = [bytes |-> Tail(header), written |-> 0]]

(* A mutant: the window of a later file is not compared.                   *)
AlignHeader_AnyWindow(d) ==
    LET bytes == d.pending.bytes
        window == ParseWindow(BitsOf(bytes))
        end == VarlenOffset(BitsOf(bytes))
    IN  IF d.ret # "Success" \/ d.pending.written # None THEN d
        ELSE IF d.window = 0
        THEN [Put(d, bytes[1]) EXCEPT !.window = window.size,
                                      !.pending.written = 1]
        ELSE IF end = 0 THEN Answer(d, "BrotliFileNotCraftedForConcatenation")
        ELSE ShiftHeader(d, end)

AlignHeader(d) ==
    LET bytes == d.pending.bytes
        window == ParseWindow(BitsOf(bytes))
        end == VarlenOffset(BitsOf(bytes))
    IN  IF d.ret # "Success" THEN d
        ELSE IF d.pending.written # None THEN d
        ELSE IF window.bits = 0 THEN Answer(d, "InvalidWindowSize")
        ELSE IF d.window = 0
        THEN [Put(d, bytes[1]) EXCEPT !.window = window.size,
                                      !.pending.written = 1]
        ELSE IF window.size > d.window
        THEN Answer(d, "WindowSizeLargerThanPreviousFile")
        ELSE IF end = 0 \/ CeilDiv8(end) > Len(bytes)
        THEN Answer(d, "BrotliFileNotCraftedForConcatenation")
        ELSE ShiftHeader(d, end)

BeginStream(d) ==
    IF d.pending = None THEN d
    ELSE LET read == After(After(d, FlushPreviousStream), ReadHeader)
             begun == After(After(read, AlignHeader), WriteHeader)
         IN  IF begun.ret = "Success" /\ begun.room = 0
             THEN Answer(begun, "NeedsMoreOutput") ELSE begun

(* A mutant: more output is asked for when it is input that is missing.    *)
Proceed_AsksForRoom(d) ==
    IF d.ret = "Success" /\ (d.room = 0 \/ d.input = <<>>)
    THEN Answer(d, "NeedsMoreOutput") ELSE d

(* Nothing to do without room and without input, in this order.            *)
Proceed(d) ==
    IF d.ret # "Success" THEN d
    ELSE IF d.room = 0 THEN Answer(d, "NeedsMoreOutput")
    ELSE IF d.input = <<>> THEN Answer(d, "NeedsMoreInput")
    ELSE d

HoldBack(d) ==
    LET e == Proceed(d)
    IN  IF d.lastLen = 2 THEN d
        ELSE IF e.ret # "Success" THEN e
        ELSE [e EXCEPT !.last[e.lastLen + 1] = Head(e.input),
                       !.lastLen = @ + 1, !.input = Tail(@)]

(* Copy, two bytes behind the input.                                       *)
Copy(d) ==
    LET e == Proceed(d)
        n == Smaller(e.room, Len(e.input))
        bytes == e.last \o SubSeq(e.input, 1, n)
        copied == [e EXCEPT !.out = @ \o SubSeq(bytes, 1, n),
                            !.last = SubSeq(bytes, n + 1, n + 2),
                            !.input = SubSeq(@, n + 1, Len(@)),
                            !.room = @ - n]
    IN  IF e.ret # "Success" THEN e
        ELSE Answer(copied, IF copied.room = 0 THEN "NeedsMoreOutput"
                            ELSE "NeedsMoreInput")

StreamCall(d) ==
    LET begun == After(Answer(d, "Success"), BeginStream)
    IN  After(After(After(begun, HoldBack), HoldBack), Copy)

-----------------------------------------------------------------------------
(* finish()                                                                *)

AppendEofMetablock(d) ==
    LET bitEnd == 8 * (d.lastLen - 1) + d.bitOffset
        bits == [i \in 1..16 |-> IF i - bitEnd \in {1, 2} THEN 1
                                 ELSE BitsOf(d.last)[i]]
    IN  [d EXCEPT !.last = <<SubSeq(bits, 1, 8), SubSeq(bits, 9, 16)>>,
                  !.sanitized = FALSE,
                  !.bitOffset = (@ + 2) % 8,
                  !.lastLen = IF d.bitOffset + 2 >= 8 THEN @ + 1 ELSE @]

(* last_bytes[0] goes out and last_bytes[1] takes its place, and stays.    *)
Drain(d) ==
    LET n == Smaller(d.room, d.lastLen)
        drained == [d EXCEPT
                      !.out = @ \o SubSeq(<<d.last[1], d.last[2], d.last[2]>>, 1, n),
                      !.room = @ - n,
                      !.lastLen = @ - n,
                      !.last = IF n = 0 THEN @ ELSE <<@[2], @[2]>>,
                      !.emitted = @ \/ n # 0]
    IN  IF n < d.lastLen THEN Answer(drained, "NeedsMoreOutput") ELSE drained

FinishCall(d) ==
    LET called == Answer(d, "Success")
        ended == IF d.sanitized /\ d.lastLen # 0
                 THEN AppendEofMetablock(called) ELSE called
        drained == After(ended, Drain)
    IN  IF drained.ret # "Success" \/ drained.emitted THEN drained
        ELSE IF drained.room = 0 THEN Answer(drained, "NeedsMoreOutput")
        ELSE Put(drained, Bits(59, 8))              \* b';'

-----------------------------------------------------------------------------
(* catbrotli                                                               *)

Init ==
    /\ plan \in Plans
    /\ override \in Windows
    /\ \E size \in Buffers : c = [New(override) EXCEPT !.room = size]
    /\ opened = 0
    /\ rest = <<>>
    /\ pc = "read"

(* The end of a file: the next one, or finish.                             *)
NewBrotliFile ==
    /\ pc = "read"
    /\ rest = <<>>
    /\ opened < Len(plan)
    /\ opened' = opened + 1
    /\ rest' = Stream(plan[opened + 1])
    /\ c' = [c EXCEPT !.pending = NewStreamData]
    /\ UNCHANGED <<plan, override, pc>>

AllRead ==
    /\ pc = "read"
    /\ rest = <<>>
    /\ opened = Len(plan)
    /\ pc' = "finish"
    /\ UNCHANGED <<plan, override, c, opened, rest>>

Read ==
    /\ pc = "read"
    /\ rest # <<>>
    /\ \E n \in Chunks :
          /\ c' = [c EXCEPT !.input = SubSeq(rest, 1, Smaller(n, Len(rest)))]
          /\ rest' = SubSeq(rest, Smaller(n, Len(rest)) + 1, Len(rest))
    /\ pc' = "stream"
    /\ UNCHANGED <<plan, override, opened>>

(* catbrotli stops at any answer but these; after NeedsMoreOutput it calls *)
(* again with an empty buffer, after NeedsMoreInput it reads on.           *)
WithNewBuffer(d) ==
    IF d.ret = "NeedsMoreOutput"
    THEN \E size \in Buffers : c' = [d EXCEPT !.room = size]
    ELSE c' = d

CallStream ==
    /\ pc = "stream"
    /\ \E d \in {StreamCall(c)} :
           /\ WithNewBuffer(d)
           /\ pc' = CASE d.ret = "NeedsMoreOutput" -> "stream"
                      [] d.ret = "NeedsMoreInput" -> "read"
                      [] OTHER -> "failed"
    /\ UNCHANGED <<plan, override, opened, rest>>

CallFinish ==
    /\ pc = "finish"
    /\ \E d \in {FinishCall(c)} :
           /\ WithNewBuffer(d)
           /\ pc' = IF d.ret = "NeedsMoreOutput" THEN "finish" ELSE "done"
    /\ UNCHANGED <<plan, override, opened, rest>>

Next == NewBrotliFile \/ AllRead \/ Read \/ CallStream \/ CallFinish

Spec == Init /\ [][Next]_vars

-----------------------------------------------------------------------------
(* The files that leave a trace in the output, and its window size.        *)
Written(files) == SelectSeq(files, LAMBDA file : ~IsEmpty(file))
OutputWindow(files, lgwin) ==
    IF lgwin # 0 THEN lgwin
    ELSE IF Written(files) = <<>> THEN 22 ELSE Written(files)[1].lgwin
Expected ==
    [files \in Plans, lgwin \in Windows |->
        LET joined == Joined(OutputWindow(files, lgwin), files)
        IN  [bytes |-> Bytes(joined \o EndMarker), unended |-> Bytes(joined),
             offset |-> Len(joined) % 8]]

(* What may not be concatenated: a window larger than the first one, and a *)
(* compressed first metablock anywhere but at the very beginning.          *)
Unacceptable ==
    LET written == Written(plan)
    IN  \E i \in DOMAIN written :
            \/ written[i].lgwin > OutputWindow(plan, override)
            \/ (i > 1 \/ override # 0) /\ ~IsCatable(written[i])

(* An empty file comes last, and finish ends the output again: the file    *)
(* was too short to be joined, but began, which took the end marker off.   *)
EndedAgain ==
    /\ plan # <<>>
    /\ IsEmpty(Last(plan))
    /\ Written(plan) # <<>> \/ override # 0

(* Whatever the sizes of reads and of buffers, what has left is a prefix   *)
(* of the concatenation of the files, and all of it in the end.  There are *)
(* three exceptions, and each of them goes wrong in one way only:          *)
(*   - the first bit of the output for -w16 is that of another window;     *)
(*   - an output that is ended again, with the marker in bits 6 and 7 of a *)
(*     byte, has that byte once more, without the marker, behind the end;  *)
(*   - an output that is ended again, with the marker across two bytes,    *)
(*     has it eight bits late, and cut: it does not end.                   *)
OutputIsConcatenation ==
    LET expected == Expected[plan, override]
        ended ==
            CASE EndedAgain /\ expected.offset = 6 ->
                    Append(expected.bytes, Last(expected.unended))
              [] EndedAgain /\ expected.offset = 7 ->
                    expected.unended \o <<Bits(128, 8), Bits(128, 8)>>
              [] OTHER -> expected.bytes
        bytes == IF override = 16 THEN [ended EXCEPT ![1][1] = 1] ELSE ended
    IN  ~Unacceptable => /\ IsPrefix(c.out, bytes)
                         /\ pc = "done" => c.out = bytes

(* Files that can be concatenated are never refused, and no others pass.   *)
ErrorsAreDeserved ==
    /\ pc = "failed" => Unacceptable
    /\ pc = "done" => ~Unacceptable

(* The loop ends: a call that was given room and answers NeedsMoreOutput   *)
(* has moved on, so a driver that only provides room is not called for     *)
(* ever.  Taking a header byte back out of the output counts less than     *)
(* being done with a header.                                               *)
Progress(d) ==
    2 * Len(d.out) - 4 * Len(d.input)
        + (IF d.pending = None THEN 4 ELSE IF d.sanitized THEN 1 ELSE 0)
EveryCallMovesOn ==
    [][(pc \in {"stream", "finish"} /\ c.room > 0 /\ pc' = pc)
        => (Progress(c') > Progress(c))]_vars
=============================================================================
