---------------------------- MODULE DistanceRing ----------------------------
(* The ring of the last four distances, from the two sides that keep one: the *)
(* encoder names a distance by its place in the ring when it can              *)
(* (command.rs), and whoever decodes the commands turns the name back into a  *)
(* distance and moves the ring on by the same rule.                           *)
EXTENDS Integers, Sequences

CONSTANT MaxBackward    \* (1 << lgwin) - 16

ShortCodes == 16        \* BROTLI_NUM_DISTANCE_SHORT_CODES

\* The two packed tables of ComputeDistanceCode, for the offsets -3..3.
NearLast   == << 8, 6, 4, 0, 5, 7, 9 >>
NearSecond == << 14, 12, 10, 1, 11, 13, 15 >>

Close(distance, remembered) == distance - remembered \in -3 .. 3

ComputeDistanceCode(distance, maxDistance, cache) ==
    IF distance > maxDistance THEN distance + ShortCodes - 1
    ELSE IF distance = cache[1] THEN 0
    ELSE IF distance = cache[2] THEN 1
    ELSE IF Close(distance, cache[1]) THEN NearLast[distance - cache[1] + 4]
    ELSE IF Close(distance, cache[2]) THEN NearSecond[distance - cache[2] + 4]
    ELSE IF distance = cache[3] THEN 2
    ELSE IF distance = cache[4] THEN 3
    ELSE distance + ShortCodes - 1

\* What each short code stands for: a place of the ring and a small correction.
RingSlot  == << 1, 2, 3, 4, 1, 1, 1, 1, 1, 1, 2, 2, 2, 2, 2, 2 >>
RingDelta == << 0, 0, 0, 0, -1, 1, -2, 2, -3, 3, -1, 1, -2, 2, -3, 3 >>

Resolve(cache, code) ==
    IF code < ShortCodes THEN cache[RingSlot[code + 1]] + RingDelta[code + 1]
    ELSE code - ShortCodes + 1

Remember(cache, distance) == << distance >> \o SubSeq(cache, 1, 3)

\* How far back a copy that starts at position "at" can reach.
Window(at) == IF at < MaxBackward THEN at ELSE MaxBackward

\* Command::init, as far as distances and lengths go.
NewCommand(insert, len, code) == [insert |-> insert, len |-> len, code |-> code]

-----------------------------------------------------------------------------
(* What a stretch of output is made of: literals, bytes copied from some      *)
(* distance back, or a word of the static dictionary, which is what a         *)
(* distance beyond the window names, taken as a whole.                        *)
Literals(n) == [i \in 1 .. n |-> << "literal", 0, 0 >>]

Bytes(distance, len, window) ==
    [i \in 1 .. len |-> IF distance \in 1 .. window THEN << "copy", distance, 0 >>
                        ELSE << "word", distance - window, len >>]

(* One command as the decoder executes it: the insert, then the copy it       *)
(* finds through its own ring.  Code 0 and words leave the ring alone.        *)
Follow(state, cmd) ==
    LET at       == state.at + cmd.insert
        distance == Resolve(state.cache, cmd.code)
        window   == Window(at)
    IN [at    |-> at + cmd.len,
        cache |-> IF cmd.len > 0 /\ cmd.code # 0 /\ distance <= window
                  THEN Remember(state.cache, distance) ELSE state.cache,
        out   |-> state.out \o Literals(cmd.insert) \o Bytes(distance, cmd.len, window)]

\* The commands of a metablock, decoded from position "at" with the ring "cache".
Decode(commands, at, cache) ==
    LET after[n \in 0 .. Len(commands)] ==
            IF n = 0 THEN [at |-> at, cache |-> cache, out |-> << >>]
            ELSE Follow(after[n - 1], commands[n])
    IN after[Len(commands)]

=============================================================================
