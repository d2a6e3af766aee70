--------------------------- MODULE SlidingWindow ----------------------------
(***************************************************************************)
(* What the encoder expects of its input ring buffer: whatever the lengths *)
(* of the writes, the last Size bytes of the input can be read back in     *)
(* order.  A byte is named by its position in the input.  RingBuffer.tla   *)
(* is the buffer that implements this.                                     *)
(***************************************************************************)
EXTENDS Integers, Sequences

CONSTANT Size           \* bytes of history that stay readable

VARIABLES
    length,             \* bytes written so far
    window              \* the last bytes written, oldest first

vars == <<length, window>>

Last(s, n) == SubSeq(s, IF Len(s) > n THEN Len(s) - n + 1 ELSE 1, Len(s))

Init == length = 0 /\ window = <<>>

Write ==
    \E n \in 1..Size :
        /\ length' = length + n
        /\ window' = Last(window \o [i \in 1..n |-> length + i - 1], Size)

Spec == Init /\ [][Write]_vars
=============================================================================
