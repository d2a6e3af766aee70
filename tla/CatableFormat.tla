---------------------------- MODULE CatableFormat ----------------------------
(***************************************************************************)
(* The parts of a brotli stream that concatenation looks at, bit by bit    *)
(* (a byte is a sequence of eight bits, the lowest first): the window size *)
(* at the front, the header of the first metablock, the end marker.  What  *)
(* lies between is opaque.                                                 *)
(***************************************************************************)
EXTENDS Integers, Sequences

Bits(value, width) == [i \in 1..width |-> (value \div 2^(i - 1)) % 2]
Zeros(n) == [i \in 1..n |-> 0]
CeilDiv8(n) == (n + 7) \div 8

(* Fill the last byte with zero bits, and cut into bytes.                  *)
Bytes(bits) ==
    LET padded == bits \o Zeros(8 * CeilDiv8(Len(bits)) - Len(bits))
    IN  [i \in 1..CeilDiv8(Len(bits)) |-> SubSeq(padded, 8 * i - 7, 8 * i)]
BitsOf(bytes) ==
    [i \in 1..(8 * Len(bytes)) |-> bytes[CeilDiv8(i)][((i - 1) % 8) + 1]]

(* Bit i of a stream, 0 when it was not read, and the number that n bits   *)
(* after the first `from` ones stand for.                                  *)
BitAt(bits, i) == IF i \in DOMAIN bits THEN bits[i] ELSE 0
Number(bits, from, n) ==
    LET low[k \in 0..n] ==
            IF k = 0 THEN 0
            ELSE low[k - 1] + 2^(k - 1) * BitAt(bits, from + k)
    IN  low[n]

EndMarker == <<1, 1>>               \* ISLAST, ISLASTEMPTY

-----------------------------------------------------------------------------
(* The encoder's side (large_window is taken for windows above 24).         *)

WindowBits(lgwin) ==
    CASE lgwin > 24 -> Bits(17, 8) \o Bits(lgwin, 6)
      [] lgwin = 16 -> <<0>>
      [] lgwin = 17 -> Bits(1, 7)
      [] lgwin \in 18..24 -> Bits(2 * (lgwin - 17) + 1, 4)
      [] OTHER -> Bits(16 * (lgwin - 8) + 1, 7)

(* Not last, four nibbles of length - 1, and whether it is uncompressed.   *)
BlockHeader(length, uncompressed) ==
    <<0>> \o Bits(0, 2) \o Bits(length - 1, 16) \o <<uncompressed>>

(* A file: its window, the literal bytes of its first metablock (none when *)
(* that metablock is compressed) and the bits of what follows; a file      *)
(* without either is the stream of an empty input.                         *)
IsEmpty(file) == file.literal = <<>> /\ file.body = <<>>
IsCatable(file) == IsEmpty(file) \/ file.literal # <<>>

(* The file's metablocks, from bit `start` of a stream on.                 *)
AfterWindow(file, start) ==
    IF IsEmpty(file) THEN <<>>
    ELSE IF file.literal = <<>> THEN BlockHeader(4, 0) \o file.body
    ELSE LET header == BlockHeader(Len(file.literal), 1)
         IN  header \o Zeros((-(start + Len(header))) % 8)
                \o BitsOf(file.literal) \o file.body

Stream(file) ==
    LET window == WindowBits(file.lgwin)
    IN  Bytes(window \o AfterWindow(file, Len(window)) \o EndMarker)

-----------------------------------------------------------------------------
(* What the concatenation of files ought to be: one window size, the       *)
(* metablocks of every file, one end marker.                               *)
Joined(lgwin, files) ==
    LET upTo[n \in 0..Len(files)] ==
            IF n = 0 THEN WindowBits(lgwin)
            ELSE upTo[n - 1] \o AfterWindow(files[n], Len(upTo[n - 1]))
    IN  upTo[Len(files)]
Concatenation(lgwin, files) == Bytes(Joined(lgwin, files) \o EndMarker)

-----------------------------------------------------------------------------
(* parse_window_size: the window and how many bits it took; 0 bits when    *)
(* there is no such window.                                                *)
ParseWindow(bits) ==
    LET low == Number(bits, 1, 3)
        high == Number(bits, 4, 3)
        large == Number(bits, 8, 6)
        window(size, length) == [size |-> size, bits |-> length]
    IN  CASE bits[1] = 0 -> window(16, 1)
          [] bits[1] = 1 /\ low # 0 -> window(17 + low, 4)
          [] bits[1] = 1 /\ low = 0 /\ high = 0 -> window(17, 7)
          [] bits[1] = 1 /\ low = 0 /\ high > 1 -> window(8 + high, 7)
          [] OTHER -> IF bits[8] = 0 /\ large \in 10..30 THEN window(large, 14)
                      ELSE window(0, 0)

(* detect_varlen_offset: where the bits end that have to be shifted, after *)
(* which the stream is aligned to bytes; 0 when it is not.                 *)
VarlenOffset(bits) ==
    LET window == ParseWindow(bits).bits
        isLast == BitAt(bits, window + 1) = 1
        start == IF isLast THEN window + 2 ELSE window + 1
        nibbles == Number(bits, start, 2)
        length == start + 2 + 4 * (nibbles + 4)
    IN  IF isLast /\ BitAt(bits, start) = 1 THEN start
        ELSE IF nibbles = 3
        THEN IF BitAt(bits, start + 3) = 1 THEN 0
             ELSE start + 5 + 8 * Number(bits, start + 3, 2)
        ELSE IF BitAt(bits, length + 1) = 1 THEN length + 1 ELSE 0
=============================================================================
