----------------------------- MODULE StreamBits -----------------------------
(***************************************************************************)
(* Where each block writer of the encoder leaves the bit index it is given *)
(* (storage_ix): the lengths of the blocks that separate and end data      *)
(* metablocks.  Lengths of compressed metablocks are the caller's choice.  *)
(***************************************************************************)
EXTENDS Integers

\* The next byte boundary at or after ix (JumpToByteBoundary).
Align(ix) == ((ix + 7) \div 8) * 8

\* An uncompressed metablock of n bytes, n at most 2^16: ISLAST, two bits of
\* nibble count, 16 bits of length, ISUNCOMPRESSED, then whole bytes.
Uncompressed(ix, n) == Align(ix + 20) + 8 * n

\* The empty metadata block that fills up a started byte.
Padding(ix) == IF ix % 8 = 0 THEN ix ELSE Align(ix + 6)

\* ISLAST, ISEMPTY and the rest of the byte.
EmptyLast(ix) == Align(ix + 2)

\* The metadata block of magic_number: its header, three magic bytes, the
\* version and a size hint of `hint` bytes.
Magic(ix, hint) == Align(ix + 14) + 8 * (4 + hint)

\* How many bytes write_metadata_header uses for the length of a metadata
\* block of `size` bytes, and the length a decoder then reads.
LengthBytes(size) ==
    IF size <= 1 THEN 0
    ELSE IF size <= 256 THEN 1
    ELSE IF size <= 65536 THEN 2 ELSE 3

Announced(size) == IF LengthBytes(size) = 0 THEN 0 ELSE size

\* The bits of that header before it is rounded up to bytes.
MetadataHeader(ix, size) == ix + 6 + 8 * LengthBytes(size)
=============================================================================
