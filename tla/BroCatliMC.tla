---------------------------- MODULE BroCatliMC ----------------------------
(* Files for BroCatli: bodies that end at every bit of a byte, of ones and *)
(* of zeros, first metablocks of one and of two literal bytes, all lengths *)
(* of window headers, and empty files.                                     *)
EXTENDS BroCatli

Ones(n) == [i \in 1..n |-> 1]
Byte00 == Zeros(8)
ByteFF == Ones(8)

Appendable(w, k) == [lgwin |-> w, literal |-> <<>>, body |-> Ones(k)]
AppendableZeros(w, k) == [lgwin |-> w, literal |-> <<>>, body |-> Zeros(k)]
Catable(w, k) == [lgwin |-> w, literal |-> <<ByteFF, Byte00>>, body |-> Ones(k)]
OneByte(w) == [lgwin |-> w, literal |-> <<ByteFF>>, body |-> <<>>]
Empty(w) == [lgwin |-> w, literal |-> <<>>, body |-> <<>>]

EveryEnding == 15..22

(* Every pair of an ending and a beginning, and empty files in between.    *)
Pairs == {<<Appendable(22, k), Catable(22, j)>> : k \in EveryEnding, j \in {0, 5}}
            \cup {<<AppendableZeros(22, k), OneByte(22)>> : k \in EveryEnding}
            \cup {<<Appendable(22, k), Empty(22), Catable(22, 1)>> : k \in EveryEnding}
Triples == {<<OneByte(22), OneByte(w), Catable(w, 3)>> : w \in {10, 15, 16, 17, 22}}
            \cup {<<Catable(25, 4), Catable(25, 9), OneByte(25)>>,
                  <<Empty(22), Catable(24, 2), Empty(24), Catable(18, 7)>>}
Small == {<<OneByte(w), Catable(w, 3)>> : w \in {10, 16}}
            \cup {<<Empty(22), Catable(16, 14), Empty(10)>>}
(* Lists that end in empty files, behind every bit.                        *)
Empties == {<<>>, <<Empty(22)>>, <<Empty(22), Empty(16)>>}
            \cup {<<Appendable(22, k), Empty(22)>> : k \in EveryEnding}
            \cup {<<AppendableZeros(22, k), Empty(22), Empty(25)>> : k \in EveryEnding}
            \cup {<<OneByte(10), Catable(10, k), Empty(22)>> : k \in 13..15}
Refused == {<<Catable(22, 2), Appendable(22, 15)>>, <<OneByte(16), OneByte(22)>>,
            <<Catable(22, 0), Catable(25, 0)>>}

AllPlans == Pairs \cup Triples \cup Small \cup Empties \cup Refused

(* The sizes of windows survive their encoding.                            *)
ASSUME WindowsAreRead ==
    \A w \in 10..30 :
        ParseWindow(WindowBits(w) \o EndMarker \o Zeros(14))
            = [size |-> w, bits |-> Len(WindowBits(w))]

(* A reader of a catable file finds the end of its first header.           *)
ASSUME HeadersAreFound ==
    \A w \in 10..30, n \in 1..2 :
        VarlenOffset(WindowBits(w) \o BlockHeader(n, 1)) = Len(WindowBits(w)) + 20
=============================================================================
