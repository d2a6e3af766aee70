-------------------------- MODULE EncoderStreamMC ---------------------------
(* Parameter records for model checking EncoderStream. *)
EXTENDS EncoderStream

AllFlags ==
    [fragment : BOOLEAN, catable : BOOLEAN, appendable : BOOLEAN,
     byteAlign : BOOLEAN, bare : BOOLEAN, magic : BOOLEAN]
Plain == [f \in {"fragment", "catable", "appendable", "byteAlign", "bare",
                 "magic"} |-> FALSE]

\* The streams of qualities 0 and 1 that are not catable: compress_stream_fast
\* looks at no other flag.
Fast == {[Plain EXCEPT !.fragment = TRUE]}

\* The other combinations of the flags; magic_number, which only adds whole
\* bytes, is not combined with the flags about the end of the stream.
Slow == {f \in AllFlags : /\ f.catable \/ ~f.fragment
                         /\ f.magic => ~f.byteAlign /\ ~f.bare}

CatableFragments ==
    {[Plain EXCEPT !.fragment = TRUE, !.catable = TRUE]}

SlowAndFast == Slow \cup Fast
=============================================================================
