-------------------------- MODULE StreamAdaptersMC --------------------------
(* Streams for model checking StreamAdapters. *)
EXTENDS StreamAdapters

Plain == [f \in {"fragment", "catable", "appendable", "byteAlign", "bare",
                 "magic"} |-> FALSE]

\* The defaults of the adapters (qualities 2 and up, and 0 and 1), and a
\* catable stream as with_params can ask for.
Streams == {Plain, [Plain EXCEPT !.fragment = TRUE],
            [Plain EXCEPT !.catable = TRUE, !.magic = TRUE]}
=============================================================================
