-------------------------- MODULE CompressorWriter --------------------------
(***************************************************************************)
(* CompressorWriterCustomIo (enc/writer.rs): write, flush and close, which *)
(* is into_inner or drop, over an inner writer that may fail, take a part  *)
(* or take nothing.                                                        *)
(***************************************************************************)
EXTENDS AdapterCalls

\* The close of a writer has no result: what fails there is swallowed.
Ends(a) == IF a = "close" THEN "closed" ELSE "none"

\* write_all drops the output at hand, silently or with an error.
DropSilently == untold' = untold + made /\ UNCHANGED reports
DropWithError ==
    /\ api' = Ends(api)
    /\ stage' = "idle"
    /\ IF api = "close" THEN DropSilently ELSE Tell /\ UNCHANGED untold

Write(n) ==
    /\ api = "none" /\ kind = "writer"
    /\ given + n <= MaxGiven
    /\ api' = "write"
    /\ stage' = "encode"
    /\ pending' = n
    /\ given' = given + n
    /\ NothingTold
    /\ UNCHANGED <<vars, setup, ret, made, readRoom, inOff, inLen, eof>>

FlushOrClose(a) ==
    /\ api = "none" /\ kind = "writer"
    /\ api' = a
    /\ stage' = "encode"
    /\ pending' = 0
    /\ NothingTold
    /\ UNCHANGED <<vars, setup, ret, made, readRoom, input>>

WriterOp ==
    CASE api = "write" -> "PROCESS"
      [] api = "flush" -> "FLUSH"
      [] api = "close" -> "FINISH"

WriterEncodes == kind = "writer" /\ CallEncoder(WriterOp, pending, bufLen)

\* write_all: what the inner writer does with the output at hand.
Delivering == kind = "writer" /\ stage = "returned" /\ made # 0

InnerAccepts(n) ==
    /\ Delivering
    /\ made' = made - n
    /\ UNCHANGED <<vars, setup, api, stage, ret, pending, readRoom, input,
                   faults>>

InnerFails ==
    /\ Delivering
    /\ made' = 0
    /\ DropWithError
    /\ UNCHANGED <<vars, setup, ret, pending, readRoom, input, tokens,
                   failure>>

\* Mutant: nothing is said about a writer that takes nothing.
ZeroWriteError_Never == {}

\* The error for a zero-byte write, then the other one; then there is none,
\* and the output is taken for written.
ZeroWriteError ==
    IF "zero" \in tokens THEN {"zero"} ELSE tokens \cap {"invalid"}

InnerTakesNothing ==
    /\ Delivering
    /\ tokens' = tokens \ ZeroWriteError
    /\ made' = 0
    /\ IF ZeroWriteError # {} THEN DropWithError
       ELSE DropSilently /\ UNCHANGED <<api, stage>>
    /\ UNCHANGED <<vars, setup, ret, pending, readRoom, input, failure>>

\* Mutant: one compress_stream completes a flush.
WriterDone_Once ==
    CASE api = "write" -> pending = 0
      [] api = "flush" -> TRUE
      [] api = "close" -> IsFinished

WriterDone ==
    CASE api = "write" -> pending = 0
      [] api = "flush" -> ~HasMoreOutput
      [] api = "close" -> IsFinished

Checks == kind = "writer" /\ stage = "returned" /\ made = 0

WriterIsRefused ==
    /\ Checks
    /\ ~ret
    /\ RefusedByEncoder
    /\ UNCHANGED <<vars, setup, ret, pending, made, readRoom, input, failure,
                   untold>>

WriterGoesOn ==
    /\ Checks
    /\ ret /\ ~WriterDone
    /\ stage' = "encode"
    /\ UNCHANGED <<vars, setup, api, ret, pending, made, readRoom, input,
                   faults>>

\* flush hands on what the inner flush returns.
WriterReturns ==
    /\ Checks
    /\ ret /\ WriterDone
    /\ api' = Ends(api)
    /\ stage' = "idle"
    /\ \/ UNCHANGED reports
       \/ api = "flush" /\ Tell
    /\ UNCHANGED <<vars, setup, ret, pending, made, readRoom, input, tokens,
                   failure, untold>>

WriterCall ==
    \/ \E n \in Chunks \ {0} : Write(n)
    \/ \E a \in {"flush", "close"} : FlushOrClose(a)

WriterWork ==
    \/ WriterEncodes \/ InnerFails \/ InnerTakesNothing
    \/ \E n \in 1..made : InnerAccepts(n)
    \/ WriterIsRefused \/ WriterGoesOn \/ WriterReturns
=============================================================================
