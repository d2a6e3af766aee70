---------------------------- MODULE CompressCopy ----------------------------
(***************************************************************************)
(* BrotliCompressCustomIoCustomDict (enc/mod.rs): one call that reads all  *)
(* input, compresses it and writes the stream.  A read that fails ends the *)
(* input; the error is returned when the stream is written.                *)
(***************************************************************************)
EXTENDS AdapterCalls

StartCopy ==
    /\ api = "none" /\ kind = "copy"
    /\ api' = "copy"
    /\ stage' = "fetch"
    /\ NothingTold
    /\ UNCHANGED <<vars, setup, ret, pending, made, readRoom, input>>

CopyFetching == kind = "copy" /\ stage = "fetch"
CopyMustFetch == pending = 0 /\ ~eof

CopyFetches(n) ==
    /\ CopyFetching /\ CopyMustFetch
    /\ given + n <= MaxGiven
    /\ stage' = "encode"
    /\ eof' = (n = 0)
    /\ pending' = n
    /\ given' = given + n
    /\ UNCHANGED <<vars, setup, api, ret, made, readRoom, inOff, inLen,
                   faults>>

CopyReadFails ==
    /\ CopyFetching /\ CopyMustFetch
    /\ stage' = "encode"
    /\ eof' = TRUE
    /\ failure' = TRUE
    /\ UNCHANGED <<vars, setup, api, ret, pending, made, readRoom, inOff,
                   inLen, given, tokens, untold, reports>>

CopyFetchesNothing ==
    /\ CopyFetching /\ ~CopyMustFetch
    /\ stage' = "encode"
    /\ UNCHANGED <<vars, setup, api, ret, pending, made, readRoom, input,
                   faults>>

CopyOp == IF pending = 0 THEN "FINISH" ELSE "PROCESS"
CopyEncodes == kind = "copy" /\ CallEncoder(CopyOp, pending, bufLen - made)

CopyReturned == kind = "copy" /\ stage = "returned"

\* Mutant: the last bytes stay in the buffer.
MustWrite_WhenFull == made = bufLen

MustWrite == made = bufLen \/ IsFinished

\* A writer that takes nothing is asked again: a stuttering step.
CopyWrites(n) ==
    /\ CopyReturned /\ MustWrite
    /\ stage' = IF n = made THEN "written" ELSE "writing"
    /\ made' = made - n
    /\ UNCHANGED <<vars, setup, api, ret, pending, readRoom, input, faults>>

CopyWritesOn(n) ==
    /\ kind = "copy" /\ stage = "writing"
    /\ stage' = IF n = made THEN "written" ELSE "writing"
    /\ made' = made - n
    /\ UNCHANGED <<vars, setup, api, ret, pending, readRoom, input, faults>>

CopyWriteFails ==
    /\ \/ CopyReturned /\ MustWrite /\ made # 0
       \/ kind = "copy" /\ stage = "writing"
    /\ api' = "closed"
    /\ stage' = "idle"
    /\ made' = 0
    /\ Tell
    /\ UNCHANGED <<vars, setup, ret, pending, readRoom, input, tokens,
                   failure, untold>>

\* The end of a round: the whole call ends when the stream has, or when the
\* encoder refused.
CopyRoundEnds ==
    /\ kind = "copy"
    /\ \/ stage = "written"
       \/ stage = "returned" /\ (~MustWrite \/ made = 0)
    /\ IF ~ret \/ IsFinished
       THEN /\ api' = "closed"
            /\ stage' = "idle"
            /\ IF failure \/ ~ret THEN Tell ELSE UNCHANGED reports
       ELSE stage' = "fetch" /\ UNCHANGED <<api, reports>>
    /\ UNCHANGED <<vars, setup, ret, pending, made, readRoom, input, tokens,
                   failure, untold>>

CopyWork ==
    \/ \E n \in 0..bufLen : CopyFetches(n)
    \/ CopyReadFails \/ CopyFetchesNothing \/ CopyEncodes
    \/ \E n \in 1..made : CopyWrites(n) \/ CopyWritesOn(n)
    \/ CopyWriteFails \/ CopyRoundEnds
=============================================================================
