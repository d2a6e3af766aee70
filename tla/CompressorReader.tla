-------------------------- MODULE CompressorReader --------------------------
(***************************************************************************)
(* CompressorReaderCustomIo (enc/reader.rs): read, which fills the input   *)
(* buffer from an inner reader that may fail or give less than asked for,  *)
(* and goes on until the encoder has put out something.                    *)
(***************************************************************************)
EXTENDS AdapterCalls

CONSTANT Margin     \* 256: when input at the end of the buffer moves up

Read(m) ==
    /\ api = "none" /\ kind = "reader"
    /\ api' = "read"
    /\ stage' = "fetch"
    /\ readRoom' = m
    /\ pending' = inLen - inOff
    /\ NothingTold
    /\ UNCHANGED <<vars, setup, ret, made, input>>

Fetching == kind = "reader" /\ stage = "fetch"
MustFetch == inLen < bufLen /\ ~eof

ReaderFetches(n) ==
    /\ Fetching /\ MustFetch
    /\ given + n <= MaxGiven
    /\ stage' = "encode"
    /\ eof' = (n = 0)
    /\ inLen' = inLen + n
    /\ pending' = IF n = 0 THEN pending ELSE inLen + n - inOff
    /\ given' = given + n
    /\ UNCHANGED <<vars, setup, api, ret, made, readRoom, inOff, faults>>

InnerReadFails ==
    /\ Fetching /\ MustFetch
    /\ Tell
    /\ Return
    /\ UNCHANGED <<vars, setup, ret, pending, made, readRoom, input, tokens,
                   failure, untold>>

FetchesNothing ==
    /\ Fetching /\ ~MustFetch
    /\ stage' = "encode"
    /\ UNCHANGED <<vars, setup, api, ret, pending, made, readRoom, input,
                   faults>>

\* Mutant: the end of the input is not passed on.
ReaderOp_Process == "PROCESS"

ReaderOp == IF pending = 0 THEN "FINISH" ELSE "PROCESS"
ReaderEncodes == kind = "reader" /\ CallEncoder(ReaderOp, pending, readRoom)

\* Mutant: input that ends with the buffer stays there.
MovesUp_NotAtTheEnd(off, avail) ==
    off < bufLen /\ off + Margin > bufLen /\ avail < off

\* copy_to_front, with the offset the encoder left.
MovesUp(off, avail) ==
    off = bufLen \/ (off + Margin > bufLen /\ avail < off)

Returned == kind = "reader" /\ stage = "returned"

\* After compress_stream: the bytes it took are passed over, and an input
\* buffer it has emptied is used from the front again.
ReaderReturned ==
    LET off   == inLen - pending
        front == pending = 0 /\ MovesUp(off, pending)
    IN  /\ Returned
        /\ inOff' = IF front THEN 0 ELSE off
        /\ inLen' = IF front THEN pending ELSE inLen
        /\ IF ~ret THEN RefusedByEncoder
           ELSE /\ UNCHANGED <<tokens, reports>>
                /\ IF IsFinished \/ made # 0 THEN Return
                   ELSE stage' = "fetch" /\ UNCHANGED api
        /\ made' = 0
        /\ UNCHANGED <<vars, setup, ret, pending, readRoom, eof, given,
                       failure, untold>>

ReaderCall == \E m \in Rooms : Read(m)

ReaderWork ==
    \/ \E n \in 0..(bufLen - inLen) : ReaderFetches(n)
    \/ InnerReadFails \/ FetchesNothing \/ ReaderEncodes \/ ReaderReturned
=============================================================================
