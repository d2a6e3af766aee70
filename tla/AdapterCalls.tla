---------------------------- MODULE AdapterCalls ----------------------------
(***************************************************************************)
(* What the three stream adapters of the encoder share: CompressorWriter   *)
(* (enc/writer.rs), CompressorReader (enc/reader.rs) and the loop of       *)
(* BrotliCompressCustomIo (enc/mod.rs).  Each goes round a loop that calls *)
(* compress_stream, one call of EncoderStream.tla, and moves bytes from or *)
(* to an inner reader or writer that may fail or take less than offered.   *)
(***************************************************************************)
EXTENDS EncoderStream

CONSTANTS
    BufLens,        \* lengths of the adapter's own buffer
    MaxGiven        \* bound on the input bytes of a behaviour

ASSUME AdapterAssumption == BufLens \subseteq Nat \ {0} /\ MaxGiven \in Nat

VARIABLES
    kind,       \* "writer", "reader" or "copy"
    bufLen,     \* length of the adapter's own buffer
    api,        \* the call of the adapter that runs
    stage,      \* where it is: "fetch", "encode", "running" or "returned"
    ret,        \* what compress_stream returned
    pending,    \* avail_in: input at hand that the encoder has not taken
    made,       \* output_offset: output at hand that nobody has got
    readRoom,   \* reader: the length of the caller's buffer
    inOff,      \* reader: input_offset
    inLen,      \* reader: input_len
    eof,        \* reader, copy: input_eof
    tokens,     \* writer, reader: the errors not yet taken
    failure,    \* copy: read_err
    given,      \* ghost: input bytes received
    untold,     \* ghost: bytes of the stream dropped without an error for it
    errors,     \* ghost: errors the caller has been told of, at most 2
    told        \* ghost: the call that runs, or the last one, told an error

adapter == <<kind, bufLen, api, stage, ret, pending, made, readRoom, inOff,
             inLen, eof, tokens, failure, given, untold, errors, told>>
allVars == <<vars, adapter>>

\* Of the adapter's variables, those a step of its loop leaves alone unless it
\* fetches input, takes an error or drops output.
setup == <<kind, bufLen>>
input == <<inOff, inLen, eof, given>>
reports == <<errors, told>>
faults == <<tokens, failure, untold, reports>>

InitAdapter(k) ==
    /\ Init
    /\ kind = k
    /\ bufLen \in BufLens
    /\ api = "none"
    /\ stage = "idle"
    /\ ret = TRUE
    /\ pending = 0
    /\ made = 0
    /\ readRoom = 0
    /\ inOff = 0
    /\ inLen = 0
    /\ eof = FALSE
    /\ tokens = {"zero", "invalid"}
    /\ failure = FALSE
    /\ given = 0
    /\ untold = 0
    /\ errors = 0
    /\ told = FALSE

HasMoreOutput == availableOut # 0
IsFinished == streamState = "FINISHED" /\ ~HasMoreOutput

\* The call of compress_stream: refused at once, or run by EncoderStream.
CallEncoder(o, n, m) ==
    /\ stage = "encode"
    /\ IF Refuses(o, n)
       THEN /\ stage' = "returned"
            /\ ret' = FALSE
            /\ UNCHANGED vars
       ELSE /\ CompressStream(o, n, m)
            /\ stage' = "running"
            /\ UNCHANGED ret
    /\ UNCHANGED <<setup, api, pending, made, readRoom, input, faults>>

EncoderRuns ==
    /\ stage = "running"
    /\ Step
    /\ made' = IF pc' = "idle" THEN made ELSE made + room - room'
    /\ stage' = IF pc' = "idle" THEN "returned" ELSE stage
    /\ ret' = IF pc' = "idle" THEN result' = "ok" ELSE ret
    /\ pending' = IF pc' = "idle" THEN availIn' ELSE pending
    /\ UNCHANGED <<setup, api, readRoom, input, faults>>

\* A call of the adapter begins, and has told nothing yet.
NothingTold == told' = FALSE /\ UNCHANGED <<tokens, failure, untold, errors>>

\* The adapter's call returns an error to its caller.
Tell == errors' = Least(errors + 1, 2) /\ told' = TRUE

Return ==
    /\ api' = "none"
    /\ stage' = "idle"

\* self.error_if_invalid_data.take().unwrap()
RefusedByEncoder ==
    IF "invalid" \in tokens
    THEN /\ tokens' = tokens \ {"invalid"}
         /\ Tell
         /\ Return
    ELSE /\ api' = "panic"
         /\ UNCHANGED <<stage, tokens, reports>>
=============================================================================
