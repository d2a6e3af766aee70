--------------------------- MODULE StreamAdapters ---------------------------
(***************************************************************************)
(* One adapter of any of the three kinds over one encoder, its caller and  *)
(* the inner reader or writer, and what the caller may rely on.            *)
(***************************************************************************)
EXTENDS CompressorWriter, CompressorReader, CompressCopy

InitAll == \E k \in {"writer", "reader", "copy"} : InitAdapter(k)

Calls == WriterCall \/ ReaderCall \/ StartCopy
Work == EncoderRuns \/ WriterWork \/ ReaderWork \/ CopyWork
NextAll == Calls \/ Work

\* An adapter's thread runs on, and an inner writer does not answer 0 for
\* ever to BrotliCompressCustomIo.
AdapterSpec == InitAll /\ [][NextAll]_allVars /\ WF_allVars(Work)
-----------------------------------------------------------------------------
\* Properties

\* Output an inner writer did not take is dropped, and the call that drops
\* it returns an error, with two exceptions: a close, which has no result,
\* and a writer that takes nothing for the third time.  The two errors made
\* for that in advance are used up, the caller was told both, and write_all
\* takes the output for written.
LossIsTold ==
    untold # 0 => \/ api \in {"close", "closed"}
                  \/ kind = "writer" /\ tokens = {} /\ errors = 2

\* Whatever failed before, a flush that returns no error has put out all
\* input it was given, on a byte boundary; and a reader whose stream has
\* ended, a copy without an error and a writer that closed without dropping
\* anything have delivered a complete stream of all the input there was.
SuccessMeansAll ==
    /\ kind = "writer" /\ api = "none" /\ op = "FLUSH" /\ ~told =>
          backlog = 0 /\ owed = 0 /\ made = 0
    /\ \/ kind = "reader" /\ api = "none" /\ IsFinished
       \/ api = "closed" /\ ~told /\ untold = 0
       => /\ IsFinished
          /\ backlog = 0 /\ owed = 0 /\ made = 0 /\ pending = 0
          /\ kind # "writer" => eof

\* The stream is ended only after the inner reader has said that there is no
\* more, and when the encoder has taken all that was read: an input buffer
\* that is full or empty is not the end of the input.
FinishOnlyAtEnd ==
    kind # "writer" /\ op = "FINISH" => eof /\ availIn = 0 /\ inOff = inLen

\* reader.rs, mod.rs: the encoder never refuses what these adapters ask for.
\* A writer's flush and close are not refused either.  A write is in one
\* case: a flush has failed, and left the encoder with output of that flush.
\* The writer's caller is told so once; it panics on
\* error_if_invalid_data.take().unwrap() when that error was used before.
EncoderAccepts ==
    /\ pc # "panic"
    /\ stage = "returned" /\ ~ret =>
          /\ kind = "writer" /\ api \in {"write", "panic"} /\ pending # 0
          /\ streamState = "FLUSH_REQUESTED" /\ availableOut # 0
          /\ errors # 0
    /\ api = "panic" =>
          stage = "returned" /\ ~ret /\ errors = 2 /\ "invalid" \notin tokens

\* enc/test.rs: a writer can be closed, and every call of it returns, over an
\* inner writer that takes nothing; a read into a buffer that has room and a
\* whole compression return, too.
AdapterReturns ==
    (api # "none" /\ ~(api = "read" /\ readRoom = 0))
        ~> (api \in {"none", "closed", "panic"})
=============================================================================
