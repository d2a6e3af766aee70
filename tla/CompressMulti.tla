--------------------------- MODULE CompressMulti ----------------------------
(***************************************************************************)
(* CompressMulti (enc/threading/mod.rs): one caller cuts its input into N  *)
(* chunks, spawns the first N - 1, compresses the last one itself, joins   *)
(* the others in order and concatenates what they produced.                *)
(*                                                                         *)
(* The spawner is abstract here: a spawned job holds one reference to the  *)
(* shared input and ends by itself, with a result or, when JobsPanic, with *)
(* a panic that join reports.  That is the spawner of multithreading.rs    *)
(* and, with ViewFails, the ones of threading/test.rs.  PooledCompress.tla *)
(* puts the worker pool in its place.                                      *)
(*                                                                         *)
(* A chunk's compressed bytes are its index; whether they fit the buffer   *)
(* the job allocated is decided per chunk by `fits`.                       *)
(***************************************************************************)
EXTENDS Integers, Sequences

CONSTANTS
    N,              \* alloc_per_thread.len()
    JobsPanic,      \* whether a job may panic
    ViewFails,      \* whether the input's lock may turn out poisoned
    MaxCalls        \* bound on the number of calls

ASSUME NAssumption == N \in Nat \ {0}

VARIABLES
    pc,         \* where the caller is
    next,       \* the loop index
    slot,       \* alloc_per_thread: the variant of each InternalSendAlloc
    last,       \* compression_last_thread_result
    pending,    \* pending_error, with the chunk it is about
    catted,     \* the chunks given to BroCatli, in order
    result,     \* what the call returned
    input,      \* owned_input
    efficient,  \* params.favor_cpu_efficiency of this call
    fits,       \* which chunks' compressed bytes fit their buffer
    calls,      \* how many calls were made
    job,        \* the spawner's side: the state of each chunk's job
    refs        \* the spawner's side: strong count of the shared input

control == <<pc, next, slot, last, pending, catted, result, input, efficient,
             fits, calls>>
spawner == <<job, refs>>
vars == <<control, spawner>>

Chunks == 0..(N - 1)
Last == N - 1
Ok == [error |-> "none", chunk |-> 0]
Error(kind, chunk) == [error |-> kind, chunk |-> chunk]
Failed(outcome) == outcome # Ok

Init ==
    /\ pc = "idle"
    /\ next = 0
    /\ slot = [i \in Chunks |-> "A"]
    /\ last = "none"
    /\ pending = Ok
    /\ catted = <<>>
    /\ result = Ok
    /\ input = "Item"
    /\ efficient = FALSE
    /\ fits = [i \in Chunks |-> TRUE]
    /\ calls = 0
    /\ job = [i \in Chunks |-> "none"]
    /\ refs = 0

(* set_pending_error: the first error is the one reported.                 *)
SetPending(error) == pending' = IF Failed(pending) THEN pending ELSE error

Put(i, variant) == slot' = [slot EXCEPT ![i] = variant]

(* unwrap and replace_with_default of a slot whose allocator is gone.      *)
PanicsAt(where) ==
    /\ pc = where
    /\ pc' = "panicked"
    /\ UNCHANGED <<next, slot, last, pending, catted, result, input, efficient,
                   fits, calls>>

-----------------------------------------------------------------------------
(* Variants of the definitions below, each with one plausible bug, to show *)
(* that the properties can fail.                                           *)

(* A failed setup returns at once and joins nobody.                        *)
SetupFails_ReturnsAtOnce ==
    /\ pc = "hash"
    /\ slot[Last] = "A"
    /\ ViewFails
    /\ pc' = "unwrap"
    /\ result' = Error("OtherThreadPanic", 0)
    /\ UNCHANGED <<next, slot, last, pending, catted, input, efficient, fits,
                   calls>>

(* Chunks after a failed one are still written.                            *)
Absorb_IgnoresPending(i) ==
    /\ Put(i, "A")
    /\ IF fits[i] THEN catted' = Append(catted, i) /\ UNCHANGED pending
       ELSE SetPending(Error("InsufficientOutputSpace", i)) /\ UNCHANGED catted

(* Abandoning handles only slots that were taken.                          *)
AbandonIdle_OnlyTaken ==
    /\ pc = "abandon"
    /\ slot[next] = "SpawningOrJoining"
    /\ next' = next + 1
    /\ pc' = IF next = Last THEN "unwrap" ELSE "abandon"
    /\ UNCHANGED <<slot, last, pending, catted, result, input, efficient, fits,
                   calls>>

-----------------------------------------------------------------------------
(* The caller's own steps.  What the spawner does in them is conjoined in  *)
(* the actions further down, and by PooledCompress.                        *)

Begin ==
    /\ pc = "idle"
    /\ calls < MaxCalls
    /\ input = "Item"                       \* owned_input.unwrap() panics else
    /\ input' = "Borrowed"
    /\ calls' = calls + 1
    /\ efficient' \in BOOLEAN
    /\ fits' \in [Chunks -> BOOLEAN]
    /\ pc' = IF N > 1 THEN "spawn" ELSE "last"
    /\ next' = 0
    /\ pending' = Ok
    /\ catted' = <<>>
    /\ result' = Ok
    /\ last' = "none"
    /\ UNCHANGED slot

(* Chunk 0 is spawned before any hasher is prepared.                       *)
AfterSpawn(i) ==
    IF N > 1 /\ efficient THEN "hash" ELSE IF i = Last THEN "last" ELSE "spawn"

SpawnChunk ==
    /\ pc = "spawn"
    /\ slot[next] = "A"
    /\ Put(next, "Join")
    /\ next' = next + 1
    /\ pc' = AfterSpawn(next + 1)
    /\ UNCHANGED <<last, pending, catted, result, input, efficient, fits,
                   calls>>

(* Store chunk next - 1 in the hasher that chunk next will start from.     *)
(* Before the first time, the hasher is set up in the last slot's          *)
(* allocator, which has to be there.                                       *)
StoreHashes ==
    /\ pc = "hash"
    /\ slot[Last] = "A"
    /\ pc' = IF next = Last THEN "last" ELSE "spawn"
    /\ UNCHANGED <<next, slot, last, pending, catted, result, input, efficient,
                   fits, calls>>

SetupFails ==
    /\ pc = "hash"
    /\ slot[Last] = "A"
    /\ ViewFails
    /\ pc' = "abandon"
    /\ next' = 0
    /\ result' = Error("OtherThreadPanic", 0)
    /\ UNCHANGED <<slot, last, pending, catted, input, efficient, fits, calls>>

(* The last chunk runs here, on an allocator taken out of its slot; when   *)
(* the view fails the allocator is dropped with the closure.               *)
CompressLast ==
    /\ pc = "last"
    /\ slot[Last] = "A"
    /\ Put(Last, "SpawningOrJoining")
    /\ \/ last' = "done"
       \/ ViewFails /\ last' = "error"
    /\ pc' = "join"
    /\ next' = 0
    /\ UNCHANGED <<pending, catted, result, input, efficient, fits, calls>>

BadSlot ==
    \/ PanicsAt("spawn") /\ slot[next] # "A"
    \/ (PanicsAt("hash") \/ PanicsAt("last")) /\ slot[Last] # "A"

Advance ==
    /\ next' = next + 1
    /\ pc' = IF next = Last THEN "finish" ELSE "join"

(* A chunk's result arrived: concatenate it unless something failed        *)
(* before, and put its allocator back in any case.                         *)
Absorb(i) ==
    /\ Put(i, "A")
    /\ \/ /\ ~fits[i]
          /\ SetPending(Error("InsufficientOutputSpace", i))
          /\ UNCHANGED catted
       \/ /\ fits[i] /\ Failed(pending)
          /\ UNCHANGED <<pending, catted>>
       \/ /\ fits[i] /\ ~Failed(pending)
          /\ \/ catted' = Append(catted, i) /\ UNCHANGED pending
             \/ /\ \E kind \in {"InsufficientOutputSpace", "ConcatenationError"} :
                      SetPending(Error(kind, i))
                /\ UNCHANGED catted

(* join() returned the thread's result; the last chunk's is already here.  *)
JoinResult ==
    /\ pc = "join"
    /\ IF next = Last THEN last = "done" ELSE slot[next] = "Join"
    /\ Absorb(next)
    /\ Advance
    /\ UNCHANGED <<last, result, input, efficient, fits, calls>>

(* join() reported a panic: the thread's allocator is lost.                *)
JoinError ==
    /\ pc = "join"
    /\ \/ /\ next = Last /\ last = "error"
          /\ SetPending(Error("OtherThreadPanic", next))
       \/ /\ next # Last /\ slot[next] = "Join"
          /\ SetPending(Error("ThreadExecError", next))
    /\ Put(next, "SpawningOrJoining")
    /\ Advance
    /\ UNCHANGED <<last, catted, result, input, efficient, fits, calls>>

Finish ==
    /\ pc = "finish"
    /\ \/ Failed(pending) /\ result' = pending
       \/ ~Failed(pending) /\ result' = Ok
       \/ ~Failed(pending) /\ result' = Error("ConcatenationFinalizationError", N)
    /\ pc' = "unwrap"
    /\ UNCHANGED <<next, slot, last, pending, catted, input, efficient, fits,
                   calls>>

(* Give the input back; only the last reference can.                       *)
Return(soleOwner) ==
    /\ pc = "unwrap"
    /\ pc' = "idle"
    /\ input' = IF soleOwner THEN "Item" ELSE input
    /\ result' = IF soleOwner \/ Failed(result) THEN result
                 ELSE Error("OtherThreadPanic", N)
    /\ UNCHANGED <<next, slot, last, pending, catted, efficient, fits, calls>>

(* After a failed setup: join whatever was spawned, keep the allocators,   *)
(* discard the results.  Here the last join error is the one reported.     *)
AbandonNext ==
    /\ next' = next + 1
    /\ pc' = IF next = Last THEN "unwrap" ELSE "abandon"

AbandonIdle ==
    /\ pc = "abandon"
    /\ slot[next] # "Join"
    /\ AbandonNext
    /\ UNCHANGED <<slot, last, pending, catted, result, input, efficient, fits,
                   calls>>

AbandonResult ==
    /\ pc = "abandon"
    /\ slot[next] = "Join"
    /\ Put(next, "A")
    /\ AbandonNext
    /\ UNCHANGED <<last, pending, catted, result, input, efficient, fits, calls>>

AbandonError ==
    /\ pc = "abandon"
    /\ slot[next] = "Join"
    /\ Put(next, "SpawningOrJoining")
    /\ result' = Error("ThreadExecError", next)
    /\ AbandonNext
    /\ UNCHANGED <<last, pending, catted, input, efficient, fits, calls>>

-----------------------------------------------------------------------------
(* With the abstract spawner.                                              *)

MakeSpawner == Begin /\ refs' = 1 /\ job' = [i \in Chunks |-> "none"]

Spawn ==
    /\ SpawnChunk
    /\ job' = [job EXCEPT ![next] = "running"]
    /\ refs' = refs + 1

(* The job's clone of the shared input is dropped before join can return.  *)
JobEnds(i) ==
    /\ job[i] = "running"
    /\ \/ job' = [job EXCEPT ![i] = "done"]
       \/ JobsPanic /\ job' = [job EXCEPT ![i] = "panicked"]
    /\ refs' = refs - 1
    /\ UNCHANGED control

JoinReturns ==
    /\ JoinResult
    /\ next = Last \/ job[next] = "done"
    /\ UNCHANGED spawner

JoinFails ==
    /\ JoinError
    /\ next = Last \/ job[next] = "panicked"
    /\ UNCHANGED spawner

AbandonJoins ==
    /\ \/ AbandonIdle
       \/ AbandonResult /\ job[next] = "done"
       \/ AbandonError /\ job[next] = "panicked"
    /\ UNCHANGED spawner

Unwrap == Return(refs = 1) /\ refs' = refs - 1 /\ UNCHANGED job

Alone == (StoreHashes \/ SetupFails \/ CompressLast \/ BadSlot \/ Finish)
            /\ UNCHANGED spawner

Next ==
    \/ MakeSpawner \/ Spawn \/ Alone \/ JoinReturns \/ JoinFails
    \/ AbandonJoins \/ Unwrap
    \/ \E i \in Chunks : JobEnds(i)

Spec == Init /\ [][Next]_vars

(* A call, once made, runs on, and every job ends.                         *)
CallerStep == Spawn \/ Alone \/ JoinReturns \/ JoinFails \/ AbandonJoins
                \/ Unwrap
FairSpec ==
    /\ Spec
    /\ WF_vars(CallerStep)
    /\ \A i \in Chunks : WF_vars(JobEnds(i))

-----------------------------------------------------------------------------
(* Everything comes back: when the call returns, with or without an error, *)
(* no thread is left unjoined and nobody else refers to the input; the     *)
(* caller has its input again; and, after a first call, its allocators but *)
(* those of threads that panicked and of a last chunk whose view failed.   *)
LostChunks == {i \in Chunks : job[i] = "panicked" \/ (i = Last /\ last = "error")}
EverythingComesBack ==
    pc = "idle" =>
        /\ \A i \in Chunks : job[i] # "running" /\ slot[i] # "Join"
        /\ refs = 0
        /\ input = "Item"
        /\ calls = 1 => \A i \in Chunks : slot[i] = "A" <=> i \notin LostChunks

(* Successful output is every chunk once, in the order of the input; and   *)
(* when a chunk fails exactly the chunks before it were written.           *)
OutputIsOrderedPrefix ==
    /\ \A k \in DOMAIN catted : catted[k] = k - 1
    /\ pc = "finish" =>
          Len(catted) = IF Failed(pending) THEN pending.chunk ELSE N

(* Every call returns (or panics on such a slot).                          *)
CallReturns == pc # "idle" ~> pc \in {"idle", "panicked"}
=============================================================================
