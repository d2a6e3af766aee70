--------------------------- MODULE PooledCompress ---------------------------
(***************************************************************************)
(* compress_worker_pool (enc/worker_pool.rs): CompressMulti with the worker*)
(* pool as its spawner, called several times on the same pool, which is    *)
(* then dropped.  The steps of the two modules are conjoined wherever      *)
(* CompressMulti calls the pool; the pool's threads run in between.        *)
(*                                                                         *)
(* The pool's view never fails and its join never reports an error, so the *)
(* branches of CompressMulti for those are not taken here.                 *)
(***************************************************************************)
EXTENDS WorkerPool

CONSTANTS
    N,              \* alloc_per_thread.len()
    MaxCalls,       \* bound on the number of calls
    main,           \* the calling thread
    shared          \* the Arc around (input, params)

VARIABLES
    where,          \* CompressMulti's pc; the others have their names there
    next, slot, last, pending, catted, result, input, efficient, fits, calls,
    ticket          \* the work_id in each slot's WorkerJoinable

control == <<where, next, slot, last, pending, catted, result, input,
             efficient, fits, calls>>

(* The job of chunk i, as CompressMulti sees it: it is over once the       *)
(* worker has dropped it, before its reply can be joined.                  *)
Running(id) ==
    \/ QueuedAs(id) # {}
    \/ \E w \in HeldBy(id) : pc[w] = "run"
JobState ==
    [i \in 0..(N - 1) |->
        IF ticket[i] = None THEN "none"
        ELSE IF Running(ticket[i]) THEN "running" ELSE "done"]

Multi == INSTANCE CompressMulti
            WITH pc <- where, job <- JobState, refs <- arc[shared],
                 JobsPanic <- FALSE, ViewFails <- FALSE

Chunks == Multi!Chunks

(* spawn's assert!(num_threads <= MAX_THREADS), and one caller.            *)
ASSUME CallerAssumption ==
    /\ N \in 1..MAX_THREADS
    /\ None \notin WorkIds
    /\ Callers = {main}
    /\ shared \in Batches
    /\ \A i \in 0..(N - 1) : i \in Indices
    /\ MaxWorkIds >= MaxCalls * (N - 1)
    /\ \A l \in Limits : l >= N

allVars == <<vars, control, ticket>>

InitAll ==
    /\ Init
    /\ ticket = [i \in Chunks |-> None]
    /\ Multi!Init

Stay == UNCHANGED <<control, ticket>>

Begin ==
    /\ Multi!Begin
    /\ MakeSpawner(main, shared)
    /\ ticket' = [i \in Chunks |-> None]

EnterSpawn ==
    /\ where = "spawn"
    /\ slot[next] = "A"
    /\ CallSpawn(main, shared, next)
    /\ Stay

Spawned ==
    /\ SpawnPush(main)
    /\ Multi!SpawnChunk
    /\ ticket' = [ticket EXCEPT ![next] = curWorkId]

OwnStep ==
    /\ \/ Multi!StoreHashes \/ Multi!CompressLast \/ Multi!Finish
       \/ next = N - 1 /\ Multi!JoinResult
    /\ UNCHANGED <<vars, ticket>>

EnterJoin ==
    /\ where = "join"
    /\ next < N - 1
    /\ slot[next] = "Join"
    /\ CallJoin(main, ticket[next])
    /\ Stay

Joined ==
    /\ JoinTake(main)
    /\ Multi!JoinResult
    /\ UNCHANGED ticket

Give ==
    /\ Multi!Return(UnwrapSucceeds(shared))
    /\ Unwrap(main, shared)
    /\ UNCHANGED ticket

DropPool ==
    /\ where = "idle"
    /\ CallDrop(main)
    /\ Stay

(* SpawnWait is absent: N - 1 jobs never fill the pool.                    *)
PoolStep ==
    /\ \/ \E w \in Workers : WorkerStep(w)
       \/ JoinWait(main)
       \/ DropShutdown(main) \/ DropReap(main)
       \/ \E t \in Threads : SpuriousWake(t)
    /\ Stay

NextAll ==
    \/ Begin \/ EnterSpawn \/ Spawned \/ OwnStep \/ EnterJoin \/ Joined
    \/ Give \/ DropPool \/ PoolStep

(* Only beginning a call and dropping the pool are the caller's choice.    *)
MainStep ==
    \/ EnterSpawn \/ Spawned \/ OwnStep \/ EnterJoin \/ Joined \/ Give
    \/ (JoinWait(main) \/ DropShutdown(main) \/ DropReap(main)) /\ Stay

SpecAll ==
    /\ InitAll
    /\ [][NextAll]_allVars
    /\ WF_allVars(MainStep)
    /\ \A w \in Workers : WF_allVars(WorkerStep(w) /\ Stay)

-----------------------------------------------------------------------------
(* The pool as a spawner is the abstract spawner of CompressMulti: all     *)
(* that is checked of CompressMulti there holds with the pool in place.    *)
ImplementsCompressMulti == Multi!Spec

(* Every call returns: no wait of the caller for one of its threads is     *)
(* forgotten by the pool, in the first call or in one on a used pool.      *)
CallReturns == where # "idle" ~> where = "idle"

=============================================================================
