----------------------------- MODULE WorkerPool -----------------------------
(***************************************************************************)
(* The worker pool of enc/worker_pool.rs: worker threads, the threads that *)
(* spawn jobs into the pool and join them, one mutex around the WorkQueue  *)
(* and one condition variable that everybody waits on.                     *)
(*                                                                         *)
(* A critical section is one action: the mutex is held from its first to   *)
(* its last line.  What a thread does between two critical sections (run   *)
(* the job, drop it) is an action of its own.  A panic inside a critical   *)
(* section poisons the mutex, and lock().unwrap() panics from then on.     *)
(*                                                                         *)
(* The field `shutdown` is left out: no code sets it.  So is the poisoned  *)
(* RwLock branch of do_work: nobody ever takes its write lock.             *)
(***************************************************************************)
EXTENDS QueueOps, FiniteSets

CONSTANTS
    Workers,        \* the threads WorkerPool::new starts
    Callers,        \* the threads that use the pool and its joinables
    Batches,        \* the inputs that make_spawner wraps in an Arc<RwLock>
    Indices,        \* the values of spawn's argument `index`
    MAX_THREADS,    \* the capacity of jobs and of results
    Limits,         \* how many unjoined jobs the callers allow themselves
    JobsPanic,      \* whether the function a job runs may panic
    MaxWorkIds,     \* bound on cur_work_id
    None            \* no job, no call

ASSUME CapacityAssumption == MAX_THREADS \in Nat \ {0}
ASSUME ThreadsAssumption ==
    /\ IsFiniteSet(Workers)
    /\ IsFiniteSet(Callers)
    /\ Workers \cap Callers = {}
ASSUME BoundsAssumption ==
    /\ MaxWorkIds \in Nat
    /\ Limits \subseteq Nat
    /\ JobsPanic \in BOOLEAN

VARIABLES
    jobs,               \* WorkQueue.jobs
    results,            \* WorkQueue.results
    numInProgress,      \* WorkQueue.num_in_progress
    curWorkId,          \* WorkQueue.cur_work_id
    immediateShutdown,  \* WorkQueue.immediate_shutdown
    poisoned,           \* the mutex is poisoned
    waiting,            \* the threads inside cvar.wait
    pc,                 \* where each thread is
    held,               \* the job a worker popped, until it is delivered
    request,            \* what a caller is spawning: the input and the index
    awaited,            \* the work id a caller is joining
    arc,                \* strong count of the Arc around each batch
    spawners,           \* the batches whose FinalJoinHandle is alive
    joinables,          \* the work ids whose WorkerJoinable is alive
    received,           \* the replies that join returned
    alive,              \* the WorkerPool value has not been dropped
    limit               \* the callers' allowance, one of Limits

queueVars == <<jobs, results, numInProgress, curWorkId, immediateShutdown,
               poisoned>>
clientVars == <<spawners, joinables, received, alive, limit>>
callVars == <<request, awaited>>
vars == <<queueVars, waiting, pc, held, callVars, arc, clientVars>>

Threads == Workers \cup Callers
WorkIds == 0..(MaxWorkIds - 1)
JobRequest == [id : WorkIds, batch : Batches, index : Indices]
JobReply == [id : WorkIds, result : Batches \X Indices]
ASSUME NoneAssumption == None \notin JobRequest

Goto(t, where) == pc' = [pc EXCEPT ![t] = where]
NotifyAll == waiting' = {}
Wait(t) == waiting' = waiting \cup {t}
DropArc(b) == arc' = [arc EXCEPT ![b] = @ - 1]
HoldsNothing(w) == held' = [held EXCEPT ![w] = None]

(* lock() succeeds only outside cvar.wait; its unwrap panics on poison.    *)
Locks(t, where) == pc[t] = where /\ t \notin waiting /\ ~poisoned
PanicsAtLock(t) ==
    /\ poisoned
    /\ t \notin waiting
    /\ Goto(t, "panicked")

Init ==
    /\ jobs = <<>>
    /\ results = <<>>
    /\ numInProgress = 0
    /\ curWorkId = 0
    /\ immediateShutdown = FALSE
    /\ poisoned = FALSE
    /\ waiting = {}
    /\ pc = [t \in Threads |-> IF t \in Workers THEN "lock" ELSE "idle"]
    /\ held = [w \in Workers |-> None]
    /\ request = [c \in Callers |-> None]
    /\ awaited = [c \in Callers |-> None]
    /\ arc = [b \in Batches |-> 0]
    /\ spawners = {}
    /\ joinables = {}
    /\ received = {}
    /\ alive = TRUE
    /\ limit \in Limits

Reply(job) == [id |-> job.id, result |-> <<job.batch, job.index>>]
Matches(id) == FirstMatch(results, LAMBDA reply : reply.id = id)

-----------------------------------------------------------------------------
(* Variants of the actions below, each with one plausible bug.  They show  *)
(* that the properties at the end of the module can fail.                  *)

WorkerPopPicking(w, k, rest, count) ==
    /\ Locks(w, "lock")
    /\ ~immediateShutdown
    /\ jobs # <<>>
    /\ held' = [held EXCEPT ![w] = jobs[k]]
    /\ jobs' = rest
    /\ numInProgress' = count
    /\ NotifyAll
    /\ Goto(w, "run")
    /\ UNCHANGED <<results, curWorkId, immediateShutdown, poisoned, callVars,
                   arc, clientVars>>

(* The newest job is taken: a stack instead of a queue.                    *)
WorkerPop_Newest(w) ==
    WorkerPopPicking(w, Len(jobs), SubSeq(jobs, 1, Len(jobs) - 1),
                     numInProgress + 1)

(* possible_job outlives the delivery of its result.                       *)
WorkerRun_KeepsJob(w) ==
    /\ pc[w] = "run"
    /\ Goto(w, "deliver")
    /\ UNCHANGED <<queueVars, waiting, held, callVars, arc, clientVars>>

WorkerDeliverWith(w, count, wakes) ==
    /\ Locks(w, "deliver")
    /\ Len(results) < MAX_THREADS
    /\ numInProgress' = count
    /\ HoldsNothing(w)
    /\ results' = Append(results, Reply(held[w]))
    /\ IF wakes THEN NotifyAll ELSE UNCHANGED waiting
    /\ Goto(w, "lock")
    /\ UNCHANGED <<jobs, curWorkId, immediateShutdown, poisoned, callVars, arc,
                   clientVars>>

(* num_in_progress -= 1 is forgotten.                                      *)
WorkerDeliver_StillCounted(w) == WorkerDeliverWith(w, numInProgress, TRUE)
(* Nobody is notified of the new result.                                   *)
WorkerDeliver_Silent(w) == WorkerDeliverWith(w, numInProgress - 1, FALSE)

(* join finds its reply but leaves it in the queue.                        *)
JoinTake_Peeks(c) ==
    /\ Locks(c, "join")
    /\ \E k \in Matches(awaited[c]) : received' = received \cup {results[k]}
    /\ Goto(c, "idle")
    /\ awaited' = [awaited EXCEPT ![c] = None]
    /\ UNCHANGED <<queueVars, waiting, held, request, arc, spawners, joinables,
                   alive, limit>>

(* Dropping the pool wakes nobody.                                         *)
DropShutdown_Silent(c) ==
    /\ Locks(c, "drop")
    /\ immediateShutdown' = TRUE
    /\ Goto(c, "reap")
    /\ UNCHANGED <<jobs, results, numInProgress, curWorkId, poisoned, waiting,
                   held, callVars, arc, clientVars>>

-----------------------------------------------------------------------------
(* do_work                                                                 *)

WorkerExit(w) ==
    /\ Locks(w, "lock")
    /\ immediateShutdown
    /\ Goto(w, "exited")
    /\ UNCHANGED <<queueVars, waiting, held, callVars, arc, clientVars>>

WorkerPop(w) ==
    /\ Locks(w, "lock")
    /\ ~immediateShutdown
    /\ jobs # <<>>
    /\ held' = [held EXCEPT ![w] = Head(jobs)]
    /\ jobs' = Tail(jobs)
    /\ numInProgress' = numInProgress + 1
    /\ NotifyAll
    /\ Goto(w, "run")
    /\ UNCHANGED <<results, curWorkId, immediateShutdown, poisoned, callVars, arc,
                   clientVars>>

WorkerWait(w) ==
    /\ Locks(w, "lock")
    /\ ~immediateShutdown
    /\ jobs = <<>>
    /\ Wait(w)
    /\ UNCHANGED <<queueVars, pc, held, callVars, arc, clientVars>>

(* The job function returns, and possible_job, with its clone of the Arc,  *)
(* goes out of scope before the queue is locked again.                     *)
WorkerRun(w) ==
    /\ pc[w] = "run"
    /\ DropArc(held[w].batch)
    /\ Goto(w, "deliver")
    /\ UNCHANGED <<queueVars, waiting, held, callVars, clientVars>>

(* The job function panics: unwinding drops the job and ends the thread;   *)
(* num_in_progress keeps counting the job.                                 *)
WorkerPanic(w) ==
    /\ JobsPanic
    /\ pc[w] = "run"
    /\ DropArc(held[w].batch)
    /\ HoldsNothing(w)
    /\ Goto(w, "panicked")
    /\ UNCHANGED <<queueVars, waiting, callVars, clientVars>>

WorkerDeliver(w) ==
    /\ Locks(w, "deliver")
    /\ numInProgress' = numInProgress - 1
    /\ HoldsNothing(w)
    /\ \/ /\ Len(results) < MAX_THREADS
          /\ results' = Append(results, Reply(held[w]))
          /\ NotifyAll
          /\ Goto(w, "lock")
          /\ UNCHANGED poisoned
       \/ /\ Len(results) = MAX_THREADS      \* push(ret).unwrap() panics
          /\ poisoned' = TRUE
          /\ Goto(w, "panicked")
          /\ UNCHANGED <<results, waiting>>
    /\ UNCHANGED <<jobs, curWorkId, immediateShutdown, callVars, arc, clientVars>>

WorkerFindsPoison(w) ==
    /\ pc[w] \in {"lock", "deliver"}
    /\ PanicsAtLock(w)
    /\ HoldsNothing(w)
    /\ UNCHANGED <<queueVars, waiting, callVars, arc, clientVars>>

WorkerStep(w) ==
    \/ WorkerExit(w) \/ WorkerPop(w) \/ WorkerWait(w) \/ WorkerRun(w)
    \/ WorkerPanic(w) \/ WorkerDeliver(w) \/ WorkerFindsPoison(w)

-----------------------------------------------------------------------------
(* The callers.  make_spawner, spawn and drop take the pool by &mut: one   *)
(* caller at a time.  A WorkerJoinable can be joined by any thread, once.  *)

Idle(c) == pc[c] = "idle"
PoolIsFree == alive /\ \A c \in Callers : pc[c] # "spawn"
Joining == {c \in Callers : pc[c] = "join"}
Outstanding == Cardinality(joinables) + Cardinality(Joining)

MakeSpawner(c, b) ==
    /\ Idle(c)
    /\ PoolIsFree
    /\ arc[b] = 0
    /\ arc' = [arc EXCEPT ![b] = 1]
    /\ spawners' = spawners \cup {b}
    /\ UNCHANGED <<queueVars, waiting, pc, held, callVars, joinables, received,
                   alive, limit>>

(* Arc::try_unwrap: the input comes back only from the last reference.     *)
(* Either way the caller's own reference is gone.                          *)
UnwrapSucceeds(b) == arc[b] = 1
Unwrap(c, b) ==
    /\ Idle(c)
    /\ b \in spawners
    /\ spawners' = spawners \ {b}
    /\ DropArc(b)
    /\ UNCHANGED <<queueVars, waiting, pc, held, callVars, joinables, received,
                   alive, limit>>

CallSpawn(c, b, i) ==
    /\ Idle(c)
    /\ PoolIsFree
    /\ b \in spawners
    /\ Outstanding < limit
    /\ curWorkId < MaxWorkIds
    /\ Goto(c, "spawn")
    /\ request' = [request EXCEPT ![c] = [batch |-> b, index |-> i]]
    /\ UNCHANGED <<queueVars, waiting, held, awaited, arc, clientVars>>

Room_AsInPushJob == Len(jobs) + numInProgress + Len(results) < MAX_THREADS
Room == Len(jobs) + numInProgress + Len(results) <= MAX_THREADS

SpawnPush(c) ==
    /\ Locks(c, "spawn")
    /\ Room
    /\ curWorkId' = curWorkId + 1
    /\ \/ /\ Len(jobs) < MAX_THREADS
          /\ jobs' = Append(jobs, [id |-> curWorkId,
                                   batch |-> request[c].batch,
                                   index |-> request[c].index])
          /\ arc' = [arc EXCEPT ![request[c].batch] = @ + 1]
          /\ joinables' = joinables \cup {curWorkId}
          /\ NotifyAll
          /\ Goto(c, "idle")
          /\ request' = [request EXCEPT ![c] = None]
          /\ UNCHANGED poisoned
       \/ /\ Len(jobs) = MAX_THREADS          \* push(..).unwrap() panics
          /\ poisoned' = TRUE
          /\ Goto(c, "panicked")
          /\ UNCHANGED <<jobs, arc, joinables, waiting, request>>
    /\ UNCHANGED <<results, numInProgress, immediateShutdown, held, awaited,
                   spawners, received, alive, limit>>

SpawnWait(c) ==
    /\ Locks(c, "spawn")
    /\ ~Room
    /\ Wait(c)
    /\ UNCHANGED <<queueVars, pc, held, callVars, arc, clientVars>>

CallJoin(c, id) ==
    /\ Idle(c)
    /\ id \in joinables
    /\ joinables' = joinables \ {id}
    /\ Goto(c, "join")
    /\ awaited' = [awaited EXCEPT ![c] = id]
    /\ UNCHANGED <<queueVars, waiting, held, request, arc, spawners, received, alive,
                   limit>>

JoinTake(c) ==
    /\ Locks(c, "join")
    /\ \E k \in Matches(awaited[c]) :
          /\ received' = received \cup {results[k]}
          /\ results' = SwapRemove(results, k)
    /\ Goto(c, "idle")
    /\ awaited' = [awaited EXCEPT ![c] = None]
    /\ UNCHANGED <<jobs, numInProgress, curWorkId, immediateShutdown, poisoned,
                   waiting, held, request, arc, spawners, joinables, alive,
                   limit>>

JoinWait(c) ==
    /\ Locks(c, "join")
    /\ Matches(awaited[c]) = {}
    /\ Wait(c)
    /\ UNCHANGED <<queueVars, pc, held, callVars, arc, clientVars>>

CallDrop(c) ==
    /\ Idle(c)
    /\ PoolIsFree
    /\ alive' = FALSE
    /\ Goto(c, "drop")
    /\ UNCHANGED <<queueVars, waiting, held, callVars, arc, spawners, joinables,
                   received, limit>>

DropShutdown(c) ==
    /\ Locks(c, "drop")
    /\ immediateShutdown' = TRUE
    /\ NotifyAll
    /\ Goto(c, "reap")
    /\ UNCHANGED <<jobs, results, numInProgress, curWorkId, poisoned, held,
                   callVars, arc, clientVars>>

(* th.join().unwrap() for each worker: panics at one that panicked.        *)
DropReap(c) ==
    /\ pc[c] = "reap"
    /\ \/ /\ \A w \in Workers : pc[w] = "exited"
          /\ Goto(c, "idle")
       \/ /\ \E w \in Workers : pc[w] = "panicked"
          /\ Goto(c, "panicked")
    /\ UNCHANGED <<queueVars, waiting, held, callVars, arc, clientVars>>

CallerFindsPoison(c) ==
    /\ pc[c] \in {"spawn", "join", "drop"}
    /\ PanicsAtLock(c)
    /\ UNCHANGED <<queueVars, waiting, held, callVars, arc, clientVars>>

(* What a caller does next is its own choice; a call, once made, runs on.  *)
CallerCalls(c) ==
    \/ \E b \in Batches :
          \/ MakeSpawner(c, b)
          \/ Unwrap(c, b)
          \/ \E i \in Indices : CallSpawn(c, b, i)
    \/ \E id \in joinables : CallJoin(c, id)
    \/ CallDrop(c)

CallerStep(c) ==
    \/ SpawnPush(c) \/ SpawnWait(c) \/ JoinTake(c) \/ JoinWait(c)
    \/ DropShutdown(c) \/ DropReap(c) \/ CallerFindsPoison(c)

(* Condition variables may wake a thread that nobody notified.             *)
SpuriousWake(t) ==
    /\ t \in waiting
    /\ waiting' = waiting \ {t}
    /\ UNCHANGED <<queueVars, pc, held, callVars, arc, clientVars>>

Next ==
    \/ \E w \in Workers : WorkerStep(w)
    \/ \E c \in Callers : CallerCalls(c) \/ CallerStep(c)
    \/ \E t \in Threads : SpuriousWake(t)

Spec == Init /\ [][Next]_vars

(* The scheduler runs every thread that can run, and a job function ends.  *)
(* Callers need not make calls, and nobody may count on a spurious wakeup. *)
Fairness ==
    /\ \A w \in Workers : WF_vars(WorkerStep(w))
    /\ \A c \in Callers : WF_vars(CallerStep(c))

FairSpec == Spec /\ Fairness

-----------------------------------------------------------------------------
TypeOK ==
    /\ jobs \in Seq(JobRequest)
    /\ results \in Seq(JobReply)
    /\ numInProgress \in Nat
    /\ curWorkId \in 0..MaxWorkIds
    /\ immediateShutdown \in BOOLEAN
    /\ poisoned \in BOOLEAN
    /\ waiting \subseteq Threads
    /\ pc \in [Threads -> {"lock", "run", "deliver", "exited", "idle",
                           "spawn", "join", "drop", "reap", "panicked"}]
    /\ held \in [Workers -> JobRequest \cup {None}]
    /\ request \in [Callers -> [batch : Batches, index : Indices] \cup {None}]
    /\ awaited \in [Callers -> WorkIds \cup {None}]
    /\ arc \in [Batches -> Int]
    /\ spawners \subseteq Batches
    /\ joinables \subseteq WorkIds
    /\ received \subseteq JobReply
    /\ alive \in BOOLEAN
    /\ limit \in Limits

(* No push into a queue fails, so no unwrap panics under the lock and the  *)
(* mutex is never poisoned, as long as the callers never hold more         *)
(* unjoined jobs than the queues have slots.                               *)
PushesFit == limit <= MAX_THREADS => ~poisoned

(* The work ids whose result a caller still expects.                       *)
Unjoined == joinables \cup {awaited[c] : c \in Joining}

(* Where the pool keeps a job, and then its reply.                         *)
QueuedAs(id) == {k \in DOMAIN jobs : jobs[k].id = id}
HeldBy(id) == {w \in Workers : held[w] # None /\ held[w].id = id}
RepliedAs(id) == {k \in DOMAIN results : results[k].id = id}
Panicked == \E t \in Threads : pc[t] = "panicked"

(* The three counts that spawn adds up to see whether there is room are,   *)
(* together, the number of unjoined jobs, even after a job panicked.       *)
OccupancyIsExact ==
    ~poisoned => Len(jobs) + numInProgress + Len(results) = Outstanding

(* No push fails at all, whatever the callers do: the .unwrap() of spawn   *)
(* and of do_work say so, and spawn waits when it sees no room.            *)
PushesAlwaysFit == ~poisoned

(* When every job spawned on an input has been joined, the caller holds    *)
(* the only reference to it: try_unwrap returns the input, not an error.   *)
(* (The comment in do_work says why the job is dropped before delivery.)   *)
UnjoinedOn(b) ==
    {id \in Unjoined :
        \/ \E k \in QueuedAs(id) : jobs[k].batch = b
        \/ \E w \in HeldBy(id) : held[w].batch = b
        \/ \E k \in RepliedAs(id) : results[k].result[1] = b}
SoleOwnerAfterJoins ==
    ~poisoned => \A b \in spawners : UnjoinedOn(b) = {} => UnwrapSucceeds(b)

(* The pool implements JobService: jobs start in the order they were       *)
(* spawned, none runs twice, and a result is joined once, after the run.   *)
Status(id) ==
    CASE id >= curWorkId -> "new"
      [] QueuedAs(id) # {} -> "queued"
      [] HeldBy(id) # {} -> "running"
      [] RepliedAs(id) # {} -> "done"
      [] \E reply \in received : reply.id = id -> "taken"
      [] OTHER -> "lost"
Service == INSTANCE JobService WITH status <- [id \in WorkIds |-> Status(id)]
ImplementsJobService == Service!Spec

(* A caller that joins gets its result, as long as the pool is not dropped *)
(* and no job or push panics: no notification is lost between a deliver    *)
(* and a join, whoever else it wakes.                                      *)
JoinReturns ==
    \A c \in Callers : pc[c] = "join" ~> (pc[c] = "idle" \/ ~alive \/ Panicked)

(* A caller that waits in spawn for room gets it, although join, which     *)
(* frees the room, notifies nobody: whenever a join frees room a job is    *)
(* still to be delivered, and that delivery wakes the caller.  If nobody   *)
(* joins, the queue of results overflows and a push panics.                *)
SpawnReturns ==
    \A c \in Callers : pc[c] = "spawn" ~> (pc[c] = "idle" \/ Panicked)

(* Dropping the pool ends: every worker leaves its loop and is joined, or  *)
(* one had panicked and so does the caller.                                *)
DropReturns ==
    \A c \in Callers : pc[c] \in {"drop", "reap"} ~> pc[c] \in {"idle", "panicked"}
=============================================================================
