-------------------------- MODULE WorkerPoolProofs --------------------------
(***************************************************************************)
(* Proofs about WorkerPool, for any number of workers, callers, inputs and *)
(* slots:                                                                  *)
(*   TypeCorrect          Spec => []TypeOK                                 *)
(*   OccupancyCorrect     Spec => []OccupancyIsExact                       *)
(*   PushesNeverFail      Spec => []PushesFit                              *)
(*   Implementation       Spec => Service!Spec                             *)
(*   SoleOwnership        Spec => []SoleOwnerAfterJoins                    *)
(* The argument has four layers.  Shape gives every variable its type and  *)
(* every thread the arguments its pc calls for.  Counts relates the        *)
(* lengths of the queues to the callers' handles: it is what makes         *)
(* PushesFit inductive.  Placed says that a work id is in one place at a   *)
(* time and that the queue is in the order of the ids.  Owned counts the   *)
(* references to an input by the jobs that still use it.                   *)
(***************************************************************************)
EXTENDS WorkerPool, FiniteSetTheorems, SequenceTheorems, TLAPS

-----------------------------------------------------------------------------
(* What the proofs need of SwapRemove (QueueOps).                            *)

(* remove keeps the elements in the queue's type and takes out one.        *)
LEMMA SwapRemoveProperties ==
    ASSUME NEW S, NEW q \in Seq(S), NEW i \in DOMAIN q
    PROVE  SwapRemove(q, i) \in Seq(S) /\ Len(SwapRemove(q, i)) = Len(q) - 1
<1>1. i \in 1..Len(q) /\ q # <<>>
  OBVIOUS
<1>2. Head(q) \in S
  BY <1>1, HeadTailProperties
<1> DEFINE r == [q EXCEPT ![i] = Head(q)]
<1>3. r \in Seq(S) /\ Len(r) = Len(q)
  BY <1>1, <1>2, ExceptSeq
<1>4. r # <<>>
  BY <1>1, <1>3
<1> QED
  BY <1>3, <1>4, HeadTailProperties DEF SwapRemove

(* The head stands in the hole, and what was behind it moves up.           *)
LEMMA SwapRemoveElements ==
    ASSUME NEW S, NEW q \in Seq(S), NEW i \in DOMAIN q
    PROVE  \A j \in 1..(Len(q) - 1) :
              SwapRemove(q, i)[j] = IF j + 1 = i THEN q[1] ELSE q[j + 1]
<1>1. i \in 1..Len(q) /\ q # <<>> /\ Head(q) = q[1] /\ Head(q) \in S
  BY HeadTailProperties
<1> DEFINE r == [q EXCEPT ![i] = Head(q)]
<1>2. /\ r \in Seq(S) /\ Len(r) = Len(q)
      /\ \A j \in 1..Len(q) : r[j] = IF j = i THEN q[1] ELSE q[j]
  BY <1>1, ExceptSeq
<1>3. r # <<>>
  BY <1>1, <1>2
<1> HIDE DEF r
<1>4. Len(Tail(r)) = Len(q) - 1
      /\ \A j \in 1..(Len(q) - 1) : Tail(r)[j] = r[j + 1]
  BY <1>2, <1>3, HeadTailProperties
<1>5. SwapRemove(q, i) = Tail(r)
  BY DEF r, SwapRemove
<1> QED
  BY <1>1, <1>2, <1>4, <1>5

-----------------------------------------------------------------------------

WorkerPlaces == {"lock", "run", "deliver", "exited", "panicked"}
CallerPlaces == {"idle", "spawn", "join", "drop", "reap", "panicked"}
Request == [batch : Batches, index : Indices]

(* TypeOK, with num_in_progress only an integer, and the arguments.        *)
Typed ==
    /\ jobs \in Seq(JobRequest)
    /\ results \in Seq(JobReply)
    /\ numInProgress \in Int
    /\ curWorkId \in 0..MaxWorkIds
    /\ immediateShutdown \in BOOLEAN
    /\ poisoned \in BOOLEAN
    /\ waiting \subseteq Threads
    /\ pc \in [Threads -> WorkerPlaces \cup CallerPlaces]
    /\ held \in [Workers -> JobRequest \cup {None}]
    /\ request \in [Callers -> Request \cup {None}]
    /\ awaited \in [Callers -> WorkIds \cup {None}]
    /\ arc \in [Batches -> Int]
    /\ spawners \subseteq Batches
    /\ received \subseteq JobReply
    /\ alive \in BOOLEAN
    /\ limit \in Limits

PlacesOfThreads ==
    /\ \A w \in Workers : pc[w] \in WorkerPlaces
    /\ \A c \in Callers : pc[c] \in CallerPlaces

Arguments ==
    /\ \A w \in Workers : pc[w] \in {"run", "deliver"} => held[w] \in JobRequest
    /\ \A c \in Callers : pc[c] = "spawn" => request[c] \in Request
    /\ \A c \in Callers : pc[c] = "join" => awaited[c] \in WorkIds

(* The handles given out are of jobs already spawned, and at most one      *)
(* caller is inside spawn.                                                 *)
Handles ==
    /\ joinables \subseteq 0..(curWorkId - 1)
    /\ \A c, d \in Callers : pc[c] = "spawn" /\ pc[d] = "spawn" => c = d
    /\ \A c \in Callers : pc[c] = "spawn" => curWorkId < MaxWorkIds

Shape == Typed /\ PlacesOfThreads /\ Arguments /\ Handles

LEMMA ShapeInit == Init => Shape
<1> SUFFICES ASSUME Init PROVE Shape
  OBVIOUS
<1> USE ThreadsAssumption, BoundsAssumption
    DEF Threads, WorkerPlaces, CallerPlaces
<1>1. Typed
  <2>1. jobs \in Seq(JobRequest) /\ results \in Seq(JobReply)
    BY DEF Init
  <2>2. /\ pc \in [Workers \cup Callers -> WorkerPlaces \cup CallerPlaces]
        /\ held \in [Workers -> JobRequest \cup {None}]
        /\ request \in [Callers -> Request \cup {None}]
        /\ awaited \in [Callers -> WorkIds \cup {None}]
        /\ arc \in [Batches -> Int]
    BY DEF Init
  <2>3. /\ numInProgress \in Int /\ curWorkId \in 0..MaxWorkIds
        /\ limit \in Limits
    BY DEF Init
  <2>5. /\ immediateShutdown \in BOOLEAN /\ poisoned \in BOOLEAN
        /\ alive \in BOOLEAN
    BY DEF Init
  <2>4. /\ waiting \subseteq Workers \cup Callers
        /\ spawners \subseteq Batches /\ received \subseteq JobReply
    BY DEF Init
  <2> QED
    BY <2>1, <2>2, <2>3, <2>4, <2>5 DEF Typed
<1>2. /\ \A w \in Workers : pc[w] = "lock"
      /\ \A c \in Callers : pc[c] = "idle"
      /\ joinables = {} /\ curWorkId = 0
  BY DEF Init
<1>3. PlacesOfThreads /\ Arguments /\ Handles
  BY <1>2 DEF PlacesOfThreads, Arguments, Handles
<1> QED
  BY <1>1, <1>3 DEF Shape

USE DEF Shape, Threads, WorkerPlaces, CallerPlaces, Request, queueVars,
        clientVars, callVars

LEMMA ShapeWorker ==
    ASSUME Shape, NEW w \in Workers, WorkerStep(w)
    PROVE  Shape'
<1> USE ThreadsAssumption, BoundsAssumption DEF Typed, PlacesOfThreads, Arguments,
        Handles, Goto, Wait, NotifyAll, DropArc, HoldsNothing, Locks
<1>1. CASE WorkerExit(w)
  BY <1>1 DEF WorkerExit
<1>2. CASE WorkerPop(w)
  BY <1>2, HeadTailProperties DEF WorkerPop
<1>3. CASE WorkerWait(w)
  BY <1>3 DEF WorkerWait
<1>4. CASE WorkerRun(w)
  BY <1>4 DEF WorkerRun, JobRequest
<1>5. CASE WorkerPanic(w)
  BY <1>5 DEF WorkerPanic, JobRequest
<1>6. CASE WorkerDeliver(w)
  <2>1. Reply(held[w]) \in JobReply
    BY <1>6 DEF WorkerDeliver, Reply, JobReply, JobRequest
  <2>2. results' \in Seq(JobReply)
    <3>1. CASE results' = Append(results, Reply(held[w]))
      BY <2>1, <3>1, AppendProperties
    <3>2. CASE results' = results
      BY <3>2
    <3> QED
      BY <1>6, <3>1, <3>2 DEF WorkerDeliver
  <2>3. pc' = [pc EXCEPT ![w] = "lock"] \/ pc' = [pc EXCEPT ![w] = "panicked"]
    BY <1>6 DEF WorkerDeliver
  <2>4. /\ numInProgress' \in Int
        /\ held' \in [Workers -> JobRequest \cup {None}]
        /\ UNCHANGED <<jobs, curWorkId, immediateShutdown, callVars, arc,
                       clientVars>>
    BY <1>6 DEF WorkerDeliver
  <2>6. poisoned' \in BOOLEAN /\ waiting' \subseteq Threads
    BY <1>6 DEF WorkerDeliver
  <2>5. pc[w] = "deliver" /\ \A v \in Workers \ {w} : held'[v] = held[v]
    BY <1>6 DEF WorkerDeliver
  <2> QED
    BY <2>2, <2>3, <2>4, <2>5, <2>6
<1>7. CASE WorkerFindsPoison(w)
  BY <1>7 DEF WorkerFindsPoison, PanicsAtLock
<1> QED
  BY <1>1, <1>2, <1>3, <1>4, <1>5, <1>6, <1>7 DEF WorkerStep

LEMMA ShapeCallerCalls ==
    ASSUME Shape, NEW c \in Callers, CallerCalls(c)
    PROVE  Shape'
<1> USE ThreadsAssumption, BoundsAssumption DEF Typed, PlacesOfThreads, Arguments,
        Handles, Goto, DropArc, Idle, PoolIsFree
<1>1. ASSUME NEW b \in Batches, MakeSpawner(c, b)
      PROVE  Shape'
  BY <1>1 DEF MakeSpawner
<1>2. ASSUME NEW b \in Batches, Unwrap(c, b)
      PROVE  Shape'
  BY <1>2 DEF Unwrap
<1>3. ASSUME NEW b \in Batches, NEW i \in Indices, CallSpawn(c, b, i)
      PROVE  Shape'
  BY <1>3 DEF CallSpawn
<1>4. ASSUME NEW id \in joinables, CallJoin(c, id)
      PROVE  Shape'
  BY <1>4 DEF CallJoin, WorkIds
<1>5. CASE CallDrop(c)
  BY <1>5 DEF CallDrop
<1> QED
  BY <1>1, <1>2, <1>3, <1>4, <1>5 DEF CallerCalls

LEMMA ShapeCallerStep ==
    ASSUME Shape, NEW c \in Callers, CallerStep(c)
    PROVE  Shape'
<1> USE ThreadsAssumption, BoundsAssumption DEF Typed, PlacesOfThreads, Arguments,
        Handles, Goto, Wait, NotifyAll, Locks
<1>1. CASE SpawnPush(c)
  <2> DEFINE job == [id |-> curWorkId, batch |-> request[c].batch,
                     index |-> request[c].index]
  <2>1. job \in JobRequest /\ request[c].batch \in Batches
    BY <1>1 DEF SpawnPush, JobRequest, WorkIds
  <2>2. curWorkId \in WorkIds /\ curWorkId' = curWorkId + 1
    BY <1>1 DEF SpawnPush, WorkIds
  <2>5. /\ UNCHANGED <<results, numInProgress, immediateShutdown, held,
                       awaited, spawners, received, alive, limit>>
        /\ pc[c] = "spawn" /\ curWorkId + 1 \in 0..MaxWorkIds
    BY <1>1 DEF SpawnPush
  <2>3. CASE Len(jobs) < MAX_THREADS
    <3>1. Append(jobs, job) \in Seq(JobRequest)
      BY <2>1, AppendProperties
    <3>2. arc' \in [Batches -> Int]
      BY <1>1, <2>1, <2>3 DEF SpawnPush
    <3>3. /\ jobs' = Append(jobs, job) /\ pc' = [pc EXCEPT ![c] = "idle"]
          /\ request' = [request EXCEPT ![c] = None]
          /\ joinables' = joinables \cup {curWorkId} /\ waiting' = {}
          /\ UNCHANGED poisoned
      BY <1>1, <2>3, CapacityAssumption DEF SpawnPush
    <3> QED
      BY <2>2, <2>5, <3>1, <3>2, <3>3
  <2>4. CASE ~(Len(jobs) < MAX_THREADS)
    <3>1. /\ pc' = [pc EXCEPT ![c] = "panicked"] /\ poisoned' = TRUE
          /\ UNCHANGED <<jobs, arc, joinables, waiting, request>>
      BY <1>1, <2>4 DEF SpawnPush
    <3> QED
      BY <2>2, <2>5, <3>1
  <2> QED
    BY <2>3, <2>4
<1>2. CASE SpawnWait(c)
  BY <1>2 DEF SpawnWait
<1>3. CASE JoinTake(c)
  BY <1>3, SwapRemoveProperties DEF JoinTake, Matches, FirstMatch
<1>4. CASE JoinWait(c)
  BY <1>4 DEF JoinWait
<1>5. CASE DropShutdown(c)
  BY <1>5 DEF DropShutdown
<1>6. CASE DropReap(c)
  BY <1>6 DEF DropReap
<1>7. CASE CallerFindsPoison(c)
  BY <1>7 DEF CallerFindsPoison, PanicsAtLock
<1> QED
  BY <1>1, <1>2, <1>3, <1>4, <1>5, <1>6, <1>7 DEF CallerStep

LEMMA ShapeNext == Shape /\ [Next]_vars => Shape'
<1> SUFFICES ASSUME Shape, [Next]_vars PROVE Shape'
  OBVIOUS
<1>1. ASSUME NEW t \in Threads, SpuriousWake(t)
      PROVE  Shape'
  BY <1>1 DEF SpuriousWake, Typed, PlacesOfThreads, Arguments, Handles
<1>2. CASE UNCHANGED vars
  BY <1>2 DEF vars, Typed, PlacesOfThreads, Arguments, Handles
<1> QED
  BY <1>1, <1>2, ShapeWorker, ShapeCallerCalls, ShapeCallerStep DEF Next

\* Types, places and what a thread carries in each of them, always.
THEOREM ShapeCorrect == Spec => []Shape
  BY ShapeInit, ShapeNext, PTL DEF Spec

-----------------------------------------------------------------------------
(* Layer 2.  The first conjunct lets a worker that delivers subtract one;  *)
(* the second makes the occupancy that spawn computes equal to what the    *)
(* callers hold; the third keeps the callers within their allowance, the   *)
(* spawn in flight included.                                               *)

Busy == {w \in Workers : pc[w] \in {"run", "deliver"}}
Spawning == {c \in Callers : pc[c] = "spawn"}

Counts ==
    /\ Cardinality(Busy) <= numInProgress
    /\ ~poisoned => Len(jobs) + numInProgress + Len(results) = Outstanding
    /\ Outstanding + Cardinality(Spawning) <= limit
    /\ limit <= MAX_THREADS => ~poisoned

(* What the counts count is finite.                                        *)
LEMMA FiniteParts ==
    ASSUME Shape
    PROVE  /\ IsFiniteSet(Busy) /\ Cardinality(Busy) \in Nat
           /\ IsFiniteSet(Joining) /\ Cardinality(Joining) \in Nat
           /\ IsFiniteSet(Spawning) /\ Cardinality(Spawning) \in Nat
           /\ IsFiniteSet(joinables) /\ Cardinality(joinables) \in Nat
           /\ Len(jobs) \in Nat /\ Len(results) \in Nat
           /\ numInProgress \in Int /\ limit \in Nat /\ MAX_THREADS \in Nat
<1>1. IsFiniteSet(Busy) /\ IsFiniteSet(Joining) /\ IsFiniteSet(Spawning)
  BY ThreadsAssumption, FS_Subset DEF Busy, Joining, Spawning
<1>2. IsFiniteSet(joinables)
  <2>1. curWorkId \in Int
    BY BoundsAssumption DEF Typed
  <2>2. IsFiniteSet(0..(curWorkId - 1))
    BY <2>1, FS_Interval
  <2> QED
    BY <2>2, FS_Subset DEF Handles
<1>3. /\ Len(jobs) \in Nat /\ Len(results) \in Nat
      /\ numInProgress \in Int /\ limit \in Nat /\ MAX_THREADS \in Nat
  BY BoundsAssumption, CapacityAssumption DEF Typed
<1> QED
  BY <1>1, <1>2, <1>3, FS_CardinalityType

LEMMA CountsInit == Init => Counts
<1> SUFFICES ASSUME Init PROVE Counts
  OBVIOUS
<1>1. Busy = {} /\ Joining = {} /\ Spawning = {} /\ joinables = {}
  BY ThreadsAssumption DEF Init, Busy, Joining, Spawning
<1>2. /\ jobs = <<>> /\ results = <<>> /\ numInProgress = 0 /\ ~poisoned
      /\ limit \in Nat
  BY BoundsAssumption DEF Init
<1> QED
  BY <1>1, <1>2, FS_EmptySet DEF Counts, Outstanding

(* What Counts reads, for the actions that leave all of it alone.          *)
Counted == <<Busy, Joining, Spawning, joinables, Len(jobs), Len(results),
             numInProgress, poisoned, limit>>

LEMMA CountsQuiet == Counts /\ UNCHANGED Counted => Counts'
  BY DEF Counts, Counted, Outstanding

LEMMA CountsWorker ==
    ASSUME Shape, Counts, NEW w \in Workers, WorkerStep(w)
    PROVE  Counts'
<1> USE DEF Goto, Locks
<1>0. /\ pc \in [Workers \cup Callers -> WorkerPlaces \cup CallerPlaces]
      /\ jobs \in Seq(JobRequest)
      /\ \A c \in Callers : c # w
  BY ThreadsAssumption DEF Typed
<1>1. Joining' = Joining /\ Spawning' = Spawning
  BY <1>0 DEF Joining, Spawning, WorkerStep, WorkerExit, WorkerPop, WorkerWait, WorkerRun, WorkerPanic,
         WorkerDeliver, WorkerFindsPoison, PanicsAtLock
<1>2. UNCHANGED <<joinables, limit>>
  BY DEF WorkerStep, WorkerExit, WorkerPop, WorkerWait, WorkerRun, WorkerPanic,
         WorkerDeliver, WorkerFindsPoison
<1>3. CASE WorkerExit(w) \/ WorkerWait(w) \/ WorkerRun(w)
  <2>1. Busy' = Busy
    BY <1>0, <1>3 DEF Busy, WorkerExit, WorkerWait, WorkerRun
  <2>2. UNCHANGED <<jobs, results, numInProgress, poisoned>>
    BY <1>3 DEF WorkerExit, WorkerWait, WorkerRun
  <2> QED
    BY <1>1, <1>2, <2>1, <2>2, CountsQuiet DEF Counted
<1>4. CASE WorkerPop(w)
  <2>1. Busy' = Busy \cup {w} /\ w \notin Busy
    BY <1>0, <1>4 DEF Busy, WorkerPop
  <2>2. Cardinality(Busy') = Cardinality(Busy) + 1
    BY <2>1, FiniteParts, FS_AddElement
  <2>3. Len(jobs') = Len(jobs) - 1 /\ numInProgress' = numInProgress + 1
    BY <1>0, <1>4, HeadTailProperties DEF WorkerPop
  <2>4. results' = results /\ ~poisoned /\ ~poisoned'
    BY <1>4 DEF WorkerPop
  <2>5. Outstanding' = Outstanding /\ Spawning' = Spawning /\ limit' = limit
    BY <1>1, <1>2 DEF Outstanding
  <2>6. Len(jobs') + numInProgress' + Len(results') = Outstanding'
    BY <2>3, <2>4, <2>5, FiniteParts DEF Counts
  <2>7. Cardinality(Busy') <= numInProgress'
    BY <2>2, <2>3, FiniteParts DEF Counts
  <2> QED
    BY <2>4, <2>5, <2>6, <2>7 DEF Counts
<1>5. CASE WorkerPanic(w) \/ WorkerFindsPoison(w)
  <2>1. Busy' = Busy \ {w}
    BY <1>0, <1>5 DEF Busy, WorkerPanic, WorkerFindsPoison, PanicsAtLock
  <2>2. Cardinality(Busy') <= Cardinality(Busy)
    BY <2>1, FiniteParts, FS_Subset
  <2>3. UNCHANGED <<jobs, results, numInProgress, poisoned>>
    BY <1>5 DEF WorkerPanic, WorkerFindsPoison
  <2>4. Cardinality(Busy') \in Nat
    BY <2>1, FiniteParts, FS_Subset, FS_CardinalityType
  <2> QED
    BY <1>1, <1>2, <2>2, <2>3, <2>4, FiniteParts DEF Counts, Outstanding
<1>6. CASE WorkerDeliver(w)
  <2>1. Busy' = Busy \ {w} /\ w \in Busy
    BY <1>0, <1>6 DEF Busy, WorkerDeliver
  <2>2. Cardinality(Busy') = Cardinality(Busy) - 1 /\ Cardinality(Busy') \in Nat
    BY <2>1, FiniteParts, FS_RemoveElement, FS_CardinalityType
  <2>3. jobs' = jobs /\ numInProgress' = numInProgress - 1 /\ ~poisoned
    BY <1>6 DEF WorkerDeliver
  <2>4. CASE Len(results) < MAX_THREADS
    <3>1. Len(results') = Len(results) + 1 /\ ~poisoned'
      <4>1. results' = Append(results, Reply(held[w])) /\ poisoned' = poisoned
        BY <1>6, <2>4, FiniteParts DEF WorkerDeliver
      <4> QED
        BY <2>3, <4>1
    <3>2. Outstanding' = Outstanding /\ Spawning' = Spawning /\ limit' = limit
      BY <1>1, <1>2 DEF Outstanding
    <3>3. Len(jobs') + numInProgress' + Len(results') = Outstanding'
      <4>1. Len(jobs) + numInProgress + Len(results) = Outstanding
        BY <2>3 DEF Counts
      <4>2. /\ Len(jobs) \in Nat /\ Len(results) \in Nat
            /\ numInProgress \in Int
        BY FiniteParts
      <4>3. Len(jobs') = Len(jobs)
        BY <2>3
      <4> QED
        BY <2>3, <3>1, <3>2, <4>1, <4>2, <4>3
    <3>4. Cardinality(Busy') <= numInProgress'
      BY <2>2, <2>3, FiniteParts DEF Counts
    <3> QED
      BY <3>1, <3>2, <3>3, <3>4 DEF Counts
  <2>5. CASE Len(results) = MAX_THREADS
    (* The worker's own job makes the total exceed the capacity.           *)
    <3>1. Outstanding > MAX_THREADS
      BY <2>2, <2>3, <2>5, FiniteParts, SMTT(60) DEF Counts, Outstanding
    <3>2. limit > MAX_THREADS
      BY <3>1, FiniteParts DEF Counts, Outstanding
    <3>3. poisoned' = TRUE
      BY <1>6, <2>5, FiniteParts DEF WorkerDeliver
    <3>4. Cardinality(Busy') <= numInProgress'
      BY <2>2, <2>3, FiniteParts DEF Counts
    <3>5. Outstanding' + Cardinality(Spawning') <= limit'
      BY <1>1, <1>2 DEF Counts, Outstanding
    <3>6. limit' > MAX_THREADS
      BY <1>2, <3>2
    <3>7. limit' \in Nat /\ MAX_THREADS \in Nat
      BY <1>2, FiniteParts
    <3> QED
      BY <3>3, <3>4, <3>5, <3>6, <3>7 DEF Counts
  <2> QED
    BY <1>6, <2>4, <2>5 DEF WorkerDeliver
<1> QED
  BY <1>3, <1>4, <1>5, <1>6 DEF WorkerStep

LEMMA CountsCaller ==
    ASSUME Shape, Shape', Counts, NEW c \in Callers,
           CallerCalls(c) \/ CallerStep(c)
    PROVE  Counts'
<1> USE DEF Goto, Locks, Idle, PoolIsFree
<1>0. /\ pc \in [Workers \cup Callers -> WorkerPlaces \cup CallerPlaces]
      /\ jobs \in Seq(JobRequest) /\ results \in Seq(JobReply)
      /\ \A w \in Workers : w # c
  BY ThreadsAssumption DEF Typed
<1>1. Busy' = Busy /\ limit' = limit
  BY <1>0 DEF Busy, CallerCalls, CallerStep, MakeSpawner, Unwrap, CallSpawn,
      CallJoin, CallDrop, SpawnPush, SpawnWait, JoinTake, JoinWait,
      DropShutdown, DropReap, CallerFindsPoison, PanicsAtLock
<1>2. CASE \/ \E b \in Batches : MakeSpawner(c, b) \/ Unwrap(c, b)
           \/ CallDrop(c) \/ SpawnWait(c) \/ JoinWait(c) \/ DropShutdown(c)
           \/ DropReap(c)
  <2>1. Joining' = Joining /\ Spawning' = Spawning
    BY <1>0, <1>2 DEF Joining, Spawning, MakeSpawner, Unwrap, CallDrop,
        SpawnWait, JoinWait, DropShutdown, DropReap
  <2>2. UNCHANGED <<joinables, jobs, results, numInProgress, poisoned>>
    BY <1>2 DEF MakeSpawner, Unwrap, CallDrop, SpawnWait, JoinWait,
        DropShutdown, DropReap
  <2> QED
    BY <1>1, <2>1, <2>2, CountsQuiet DEF Counted
<1>3. ASSUME NEW b \in Batches, NEW i \in Indices, CallSpawn(c, b, i)
      PROVE  Counts'
  <2>1. Joining' = Joining /\ Spawning = {} /\ Spawning' = {c}
    BY <1>0, <1>3 DEF CallSpawn, Joining, Spawning
  <2>2. Cardinality(Spawning') = 1
    BY <2>1, FS_Singleton
  <2>3. /\ UNCHANGED <<joinables, jobs, results, numInProgress, poisoned>>
        /\ Outstanding < limit
    BY <1>3 DEF CallSpawn
  <2>4. Outstanding' = Outstanding /\ Outstanding \in Nat
    BY <2>1, <2>3, FiniteParts DEF Outstanding
  <2>5. Outstanding' + Cardinality(Spawning') <= limit'
    BY <1>1, <2>2, <2>3, <2>4, FiniteParts
  <2> QED
    BY <1>1, <2>3, <2>4, <2>5 DEF Counts
<1>4. ASSUME NEW id \in joinables, CallJoin(c, id)
      PROVE  Counts'
  <2>1. /\ Joining' = Joining \cup {c} /\ c \notin Joining
        /\ Spawning' = Spawning
    BY <1>0, <1>4 DEF CallJoin, Joining, Spawning
  <2>2. /\ UNCHANGED <<jobs, results, numInProgress, poisoned>>
        /\ joinables' = joinables \ {id}
    BY <1>4 DEF CallJoin
  <2>3. /\ Cardinality(Joining') = Cardinality(Joining) + 1
        /\ Cardinality(joinables') = Cardinality(joinables) - 1
    BY <2>1, <2>2, FiniteParts, FS_AddElement, FS_RemoveElement
  <2>4. Outstanding' = Outstanding
    BY <2>3, FiniteParts DEF Outstanding
  <2> QED
    BY <1>1, <2>1, <2>2, <2>4 DEF Counts
<1>5. CASE SpawnPush(c)
  <2>1. Spawning = {c} /\ Spawning' = {} /\ Joining' = Joining
    BY <1>0, <1>5 DEF SpawnPush, Handles, Spawning, Joining
  <2>2. Cardinality(Spawning) = 1 /\ Cardinality(Spawning') = 0
    BY <2>1, FS_Singleton, FS_EmptySet
  <2>3. UNCHANGED <<results, numInProgress>> /\ ~poisoned
    BY <1>5 DEF SpawnPush
  <2>4. CASE Len(jobs) < MAX_THREADS
    <3>1. /\ jobs' = Append(jobs, [id |-> curWorkId,
                                   batch |-> request[c].batch,
                                   index |-> request[c].index])
          /\ joinables' = joinables \cup {curWorkId} /\ ~poisoned'
      BY <1>5, <2>4, FiniteParts DEF SpawnPush
    <3>2. Len(jobs') = Len(jobs) + 1
      BY <1>0, <3>1
    <3>3. curWorkId \notin joinables
      BY BoundsAssumption DEF Handles, Typed
    <3>4. Cardinality(joinables') = Cardinality(joinables) + 1
      BY <3>1, <3>3, FiniteParts, FS_AddElement
    <3>5. Outstanding' = Outstanding + 1 /\ Outstanding \in Nat
      BY <2>1, <3>4, FiniteParts DEF Outstanding
    <3>6. Len(jobs') + numInProgress' + Len(results') = Outstanding'
      <4>1. Len(jobs) + numInProgress + Len(results) = Outstanding
        BY <2>3 DEF Counts
      <4> QED
        BY <2>3, <3>2, <3>5, <4>1, FiniteParts, SMTT(60)
    <3>7. Outstanding' + Cardinality(Spawning') <= limit'
      BY <1>1, <2>2, <3>5, FiniteParts DEF Counts
    <3> QED
      BY <1>1, <2>3, <3>1, <3>6, <3>7 DEF Counts
  <2>5. CASE Len(jobs) = MAX_THREADS
    (* The callers hold a full queue of jobs and ask for one more.         *)
    <3>1. joinables' = joinables /\ poisoned' = TRUE
      BY <1>5, <2>5, FiniteParts DEF SpawnPush
    <3>2. Outstanding' = Outstanding /\ Outstanding \in Nat
      BY <2>1, <3>1, FiniteParts DEF Outstanding
    <3>3. Outstanding >= MAX_THREADS
      <4>1. Cardinality(Busy) <= numInProgress
        BY DEF Counts
      <4> QED
        BY <2>3, <2>5, <4>1, FiniteParts DEF Counts
    <3>4. ~(limit <= MAX_THREADS)
      BY <2>2, <3>2, <3>3, FiniteParts DEF Counts
    <3>5. Outstanding' + Cardinality(Spawning') <= limit'
      BY <1>1, <2>2, <3>2, FiniteParts DEF Counts
    <3> QED
      BY <1>1, <2>3, <3>1, <3>4, <3>5 DEF Counts
  <2> QED
    BY <1>5, <2>4, <2>5 DEF SpawnPush
<1>6. CASE JoinTake(c)
  <2>1. /\ Joining' = Joining \ {c} /\ c \in Joining
        /\ Spawning' = Spawning
    BY <1>0, <1>6 DEF JoinTake, Joining, Spawning
  <2>2. Cardinality(Joining') = Cardinality(Joining) - 1
    BY <2>1, FiniteParts, FS_RemoveElement
  <2>3. UNCHANGED <<jobs, numInProgress, joinables>> /\ ~poisoned /\ ~poisoned'
    BY <1>6 DEF JoinTake
  <2>4. Len(results') = Len(results) - 1
    <3>1. PICK k \in DOMAIN results : results' = SwapRemove(results, k)
      BY <1>6 DEF JoinTake, Matches, FirstMatch
    <3> QED
      BY <1>0, <3>1, SwapRemoveProperties
  <2>5. Outstanding' = Outstanding - 1 /\ Outstanding \in Nat
    BY <2>2, <2>3, FiniteParts DEF Outstanding
  <2>6. Len(jobs') + numInProgress' + Len(results') = Outstanding'
    <3>1. Len(jobs) + numInProgress + Len(results) = Outstanding
      BY <2>3 DEF Counts
    <3> QED
      BY <2>3, <2>4, <2>5, <3>1, FiniteParts, SMTT(60)
  <2>7. Outstanding' + Cardinality(Spawning') <= limit'
    BY <1>1, <2>1, <2>5, FiniteParts DEF Counts
  <2> QED
    BY <1>1, <2>3, <2>6, <2>7 DEF Counts
<1>7. CASE CallerFindsPoison(c)
  <2>1. /\ Joining' \subseteq Joining /\ Spawning' \subseteq Spawning
        /\ poisoned = TRUE
    BY <1>0, <1>7 DEF CallerFindsPoison, PanicsAtLock, Joining, Spawning
  <2>2. /\ Cardinality(Joining') <= Cardinality(Joining)
        /\ Cardinality(Spawning') <= Cardinality(Spawning)
    BY <2>1, FiniteParts, FS_Subset
  <2>3. UNCHANGED <<jobs, results, numInProgress, joinables, poisoned>>
    BY <1>7 DEF CallerFindsPoison
  <2>4. Cardinality(Joining') \in Nat /\ Cardinality(Spawning') \in Nat
    BY <2>1, FiniteParts, FS_Subset, FS_CardinalityType
  <2>5. Outstanding' + Cardinality(Spawning') <= limit'
    BY <1>1, <2>2, <2>3, <2>4, FiniteParts DEF Counts, Outstanding
  <2> QED
    BY <1>1, <2>1, <2>3, <2>5 DEF Counts
<1> QED
  BY <1>2, <1>3, <1>4, <1>5, <1>6, <1>7 DEF CallerCalls, CallerStep

LEMMA CountsNext == Shape /\ Shape' /\ Counts /\ [Next]_vars => Counts'
<1> SUFFICES ASSUME Shape, Shape', Counts, [Next]_vars PROVE Counts'
  OBVIOUS
<1>1. ASSUME NEW t \in Threads, SpuriousWake(t)
      PROVE  Counts'
  BY <1>1, CountsQuiet
  DEF SpuriousWake, Counted, Busy, Joining, Spawning
<1>2. CASE UNCHANGED vars
  BY <1>2, CountsQuiet DEF vars, Counted, Busy, Joining, Spawning
<1> QED
  BY <1>1, <1>2, CountsWorker, CountsCaller DEF Next

\* The counts of jobs, always.
THEOREM CountsCorrect == Spec => []Counts
  BY CountsInit, CountsNext, ShapeCorrect, PTL DEF Spec

-----------------------------------------------------------------------------
(* Every variable keeps its type; in particular num_in_progress, a usize   *)
(* that every delivery decrements, never goes below zero.                  *)
THEOREM TypeCorrect == Spec => []TypeOK
<1>1. Shape /\ Counts => TypeOK
  <2> SUFFICES ASSUME Shape, Counts PROVE TypeOK
    OBVIOUS
  <2>1. numInProgress \in Nat
    BY FiniteParts DEF Counts
  <2>2. joinables \subseteq WorkIds
    BY BoundsAssumption DEF Handles, Typed, WorkIds
  <2> QED
    BY <2>1, <2>2 DEF Typed, TypeOK
<1> QED
  BY <1>1, ShapeCorrect, CountsCorrect, PTL

(* The room that spawn computes is exactly what the callers have not yet   *)
(* joined, whatever the threads' interleaving and even after jobs panic.   *)
THEOREM OccupancyCorrect == Spec => []OccupancyIsExact
<1>1. Counts => OccupancyIsExact
  BY DEF Counts, OccupancyIsExact
<1> QED
  BY <1>1, CountsCorrect, PTL

(* With at most MAX_THREADS unjoined jobs no push into either queue fails, *)
(* so the unwrap calls of spawn and do_work never panic under the lock.    *)
THEOREM PushesNeverFail == Spec => []PushesFit
<1>1. Counts => PushesFit
  BY DEF Counts, PushesFit
<1> QED
  BY <1>1, CountsCorrect, PTL

-----------------------------------------------------------------------------
(* Layer 3.  The work ids by the place they are in.                        *)

QueuedIds == {jobs[k].id : k \in DOMAIN jobs}
HeldIds == {held[w].id : w \in Busy}
DoneIds == {results[k].id : k \in DOMAIN results}
TakenIds == {reply.id : reply \in received}
StartedIds == HeldIds \cup DoneIds \cup TakenIds
places == <<QueuedIds, HeldIds, DoneIds, TakenIds, curWorkId>>

(* No place holds an id twice; workers hold a job from pop to delivery.    *)
Distinct ==
    /\ \A k, l \in DOMAIN jobs : k < l => jobs[k].id < jobs[l].id
    /\ \A w \in Workers : held[w] # None <=> w \in Busy
    /\ \A v, w \in Busy : held[v].id = held[w].id => v = w
    /\ \A k, l \in DOMAIN results : results[k].id = results[l].id => k = l

(* No id is in two places, and the ids in the queue of jobs are later than *)
(* those of all jobs that were started.                                    *)
Apart ==
    /\ \A id \in QueuedIds \cup StartedIds : id < curWorkId
    /\ \A id \in StartedIds : \A later \in QueuedIds : id < later
    /\ HeldIds \cap DoneIds = {}
    /\ (HeldIds \cup DoneIds) \cap TakenIds = {}

Placed == Distinct /\ Apart

(* What a step can do to the places: the next id is queued or, by a panic, *)
(* is not; the oldest job is popped, and delivered or lost; a reply is     *)
(* taken.                                                                  *)
Pushes ==
    /\ curWorkId' = curWorkId + 1
    /\ curWorkId < MaxWorkIds
    /\ QueuedIds' = QueuedIds \cup {curWorkId} \/ QueuedIds' = QueuedIds
    /\ UNCHANGED <<HeldIds, DoneIds, TakenIds>>
Pops(id) ==
    /\ id \in QueuedIds /\ \A later \in QueuedIds : id <= later
    /\ QueuedIds' = QueuedIds \ {id}
    /\ HeldIds' = HeldIds \cup {id}
    /\ UNCHANGED <<DoneIds, TakenIds, curWorkId>>
Delivers(id) ==
    /\ id \in HeldIds
    /\ HeldIds' = HeldIds \ {id}
    /\ DoneIds' = DoneIds \cup {id} \/ DoneIds' = DoneIds
    /\ UNCHANGED <<QueuedIds, TakenIds, curWorkId>>
Takes(id) ==
    /\ id \in DoneIds
    /\ DoneIds' = DoneIds \ {id}
    /\ TakenIds' = TakenIds \cup {id}
    /\ UNCHANGED <<QueuedIds, HeldIds, curWorkId>>
Effect ==
    \/ Pushes
    \/ \E id \in WorkIds : Pops(id) \/ Delivers(id) \/ Takes(id)
    \/ UNCHANGED places

LEMMA PlacedInit == Init => Placed
<1> SUFFICES ASSUME Init PROVE Placed
  OBVIOUS
<1>1. Busy = {} /\ jobs = <<>> /\ results = <<>> /\ received = {}
  BY ThreadsAssumption DEF Init, Busy
<1>2. QueuedIds = {} /\ StartedIds = {}
  BY <1>1 DEF QueuedIds, StartedIds, HeldIds, DoneIds, TakenIds
<1>3. \A w \in Workers : held[w] = None
  BY DEF Init
<1> QED
  BY <1>1, <1>2, <1>3 DEF Placed, Distinct, Apart, StartedIds

(* The queue of jobs is in the order of their ids, which are numbers.      *)
LEMMA QueuedInOrder ==
    ASSUME Shape, Distinct
    PROVE  \A k, l \in 1..Len(jobs) :
              /\ jobs[k].id \in Nat
              /\ k < l => jobs[k].id < jobs[l].id
<1>1. \A k \in 1..Len(jobs) : jobs[k] \in JobRequest
  BY ElementOfSeq DEF Typed
<1>2. DOMAIN jobs = 1..Len(jobs)
  BY DEF Typed
<1> QED
  BY <1>1, <1>2 DEF Distinct, JobRequest, WorkIds

(* The steps that leave the ids where they are.                            *)
Idles == UNCHANGED <<jobs, results, received, held, Busy, curWorkId>>

LEMMA PlacedIdle == Distinct /\ Idles => Distinct' /\ UNCHANGED places
  BY DEF Distinct, Idles, places, QueuedIds, HeldIds, DoneIds, TakenIds

LEMMA PlacedWorker ==
    ASSUME Shape, Distinct, Apart, NEW w \in Workers, WorkerStep(w)
    PROVE  Distinct' /\ Effect
<1> USE DEF Goto, Locks
<1>0. /\ pc \in [Workers \cup Callers -> WorkerPlaces \cup CallerPlaces]
      /\ held \in [Workers -> JobRequest \cup {None}]
      /\ jobs \in Seq(JobRequest) /\ results \in Seq(JobReply)
      /\ \A v \in Busy : held[v] \in JobRequest
  BY DEF Typed, Arguments, Busy
<1>1. CASE WorkerExit(w) \/ WorkerWait(w) \/ WorkerRun(w)
  <2>1. Busy' = Busy
    BY <1>0, <1>1 DEF Busy, WorkerExit, WorkerWait, WorkerRun
  <2>2. UNCHANGED <<jobs, results, received, held, curWorkId>>
    BY <1>1 DEF WorkerExit, WorkerWait, WorkerRun
  <2> QED
    BY <2>1, <2>2, PlacedIdle DEF Idles, Effect
<1>2. CASE WorkerPop(w)
  <2> DEFINE job == Head(jobs)
  <2>1. /\ jobs # <<>> /\ jobs' = Tail(jobs)
        /\ held' = [held EXCEPT ![w] = job]
        /\ UNCHANGED <<results, received, curWorkId>>
    BY <1>2 DEF WorkerPop
  <2>2. /\ job = jobs[1] /\ job \in JobRequest /\ job # None
        /\ Len(jobs) \in Nat \ {0} /\ Len(jobs') = Len(jobs) - 1
        /\ \A k \in 1..Len(jobs') : jobs'[k] = jobs[k + 1]
        /\ jobs' \in Seq(JobRequest)
    BY <1>0, <2>1, HeadTailProperties, NoneAssumption
  <2>3. Busy' = Busy \cup {w} /\ w \notin Busy
    BY <1>0, <1>2 DEF Busy, WorkerPop
  <2> HIDE DEF job
  <2>4. QueuedIds' = QueuedIds \ {job.id}
    <3>1. DOMAIN jobs = 1..Len(jobs) /\ DOMAIN jobs' = 1..Len(jobs')
      BY <1>0, <2>2
    <3>2. QueuedIds' = {jobs[k].id : k \in 2..Len(jobs)}
      <4>1. QueuedIds' = {jobs[k + 1].id : k \in 1..(Len(jobs) - 1)}
        <5>1. QueuedIds' = {jobs'[k].id : k \in 1..(Len(jobs) - 1)}
          BY <2>2, <3>1 DEF QueuedIds
        <5> QED
          BY <2>2, <5>1, SMTT(60)
      <4>2. \A k \in 2..Len(jobs) :
               k - 1 \in 1..(Len(jobs) - 1) /\ jobs[k] = jobs[(k - 1) + 1]
        BY <2>2
      <4>3. \A k \in 1..(Len(jobs) - 1) : k + 1 \in 2..Len(jobs)
        BY <2>2
      <4> QED
        BY <4>1, <4>2, <4>3
    <3>3. \A k \in 2..Len(jobs) : jobs[k].id # jobs[1].id
      BY <2>2, <3>1, QueuedInOrder
    <3>4. QueuedIds = {jobs[k].id : k \in 1..Len(jobs)}
      BY <3>1 DEF QueuedIds
    <3> QED
      BY <2>2, <3>2, <3>3, <3>4
  <2>5. HeldIds' = HeldIds \cup {job.id}
    BY <1>0, <2>1, <2>3 DEF HeldIds, Busy
  <2>6. job.id \in QueuedIds /\ \A later \in QueuedIds : job.id <= later
    <3>1. 1 \in DOMAIN jobs /\ DOMAIN jobs = 1..Len(jobs)
      BY <1>0, <2>2
    <3>2. \A k \in DOMAIN jobs : jobs[1].id <= jobs[k].id
      BY <2>2, <3>1, QueuedInOrder
    <3> QED
      BY <2>2, <3>1, <3>2 DEF QueuedIds
  <2>7. job.id \notin HeldIds
    BY <2>2, <2>6 DEF Apart, StartedIds, JobRequest, WorkIds
  <2>8. Distinct'
    <3>1. \A k, l \in DOMAIN jobs' : k < l => jobs'[k].id < jobs'[l].id
      <4>1. DOMAIN jobs = 1..Len(jobs) /\ DOMAIN jobs' = 1..(Len(jobs) - 1)
        BY <1>0, <2>2
      <4>2. \A k, l \in 1..(Len(jobs) - 1) :
               k < l => jobs[k + 1].id < jobs[l + 1].id
        <5>1. \A k, l \in DOMAIN jobs : k < l => jobs[k].id < jobs[l].id
          BY DEF Distinct
        <5>2. Len(jobs) \in Nat /\ \A k \in 1..(Len(jobs) - 1) :
                                     k \in Nat /\ k + 1 \in DOMAIN jobs
          BY <2>2, <4>1
        <5>3. \A k, l \in Nat : k < l => k + 1 < l + 1
          OBVIOUS
        <5> QED
          BY <5>1, <5>2, <5>3
      <4> QED
        BY <2>2, <4>1, <4>2
    <3>2. \A v \in Workers : held'[v] # None <=> v \in Busy'
      BY <1>0, <2>1, <2>2, <2>3 DEF Distinct
    <3>3. \A v, u \in Busy' : held'[v].id = held'[u].id => v = u
      BY <1>0, <2>1, <2>3, <2>7 DEF Distinct, HeldIds, Busy
    <3> QED
      BY <2>1, <3>1, <3>2, <3>3 DEF Distinct
  <2>9. UNCHANGED <<DoneIds, TakenIds>> /\ job.id \in WorkIds
    BY <2>1, <2>2 DEF DoneIds, TakenIds, JobRequest
  <2> QED
    BY <2>1, <2>4, <2>5, <2>6, <2>8, <2>9 DEF Effect, Pops
<1>3. CASE WorkerPanic(w) \/ WorkerDeliver(w)
           \/ (WorkerFindsPoison(w) /\ w \in Busy)
  <2> DEFINE id == held[w].id
  <2>1. w \in Busy /\ Busy' = Busy \ {w} /\ w \in Workers
    BY <1>0, <1>3 DEF Busy, WorkerPanic, WorkerDeliver, WorkerFindsPoison,
        PanicsAtLock
  <2>2. /\ held' = [held EXCEPT ![w] = None]
        /\ UNCHANGED <<jobs, received, curWorkId>>
    BY <1>3 DEF WorkerPanic, WorkerDeliver, WorkerFindsPoison, HoldsNothing
  <2>3. results' = results \/ results' = Append(results, Reply(held[w]))
    BY <1>3 DEF WorkerPanic, WorkerDeliver, WorkerFindsPoison
  <2>4. id \in HeldIds /\ id \in WorkIds /\ HeldIds' = HeldIds \ {id}
    BY <1>0, <2>1, <2>2 DEF HeldIds, Distinct, JobRequest, Busy
  <2>5. /\ \A v \in Workers : held'[v] # None <=> v \in Busy'
        /\ \A v, u \in Busy' : held'[v].id = held'[u].id => v = u
    BY <1>0, <2>1, <2>2 DEF Distinct, Busy
  <2>6. /\ \A k, l \in DOMAIN results' :
              results'[k].id = results'[l].id => k = l
        /\ DoneIds' = DoneIds \cup {id} \/ DoneIds' = DoneIds
    <3>1. CASE results' = results
      BY <3>1 DEF Distinct, DoneIds
    <3>2. CASE results' = Append(results, Reply(held[w]))
      <4>1. Reply(held[w]) \in JobReply /\ Reply(held[w]).id = id
        BY <1>0, <2>1 DEF Reply, JobReply, JobRequest
      <4>2. /\ Len(results') = Len(results) + 1
            /\ results' \in Seq(JobReply)
            /\ \A k \in 1..Len(results) : results'[k] = results[k]
            /\ results'[Len(results) + 1].id = id
        BY <1>0, <3>2, <4>1, AppendProperties
      <4>3. \A k \in 1..Len(results) : results[k].id # id
        BY <1>0, <2>4 DEF Apart, DoneIds
      <4>4. /\ DOMAIN results' = 1..(Len(results) + 1)
            /\ DOMAIN results = 1..Len(results) /\ Len(results) \in Nat
        BY <1>0, <4>2
      <4> HIDE DEF id
      <4>5. DoneIds' = DoneIds \cup {id}
        BY <4>2, <4>4 DEF DoneIds
      <4> QED
        BY <4>2, <4>3, <4>4, <4>5 DEF Distinct
    <3> QED
      BY <2>3, <3>1, <3>2
  <2>7. UNCHANGED <<QueuedIds, TakenIds>>
    BY <2>2 DEF QueuedIds, TakenIds
  <2> HIDE DEF id
  <2>8. Distinct'
    BY <2>2, <2>5, <2>6 DEF Distinct
  <2>9. Delivers(id)
    BY <2>2, <2>4, <2>6, <2>7 DEF Delivers
  <2> QED
    BY <2>4, <2>8, <2>9 DEF Effect
<1>4. CASE WorkerFindsPoison(w) /\ w \notin Busy
  <2>1. Busy' = Busy
    BY <1>0, <1>4 DEF Busy, WorkerFindsPoison, PanicsAtLock
  <2>2. held' = held
    BY <1>0, <1>4 DEF WorkerFindsPoison, HoldsNothing, Distinct
  <2>3. UNCHANGED <<jobs, results, received, curWorkId>>
    BY <1>4 DEF WorkerFindsPoison
  <2> QED
    BY <2>1, <2>2, <2>3, PlacedIdle DEF Idles, Effect
<1> QED
  BY <1>1, <1>2, <1>3, <1>4 DEF WorkerStep

LEMMA PlacedCaller ==
    ASSUME Shape, Distinct, Apart, NEW c \in Callers,
           CallerCalls(c) \/ CallerStep(c)
    PROVE  Distinct' /\ Effect
<1> USE DEF Goto, Locks
<1>0. /\ pc \in [Workers \cup Callers -> WorkerPlaces \cup CallerPlaces]
      /\ jobs \in Seq(JobRequest) /\ results \in Seq(JobReply)
      /\ \A w \in Workers : w # c
  BY ThreadsAssumption DEF Typed
<1>1. Busy' = Busy /\ held' = held
  <2>1. \/ pc' = pc
        \/ \E where \in CallerPlaces : pc' = [pc EXCEPT ![c] = where]
    BY DEF CallerCalls, CallerStep, MakeSpawner, Unwrap, CallSpawn, CallJoin,
        CallDrop, SpawnPush, SpawnWait, JoinTake, JoinWait, DropShutdown,
        DropReap, CallerFindsPoison, PanicsAtLock
  <2>2. \A w \in Workers : pc'[w] = pc[w]
    BY <1>0, <2>1
  <2>3. held' = held
    BY DEF CallerCalls, CallerStep, MakeSpawner, Unwrap, CallSpawn, CallJoin,
        CallDrop, SpawnPush, SpawnWait, JoinTake, JoinWait, DropShutdown,
        DropReap, CallerFindsPoison
  <2> QED
    BY <2>2, <2>3 DEF Busy
<1>2. CASE CallerCalls(c) \/ SpawnWait(c) \/ JoinWait(c) \/ DropShutdown(c)
           \/ DropReap(c) \/ CallerFindsPoison(c)
  <2>1. UNCHANGED <<jobs, results, received, curWorkId>>
    BY <1>2 DEF CallerCalls, MakeSpawner, Unwrap, CallSpawn, CallJoin,
        CallDrop, SpawnWait, JoinWait, DropShutdown, DropReap,
        CallerFindsPoison
  <2> QED
    BY <1>1, <2>1, PlacedIdle DEF Idles, Effect
<1>3. CASE SpawnPush(c)
  <2>1. /\ UNCHANGED <<results, received>> /\ curWorkId' = curWorkId + 1
        /\ curWorkId < MaxWorkIds /\ curWorkId \in Nat
        /\ request[c] \in Request
    BY <1>3, BoundsAssumption DEF SpawnPush, Typed, Handles, Arguments
  <2>2. UNCHANGED <<HeldIds, DoneIds, TakenIds>>
    BY <1>1, <2>1 DEF HeldIds, DoneIds, TakenIds
  <2>3. CASE jobs' = jobs
    <3>1. Distinct' /\ QueuedIds' = QueuedIds
      BY <1>1, <2>1, <2>3 DEF Distinct, QueuedIds
    <3> QED
      BY <2>1, <2>2, <3>1 DEF Effect, Pushes
  <2>4. ASSUME NEW job \in JobRequest, job.id = curWorkId,
               jobs' = Append(jobs, job)
        PROVE  Distinct' /\ Effect
    <3>1. /\ Len(jobs') = Len(jobs) + 1 /\ jobs' \in Seq(JobRequest)
          /\ \A k \in 1..Len(jobs) : jobs'[k] = jobs[k]
          /\ jobs'[Len(jobs) + 1].id = curWorkId
      BY <1>0, <2>4, AppendProperties
    <3>2. /\ DOMAIN jobs' = 1..(Len(jobs) + 1)
          /\ DOMAIN jobs = 1..Len(jobs) /\ Len(jobs) \in Nat
      BY <1>0, <3>1
    <3>3. QueuedIds' = QueuedIds \cup {curWorkId}
      BY <3>1, <3>2 DEF QueuedIds
    <3>4. \A k \in 1..Len(jobs) : jobs[k].id < curWorkId
      BY <3>2 DEF Apart, QueuedIds
    <3>5. \A k, l \in DOMAIN jobs' : k < l => jobs'[k].id < jobs'[l].id
      BY <3>1, <3>2, <3>4 DEF Distinct
    <3>6. Distinct'
      BY <1>1, <2>1, <3>5 DEF Distinct
    <3> QED
      BY <2>1, <2>2, <3>3, <3>6 DEF Effect, Pushes
  <2>5. [id |-> curWorkId, batch |-> request[c].batch,
         index |-> request[c].index] \in JobRequest
    <3>1. curWorkId \in WorkIds
      BY <2>1, BoundsAssumption DEF WorkIds
    <3> QED
      BY <2>1, <3>1 DEF JobRequest
  <2> QED
    BY <1>3, <2>3, <2>4, <2>5 DEF SpawnPush
<1>4. CASE JoinTake(c)
  <2>1. UNCHANGED <<jobs, curWorkId>> /\ awaited[c] \in WorkIds
    BY <1>4 DEF JoinTake, Arguments
  <2>2. PICK k \in DOMAIN results :
           /\ results[k].id = awaited[c]
           /\ received' = received \cup {results[k]}
           /\ results' = SwapRemove(results, k)
    BY <1>4 DEF JoinTake, Matches, FirstMatch
  <2>3. /\ Len(results) \in Nat \ {0} /\ k \in 1..Len(results)
        /\ DOMAIN results = 1..Len(results)
        /\ DOMAIN results' = 1..(Len(results) - 1)
        /\ \A j \in 1..(Len(results) - 1) :
              results'[j] = IF j + 1 = k THEN results[1] ELSE results[j + 1]
    <3>1. /\ results' \in Seq(JobReply) /\ Len(results') = Len(results) - 1
          /\ \A j \in 1..(Len(results) - 1) :
                results'[j] = IF j + 1 = k THEN results[1] ELSE results[j + 1]
      BY <1>0, <2>2, SwapRemoveProperties, SwapRemoveElements
    <3>2. DOMAIN results = 1..Len(results) /\ Len(results) \in Nat
      BY <1>0
    <3>3. DOMAIN results' = 1..Len(results')
      BY <3>1
    <3> QED
      BY <2>2, <3>1, <3>2, <3>3
  <2> DEFINE id == awaited[c]
  <2>4. \A j \in 1..Len(results) : results[j].id = id <=> j = k
    BY <2>2, <2>3 DEF Distinct
  <2>5. DoneIds' = DoneIds \ {id}
    <3>1. ASSUME NEW j \in 1..(Len(results) - 1)
          PROVE  results'[j].id \in DoneIds /\ results'[j].id # id
      <4>1. PICK i \in 1..Len(results) : i # k /\ results'[j] = results[i]
        BY <2>3, <3>1
      <4> QED
        BY <2>3, <2>4, <4>1 DEF DoneIds
    <3>2. ASSUME NEW j \in 1..Len(results), j # k
          PROVE  \E i \in 1..(Len(results) - 1) : results'[i] = results[j]
      <4>1. CASE j = 1
        <5>1. k - 1 \in 1..(Len(results) - 1)
          BY <2>3, <3>2, <4>1
        <5> QED
          BY <2>3, <4>1, <5>1
      <4>2. CASE j # 1
        <5>1. j - 1 \in 1..(Len(results) - 1) /\ (j - 1) + 1 = j
          BY <2>3, <4>2
        <5> QED
          BY <2>3, <3>2, <5>1
      <4> QED
        BY <4>1, <4>2
    <3>3. DoneIds' = {results'[j].id : j \in 1..(Len(results) - 1)}
      BY <2>3 DEF DoneIds
    <3>4. ASSUME NEW x \in DoneIds, x # id
          PROVE  x \in DoneIds'
      <4>1. PICK j \in 1..Len(results) : x = results[j].id
        BY <2>3 DEF DoneIds
      <4>2. j # k
        BY <2>4, <3>4, <4>1
      <4> QED
        BY <3>2, <3>3, <4>1, <4>2
    <3> QED
      BY <3>1, <3>3, <3>4
  <2>6. id \in DoneIds /\ TakenIds' = TakenIds \cup {id}
    BY <2>2, <2>3 DEF DoneIds, TakenIds
  <2>7. UNCHANGED <<QueuedIds, HeldIds>>
    BY <1>1, <2>1 DEF QueuedIds, HeldIds
  <2>8. \A i, j \in DOMAIN results' :
           results'[i].id = results'[j].id => i = j
    <3>1. \A i, j \in 1..Len(results) : results[i].id = results[j].id => i = j
      BY <2>3 DEF Distinct
    <3>2. SUFFICES ASSUME NEW i \in 1..(Len(results) - 1),
                          NEW j \in 1..(Len(results) - 1),
                          results'[i].id = results'[j].id
                   PROVE  i = j
      BY <2>3
    <3>3. CASE i + 1 = k
      BY <2>3, <3>1, <3>2, <3>3
    <3>4. CASE i + 1 # k
      BY <2>3, <3>1, <3>2, <3>4
    <3> QED
      BY <3>3, <3>4
  <2>9. Distinct'
    BY <1>1, <2>1, <2>8 DEF Distinct
  <2> QED
    BY <2>1, <2>5, <2>6, <2>7, <2>9 DEF Effect, Takes
<1> QED
  BY <1>2, <1>3, <1>4 DEF CallerStep

LEMMA Effects == Shape /\ Placed /\ [Next]_vars => Distinct' /\ Effect
<1> SUFFICES ASSUME Shape, Placed, [Next]_vars PROVE Distinct' /\ Effect
  OBVIOUS
<1>1. ASSUME NEW t \in Threads, SpuriousWake(t)
      PROVE  Distinct' /\ Effect
  BY <1>1, PlacedIdle DEF SpuriousWake, Idles, Effect, Busy, Placed
<1>2. CASE UNCHANGED vars
  BY <1>2, PlacedIdle DEF vars, Idles, Effect, Busy, Placed
<1> QED
  BY <1>1, <1>2, PlacedWorker, PlacedCaller DEF Next, Placed

\* The ids are numbers.
LEMMA IdsAreWorkIds ==
    ASSUME Shape
    PROVE  QueuedIds \cup StartedIds \subseteq WorkIds /\ curWorkId \in Nat
<1>1. \A w \in Busy : held[w].id \in WorkIds
  BY DEF Arguments, Busy, JobRequest
<1>2. /\ \A k \in DOMAIN jobs : jobs[k].id \in WorkIds
      /\ \A k \in DOMAIN results : results[k].id \in WorkIds
  <2>1. /\ \A k \in DOMAIN jobs : jobs[k] \in JobRequest
        /\ \A k \in DOMAIN results : results[k] \in JobReply
    BY ElementOfSeq DEF Typed
  <2> QED
    BY <2>1 DEF JobRequest, JobReply
<1>3. \A reply \in received : reply.id \in WorkIds
  BY DEF Typed, JobReply
<1> QED
  BY <1>1, <1>2, <1>3, BoundsAssumption
  DEF QueuedIds, StartedIds, HeldIds, DoneIds, TakenIds, Typed

LEMMA PlacedNext == Shape /\ Placed /\ [Next]_vars => Placed'
<1> SUFFICES ASSUME Shape, Placed, [Next]_vars PROVE Placed'
  OBVIOUS
<1>1. Distinct' /\ Effect
  BY Effects
<1>2. /\ \A id \in QueuedIds \cup StartedIds : id \in Nat
      /\ curWorkId \in Nat /\ Apart
  BY IdsAreWorkIds DEF WorkIds, Placed
<1>3. ASSUME Pushes PROVE Apart'
  <2>1. /\ StartedIds' = StartedIds /\ curWorkId' = curWorkId + 1
        /\ UNCHANGED <<HeldIds, DoneIds, TakenIds>>
        /\ QueuedIds' \subseteq QueuedIds \cup {curWorkId}
    BY <1>3 DEF Pushes, StartedIds
  <2>2. \A id \in QueuedIds' \cup StartedIds' : id < curWorkId'
    BY <1>2, <2>1 DEF Apart
  <2>3. \A id \in StartedIds' : \A later \in QueuedIds' : id < later
    BY <1>2, <2>1 DEF Apart
  <2> QED
    BY <1>2, <2>1, <2>2, <2>3 DEF Apart
<1>4. ASSUME NEW id \in WorkIds, Pops(id)
      PROVE  Apart'
  BY <1>2, <1>4 DEF Pops, Apart, StartedIds
<1>5. ASSUME NEW id \in WorkIds, Delivers(id)
      PROVE  Apart'
  BY <1>2, <1>5 DEF Delivers, Apart, StartedIds
<1>6. ASSUME NEW id \in WorkIds, Takes(id)
      PROVE  Apart'
  BY <1>2, <1>6 DEF Takes, Apart, StartedIds
<1>7. ASSUME UNCHANGED places PROVE Apart'
  <2>1. /\ QueuedIds' = QueuedIds /\ HeldIds' = HeldIds
        /\ DoneIds' = DoneIds /\ TakenIds' = TakenIds
        /\ curWorkId' = curWorkId
    BY <1>7 DEF places
  <2>2. StartedIds' = StartedIds
    BY <2>1 DEF StartedIds
  <2> QED
    BY <1>2, <2>1, <2>2 DEF Apart
<1> QED
  BY <1>1, <1>3, <1>4, <1>5, <1>6, <1>7 DEF Effect, Placed

\* Each id in one place, always.
THEOREM PlacedCorrect == Spec => []Placed
  BY PlacedInit, PlacedNext, ShapeCorrect, PTL DEF Spec

-----------------------------------------------------------------------------
(* The pool implements JobService.                                         *)

(* What Status says in terms of the places.                                *)
Place(id) ==
    IF id >= curWorkId THEN "new"
    ELSE IF id \in QueuedIds THEN "queued"
    ELSE IF id \in HeldIds THEN "running"
    ELSE IF id \in DoneIds THEN "done"
    ELSE IF id \in TakenIds THEN "taken"
    ELSE "lost"
StatusIsPlace == \A id \in WorkIds : Status(id) = Place(id)

(* A job's status in the service is the place it is in.                    *)
LEMMA StatusByPlace == Shape /\ Placed => StatusIsPlace
<1> SUFFICES ASSUME Shape, Placed, NEW id \in WorkIds
             PROVE  Status(id) = Place(id)
  BY DEF StatusIsPlace
<1>1. QueuedAs(id) # {} <=> id \in QueuedIds
  BY DEF QueuedAs, QueuedIds
<1>2. HeldBy(id) # {} <=> id \in HeldIds
  BY DEF HeldBy, HeldIds, Placed, Distinct, Busy
<1>3. RepliedAs(id) # {} <=> id \in DoneIds
  BY DEF RepliedAs, DoneIds
<1>4. (\E reply \in received : reply.id = id) <=> id \in TakenIds
  BY DEF TakenIds
<1>5. /\ id \in QueuedIds => id \notin StartedIds /\ ~(id >= curWorkId)
      /\ id \in StartedIds => ~(id >= curWorkId)
      /\ id \in HeldIds => id \notin DoneIds \cup TakenIds
      /\ id \in DoneIds => id \notin TakenIds
  BY IdsAreWorkIds DEF Placed, Apart, WorkIds, StartedIds
<1> QED
  BY <1>1, <1>2, <1>3, <1>4, <1>5 DEF Status, Place, StartedIds

StatusBar == [id \in WorkIds |-> Status(id)]

LEMMA ServiceInit == Init => Service!Init
<1> SUFFICES ASSUME Init PROVE Service!Init
  OBVIOUS
<1>1. Shape /\ Placed /\ curWorkId = 0
  BY ShapeInit, PlacedInit DEF Init
<1>2. \A id \in WorkIds : Status(id) = "new"
  BY <1>1, StatusByPlace DEF StatusIsPlace, Place, WorkIds
<1> QED
  BY <1>2 DEF Service!Init, Service!WorkIds, WorkIds

(* A step that moves one id and leaves the others in their places.         *)
LEMMA OneBecomes ==
    ASSUME StatusIsPlace, StatusIsPlace', NEW id \in WorkIds, NEW from, NEW to,
           Place(id) = from, Place(id)' = to,
           \A other \in WorkIds \ {id} : Place(other)' = Place(other)
    PROVE  Service!Becomes(id, from, to)
<1>1. StatusBar = [other \in WorkIds |-> Place(other)]
  BY DEF StatusIsPlace, StatusBar
<1>2. StatusBar' = [other \in WorkIds |-> Place(other)']
  BY DEF StatusIsPlace, StatusBar
<1>3. StatusBar[id] = from /\ StatusBar' = [StatusBar EXCEPT ![id] = to]
  BY <1>1, <1>2
<1> QED
  BY <1>3 DEF StatusBar, Service!Becomes

LEMMA ServiceNext ==
    Shape /\ Shape' /\ Placed /\ Placed' /\ [Next]_vars
        => [Service!Next]_StatusBar
<1> SUFFICES ASSUME Shape, Shape', Placed, Placed', [Next]_vars,
                    StatusBar' # StatusBar
             PROVE  Service!Next
  BY DEF StatusBar
<1>1. Effect
  BY Effects
<1>2. /\ \A id \in QueuedIds \cup StartedIds : id \in WorkIds
      /\ curWorkId \in Nat /\ curWorkId' \in Nat /\ Apart
      /\ \A id \in WorkIds : id \in Nat
  <2>1. curWorkId' \in Nat
    BY BoundsAssumption DEF Typed
  <2> QED
    BY <2>1, IdsAreWorkIds DEF WorkIds, Placed
<1>3. Apart' /\ WorkIds = Service!WorkIds
  BY DEF Placed, WorkIds, Service!WorkIds
<1>4. StatusIsPlace
  BY StatusByPlace
<1>5. StatusIsPlace'
  BY StatusByPlace, PTL
<1>6. \A id \in WorkIds : StatusBar[id] = Place(id)
  BY <1>4 DEF StatusIsPlace, StatusBar
<1>7. CASE Pushes
  <2>0. curWorkId \in WorkIds
    BY <1>2, <1>7, BoundsAssumption DEF Pushes, WorkIds
  <2> PICK id \in WorkIds : id = curWorkId
    BY <2>0
  <2>1. Place(id) = "new" /\ (Place(id)' = "queued" \/ Place(id)' = "lost")
    BY <1>2, <1>7 DEF Pushes, Place, Apart, StartedIds
  <2>2. \A other \in WorkIds \ {id} : Place(other)' = Place(other)
    BY <1>2, <1>7 DEF Pushes, Place
  <2>3. \A earlier \in 0..(id - 1) :
           earlier \in WorkIds /\ Place(earlier) # "new"
    BY <1>2, <1>7, BoundsAssumption DEF Pushes, Place, WorkIds
  <2>4. \/ Service!Becomes(id, "new", "queued")
        \/ Service!Becomes(id, "new", "lost")
    BY <1>4, <1>5, <2>1, <2>2, OneBecomes
  <2>5. \A earlier \in 0..(id - 1) : StatusBar[earlier] # "new"
    BY <1>6, <2>3
  <2> QED
    BY <1>3, <2>4, <2>5
    DEF Service!Next, Service!Submit, Service!Lose, StatusBar
<1>8. ASSUME NEW id \in WorkIds, Pops(id)
      PROVE  Service!Next
  <2>1. Place(id) = "queued" /\ Place(id)' = "running"
    BY <1>2, <1>8 DEF Pops, Place, Apart
  <2>2. \A other \in WorkIds \ {id} : Place(other)' = Place(other)
    BY <1>8 DEF Pops, Place
  <2>3. \A earlier \in 0..(id - 1) :
           earlier \in WorkIds /\ Place(earlier) # "queued"
    BY <1>2, <1>8, BoundsAssumption DEF Pops, Place, WorkIds
  <2>4. Service!Becomes(id, "queued", "running")
    BY <1>4, <1>5, <2>1, <2>2, OneBecomes
  <2>5. \A earlier \in 0..(id - 1) : StatusBar[earlier] # "queued"
    BY <1>6, <2>3
  <2> QED
    BY <1>3, <2>4, <2>5 DEF Service!Next, Service!Start, StatusBar
<1>9. ASSUME NEW id \in WorkIds, Delivers(id)
      PROVE  Service!Next
  <2>1. Place(id) = "running" /\ (Place(id)' = "done" \/ Place(id)' = "lost")
    BY <1>2, <1>9 DEF Delivers, Place, Apart, StartedIds
  <2>2. \A other \in WorkIds \ {id} : Place(other)' = Place(other)
    BY <1>9 DEF Delivers, Place
  <2>3. \/ Service!Becomes(id, "running", "done")
        \/ Service!Becomes(id, "running", "lost")
    BY <1>4, <1>5, <2>1, <2>2, OneBecomes
  <2> QED
    BY <1>3, <2>3 DEF Service!Next, Service!Finish, Service!Lose
<1>10. ASSUME NEW id \in WorkIds, Takes(id)
       PROVE  Service!Next
  <2>1. Place(id) = "done" /\ Place(id)' = "taken"
    BY <1>2, <1>10 DEF Takes, Place, Apart, StartedIds
  <2>2. \A other \in WorkIds \ {id} : Place(other)' = Place(other)
    BY <1>10 DEF Takes, Place
  <2>3. Service!Becomes(id, "done", "taken")
    BY <1>4, <1>5, <2>1, <2>2, OneBecomes
  <2> QED
    BY <1>3, <2>3 DEF Service!Next, Service!Take
<1>11. CASE UNCHANGED places
  <2>1. \A id \in WorkIds : Place(id)' = Place(id)
    BY <1>11 DEF places, Place
  <2>2. StatusBar' = StatusBar
    BY <1>4, <1>5, <2>1 DEF StatusIsPlace, StatusBar
  <2> QED
    BY <2>2
<1> QED
  BY <1>1, <1>7, <1>8, <1>9, <1>10, <1>11 DEF Effect

(* Jobs are started in the order of submission, each at most once; each    *)
(* has at most one result, which is joined at most once and after the run: *)
(* in every interleaving, with panics, poison, drops and spurious wakeups. *)
THEOREM Implementation == Spec => ImplementsJobService
<1>1. Init => Service!Init
  BY ServiceInit
<1>2. Shape /\ Shape' /\ Placed /\ Placed' /\ [Next]_vars
          => [Service!Next]_StatusBar
  BY ServiceNext
<1>3. [Service!Next]_StatusBar => [Service!Next]_([id \in WorkIds |-> Status(id)])
  BY DEF StatusBar
<1> QED
  BY <1>1, <1>2, <1>3, ShapeCorrect, PlacedCorrect, PTL
  DEF Spec, ImplementsJobService, Service!Spec

-----------------------------------------------------------------------------
(* Layer 4.  Each reference to an input has an owner: its spawner, a job   *)
(* in the queue, or a job that runs.  A job that waits to be delivered has *)
(* given its reference back, and jobs of nobody's concern do not exist.    *)

IsQueuedOn(b, id) == \E k \in DOMAIN jobs : jobs[k].id = id /\ jobs[k].batch = b
RunsOn(b, id) ==
    \E w \in Workers : pc[w] = "run" /\ held[w].id = id /\ held[w].batch = b
Uses(b) == {id \in WorkIds : IsQueuedOn(b, id) \/ RunsOn(b, id)}

Owned ==
    \A b \in Batches :
        arc[b] = (IF b \in spawners THEN 1 ELSE 0) + Cardinality(Uses(b))

Expected == ~poisoned => QueuedIds \cup HeldIds \subseteq Unjoined

(* The uses of an input can be counted.                                    *)
LEMMA UsesFinite ==
    ASSUME NEW b \in Batches
    PROVE  IsFiniteSet(Uses(b)) /\ Cardinality(Uses(b)) \in Nat
<1>1. IsFiniteSet(WorkIds)
  BY BoundsAssumption, FS_Interval DEF WorkIds
<1>2. Uses(b) \subseteq WorkIds
  BY DEF Uses
<1> QED
  BY <1>1, <1>2, FS_Subset, FS_CardinalityType

LEMMA OwnedInit == Init => Owned
<1> SUFFICES ASSUME Init PROVE Owned
  OBVIOUS
<1>1. jobs = <<>> /\ \A w \in Workers : pc[w] # "run"
  BY DEF Init
<1>2. \A b \in Batches : Uses(b) = {}
  BY <1>1 DEF Uses, IsQueuedOn, RunsOn
<1>3. \A b \in Batches : arc[b] = 0 /\ b \notin spawners
  BY DEF Init
<1> QED
  BY <1>2, <1>3, FS_EmptySet DEF Owned

(* The steps that neither queue a job nor start or end one.                *)
RunsAlike ==
    /\ jobs' = jobs
    /\ \A w \in Workers : pc'[w] = "run" <=> pc[w] = "run"
    /\ \A w \in Workers : pc[w] = "run" => held'[w] = held[w]

LEMMA UsesAlike == RunsAlike => \A b \in Batches : Uses(b)' = Uses(b)
<1> SUFFICES ASSUME RunsAlike, NEW b \in Batches, NEW id \in WorkIds
             PROVE  id \in Uses(b)' <=> id \in Uses(b)
  BY DEF Uses
<1>1. IsQueuedOn(b, id)' <=> IsQueuedOn(b, id)
  BY DEF RunsAlike, IsQueuedOn
<1>2. RunsOn(b, id)' <=> RunsOn(b, id)
  BY DEF RunsAlike, RunsOn
<1> QED
  BY <1>1, <1>2 DEF Uses

LEMMA OwnedAlike ==
    Owned /\ RunsAlike /\ UNCHANGED <<arc, spawners>> => Owned'
<1> SUFFICES ASSUME Owned, RunsAlike, UNCHANGED <<arc, spawners>>,
                    NEW b \in Batches
             PROVE  arc'[b] = (IF b \in spawners' THEN 1 ELSE 0)
                                  + Cardinality(Uses(b)')
  BY DEF Owned
<1>1. Uses(b)' = Uses(b)
  BY UsesAlike
<1> QED
  BY <1>1 DEF Owned

(* A step that gives one more or one less reference to the jobs on b.      *)
LEMMA OwnedOne ==
    ASSUME Shape, Owned, NEW b \in Batches, NEW d \in Int,
           arc' = [arc EXCEPT ![b] = @ + d], spawners' = spawners,
           Cardinality(Uses(b)') = Cardinality(Uses(b)) + d,
           \A a \in Batches \ {b} : Uses(a)' = Uses(a)
    PROVE  Owned'
<1> SUFFICES ASSUME NEW a \in Batches
             PROVE  arc'[a] = (IF a \in spawners' THEN 1 ELSE 0)
                                  + Cardinality(Uses(a)')
  BY DEF Owned
<1>1. /\ arc[a] = (IF a \in spawners THEN 1 ELSE 0) + Cardinality(Uses(a))
      /\ arc \in [Batches -> Int] /\ Cardinality(Uses(a)) \in Nat
  BY UsesFinite DEF Owned, Typed
<1>2. CASE a = b
  BY <1>1, <1>2
<1>3. CASE a # b
  BY <1>1, <1>3
<1> QED
  BY <1>2, <1>3

LEMMA OwnedWorker ==
    ASSUME Shape, Placed, Owned, NEW w \in Workers, WorkerStep(w)
    PROVE  Owned'
<1> USE DEF Goto, Locks
<1>0. /\ pc \in [Workers \cup Callers -> WorkerPlaces \cup CallerPlaces]
      /\ held \in [Workers -> JobRequest \cup {None}]
      /\ jobs \in Seq(JobRequest)
      /\ \A v \in Workers : pc[v] = "run" => held[v] \in JobRequest
  BY DEF Typed, Arguments
<1>1. CASE WorkerExit(w) \/ WorkerWait(w) \/ WorkerDeliver(w)
           \/ WorkerFindsPoison(w)
  <2>1. UNCHANGED <<arc, spawners>>
    BY <1>1 DEF WorkerExit, WorkerWait, WorkerDeliver, WorkerFindsPoison
  <2>2. RunsAlike
    BY <1>0, <1>1 DEF RunsAlike, WorkerExit, WorkerWait, WorkerDeliver,
        WorkerFindsPoison, PanicsAtLock, HoldsNothing
  <2> QED
    BY <2>1, <2>2, OwnedAlike
<1>2. CASE WorkerPop(w)
  (* The job takes its reference along from the queue to the worker.       *)
  <2>1. /\ UNCHANGED <<arc, spawners>> /\ pc[w] = "lock"
        /\ jobs # <<>> /\ jobs' = Tail(jobs)
        /\ held' = [held EXCEPT ![w] = Head(jobs)]
        /\ pc' = [pc EXCEPT ![w] = "run"]
    BY <1>2 DEF WorkerPop
  <2>2. /\ Head(jobs) = jobs[1] /\ Len(jobs) \in Nat \ {0}
        /\ DOMAIN jobs = 1..Len(jobs) /\ DOMAIN jobs' = 1..(Len(jobs) - 1)
        /\ \A k \in 1..(Len(jobs) - 1) : jobs'[k] = jobs[k + 1]
    <3>1. /\ jobs' \in Seq(JobRequest) /\ Len(jobs') = Len(jobs) - 1
          /\ \A k \in 1..Len(jobs') : jobs'[k] = jobs[k + 1]
      BY <1>0, <2>1, HeadTailProperties
    <3> QED
      BY <1>0, <2>1, <3>1
  <2>3. ASSUME NEW b \in Batches, NEW id \in WorkIds
        PROVE  id \in Uses(b)' <=> id \in Uses(b)
    <3> DEFINE OfJob == jobs[1].id = id /\ jobs[1].batch = b
    <3>1. IsQueuedOn(b, id) <=> OfJob \/ IsQueuedOn(b, id)'
      <4>1. ASSUME IsQueuedOn(b, id)
            PROVE  OfJob \/ IsQueuedOn(b, id)'
        <5>1. PICK k \in 1..Len(jobs) : jobs[k].id = id /\ jobs[k].batch = b
          BY <2>2, <4>1 DEF IsQueuedOn
        <5>2. CASE k # 1
          <6>1. k - 1 \in 1..(Len(jobs) - 1) /\ jobs'[k - 1] = jobs[k]
            BY <2>2, <5>2
          <6> QED
            BY <2>2, <5>1, <6>1 DEF IsQueuedOn
        <5> QED
          BY <5>1, <5>2
      <4>2. ASSUME IsQueuedOn(b, id)'
            PROVE  IsQueuedOn(b, id)
        <5>1. PICK k \in 1..(Len(jobs) - 1) :
                 jobs'[k].id = id /\ jobs'[k].batch = b
          BY <2>2, <4>2 DEF IsQueuedOn
        <5>2. k + 1 \in 1..Len(jobs) /\ jobs'[k] = jobs[k + 1]
          BY <2>2
        <5> QED
          BY <2>2, <5>1, <5>2 DEF IsQueuedOn
      <4>3. OfJob => IsQueuedOn(b, id)
        BY <2>2 DEF IsQueuedOn
      <4> QED
        BY <4>1, <4>2, <4>3
    <3>2. RunsOn(b, id)' <=> OfJob \/ RunsOn(b, id)
      BY <1>0, <2>1, <2>2 DEF RunsOn
    <3> QED
      BY <3>1, <3>2 DEF Uses
  <2>4. \A b \in Batches : Uses(b)' = Uses(b)
    BY <2>3 DEF Uses
  <2> QED
    BY <2>1, <2>4 DEF Owned
<1>3. CASE WorkerRun(w) \/ WorkerPanic(w)
  <2>0. held[w].batch \in Batches /\ held[w].id \in WorkIds
    BY <1>0, <1>3 DEF WorkerRun, WorkerPanic, JobRequest
  <2> PICK batch \in Batches, id \in WorkIds :
         batch = held[w].batch /\ id = held[w].id
    BY <2>0
  <2>1. /\ pc[w] = "run" /\ w \in Busy /\ held[w] \in JobRequest
        /\ jobs' = jobs /\ spawners' = spawners
        /\ arc' = [arc EXCEPT ![batch] = @ - 1]
        /\ \A v \in Workers \ {w} : pc'[v] = pc[v] /\ held'[v] = held[v]
        /\ pc'[w] # "run"
    BY <1>0, <1>3 DEF WorkerRun, WorkerPanic, DropArc, HoldsNothing, Busy
  <2>3. id \in HeldIds /\ id \notin QueuedIds
    <3>1. id \in HeldIds /\ id \in Nat
      BY <2>1 DEF HeldIds, WorkIds
    <3> QED
      BY <3>1 DEF Placed, Apart, StartedIds
  <2>4. \A b \in Batches, i \in WorkIds :
           IsQueuedOn(b, i)' <=> IsQueuedOn(b, i)
    BY <2>1 DEF IsQueuedOn
  <2>5. \A b \in Batches : ~IsQueuedOn(b, id)
    BY <2>3 DEF IsQueuedOn, QueuedIds
  <2>6. \A v \in Workers \ {w} : pc[v] = "run" => held[v].id # id
    BY <2>1 DEF Placed, Distinct, Busy
  <2>7. ASSUME NEW b \in Batches, NEW i \in WorkIds
        PROVE  RunsOn(b, i)' <=> RunsOn(b, i) /\ i # id
    BY <2>1, <2>6 DEF RunsOn
  <2>8. RunsOn(batch, id) /\ \A b \in Batches \ {batch} : ~RunsOn(b, id)
    BY <2>1, <2>6 DEF RunsOn
  <2>9. Uses(batch)' = Uses(batch) \ {id} /\ id \in Uses(batch)
    BY <2>4, <2>5, <2>7, <2>8 DEF Uses
  <2>10. \A b \in Batches \ {batch} : Uses(b)' = Uses(b)
    BY <2>4, <2>5, <2>7, <2>8 DEF Uses
  <2> PICK d \in Int : d = -1
    OBVIOUS
  <2>11. Cardinality(Uses(batch)') = Cardinality(Uses(batch)) + d
    <3>1. Cardinality(Uses(batch) \ {id}) = Cardinality(Uses(batch)) - 1
      BY <2>9, UsesFinite, FS_RemoveElement
    <3> QED
      BY <2>9, <3>1, UsesFinite
  <2>12. arc' = [arc EXCEPT ![batch] = @ + d]
    <3>1. arc[batch] - 1 = arc[batch] + d
      BY DEF Typed
    <3> QED
      BY <2>1, <3>1
  <2> QED
    BY <2>1, <2>10, <2>11, <2>12, OwnedOne
<1> QED
  BY <1>1, <1>2, <1>3 DEF WorkerStep

LEMMA OwnedCaller ==
    ASSUME Shape, Placed, Owned, NEW c \in Callers,
           CallerCalls(c) \/ CallerStep(c)
    PROVE  Owned'
<1> USE DEF Goto, Locks, Idle, PoolIsFree
<1>0. /\ pc \in [Workers \cup Callers -> WorkerPlaces \cup CallerPlaces]
      /\ arc \in [Batches -> Int] /\ jobs \in Seq(JobRequest)
      /\ \A w \in Workers : w # c
  BY ThreadsAssumption DEF Typed
<1>1. ASSUME jobs' = jobs
      PROVE  \A b \in Batches : Uses(b)' = Uses(b)
  <2>1. held' = held
    BY DEF CallerCalls, CallerStep, MakeSpawner, Unwrap, CallSpawn, CallJoin,
        CallDrop, SpawnPush, SpawnWait, JoinTake, JoinWait, DropShutdown,
        DropReap, CallerFindsPoison
  <2>2. \A w \in Workers : pc'[w] = pc[w]
    <3>1. \/ pc' = pc
          \/ \E where \in CallerPlaces : pc' = [pc EXCEPT ![c] = where]
      BY DEF CallerCalls, CallerStep, MakeSpawner, Unwrap, CallSpawn, CallJoin,
          CallDrop, SpawnPush, SpawnWait, JoinTake, JoinWait, DropShutdown,
          DropReap, CallerFindsPoison, PanicsAtLock
    <3> QED
      BY <1>0, <3>1
  <2> QED
    BY <1>1, <2>1, <2>2, UsesAlike DEF RunsAlike
<1>2. CASE UNCHANGED <<jobs, arc, spawners>>
  BY <1>1, <1>2 DEF Owned
<1>3. ASSUME NEW b \in Batches, MakeSpawner(c, b)
      PROVE  Owned'
  (* No reference is left, so no spawner either.                           *)
  <2>1. /\ arc[b] = 0 /\ arc' = [arc EXCEPT ![b] = 1]
        /\ spawners' = spawners \cup {b} /\ jobs' = jobs
    BY <1>3 DEF MakeSpawner
  <2>2. Cardinality(Uses(b)) = 0
    BY <2>1, UsesFinite DEF Owned
  <2>3. \A a \in Batches : Uses(a)' = Uses(a)
    BY <1>1, <2>1
  <2>4. ASSUME NEW a \in Batches
        PROVE  arc'[a] = (IF a \in spawners' THEN 1 ELSE 0)
                            + Cardinality(Uses(a))
    BY <1>0, <2>1, <2>2 DEF Owned
  <2> QED
    BY <2>3, <2>4 DEF Owned
<1>4. ASSUME NEW b \in Batches, Unwrap(c, b)
      PROVE  Owned'
  <2>1. /\ b \in spawners /\ arc' = [arc EXCEPT ![b] = @ - 1]
        /\ spawners' = spawners \ {b} /\ jobs' = jobs
    BY <1>4 DEF Unwrap, DropArc
  <2>2. \A a \in Batches : Uses(a)' = Uses(a)
    BY <1>1, <2>1
  <2>3. ASSUME NEW a \in Batches
        PROVE  arc'[a] = (IF a \in spawners' THEN 1 ELSE 0)
                            + Cardinality(Uses(a))
    <3>1. arc[a] = (IF a \in spawners THEN 1 ELSE 0) + Cardinality(Uses(a))
      BY DEF Owned
    <3> QED
      BY <1>0, <2>1, <3>1, UsesFinite
  <2> QED
    BY <2>2, <2>3 DEF Owned
<1>5. CASE SpawnPush(c) /\ Len(jobs) < MAX_THREADS
  <2>1. /\ curWorkId \in WorkIds /\ request[c] \in Request
        /\ request[c].batch \in Batches
    BY <1>5, BoundsAssumption
    DEF SpawnPush, Typed, Handles, Arguments, WorkIds
  <2> PICK id \in WorkIds, batch \in Batches :
         id = curWorkId /\ batch = request[c].batch
    BY <2>1
  <2> DEFINE job == [id |-> curWorkId, batch |-> request[c].batch,
                     index |-> request[c].index]
  <2>2. /\ jobs' = Append(jobs, job) /\ spawners' = spawners
        /\ arc' = [arc EXCEPT ![batch] = @ + 1]
        /\ held' = held /\ pc' = [pc EXCEPT ![c] = "idle"]
    BY <1>5, CapacityAssumption DEF SpawnPush, Typed
  <2>3. job \in JobRequest /\ job.id = id /\ job.batch = batch
    BY <2>1 DEF JobRequest
  <2> HIDE DEF job
  <2>4. /\ DOMAIN jobs = 1..Len(jobs) /\ DOMAIN jobs' = 1..(Len(jobs) + 1)
        /\ Len(jobs) \in Nat
        /\ \A k \in 1..Len(jobs) : jobs'[k] = jobs[k]
        /\ jobs'[Len(jobs) + 1] = job
    BY <1>0, <2>2, <2>3, AppendProperties
  <2>5. \A w \in Workers : pc'[w] = pc[w] /\ held'[w] = held[w]
    BY <1>0, <2>2
  <2>6. \A b \in Batches, i \in WorkIds :
           IsQueuedOn(b, i)' <=>
               IsQueuedOn(b, i) \/ (i = id /\ b = batch)
    <3> SUFFICES ASSUME NEW b \in Batches, NEW i \in WorkIds
                 PROVE  IsQueuedOn(b, i)' <=>
                            IsQueuedOn(b, i) \/ (i = id /\ b = batch)
      OBVIOUS
    <3>1. IsQueuedOn(b, i)' <=>
              \E k \in 1..(Len(jobs) + 1) :
                 jobs'[k].id = i /\ jobs'[k].batch = b
      BY <2>4 DEF IsQueuedOn
    <3>2. IsQueuedOn(b, i) <=>
              \E k \in 1..Len(jobs) : jobs[k].id = i /\ jobs[k].batch = b
      BY <2>4 DEF IsQueuedOn
    <3> QED
      BY <2>3, <2>4, <3>1, <3>2
  <2>7. \A b \in Batches, i \in WorkIds : RunsOn(b, i)' <=> RunsOn(b, i)
    BY <2>5 DEF RunsOn
  <2>8. \A b \in Batches : id \notin Uses(b)
    <3>1. id \notin QueuedIds /\ id \notin HeldIds
      BY DEF Placed, Apart, StartedIds, WorkIds
    <3> QED
      BY <3>1 DEF Uses, IsQueuedOn, RunsOn, QueuedIds, HeldIds, Busy
  <2>9. Uses(batch)' = Uses(batch) \cup {id}
    BY <2>6, <2>7 DEF Uses
  <2>10. \A a \in Batches \ {batch} : Uses(a)' = Uses(a)
    BY <2>6, <2>7 DEF Uses
  <2> PICK d \in Int : d = 1
    OBVIOUS
  <2>11. Cardinality(Uses(batch)') = Cardinality(Uses(batch)) + d
    BY <2>8, <2>9, UsesFinite, FS_AddElement
  <2>12. arc' = [arc EXCEPT ![batch] = @ + d] /\ spawners' = spawners
    BY <2>2
  <2> QED
    BY <2>10, <2>11, <2>12, OwnedOne
<1>6. CASE SpawnPush(c) /\ ~(Len(jobs) < MAX_THREADS)
  BY <1>2, <1>6 DEF SpawnPush
<1>7. CASE \/ \E b \in Batches, i \in Indices : CallSpawn(c, b, i)
           \/ \E id \in joinables : CallJoin(c, id)
           \/ CallDrop(c) \/ SpawnWait(c) \/ JoinTake(c) \/ JoinWait(c)
           \/ DropShutdown(c) \/ DropReap(c) \/ CallerFindsPoison(c)
  BY <1>2, <1>7 DEF CallSpawn, CallJoin, CallDrop, SpawnWait, JoinTake,
      JoinWait, DropShutdown, DropReap, CallerFindsPoison
<1> QED
  BY <1>3, <1>4, <1>5, <1>6, <1>7 DEF CallerCalls, CallerStep

LEMMA OwnedNext == Shape /\ Placed /\ Owned /\ [Next]_vars => Owned'
<1> SUFFICES ASSUME Shape, Placed, Owned, [Next]_vars PROVE Owned'
  OBVIOUS
<1>1. ASSUME NEW t \in Threads, SpuriousWake(t)
      PROVE  Owned'
  BY <1>1, OwnedAlike DEF SpuriousWake, RunsAlike
<1>2. CASE UNCHANGED vars
  BY <1>2, OwnedAlike DEF vars, RunsAlike
<1>3. ASSUME NEW w \in Workers, WorkerStep(w)
      PROVE  Owned'
  BY <1>3, OwnedWorker
<1>4. ASSUME NEW c \in Callers, CallerCalls(c) \/ CallerStep(c)
      PROVE  Owned'
  BY <1>4, OwnedCaller
<1> QED
  BY <1>1, <1>2, <1>3, <1>4 DEF Next

LEMMA ExpectedInit == Init => Expected
<1> SUFFICES ASSUME Init PROVE QueuedIds = {} /\ HeldIds = {}
  BY DEF Expected
<1>1. jobs = <<>> /\ \A w \in Workers : pc[w] = "lock"
  BY DEF Init
<1> QED
  BY <1>1 DEF QueuedIds, HeldIds, Busy

(* What is queued or held was so before, or is the id just spawned; and    *)
(* only the id of a delivered result stops being expected.                 *)
LEMMA ExpectedNext ==
    Shape /\ Placed /\ Expected /\ [Next]_vars => Expected'
<1> SUFFICES ASSUME Shape, Placed, Expected, [Next]_vars, ~poisoned'
             PROVE  QueuedIds' \cup HeldIds' \subseteq Unjoined'
  BY DEF Expected
<1> USE DEF Goto, Locks
<1>0. /\ pc \in [Workers \cup Callers -> WorkerPlaces \cup CallerPlaces]
      /\ awaited \in [Callers -> WorkIds \cup {None}]
      /\ results \in Seq(JobReply)
      /\ \A c \in Callers, w \in Workers : w # c
      /\ \A id \in QueuedIds \cup HeldIds : id \in Nat
  BY ThreadsAssumption, IdsAreWorkIds DEF Typed, WorkIds, StartedIds
<1>1. ~poisoned /\ QueuedIds \cup HeldIds \subseteq Unjoined
  <2>1. ~poisoned
    BY DEF Next, vars, WorkerStep, WorkerExit, WorkerPop, WorkerWait, WorkerRun,
        WorkerPanic, WorkerDeliver, WorkerFindsPoison, CallerCalls, CallerStep,
        MakeSpawner, Unwrap, CallSpawn, CallJoin, CallDrop, SpawnPush,
        SpawnWait, JoinTake, JoinWait, DropShutdown, DropReap,
        CallerFindsPoison, SpuriousWake
  <2> QED
    BY <2>1 DEF Expected
<1>2. ASSUME NEW w \in Workers, WorkerStep(w)
      PROVE  Unjoined' = Unjoined
  <2>1. /\ UNCHANGED <<joinables, awaited>>
        /\ \A c \in Callers : pc'[c] = pc[c]
    BY <1>0, <1>2 DEF WorkerStep, WorkerExit, WorkerPop, WorkerWait, WorkerRun,
        WorkerPanic, WorkerDeliver, WorkerFindsPoison, PanicsAtLock
  <2> QED
    BY <2>1 DEF Unjoined, Joining
<1>3. ASSUME NEW c \in Callers, CallerCalls(c) \/ CallerStep(c),
             ~JoinTake(c)
      PROVE  Unjoined \subseteq Unjoined'
  <2>1. CASE /\ UNCHANGED <<joinables, awaited>>
             /\ \A d \in Callers : pc[d] = "join" => pc'[d] = "join"
    BY <2>1 DEF Unjoined, Joining
  <2>2. ASSUME NEW id \in joinables, CallJoin(c, id)
        PROVE  Unjoined \subseteq Unjoined'
    <3>1. /\ joinables' = joinables \ {id} /\ c \notin Joining
          /\ awaited' = [awaited EXCEPT ![c] = id]
          /\ Joining' = Joining \cup {c}
      BY <1>0, <2>2 DEF CallJoin, Idle, Joining
    <3>2. awaited'[c] = id /\ \A d \in Joining : awaited'[d] = awaited[d]
      BY <1>0, <3>1 DEF Joining
    <3> QED
      BY <3>1, <3>2 DEF Unjoined
  <2>3. CASE SpawnPush(c)
    <3>1. /\ joinables \subseteq joinables' /\ awaited' = awaited
          /\ Joining \subseteq Joining'
      BY <1>0, <2>3 DEF SpawnPush, Joining
    <3> QED
      BY <3>1 DEF Unjoined
  <2>4. CASE \/ \E b \in Batches : MakeSpawner(c, b) \/ Unwrap(c, b)
             \/ \E b \in Batches, i \in Indices : CallSpawn(c, b, i)
             \/ CallDrop(c) \/ SpawnWait(c) \/ JoinWait(c)
             \/ DropShutdown(c) \/ DropReap(c) \/ CallerFindsPoison(c)
    BY <1>0, <1>1, <2>1, <2>4 DEF MakeSpawner, Unwrap, CallSpawn, CallDrop,
        SpawnWait, JoinWait, DropShutdown, DropReap, CallerFindsPoison,
        PanicsAtLock, Idle
  <2> QED
    BY <1>3, <2>2, <2>3, <2>4 DEF CallerCalls, CallerStep
<1>4. ASSUME NEW c \in Callers, JoinTake(c)
      PROVE  \E id \in DoneIds : Unjoined \subseteq Unjoined' \cup {id}
  <2>1. /\ joinables' = joinables /\ Joining' = Joining \ {c}
        /\ \A d \in Joining' : awaited'[d] = awaited[d]
    BY <1>0, <1>4 DEF JoinTake, Joining
  <2>2. awaited[c] \in DoneIds
    BY <1>4 DEF JoinTake, Matches, FirstMatch, DoneIds
  <2> QED
    BY <2>1, <2>2 DEF Unjoined
<1>5. ASSUME NEW t \in Threads, SpuriousWake(t)
      PROVE  Unjoined' = Unjoined
  BY <1>5 DEF SpuriousWake, Unjoined, Joining
<1>6. CASE UNCHANGED vars
  BY <1>1, <1>6 DEF vars, Unjoined, Joining, QueuedIds, HeldIds, Busy
<1>7. /\ curWorkId' # curWorkId
            => QueuedIds' \cup HeldIds' \subseteq
                   (QueuedIds \cup HeldIds) \cup {curWorkId}
      /\ curWorkId' = curWorkId
            => QueuedIds' \cup HeldIds' \subseteq QueuedIds \cup HeldIds
  <2>1. Effect /\ curWorkId \in Nat
    BY Effects, IdsAreWorkIds
  <2> QED
    BY <2>1 DEF Effect, Pushes, Pops, Delivers, Takes, places
<1>8. ASSUME NEW c \in Callers, SpawnPush(c)
      PROVE  QueuedIds' \cup HeldIds' \subseteq Unjoined'
  <2>1. curWorkId \in joinables'
    BY <1>8 DEF SpawnPush
  <2>2. ~JoinTake(c)
    BY <1>8 DEF SpawnPush, JoinTake
  <2>3. Unjoined \subseteq Unjoined' /\ curWorkId \in Unjoined'
    BY <1>3, <1>8, <2>1, <2>2 DEF CallerStep, Unjoined
  <2> QED
    BY <1>1, <1>7, <2>3
<1>9. ASSUME curWorkId' = curWorkId, Unjoined \subseteq Unjoined'
      PROVE  QueuedIds' \cup HeldIds' \subseteq Unjoined'
  BY <1>1, <1>7, <1>9
<1>10. ASSUME NEW c \in Callers, JoinTake(c)
       PROVE  QueuedIds' \cup HeldIds' \subseteq Unjoined'
  <2>1. PICK id \in DoneIds : Unjoined \subseteq Unjoined' \cup {id}
    BY <1>4, <1>10
  <2>2. id \notin QueuedIds \cup HeldIds
    <3>1. id \in Nat
      BY IdsAreWorkIds DEF StartedIds, WorkIds
    <3> QED
      BY <3>1 DEF Placed, Apart, StartedIds
  <2>3. curWorkId' = curWorkId
    BY <1>10 DEF JoinTake
  <2> QED
    BY <1>1, <1>7, <2>1, <2>2, <2>3
<1>11. ASSUME NEW w \in Workers, WorkerStep(w)
       PROVE  curWorkId' = curWorkId
  BY <1>11 DEF WorkerStep, WorkerExit, WorkerPop, WorkerWait, WorkerRun,
      WorkerPanic, WorkerDeliver, WorkerFindsPoison
<1>12. ASSUME NEW c \in Callers, CallerCalls(c) \/ CallerStep(c),
              ~SpawnPush(c)
       PROVE  curWorkId' = curWorkId
  BY <1>12 DEF CallerCalls, CallerStep, MakeSpawner, Unwrap, CallSpawn,
      CallJoin, CallDrop, SpawnWait, JoinTake, JoinWait, DropShutdown,
      DropReap, CallerFindsPoison
<1>13. ASSUME NEW t \in Threads, SpuriousWake(t)
       PROVE  curWorkId' = curWorkId
  BY <1>13 DEF SpuriousWake
<1> QED
  BY <1>2, <1>3, <1>5, <1>6, <1>8, <1>9, <1>10, <1>11, <1>12, <1>13 DEF Next

(* Between spawning a job on an input and joining it the input is shared;  *)
(* once every job on it is joined, the spawner's reference is the last and *)
(* unwrap gives the input back, for every number of threads and inputs and *)
(* after any panic of a job.                                               *)
THEOREM SoleOwnership == Spec => []SoleOwnerAfterJoins
<1>1. Owned /\ Expected /\ Shape => SoleOwnerAfterJoins
  <2> SUFFICES ASSUME Owned, Expected, Shape, ~poisoned, NEW b \in spawners,
                      UnjoinedOn(b) = {}
               PROVE  arc[b] = 1
    BY DEF SoleOwnerAfterJoins, UnwrapSucceeds
  <2>1. Uses(b) = {}
    <3> SUFFICES ASSUME NEW id \in Uses(b) PROVE FALSE
      OBVIOUS
    <3>1. CASE IsQueuedOn(b, id)
      <4>1. id \in Unjoined
        BY <3>1 DEF IsQueuedOn, QueuedIds, Expected
      <4>2. \E k \in QueuedAs(id) : jobs[k].batch = b
        BY <3>1 DEF IsQueuedOn, QueuedAs
      <4> QED
        BY <4>1, <4>2 DEF UnjoinedOn
    <3>2. CASE RunsOn(b, id)
      <4>1. id \in Unjoined
        BY <3>2 DEF RunsOn, HeldIds, Busy, Expected
      <4>2. \A w \in Workers : pc[w] = "run" => held[w] # None
        BY NoneAssumption DEF Arguments
      <4>3. \E w \in HeldBy(id) : held[w].batch = b
        BY <3>2, <4>2 DEF RunsOn, HeldBy
      <4> QED
        BY <4>1, <4>3 DEF UnjoinedOn
    <3> QED
      BY <3>1, <3>2 DEF Uses
  <2>2. b \in Batches /\ arc[b] = 1 + Cardinality(Uses(b))
    BY DEF Owned, Typed
  <2> QED
    BY <2>1, <2>2, FS_EmptySet
<1>2. Init => Owned /\ Expected
  BY OwnedInit, ExpectedInit
<1>3. Shape /\ Placed /\ (Owned /\ Expected) /\ [Next]_vars
          => (Owned /\ Expected)'
  BY OwnedNext, ExpectedNext
<1> QED
  BY <1>1, <1>2, <1>3, ShapeCorrect, PlacedCorrect, PTL DEF Spec
=============================================================================
