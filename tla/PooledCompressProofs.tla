------------------------ MODULE PooledCompressProofs ------------------------
(***************************************************************************)
(* Proofs about PooledCompress: the worker pool is the spawner that        *)
(* CompressMulti counts on, for any number of workers, chunks and calls,   *)
(* and whether or not jobs panic.                                          *)
(***************************************************************************)
EXTENDS PooledCompress, WorkerPoolProofs

(* The handles in the slots, but the one that is being joined.             *)
Due == {ticket[i] : i \in {j \in Chunks :
            slot[j] = "Join" /\ ~ (pc[main] = "join" /\ j = next)}}

CallTyped ==
    /\ where \in {"idle", "spawn", "hash", "last", "join", "finish", "unwrap"}
    /\ next \in 0 .. N
    /\ slot \in [Chunks -> {"A", "Join", "SpawningOrJoining"}]
    /\ ticket \in [Chunks -> WorkIds \cup {None}]
    /\ where = "spawn" => next < N - 1
    /\ where \in {"hash", "join"} => next <= N - 1

(* The slots with a handle: those the loop has passed while it spawns, and *)
(* those it has still to reach while it joins.                             *)
MayJoin(i) ==
    \/ where \in {"spawn", "hash"} /\ i < next
    \/ where = "last"
    \/ where = "join" /\ next <= i
Slots == \A i \in Chunks : slot[i] = "Join" => ticket[i] # None /\ i < N - 1 /\ MayJoin(i)

Tickets ==
    /\ \A i \in Chunks : ticket[i] # None => ticket[i] < curWorkId
    /\ \A i, j \in Chunks : ticket[i] = ticket[j] /\ ticket[i] # None => i = j

(* Where the caller is in the pool.                                        *)
InPool ==
    /\ pc[main] = "spawn" => where = "spawn" /\ request[main].batch = shared
    /\ pc[main] = "join" => /\ where = "join" /\ next < N - 1
                            /\ slot[next] = "Join" /\ awaited[main] = ticket[next]
    /\ joinables \subseteq Due

(* All jobs are on the one input.                                          *)
OnShared ==
    /\ \A k \in DOMAIN jobs : jobs[k].batch = shared
    /\ \A w \in Workers : held[w] # None => held[w].batch = shared

Composed == CallTyped /\ Slots /\ Tickets /\ InPool /\ OnShared /\ ~ poisoned
PoolInv == Shape /\ Placed /\ Counts /\ Expected

-----------------------------------------------------------------------------
(* The one caller, and what it calls the pool with.                        *)
LEMMA Constants ==
    /\ N \in Nat /\ N >= 1 /\ N <= MAX_THREADS /\ Chunks = 0 .. (N - 1)
    /\ Callers = {main} /\ main \in Threads /\ shared \in Batches
    /\ \A w \in Workers : w \in Threads /\ w # main
    /\ Chunks \subseteq Indices /\ None \notin WorkIds
  BY CallerAssumption, CapacityAssumption, ThreadsAssumption DEF Multi!Chunks, Chunks, Threads

(* Every step is one of the pool or leaves it alone.                       *)
LEMMA PoolNext == Composed /\ [NextAll]_allVars => [Next]_vars
<1> SUFFICES ASSUME Composed, NextAll
             PROVE  [Next]_vars
  BY DEF allVars
<1>1. CASE Begin
  BY <1>1, Constants DEF Begin, Next, CallerCalls
<1>2. CASE EnterSpawn
  <2>1. next \in Indices
    BY <1>2, Constants DEF EnterSpawn, Composed, CallTyped
  <2> QED
    BY <1>2, <2>1, Constants DEF EnterSpawn, Next, CallerCalls
<1>3. CASE Spawned
  BY <1>3, Constants DEF Spawned, Next, CallerStep
<1>4. CASE OwnStep
  BY <1>4 DEF OwnStep
<1>5. CASE EnterJoin
  BY <1>5, Constants DEF EnterJoin, CallJoin, Next, CallerCalls
<1>6. CASE Joined
  BY <1>6, Constants DEF Joined, Next, CallerStep
<1>7. CASE Give
  BY <1>7, Constants DEF Give, Next, CallerCalls
<1>8. CASE DropPool
  BY <1>8, Constants DEF DropPool, Next, CallerCalls
<1>9. CASE PoolStep
  BY <1>9, Constants DEF PoolStep, Next, CallerStep
<1> QED
  BY <1>1, <1>2, <1>3, <1>4, <1>5, <1>6, <1>7, <1>8, <1>9 DEF NextAll

(* The caller never has as many unjoined jobs as the pool has slots.       *)
LEMMA FewUnjoined ==
    ASSUME Shape, Composed
    PROVE  Outstanding < MAX_THREADS /\ Outstanding \in Nat
<1> DEFINE Handed == {ticket[i] : i \in 0 .. (N - 2)}
<1>1. IsFiniteSet(Handed) /\ Cardinality(Handed) <= N - 1
  <2>1. IsFiniteSet(0 .. (N - 2)) /\ Cardinality(0 .. (N - 2)) = N - 1
    <3>1. N - 2 \in Int /\ 0 \in Int
      BY Constants
    <3>2. IsFiniteSet(0 .. (N - 2))
          /\ Cardinality(0 .. (N - 2)) = IF 0 > N - 2 THEN 0 ELSE (N - 2) - 0 + 1
      BY <3>1, FS_Interval
    <3> QED
      BY <3>2, Constants
  <2> DEFINE f == [i \in 0 .. (N - 2) |-> ticket[i]]
  <2>2. Handed = {f[i] : i \in 0 .. (N - 2)}
    OBVIOUS
  <2>3. IsFiniteSet({f[i] : i \in 0 .. (N - 2)})
        /\ Cardinality({f[i] : i \in 0 .. (N - 2)}) <= Cardinality(0 .. (N - 2))
    <3>1. Handed \in SUBSET Handed /\ f \in Surjection(0 .. (N - 2), Handed)
      BY DEF Surjection
    <3>2. IsFiniteSet(Handed) /\ Cardinality(Handed) <= Cardinality(0 .. (N - 2))
      BY <3>1, <2>1, FS_Surjection
    <3> QED
      BY <3>2, <2>2
  <2> QED
    BY <2>1, <2>2, <2>3
<1>2. joinables \subseteq Due /\ Due \subseteq Handed
  BY Constants DEF Composed, InPool, Due, Slots, Handed
<1> HIDE DEF Handed
<1>3. IsFiniteSet(joinables) /\ Cardinality(joinables) \in Nat
      /\ Cardinality(Handed) \in Nat /\ Cardinality(joinables) <= Cardinality(Handed)
      /\ (Cardinality(Handed) = Cardinality(joinables) => Handed = joinables)
  <2>1. joinables \in SUBSET Handed
    BY <1>2
  <2>2. /\ IsFiniteSet(joinables) /\ Cardinality(joinables) <= Cardinality(Handed)
        /\ (Cardinality(Handed) = Cardinality(joinables) => Handed = joinables)
    BY <1>1, <2>1, FS_Subset
  <2> QED
    BY <1>1, <2>2, FS_CardinalityType
<1> DEFINE open == Cardinality(joinables)
           handed == Cardinality(Handed)
           joining == Cardinality(Joining)
<1>4. CASE pc[main] = "join"
  <2>1. Joining = {main} /\ joining = 1
    <3>1. Joining = {main}
      BY <1>4, Constants DEF Joining
    <3> QED
      BY <3>1, FS_Singleton
  <2>2. ticket[next] \in Handed /\ ticket[next] \notin joinables
    <3>1. next \in Chunks /\ next \in 0 .. (N - 2) /\ ticket[next] # None
      BY <1>4, Constants DEF Composed, CallTyped, InPool, Slots
    <3>2. ticket[next] \notin Due
      BY <1>4, <3>1 DEF Composed, Tickets, Due
    <3> QED
      BY <1>2, <3>1, <3>2 DEF Handed
  <2>3. handed # open
    BY <1>3, <2>2
  <2>4. handed \in Nat /\ open \in Nat /\ open <= handed /\ handed <= N - 1
    BY <1>1, <1>3
  <2> HIDE DEF open, handed, joining
  <2>5. open + joining \in Nat /\ open + joining < MAX_THREADS
    BY <2>1, <2>3, <2>4, Constants, CapacityAssumption
  <2> QED
    BY <2>5 DEF Outstanding, open, joining
<1>5. CASE pc[main] # "join"
  <2>1. Joining = {} /\ joining = 0
    BY <1>5, Constants, FS_EmptySet DEF Joining
  <2>2. handed \in Nat /\ open \in Nat /\ open <= handed /\ handed <= N - 1
    BY <1>1, <1>3
  <2> HIDE DEF open, handed, joining
  <2>3. open + joining \in Nat /\ open + joining < MAX_THREADS
    BY <2>1, <2>2, Constants, CapacityAssumption
  <2> QED
    BY <2>3 DEF Outstanding, open, joining
<1> QED
  BY <1>4, <1>5

(* Nothing is queued or held that the caller does not expect, so that all  *)
(* jobs have a ticket, and none are left when the call is over.            *)
LEMMA JobsHaveTickets ==
    ASSUME PoolInv, Composed
    PROVE  /\ \A id \in QueuedIds \cup HeldIds : \E i \in Chunks : ticket[i] = id /\ slot[i] = "Join"
           /\ where = "idle" => QueuedIds \cup HeldIds = {} /\ joinables = {}
<1>1. QueuedIds \cup HeldIds \subseteq Unjoined
  BY DEF PoolInv, Expected, Composed
<1>2. ASSUME NEW id \in joinables
      PROVE  \E i \in Chunks : ticket[i] = id /\ slot[i] = "Join"
  BY <1>2 DEF Composed, InPool, Due
<1>3. ASSUME NEW c \in Joining
      PROVE  \E i \in Chunks : ticket[i] = awaited[c] /\ slot[i] = "Join"
  <2>1. c = main /\ pc[main] = "join"
    BY <1>3, Constants DEF Joining
  <2> QED
    BY <2>1, Constants DEF Composed, InPool, CallTyped
<1>4. \A id \in Unjoined : \E i \in Chunks : ticket[i] = id /\ slot[i] = "Join"
  BY <1>2, <1>3 DEF Unjoined
<1>5. where = "idle" => \A i \in Chunks : slot[i] # "Join"
  BY DEF Composed, Slots, MayJoin
<1> QED
  BY <1>1, <1>2, <1>4, <1>5

-----------------------------------------------------------------------------
(* The jobs as CompressMulti sees them.                                    *)

(* A job runs from the push to the end of its function.                    *)
IsRunning(id) == \/ \E k \in DOMAIN jobs : jobs[k].id = id
                 \/ \E w \in Workers : pc[w] = "run" /\ held[w].id = id

LEMMA RunningIs ==
    ASSUME Shape, NEW id
    PROVE  Running(id) <=> IsRunning(id)
<1>1. \A w \in Workers : pc[w] = "run" => held[w] # None
  BY NoneAssumption DEF Shape, Arguments
<1> QED
  BY <1>1 DEF Running, IsRunning, QueuedAs, HeldBy

LEMMA JobIs ==
    ASSUME Shape
    PROVE  JobState = [i \in Chunks |->
                          IF ticket[i] = None THEN "none"
                          ELSE IF IsRunning(ticket[i]) THEN "running" ELSE "done"]
  BY RunningIs, Constants DEF JobState

(* The same after a step.                                                  *)
LEMMA JobIsNext ==
    ASSUME Shape'
    PROVE  JobState' = [i \in Chunks |->
                          IF ticket'[i] = None THEN "none"
                          ELSE IF IsRunning(ticket[i])' THEN "running" ELSE "done"]
<1>1. \A w \in Workers : pc'[w] = "run" => held'[w] # None
  BY NoneAssumption DEF Shape, Arguments
<1>2. ASSUME NEW i \in Chunks
      PROVE  Running(ticket[i])' <=> IsRunning(ticket[i])'
  BY <1>1 DEF Running, IsRunning, QueuedAs, HeldBy
<1> QED
  BY <1>2, Constants DEF JobState

(* Most steps leave the jobs as they are.                                  *)
LEMMA JobsAlike ==
    ASSUME Shape, Shape', RunsAlike, ticket' = ticket
    PROVE  JobState' = JobState
<1>1. ASSUME NEW i \in Chunks
      PROVE  IsRunning(ticket[i])' <=> IsRunning(ticket[i])
  BY <1>1 DEF RunsAlike, IsRunning
<1> QED
  BY <1>1, JobIs, JobIsNext

-----------------------------------------------------------------------------
(* Every action keeps Composed, and is a step of CompressMulti or none.    *)

MultiStep == [Multi!Next]_(Multi!vars)

LEMMA BeginsWell ==
    ASSUME PoolInv, Composed, Shape', Begin
    PROVE  Composed' /\ MultiStep
<1>1. /\ where = "idle" /\ pc[main] = "idle" /\ joinables = {}
      /\ next' = 0 /\ where' = (IF N > 1 THEN "spawn" ELSE "last") /\ slot' = slot
      /\ ticket' = [i \in Chunks |-> None]
      /\ UNCHANGED <<queueVars, pc, held, joinables, request, awaited>>
      /\ \A i \in Chunks : slot[i] # "Join"
  BY JobsHaveTickets
     DEF Begin, Multi!Begin, MakeSpawner, Idle, callVars, Composed, Slots, MayJoin
<1>2. CallTyped'
  BY <1>1, Constants DEF Composed, CallTyped
<1>3. Slots' /\ Tickets'
  BY <1>1 DEF Slots, Tickets
<1>4. InPool' /\ OnShared' /\ ~ poisoned'
  BY <1>1 DEF InPool, OnShared, Composed, queueVars
<1>5. JobState' = [i \in Multi!Chunks |-> "none"]
  BY <1>1, JobIsNext DEF Chunks
<1>6. arc'[shared] = 1
  BY Constants DEF Begin, MakeSpawner, PoolInv, Shape, Typed
<1>7. Multi!MakeSpawner
  BY <1>5, <1>6 DEF Begin, Multi!MakeSpawner
<1> QED
  BY <1>2, <1>3, <1>4, <1>7 DEF Composed, MultiStep, Multi!Next

(* A step in the pool that the caller's program does not see.              *)
LEMMA UnseenStep ==
    ASSUME Shape, Shape', RunsAlike, arc'[shared] = arc[shared], Stay
    PROVE  MultiStep
<1>1. JobState' = JobState
  BY JobsAlike DEF Stay
<1> QED
  BY <1>1 DEF MultiStep, Multi!vars, Multi!control, Multi!spawner, Stay, control

LEMMA EnterSpawnWell ==
    ASSUME PoolInv, Composed, Shape', EnterSpawn
    PROVE  Composed' /\ MultiStep
<1>1. /\ where = "spawn" /\ pc' = [pc EXCEPT ![main] = "spawn"]
      /\ request' = [request EXCEPT ![main] = [batch |-> shared, index |-> next]]
      /\ UNCHANGED <<queueVars, held, joinables, awaited, arc, control, ticket>>
  BY DEF EnterSpawn, CallSpawn, Goto, clientVars, Stay
<1>2. pc \in [Threads -> WorkerPlaces \cup CallerPlaces]
      /\ request \in [Callers -> Request \cup {None}]
  BY DEF PoolInv, Shape, Typed
<1>3. pc'[main] = "spawn" /\ request'[main].batch = shared
      /\ \A w \in Workers : pc'[w] = pc[w]
  BY <1>1, <1>2, Constants
<1>4. MultiStep
  BY <1>1, <1>3, UnseenStep DEF RunsAlike, PoolInv, queueVars, Stay
<1>5. CallTyped' /\ Slots' /\ Tickets' /\ OnShared' /\ ~ poisoned'
  BY <1>1 DEF Composed, CallTyped, Slots, MayJoin, Tickets, OnShared, control, queueVars
<1>6. pc[main] # "join"
  BY <1>1 DEF Composed, InPool
<1>7. InPool'
  BY <1>1, <1>3, <1>6 DEF Composed, InPool, Due, control, queueVars
<1> QED
  BY <1>4, <1>5, <1>7 DEF Composed

(* The push has room, so that the chunk gets its handle.                   *)
LEMMA SpawnsWell ==
    ASSUME PoolInv, Composed, Shape', Spawned
    PROVE  Composed' /\ MultiStep
<1> DEFINE new == [id |-> curWorkId, batch |-> shared, index |-> request[main].index]
<1>1. /\ where = "spawn" /\ pc[main] = "spawn" /\ request[main].batch = shared
      /\ slot[next] = "A" /\ slot' = [slot EXCEPT ![next] = "Join"] /\ next' = next + 1
      /\ where' = Multi!AfterSpawn(next + 1)
      /\ ticket' = [ticket EXCEPT ![next] = curWorkId]
      /\ curWorkId' = curWorkId + 1 /\ held' = held
  BY DEF Spawned, SpawnPush, Locks, Multi!SpawnChunk, Multi!Put, Composed, InPool
<1>2. Len(jobs) # MAX_THREADS
  <2>1. Len(jobs) + numInProgress + Len(results) = Outstanding
        /\ Cardinality(Busy) <= numInProgress
    BY DEF Composed, PoolInv, Counts
  <2>2. Len(jobs) \in Nat /\ Len(results) \in Nat /\ Cardinality(Busy) \in Nat
        /\ numInProgress \in Int
    BY FiniteParts, LenProperties DEF PoolInv, Shape, Typed
  <2>3. Outstanding < MAX_THREADS /\ Outstanding \in Nat
    BY FewUnjoined DEF PoolInv
  <2> QED
    BY <2>1, <2>2, <2>3, CapacityAssumption
<1>3. /\ jobs' = Append(jobs, new) /\ arc' = [arc EXCEPT ![shared] = @ + 1]
      /\ joinables' = joinables \cup {curWorkId} /\ poisoned' = poisoned
      /\ pc' = [pc EXCEPT ![main] = "idle"]
  BY <1>1, <1>2 DEF Spawned, SpawnPush, Goto
<1>4. /\ next \in Chunks /\ next < N - 1 /\ next \in Nat /\ curWorkId \in WorkIds
      /\ curWorkId \in Nat /\ slot \in [Chunks -> {"A", "Join", "SpawningOrJoining"}]
      /\ ticket \in [Chunks -> WorkIds \cup {None}]
  BY <1>1, Constants, BoundsAssumption
     DEF Composed, CallTyped, PoolInv, Shape, Typed, Handles, WorkIds
<1>5. /\ jobs \in Seq(JobRequest) /\ new \in JobRequest
      /\ pc \in [Threads -> WorkerPlaces \cup CallerPlaces] /\ arc \in [Batches -> Int]
  <2>1. request[main] \in Request
    BY <1>1, Constants DEF PoolInv, Shape, Arguments
  <2> QED
    BY <1>4, <2>1, Constants DEF PoolInv, Shape, Typed, Request, JobRequest
<1>6. /\ Len(jobs') = Len(jobs) + 1 /\ Len(jobs) \in Nat
      /\ DOMAIN jobs = 1 .. Len(jobs) /\ DOMAIN jobs' = 1 .. (Len(jobs) + 1)
      /\ \A k \in 1 .. Len(jobs) : jobs'[k] = jobs[k]
      /\ jobs'[Len(jobs) + 1] = new
  BY <1>3, <1>5, AppendProperties
<1>7. pc'[main] = "idle" /\ \A w \in Workers : pc'[w] = pc[w]
  BY <1>3, <1>5, Constants
<1>8. where' \in {"hash", "last", "spawn"} /\ (where' = "spawn" => next' < N - 1)
      /\ next' \in 0 .. N /\ next' <= N - 1
  BY <1>1, <1>4, Constants DEF Multi!AfterSpawn, Multi!Last
<1>9. CallTyped'
  BY <1>1, <1>4, <1>8 DEF CallTyped
<1>10. Slots'
  <2> SUFFICES ASSUME NEW i \in Chunks, slot'[i] = "Join"
               PROVE  ticket'[i] # None /\ i < N - 1 /\ MayJoin(i)'
    BY DEF Slots
  <2>1. CASE i = next
    BY <2>1, <1>1, <1>4, <1>8, Constants DEF MayJoin
  <2>2. CASE i # next
    <3>1. ticket[i] # None /\ i < N - 1 /\ i < next
      BY <2>2, <1>1, <1>4 DEF Composed, Slots, MayJoin
    <3>2. i < next + 1
      BY <3>1, <1>4, Constants
    <3> QED
      BY <2>2, <3>1, <3>2, <1>1, <1>4, <1>8 DEF MayJoin
  <2> QED
    BY <2>1, <2>2
<1>11. Tickets'
  <2>1. \A i \in Chunks : ticket[i] # None => ticket[i] \in Nat /\ ticket[i] < curWorkId
    BY <1>4, BoundsAssumption DEF Composed, Tickets, WorkIds
  <2>2. \A i \in Chunks : ticket'[i] = IF i = next THEN curWorkId ELSE ticket[i]
    BY <1>1, <1>4
  <2>3. \A i \in Chunks : ticket'[i] # None => ticket'[i] < curWorkId'
    BY <2>1, <2>2, <1>1, <1>4
  <2>4. \A i, j \in Chunks : ticket[i] = ticket[j] /\ ticket[i] # None => i = j
    BY DEF Composed, Tickets
  <2>5. \A i, j \in Chunks : ticket'[i] = ticket'[j] /\ ticket'[i] # None => i = j
    BY <2>1, <2>2, <2>4, <1>4
  <2> QED
    BY <2>3, <2>5 DEF Tickets
<1>12. InPool'
  <2>1. \A id \in joinables : \E i \in Chunks \ {next} : slot[i] = "Join" /\ ticket[i] = id
    BY <1>1 DEF Composed, InPool, Due
  <2>2. ASSUME NEW id \in joinables'
        PROVE  \E i \in Chunks : slot'[i] = "Join" /\ ticket'[i] = id
    BY <2>1, <2>2, <1>1, <1>3, <1>4
  <2> QED
    BY <2>2, <1>7 DEF InPool, Due
<1>13. OnShared'
  BY <1>1, <1>6 DEF Composed, OnShared
<1>14. JobState' = [JobState EXCEPT ![next] = "running"]
  <2>1. ASSUME NEW i \in Chunks, i = next
        PROVE  IsRunning(ticket[i])'
    BY <2>1, <1>1, <1>4, <1>6 DEF IsRunning
  <2>2. ASSUME NEW i \in Chunks, i # next, ticket[i] # None
        PROVE  ticket'[i] = ticket[i] /\ (IsRunning(ticket[i])' <=> IsRunning(ticket[i]))
    <3>1. ticket'[i] = ticket[i] /\ ticket[i] # curWorkId
      BY <2>2, <1>1, <1>4 DEF Composed, Tickets
    <3> QED
      BY <3>1, <1>1, <1>6, <1>7, SMTT(60) DEF IsRunning
  <2>3. ticket'[next] = curWorkId /\ curWorkId # None
    BY <1>1, <1>4, Constants
  <2>4. \A i \in Chunks : i # next => ticket'[i] = ticket[i]
    BY <1>1, <1>4
  <2> DEFINE state == [i \in Chunks |-> IF ticket[i] = None THEN "none"
                                        ELSE IF IsRunning(ticket[i]) THEN "running"
                                        ELSE "done"]
             after == [i \in Chunks |-> IF ticket'[i] = None THEN "none"
                                        ELSE IF IsRunning(ticket[i])' THEN "running"
                                        ELSE "done"]
  <2>5. JobState = state /\ JobState' = after
    BY JobIs, JobIsNext DEF PoolInv
  <2>6. \A i \in Chunks : after[i] = IF i = next THEN "running" ELSE state[i]
    BY <2>1, <2>2, <2>3, <2>4
  <2>7. after = [state EXCEPT ![next] = "running"]
    BY <2>6
  <2> QED
    BY <2>5, <2>7
<1>15. arc'[shared] = arc[shared] + 1
  BY <1>3, <1>5, Constants
<1>16. Multi!Spawn
  BY <1>14, <1>15 DEF Spawned, Multi!Spawn
<1> QED
  BY <1>3, <1>9, <1>10, <1>11, <1>12, <1>13, <1>16 DEF Composed, MultiStep, Multi!Next

LEMMA OwnStepWell ==
    ASSUME PoolInv, Composed, Shape', OwnStep
    PROVE  Composed' /\ MultiStep
<1>1. /\ UNCHANGED <<jobs, results, curWorkId, poisoned, pc, held, request, awaited, joinables,
                     arc, ticket>>
      /\ RunsAlike
  BY DEF OwnStep, vars, queueVars, callVars, clientVars, RunsAlike
<1>2. JobState' = JobState
  BY <1>1, JobsAlike DEF PoolInv
<1>3. /\ next \in 0 .. N /\ N \in Nat /\ N >= 1 /\ Chunks = 0 .. (N - 1)
      /\ slot \in [Chunks -> {"A", "Join", "SpawningOrJoining"}]
      /\ pc[main] # "spawn" \/ where = "spawn"
      /\ pc[main] # "join" \/ (where = "join" /\ next < N - 1)
  BY Constants DEF Composed, CallTyped, InPool
<1>4. CASE Multi!StoreHashes
  <2>1. /\ where = "hash" /\ where' \in {"last", "spawn"} /\ next' = next /\ slot' = slot
        /\ (where' = "spawn" => next # N - 1)
    BY <1>4 DEF Multi!StoreHashes, Multi!Last
  <2>2. CallTyped' /\ Slots' /\ Tickets' /\ OnShared'
    BY <1>1, <1>3, <2>1 DEF Composed, CallTyped, Slots, MayJoin, Tickets, OnShared
  <2>3. InPool'
    BY <1>1, <1>3, <2>1 DEF Composed, InPool, Due
  <2>4. Multi!Alone
    BY <1>1, <1>2, <1>4 DEF Multi!Alone, Multi!spawner
  <2> QED
    BY <1>1, <2>2, <2>3, <2>4 DEF Composed, MultiStep, Multi!Next
<1>5. CASE Multi!CompressLast
  <2>1. /\ where = "last" /\ where' = "join" /\ next' = 0
        /\ slot' = [slot EXCEPT ![N - 1] = "SpawningOrJoining"]
    BY <1>5 DEF Multi!CompressLast, Multi!Last, Multi!Put
  <2>2. \A i \in Chunks : slot'[i] = IF i = N - 1 THEN "SpawningOrJoining" ELSE slot[i]
    BY <1>3, <2>1
  <2>3. CallTyped' /\ Slots' /\ Tickets' /\ OnShared'
    BY <1>1, <1>3, <2>1, <2>2 DEF Composed, CallTyped, Slots, MayJoin, Tickets, OnShared
  <2>4. InPool'
    BY <1>1, <1>3, <2>1, <2>2 DEF Composed, InPool, Due, Slots
  <2>5. Multi!Alone
    BY <1>1, <1>2, <1>5 DEF Multi!Alone, Multi!spawner
  <2> QED
    BY <1>1, <2>3, <2>4, <2>5 DEF Composed, MultiStep, Multi!Next
<1>6. CASE Multi!Finish
  <2>1. where = "finish" /\ where' = "unwrap" /\ next' = next /\ slot' = slot
    BY <1>6 DEF Multi!Finish
  <2>2. CallTyped' /\ Slots' /\ Tickets' /\ OnShared'
    BY <1>1, <1>3, <2>1 DEF Composed, CallTyped, Slots, MayJoin, Tickets, OnShared
  <2>3. InPool'
    BY <1>1, <1>3, <2>1 DEF Composed, InPool, Due
  <2>4. Multi!Alone
    BY <1>1, <1>2, <1>6 DEF Multi!Alone, Multi!spawner
  <2> QED
    BY <1>1, <2>2, <2>3, <2>4 DEF Composed, MultiStep, Multi!Next
<1>7. CASE next = N - 1 /\ Multi!JoinResult
  <2>1. /\ where = "join" /\ where' = "finish" /\ next' = N
        /\ slot' = [slot EXCEPT ![N - 1] = "A"]
    BY <1>3, <1>7 DEF Multi!JoinResult, Multi!Absorb, Multi!Advance, Multi!Last, Multi!Put
  <2>2. \A i \in Chunks : slot[i] # "Join" /\ slot'[i] # "Join"
    BY <1>3, <1>7, <2>1 DEF Composed, Slots, MayJoin
  <2>3. CallTyped' /\ Slots' /\ Tickets' /\ OnShared'
    BY <1>1, <1>3, <2>1, <2>2 DEF Composed, CallTyped, Slots, MayJoin, Tickets, OnShared
  <2>4. InPool'
    BY <1>1, <1>3, <1>7, <2>1, <2>2 DEF Composed, InPool, Due
  <2>5. Multi!JoinReturns
    BY <1>1, <1>2, <1>7 DEF Multi!JoinReturns, Multi!spawner, Multi!Last
  <2> QED
    BY <1>1, <2>3, <2>4, <2>5 DEF Composed, MultiStep, Multi!Next
<1> QED
  BY <1>4, <1>5, <1>6, <1>7 DEF OwnStep

LEMMA EnterJoinWell ==
    ASSUME PoolInv, Composed, Shape', EnterJoin
    PROVE  Composed' /\ MultiStep
<1>1. /\ where = "join" /\ next < N - 1 /\ slot[next] = "Join"
      /\ pc' = [pc EXCEPT ![main] = "join"] /\ pc[main] = "idle"
      /\ awaited' = [awaited EXCEPT ![main] = ticket[next]]
      /\ joinables' = joinables \ {ticket[next]}
      /\ UNCHANGED <<queueVars, held, request, arc, control, ticket>>
  BY DEF EnterJoin, CallJoin, Goto, Idle, Stay
<1>2. /\ pc \in [Threads -> WorkerPlaces \cup CallerPlaces]
      /\ awaited \in [Callers -> WorkIds \cup {None}]
  BY DEF PoolInv, Shape, Typed
<1>3. pc'[main] = "join" /\ awaited'[main] = ticket[next]
      /\ \A w \in Workers : pc'[w] = pc[w]
  BY <1>1, <1>2, Constants
<1>4. MultiStep
  BY <1>1, <1>3, UnseenStep DEF RunsAlike, PoolInv, queueVars, Stay
<1>5. CallTyped' /\ Slots' /\ Tickets' /\ OnShared' /\ ~ poisoned'
  BY <1>1 DEF Composed, CallTyped, Slots, MayJoin, Tickets, OnShared, control, queueVars
<1>6. InPool'
  BY <1>1, <1>3 DEF Composed, InPool, Due, control, queueVars
<1> QED
  BY <1>4, <1>5, <1>6 DEF Composed

(* What is taken was replied, so the job has ended.                        *)
LEMMA JoinedWell ==
    ASSUME PoolInv, Composed, Shape', Joined
    PROVE  Composed' /\ MultiStep
<1>1. /\ where = "join" /\ pc[main] = "join" /\ next < N - 1
      /\ slot[next] = "Join" /\ awaited[main] = ticket[next]
      /\ next' = next + 1 /\ where' = "join" /\ slot' = [slot EXCEPT ![next] = "A"]
      /\ pc' = [pc EXCEPT ![main] = "idle"]
      /\ UNCHANGED <<jobs, curWorkId, poisoned, held, request, arc, joinables, ticket>>
  <2>1. pc[main] = "join"
    BY DEF Joined, JoinTake, Locks
  <2>2. where = "join" /\ next < N - 1 /\ slot[next] = "Join" /\ awaited[main] = ticket[next]
    BY <2>1 DEF Composed, InPool
  <2>3. next # N - 1
    BY <2>2, Constants DEF Composed, CallTyped
  <2> QED
    BY <2>1, <2>2, <2>3
    DEF Joined, JoinTake, Goto, Multi!JoinResult, Multi!Absorb, Multi!Put, Multi!Advance, Multi!Last
<1>2. /\ next \in Chunks /\ next \in Nat /\ N \in Nat /\ Chunks = 0 .. (N - 1)
      /\ slot \in [Chunks -> {"A", "Join", "SpawningOrJoining"}]
      /\ ticket[next] # None
      /\ pc \in [Threads -> WorkerPlaces \cup CallerPlaces]
  BY <1>1, Constants DEF Composed, CallTyped, Slots, PoolInv, Shape, Typed
<1>3. pc'[main] = "idle" /\ \A w \in Workers : pc'[w] = pc[w]
  BY <1>1, <1>2, Constants
<1>4. ~ IsRunning(ticket[next])
  <2>1. ticket[next] \in DoneIds
    <3>1. \E k \in DOMAIN results : results[k].id = awaited[main]
      BY DEF Joined, JoinTake, Matches, FirstMatch
    <3> QED
      BY <1>1, <3>1 DEF DoneIds
  <2>2. ticket[next] \notin QueuedIds
    <3>1. ticket[next] \in Nat
      BY <2>1, IdsAreWorkIds, BoundsAssumption DEF PoolInv, StartedIds, WorkIds
    <3> QED
      BY <2>1, <3>1 DEF PoolInv, Placed, Apart, StartedIds
  <2>3. ticket[next] \notin HeldIds
    BY <2>1 DEF PoolInv, Placed, Apart
  <2> QED
    BY <2>2, <2>3 DEF IsRunning, QueuedIds, HeldIds, Busy
<1>5. JobState[next] = "done"
  BY <1>2, <1>4, JobIs DEF PoolInv
<1>6. JobState' = JobState
  BY <1>1, <1>3, JobsAlike DEF RunsAlike, PoolInv
<1>7. \A i \in Chunks : slot'[i] = IF i = next THEN "A" ELSE slot[i]
  BY <1>1, <1>2
<1>8. CallTyped' /\ Slots' /\ Tickets' /\ OnShared'
  BY <1>1, <1>2, <1>7 DEF Composed, CallTyped, Slots, MayJoin, Tickets, OnShared
<1>9. InPool'
  <2>1. \A id \in joinables : \E i \in Chunks \ {next} : slot[i] = "Join" /\ ticket[i] = id
    BY <1>1 DEF Composed, InPool, Due
  <2>2. ASSUME NEW id \in joinables'
        PROVE  \E i \in Chunks : slot'[i] = "Join" /\ ticket'[i] = id
    BY <2>1, <2>2, <1>1, <1>7
  <2> QED
    BY <2>2, <1>3 DEF InPool, Due
<1>10. Multi!JoinReturns
  BY <1>1, <1>5, <1>6 DEF Joined, Multi!JoinReturns, Multi!spawner
<1> QED
  BY <1>1, <1>8, <1>9, <1>10 DEF Composed, MultiStep, Multi!Next

LEMMA GivesWell ==
    ASSUME PoolInv, Composed, Shape', Give
    PROVE  Composed' /\ MultiStep
<1>1. /\ where = "unwrap" /\ where' = "idle" /\ UNCHANGED <<next, slot, ticket>>
      /\ UNCHANGED <<queueVars, pc, held, request, awaited, joinables>>
      /\ arc' = [arc EXCEPT ![shared] = @ - 1]
  BY DEF Give, Multi!Return, Unwrap, DropArc, callVars
<1>2. JobState' = JobState
  BY <1>1, JobsAlike DEF RunsAlike, PoolInv, queueVars
<1>3. arc'[shared] = arc[shared] - 1
  BY <1>1, Constants DEF PoolInv, Shape, Typed
<1>4. CallTyped' /\ Slots' /\ Tickets' /\ OnShared' /\ ~ poisoned'
  BY <1>1 DEF Composed, CallTyped, Slots, MayJoin, Tickets, OnShared, queueVars
<1>5. InPool'
  BY <1>1 DEF Composed, InPool, Due, queueVars
<1>6. Multi!Unwrap
  BY <1>2, <1>3 DEF Give, UnwrapSucceeds, Multi!Unwrap
<1> QED
  BY <1>4, <1>5, <1>6 DEF Composed, MultiStep, Multi!Next

(* The steps in which only the caller's or a waiting thread's place in the *)
(* pool changes.                                                           *)
Waits ==
    /\ UNCHANGED <<jobs, curWorkId, poisoned, held, request, awaited, joinables, arc>>
    /\ \A w \in Workers : pc'[w] = pc[w]
    /\ pc'[main] = "join" <=> pc[main] = "join"
    /\ pc'[main] # "spawn" \/ pc[main] = "spawn"
    /\ Stay

LEMMA WaitsWell ==
    ASSUME PoolInv, Composed, Shape', Waits
    PROVE  Composed' /\ MultiStep
<1>1. MultiStep
  BY UnseenStep DEF Waits, RunsAlike, PoolInv
<1>2. CallTyped' /\ Slots' /\ Tickets' /\ OnShared' /\ ~ poisoned'
  BY DEF Waits, Stay, control, Composed, CallTyped, Slots, MayJoin, Tickets, OnShared
<1>3. InPool'
  BY DEF Waits, Stay, control, Composed, InPool, Due
<1> QED
  BY <1>1, <1>2, <1>3 DEF Composed

LEMMA DropPoolWell ==
    ASSUME PoolInv, Composed, Shape', DropPool
    PROVE  Composed' /\ MultiStep
<1>1. /\ pc' = [pc EXCEPT ![main] = "drop"] /\ pc[main] = "idle" /\ Stay
      /\ UNCHANGED <<jobs, curWorkId, poisoned, held, request, awaited, joinables, arc>>
  BY DEF DropPool, CallDrop, Goto, Idle, queueVars, callVars
<1>2. pc \in [Threads -> WorkerPlaces \cup CallerPlaces]
  BY DEF PoolInv, Shape, Typed
<1>3. Waits
  BY <1>1, <1>2, Constants DEF Waits
<1> QED
  BY <1>3, WaitsWell

LEMMA CallerWaitsWell ==
    ASSUME PoolInv, Composed, Shape', Stay,
           \/ JoinWait(main) \/ DropShutdown(main) \/ DropReap(main)
           \/ \E t \in Threads : SpuriousWake(t)
    PROVE  Composed' /\ MultiStep
<1>1. pc \in [Threads -> WorkerPlaces \cup CallerPlaces]
  BY DEF PoolInv, Shape, Typed
<1>2. CASE JoinWait(main) \/ \E t \in Threads : SpuriousWake(t)
  <2>1. UNCHANGED <<jobs, curWorkId, poisoned, held, request, awaited, joinables, arc, pc>>
    BY <1>2 DEF JoinWait, SpuriousWake, queueVars, callVars, clientVars
  <2>2. Waits
    BY <2>1 DEF Waits
  <2> QED
    BY <2>2, WaitsWell
<1>3. CASE DropShutdown(main) \/ DropReap(main)
  <2>1. /\ UNCHANGED <<jobs, curWorkId, poisoned, held, request, awaited, joinables, arc>>
        /\ pc[main] \in {"drop", "reap"}
        /\ \E place \in {"reap", "idle", "panicked"} : pc' = [pc EXCEPT ![main] = place]
    BY <1>3 DEF DropShutdown, DropReap, Locks, Goto, queueVars, callVars, clientVars
  <2>2. Waits
    BY <1>1, <2>1, Constants DEF Waits
  <2> QED
    BY <2>2, WaitsWell
<1> QED
  BY <1>2, <1>3

(* What no worker touches.                                                 *)
LEMMA WorkersApart ==
    ASSUME PoolInv, Composed, Stay, NEW w \in Workers, WorkerStep(w)
    PROVE  /\ CallTyped' /\ Slots' /\ Tickets' /\ InPool'
           /\ \A t \in Threads \ {w} : pc'[t] = pc[t]
           /\ \A v \in Workers \ {w} : held'[v] = held[v]
<1>1. /\ pc \in [Threads -> WorkerPlaces \cup CallerPlaces]
      /\ held \in [Workers -> JobRequest \cup {None}]
  BY DEF PoolInv, Shape, Typed
<1>2. /\ UNCHANGED <<curWorkId, request, awaited, joinables>>
      /\ (pc' = pc \/ \E place : pc' = [pc EXCEPT ![w] = place])
      /\ (held' = held \/ \E job : held' = [held EXCEPT ![w] = job])
  BY DEF WorkerStep, WorkerExit, WorkerPop, WorkerWait, WorkerRun, WorkerPanic, WorkerDeliver,
         WorkerFindsPoison, PanicsAtLock, HoldsNothing, Goto, queueVars, callVars, clientVars
<1>3. /\ \A t \in Threads \ {w} : pc'[t] = pc[t]
      /\ \A v \in Workers \ {w} : held'[v] = held[v]
  BY <1>1, <1>2
<1>4. pc'[main] = pc[main]
  BY <1>3, Constants
<1>5. CallTyped' /\ Slots' /\ Tickets'
  BY <1>2 DEF Stay, control, Composed, CallTyped, Slots, MayJoin, Tickets
<1>6. InPool'
  BY <1>2, <1>4 DEF Stay, control, Composed, InPool, Due
<1> QED
  BY <1>3, <1>5, <1>6

(* The popped job is held, so it goes on running.                          *)
LEMMA PopsWell ==
    ASSUME PoolInv, Composed, Shape', Stay, NEW w \in Workers, WorkerPop(w)
    PROVE  Composed' /\ MultiStep
<1>1. /\ pc[w] = "lock" /\ jobs # <<>> /\ jobs' = Tail(jobs)
      /\ held' = [held EXCEPT ![w] = Head(jobs)] /\ pc' = [pc EXCEPT ![w] = "run"]
      /\ UNCHANGED <<poisoned, arc>>
  BY DEF WorkerPop, Locks, Goto
<1>2. /\ CallTyped' /\ Slots' /\ Tickets' /\ InPool'
      /\ \A t \in Threads \ {w} : pc'[t] = pc[t]
      /\ \A v \in Workers \ {w} : held'[v] = held[v]
  BY WorkersApart DEF WorkerStep
<1>3. /\ pc \in [Threads -> WorkerPlaces \cup CallerPlaces] /\ jobs \in Seq(JobRequest)
      /\ held \in [Workers -> JobRequest \cup {None}] /\ w \in Threads
  BY Constants DEF PoolInv, Shape, Typed
<1>4. /\ Len(jobs) \in Nat /\ Len(jobs) >= 1
      /\ DOMAIN jobs = 1 .. Len(jobs) /\ DOMAIN jobs' = 1 .. (Len(jobs) - 1)
      /\ \A k \in 1 .. (Len(jobs) - 1) : jobs'[k] = jobs[k + 1]
      /\ Head(jobs) = jobs[1]
  <2>1. /\ Tail(jobs) \in Seq(JobRequest) /\ Len(Tail(jobs)) = Len(jobs) - 1
        /\ Head(jobs) = jobs[1]
        /\ \A k \in 1 .. (Len(jobs) - 1) : Tail(jobs)[k] = jobs[k + 1]
    BY <1>1, <1>3, HeadTailProperties
  <2> QED
    BY <1>1, <1>3, <2>1, LenProperties, EmptySeq
<1>5. pc'[w] = "run" /\ held'[w] = jobs[1]
  BY <1>1, <1>3, <1>4
<1>6. ASSUME NEW id
      PROVE  IsRunning(id)' <=> IsRunning(id)
  <2>1. (\E k \in DOMAIN jobs : jobs[k].id = id)
           <=> jobs[1].id = id \/ \E k \in DOMAIN jobs' : jobs'[k].id = id
    <3>1. ASSUME NEW k \in DOMAIN jobs
          PROVE  k = 1 \/ (k - 1 \in DOMAIN jobs' /\ jobs'[k - 1] = jobs[k])
      BY <3>1, <1>4
    <3>2. ASSUME NEW k \in DOMAIN jobs'
          PROVE  k + 1 \in DOMAIN jobs /\ jobs'[k] = jobs[k + 1]
      BY <3>2, <1>4
    <3>3. 1 \in DOMAIN jobs
      BY <1>4
    <3> QED
      BY <3>1, <3>2, <3>3
  <2>2. (\E v \in Workers : pc'[v] = "run" /\ held'[v].id = id)
           <=> jobs[1].id = id \/ \E v \in Workers : pc[v] = "run" /\ held[v].id = id
    BY <1>1, <1>2, <1>5, Constants
  <2> QED
    BY <2>1, <2>2 DEF IsRunning
<1>7. JobState' = JobState
  BY <1>6, JobIs, JobIsNext DEF PoolInv, Stay
<1>8. MultiStep
  BY <1>1, <1>7 DEF MultiStep, Multi!vars, Multi!control, Multi!spawner, Stay, control
<1>9. OnShared'
  <2>1. 1 \in DOMAIN jobs /\ \A k \in DOMAIN jobs' : k + 1 \in DOMAIN jobs /\ jobs'[k] = jobs[k + 1]
    BY <1>4
  <2> QED
    BY <2>1, <1>2, <1>5 DEF Composed, OnShared
<1> QED
  BY <1>1, <1>2, <1>8, <1>9 DEF Composed

(* A job ends: one chunk's job is over and its reference is gone.  That    *)
(* holds for a panic as well, whose reply nobody will ever join.           *)
LEMMA EndsWell ==
    ASSUME PoolInv, Composed, Shape', Stay, NEW w \in Workers, WorkerRun(w) \/ WorkerPanic(w)
    PROVE  Composed' /\ MultiStep
<1>1. /\ pc[w] = "run" /\ \E place \in {"deliver", "panicked"} : pc' = [pc EXCEPT ![w] = place]
      /\ arc' = [arc EXCEPT ![held[w].batch] = @ - 1]
      /\ (held' = held \/ held' = [held EXCEPT ![w] = None])
      /\ UNCHANGED <<jobs, poisoned>>
  BY DEF WorkerRun, WorkerPanic, Goto, DropArc, HoldsNothing, queueVars
<1>2. /\ CallTyped' /\ Slots' /\ Tickets' /\ InPool'
      /\ \A t \in Threads \ {w} : pc'[t] = pc[t]
      /\ \A v \in Workers \ {w} : held'[v] = held[v]
  BY WorkersApart DEF WorkerStep
<1>3. /\ pc \in [Threads -> WorkerPlaces \cup CallerPlaces] /\ arc \in [Batches -> Int]
      /\ held \in [Workers -> JobRequest \cup {None}] /\ w \in Threads
      /\ held[w] \in JobRequest /\ held[w] # None /\ w \in Busy
  BY <1>1, Constants, NoneAssumption DEF PoolInv, Shape, Typed, Arguments, Busy
<1> DEFINE id == held[w].id
<1>4. held[w].batch = shared /\ arc'[shared] = arc[shared] - 1
  BY <1>1, <1>3, Constants DEF Composed, OnShared
<1>5. id \in HeldIds /\ id \in WorkIds
  BY <1>3 DEF HeldIds, JobRequest
<1>6. pc'[w] # "run"
  BY <1>1, <1>3
<1>7. PICK i \in Chunks : ticket[i] = id
  BY <1>5, JobsHaveTickets
<1>8. ticket[i] # None
  BY <1>5, <1>7, Constants
<1> HIDE DEF id
<1>9. IsRunning(ticket[i]) /\ ~ IsRunning(ticket[i])'
  <2>1. IsRunning(ticket[i])
    BY <1>1, <1>7 DEF IsRunning, id
  <2>2. id \notin QueuedIds
    <3>1. id \in Nat
      BY <1>5, BoundsAssumption DEF WorkIds
    <3> QED
      BY <1>5, <3>1 DEF PoolInv, Placed, Apart, StartedIds
  <2>3. ASSUME NEW v \in Workers \ {w}, pc[v] = "run"
        PROVE  held[v].id # id
    BY <2>3, <1>3 DEF PoolInv, Placed, Distinct, Busy, id
  <2>4. \A v \in Workers : pc'[v] = "run" => v # w /\ pc[v] = "run" /\ held'[v] = held[v]
    BY <1>2, <1>6, Constants
  <2>5. ~ \E v \in Workers : pc'[v] = "run" /\ held'[v].id = id
    BY <2>3, <2>4
  <2>6. ~ \E k \in DOMAIN jobs' : jobs'[k].id = id
    BY <2>2, <1>1 DEF QueuedIds
  <2>7. ticket'[i] = id
    BY <1>7 DEF Stay
  <2>8. ~ IsRunning(ticket[i])'
    BY <2>5, <2>6, <2>7 DEF IsRunning
  <2> QED
    BY <2>1, <2>8
<1>10. ASSUME NEW j \in Chunks, j # i, ticket[j] # None
       PROVE  IsRunning(ticket[j])' <=> IsRunning(ticket[j])
  <2>1. ticket'[j] = ticket[j] /\ ticket[j] # id
    BY <1>7, <1>8, <1>10 DEF Composed, Tickets, Stay
  <2>2. ASSUME NEW v \in Workers, ticket[j] = held[v].id
        PROVE  v # w /\ held'[v] = held[v] /\ (pc'[v] = "run" <=> pc[v] = "run")
    BY <1>2, <2>1, <2>2, Constants DEF id
  <2>3. ASSUME NEW v \in Workers, pc'[v] = "run"
        PROVE  v # w /\ held'[v] = held[v] /\ pc[v] = "run"
    BY <1>2, <1>6, <2>3, Constants
  <2> QED
    BY <2>1, <2>2, <2>3, <1>1 DEF IsRunning
<1> DEFINE state == [j \in Chunks |-> IF ticket[j] = None THEN "none"
                                      ELSE IF IsRunning(ticket[j]) THEN "running"
                                      ELSE "done"]
           after == [j \in Chunks |-> IF ticket'[j] = None THEN "none"
                                      ELSE IF IsRunning(ticket[j])' THEN "running"
                                      ELSE "done"]
<1>11. JobState = state /\ JobState' = after
  BY JobIs, JobIsNext DEF PoolInv
<1>12. \A j \in Chunks : after[j] = IF j = i THEN "done" ELSE state[j]
  BY <1>8, <1>9, <1>10 DEF Stay
<1>13. state[i] = "running" /\ after = [state EXCEPT ![i] = "done"]
  BY <1>8, <1>9, <1>12
<1> HIDE DEF state, after
<1>14. Multi!JobEnds(i)
  BY <1>4, <1>11, <1>13 DEF Multi!JobEnds, Stay, control, Multi!control
<1>15. i \in Multi!Chunks
  BY DEF Chunks
<1>16. OnShared' /\ ~ poisoned'
  <2>1. \A v \in Workers : held'[v] # None => held'[v] = held[v]
    BY <1>1, <1>2, <1>3
  <2> QED
    BY <2>1, <1>1 DEF Composed, OnShared
<1> QED
  BY <1>2, <1>14, <1>15, <1>16 DEF Composed, MultiStep, Multi!Next

(* The other steps of a worker; no delivery fails.                         *)
LEMMA WorkersWell ==
    ASSUME PoolInv, Composed, Shape', Stay, NEW w \in Workers, WorkerStep(w)
    PROVE  Composed' /\ MultiStep
<1>1. CASE WorkerPop(w)
  BY <1>1, PopsWell
<1>2. CASE WorkerRun(w) \/ WorkerPanic(w)
  BY <1>2, EndsWell
<1>3. CASE WorkerExit(w) \/ WorkerWait(w) \/ WorkerDeliver(w) \/ WorkerFindsPoison(w)
  <2>1. /\ pc[w] # "run" /\ (held' = held \/ held' = [held EXCEPT ![w] = None])
        /\ (pc' = pc \/ \E place \in {"exited", "lock", "panicked"} :
                             pc' = [pc EXCEPT ![w] = place])
        /\ UNCHANGED <<jobs, arc>>
    BY <1>3
    DEF WorkerExit, WorkerWait, WorkerDeliver, WorkerFindsPoison, PanicsAtLock, Locks,
        HoldsNothing, Goto, queueVars
  <2>2. /\ CallTyped' /\ Slots' /\ Tickets' /\ InPool'
        /\ \A t \in Threads \ {w} : pc'[t] = pc[t]
        /\ \A v \in Workers \ {w} : held'[v] = held[v]
    BY WorkersApart
  <2>3. /\ pc \in [Threads -> WorkerPlaces \cup CallerPlaces] /\ w \in Threads
        /\ held \in [Workers -> JobRequest \cup {None}]
    BY Constants DEF PoolInv, Shape, Typed
  <2>4. pc'[w] # "run"
    BY <2>1, <2>3
  <2>5. RunsAlike
    BY <2>1, <2>2, <2>4, Constants DEF RunsAlike
  <2>6. MultiStep
    BY <2>1, <2>5, UnseenStep DEF PoolInv
  <2>7. OnShared'
    <3>1. \A v \in Workers : held'[v] # None => held'[v] = held[v]
      BY <2>1, <2>2, <2>3
    <3> QED
      BY <3>1, <2>1 DEF Composed, OnShared
  <2>8. ~ poisoned'
    <3>1. Len(results) # MAX_THREADS
      <4>1. Len(jobs) + numInProgress + Len(results) = Outstanding
            /\ Cardinality(Busy) <= numInProgress
        BY DEF Composed, PoolInv, Counts
      <4>2. Len(jobs) \in Nat /\ Len(results) \in Nat /\ Cardinality(Busy) \in Nat
            /\ numInProgress \in Int
        BY FiniteParts, LenProperties DEF PoolInv, Shape, Typed
      <4>3. Outstanding < MAX_THREADS /\ Outstanding \in Nat
        BY FewUnjoined DEF PoolInv
      <4> QED
        BY <4>1, <4>2, <4>3, CapacityAssumption
    <3> QED
      BY <1>3, <3>1
      DEF WorkerExit, WorkerWait, WorkerDeliver, WorkerFindsPoison, PanicsAtLock, queueVars, Composed
  <2> QED
    BY <2>2, <2>6, <2>7, <2>8 DEF Composed
<1> QED
  BY <1>1, <1>2, <1>3 DEF WorkerStep

LEMMA ComposedNext ==
    PoolInv /\ Composed /\ Shape' /\ [NextAll]_allVars => Composed' /\ MultiStep
<1> SUFFICES ASSUME PoolInv, Composed, Shape', [NextAll]_allVars
             PROVE  Composed' /\ MultiStep
  OBVIOUS
<1>1. CASE UNCHANGED allVars
  <2>1. Waits
    BY <1>1 DEF allVars, vars, queueVars, callVars, clientVars, Stay, Waits
  <2> QED
    BY <2>1, WaitsWell
<1>2. CASE PoolStep
  BY <1>2, WorkersWell, CallerWaitsWell DEF PoolStep
<1> QED
  BY <1>1, <1>2, BeginsWell, EnterSpawnWell, SpawnsWell, OwnStepWell, EnterJoinWell, JoinedWell,
     GivesWell, DropPoolWell DEF NextAll

LEMMA ComposedInit == InitAll => PoolInv /\ Composed /\ Multi!Init
<1> SUFFICES ASSUME InitAll PROVE PoolInv /\ Composed /\ Multi!Init
  OBVIOUS
<1>1. PoolInv
  BY ShapeInit, CountsInit, PlacedInit, ExpectedInit DEF PoolInv, InitAll
<1>2. Multi!Init
  BY DEF InitAll
<1>3. where = "idle" /\ next = 0 /\ slot = [i \in Chunks |-> "A"] /\ pc[main] = "idle"
  BY Constants DEF InitAll, Multi!Init, Init, Chunks
<1>4. joinables = {} /\ jobs = << >> /\ (\A w \in Workers : held[w] = None) /\ ~ poisoned
      /\ ticket = [i \in Chunks |-> None]
  BY DEF InitAll, Init
<1>5. CallTyped /\ Slots /\ Tickets /\ InPool /\ OnShared
  BY <1>3, <1>4, Constants DEF CallTyped, Slots, Tickets, InPool, OnShared
<1> QED
  BY <1>1, <1>2, <1>4, <1>5 DEF Composed

(* The pool keeps its invariants whatever this caller does with it.        *)
LEMMA PoolInvNext == PoolInv /\ [Next]_vars => PoolInv'
  BY ShapeNext, CountsNext, PlacedNext, ExpectedNext DEF PoolInv

(* With the pool as its spawner compress_multi does nothing that it would  *)
(* not do with the abstract one, in any call and in any interleaving: each *)
(* job is spawned once, joined after it has ended and before the input is  *)
(* given back.                                                             *)
THEOREM Composition == SpecAll => ImplementsCompressMulti
<1>1. InitAll => PoolInv /\ Composed /\ Multi!Init
  BY ComposedInit
<1>2. Composed /\ [NextAll]_allVars => [Next]_vars
  BY PoolNext
<1>3. PoolInv /\ [Next]_vars => PoolInv' /\ Shape'
  BY PoolInvNext DEF PoolInv
<1>4. PoolInv /\ Composed /\ Shape' /\ [NextAll]_allVars
         => Composed' /\ [Multi!Next]_(Multi!vars)
  BY ComposedNext DEF MultiStep
<1> QED
  BY <1>1, <1>2, <1>3, <1>4, PTL DEF SpecAll, ImplementsCompressMulti, Multi!Spec

-----------------------------------------------------------------------------
(* So what CompressMultiProofs proves of CompressMulti holds with the pool *)
(* in place.                                                               *)
Parts == INSTANCE CompressMultiProofs
            WITH pc <- where, job <- JobState, refs <- arc[shared],
                 JobsPanic <- FALSE, ViewFails <- FALSE

LEMMA SameSteps ==
    /\ Multi!Init => Parts!Init
    /\ [Multi!Next]_(Multi!vars) => [Parts!Next]_(Parts!vars)
  BY DEF
     Multi!Init, Parts!Init, Multi!Next, Parts!Next, Multi!vars, Parts!vars,
         Multi!control, Parts!control, Multi!spawner, Parts!spawner,
         Multi!MakeSpawner, Parts!MakeSpawner, Multi!Begin, Parts!Begin,
         Multi!Spawn, Parts!Spawn, Multi!SpawnChunk, Parts!SpawnChunk,
         Multi!AfterSpawn, Parts!AfterSpawn, Multi!Alone, Parts!Alone,
         Multi!StoreHashes, Parts!StoreHashes, Multi!SetupFails,
         Parts!SetupFails, Multi!CompressLast, Parts!CompressLast,
         Multi!BadSlot, Parts!BadSlot, Multi!PanicsAt, Parts!PanicsAt,
         Multi!Finish, Parts!Finish, Multi!JoinReturns, Parts!JoinReturns,
         Multi!JoinResult, Parts!JoinResult, Multi!Absorb, Parts!Absorb,
         Multi!SetPending, Parts!SetPending, Multi!Put, Parts!Put,
         Multi!Advance, Parts!Advance, Multi!JoinFails, Parts!JoinFails,
         Multi!JoinError, Parts!JoinError, Multi!AbandonJoins,
         Parts!AbandonJoins, Multi!AbandonIdle, Parts!AbandonIdle,
         Multi!AbandonResult, Parts!AbandonResult, Multi!AbandonError,
         Parts!AbandonError, Multi!AbandonNext, Parts!AbandonNext, Multi!Unwrap,
         Parts!Unwrap, Multi!Return, Parts!Return, Multi!JobEnds, Parts!JobEnds,
         Multi!Chunks, Parts!Chunks, Multi!Last, Parts!Last, Multi!Ok, Parts!Ok,
         Multi!Error, Parts!Error, Multi!Failed, Parts!Failed

(* A call on the pool gives back its input and its allocators, and leaves  *)
(* no job behind (EverythingComesBack).                                    *)
THEOREM PooledComesBack == SpecAll => []Multi!EverythingComesBack
<1>1. Multi!Spec => Parts!Spec
  BY SameSteps, PTL DEF Multi!Spec, Parts!Spec
<1>2. Parts!Spec => []Parts!EverythingComesBack
  BY Parts!ComesBack, CallerAssumption
<1>3. Parts!EverythingComesBack => Multi!EverythingComesBack
  BY DEF Parts!EverythingComesBack, Multi!EverythingComesBack, Parts!Chunks, Multi!Chunks,
         Parts!LostChunks, Multi!LostChunks, Parts!Last, Multi!Last
<1> QED
  BY <1>1, <1>2, <1>3, Composition, PTL DEF ImplementsCompressMulti

(* Its output is the chunks in order, all or those before the first error. *)
THEOREM PooledOrderedPrefix == SpecAll => []Multi!OutputIsOrderedPrefix
<1>1. Multi!Spec => Parts!Spec
  BY SameSteps, PTL DEF Multi!Spec, Parts!Spec
<1>2. Parts!Spec => []Parts!OutputIsOrderedPrefix
  BY Parts!OrderedPrefix, CallerAssumption
<1>3. Parts!OutputIsOrderedPrefix => Multi!OutputIsOrderedPrefix
  BY DEF Parts!OutputIsOrderedPrefix, Multi!OutputIsOrderedPrefix, Parts!Failed, Multi!Failed,
         Parts!Ok, Multi!Ok
<1> QED
  BY <1>1, <1>2, <1>3, Composition, PTL DEF ImplementsCompressMulti

=============================================================================
