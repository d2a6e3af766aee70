------------------------ MODULE CompressMultiProofs -------------------------
(***************************************************************************)
(* Proofs about CompressMulti, for any number of chunks and calls, whether *)
(* or not jobs panic and views fail:                                       *)
(*   ComesBack       Spec => []EverythingComesBack                         *)
(*   OrderedPrefix   Spec => []OutputIsOrderedPrefix                       *)
(* The invariant has four parts, each inductive with the ones before it:   *)
(* the types; which slots hold an unjoined thread, by the place the caller *)
(* is in; the references to the input, which are the caller's and one per  *)
(* running job; and what became of the first call's allocators.  What was  *)
(* concatenated is an invariant of its own.                                *)
(***************************************************************************)
EXTENDS CompressMulti, FiniteSets, FiniteSetTheorems, SequenceTheorems, TLAPS

Places == {"idle", "spawn", "hash", "last", "join", "finish", "unwrap",
           "abandon", "panicked"}

Typed ==
    /\ pc \in Places
    /\ next \in Nat
    /\ slot \in [Chunks -> {"A", "Join", "SpawningOrJoining"}]
    /\ last \in {"none", "done", "error"}
    /\ calls \in Nat
    /\ fits \in [Chunks -> BOOLEAN]
    /\ job \in [Chunks -> {"none", "running", "done", "panicked"}]
    /\ refs \in Int
    /\ pc \in {"abandon", "join"} => next <= Last
    /\ pc = "spawn" => next < Last
    /\ pc = "hash" => next \in 1..Last
    /\ pc = "last" => next = Last

(* The slots whose thread may be unjoined: those the loop has passed while *)
(* it spawns, those it has still to reach while it joins or abandons.      *)
MayBeUnjoined(i) ==
    \/ pc \in {"spawn", "hash", "last"} /\ i < next
    \/ pc \in {"join", "abandon"} /\ i >= next /\ i < Last
    \/ pc = "panicked"

Unjoined ==
    \A i \in Chunks :
        /\ slot[i] = "Join" => MayBeUnjoined(i)
        /\ job[i] = "running" => slot[i] = "Join"

Running == {i \in Chunks : job[i] = "running"}

References ==
    /\ refs = Cardinality(Running) + (IF pc = "idle" THEN 0 ELSE 1)
    /\ pc = "idle" => input = "Item"

(* The allocator of chunk i is in its slot unless its thread was lost.     *)
Kept(i) == slot[i] = "A" <=> i \notin LostChunks
Untouched(i) == slot[i] = "A" /\ job[i] = "none"

(* The slots during the first call.                                        *)
FirstCall ==
    /\ calls = 0 => pc = "idle" /\ \A i \in Chunks : slot[i] = "A"
    /\ calls = 1 =>
         /\ pc \in {"spawn", "hash", "last", "abandon"} => last = "none"
         /\ pc = "join" => last # "none" /\ slot[Last] = "SpawningOrJoining"
         /\ job[Last] = "none"
         /\ pc \in {"spawn", "hash", "last"} =>
              \A i \in Chunks :
                  IF i < next THEN slot[i] = "Join" ELSE Untouched(i)
         /\ pc = "join" => \A i \in Chunks : i < next => Kept(i)
         /\ pc = "abandon" =>
              \A i \in Chunks : slot[i] # "Join" => Kept(i)
         /\ pc \in {"finish", "unwrap", "idle"} => \A i \in Chunks : Kept(i)

IInv == Typed /\ Unjoined /\ References /\ FirstCall

(* What was written is chunks 0, 1, ... up to the first that failed.       *)
Written ==
    /\ catted \in Seq(Int)
    /\ \A k \in DOMAIN catted : catted[k] = k - 1
    /\ pc \in {"spawn", "hash", "last"} => catted = <<>> /\ pending = Ok
    /\ pc \in {"join", "finish"} =>
          /\ Len(catted) = IF Failed(pending) THEN pending.chunk ELSE next
          /\ pc = "finish" => next = N
-----------------------------------------------------------------------------
(* The types.                                                              *)

LEMMA TypedInit == Init => Typed
  BY NAssumption DEF Init, Typed, Places, Chunks

LEMMA TypedNext == Typed /\ [Next]_vars => Typed'
<1> SUFFICES ASSUME Typed, [Next]_vars PROVE Typed'
  OBVIOUS
<1> USE NAssumption DEF Typed, Places, Chunks, Last, Put
<1>1. CASE MakeSpawner
  BY <1>1 DEF MakeSpawner, Begin
<1>2. CASE Spawn
  BY <1>2 DEF Spawn, SpawnChunk, AfterSpawn
<1>3. CASE StoreHashes /\ UNCHANGED spawner
  BY <1>3 DEF StoreHashes, spawner
<1>4. CASE SetupFails /\ UNCHANGED spawner
  BY <1>4 DEF SetupFails, spawner
<1>5. CASE CompressLast /\ UNCHANGED spawner
  BY <1>5 DEF CompressLast, spawner
<1>6. CASE BadSlot /\ UNCHANGED spawner
  BY <1>6 DEF BadSlot, PanicsAt, spawner
<1>7. CASE Finish /\ UNCHANGED spawner
  BY <1>7 DEF Finish, spawner
<1>8. CASE JoinReturns
  BY <1>8 DEF JoinReturns, JoinResult, Absorb, Advance, spawner
<1>9. CASE JoinFails
  BY <1>9 DEF JoinFails, JoinError, Advance, spawner
<1>10. CASE AbandonJoins
  BY <1>10 DEF AbandonJoins, AbandonIdle, AbandonResult, AbandonError,
               AbandonNext, spawner
<1>11. CASE Unwrap
  BY <1>11 DEF Unwrap, Return
<1>12. ASSUME NEW i \in Chunks, JobEnds(i)
       PROVE  Typed'
  BY <1>12 DEF JobEnds, control
<1>13. CASE UNCHANGED vars
  BY <1>13 DEF vars, control, spawner
<1> QED
  BY <1>1, <1>2, <1>3, <1>4, <1>5, <1>6, <1>7, <1>8, <1>9, <1>10, <1>11,
     <1>12, <1>13 DEF Next, Alone

(* Which threads may be unjoined.                                          *)

LEMMA UnjoinedInit == Init => Unjoined
  BY DEF Init, Unjoined, Chunks

LEMMA UnjoinedNext == Typed /\ Unjoined /\ [Next]_vars => Unjoined'
<1> SUFFICES ASSUME Typed, Unjoined, [Next]_vars PROVE Unjoined'
  OBVIOUS
<1> USE NAssumption DEF Typed, Places, Chunks, Last, Put, Unjoined,
        MayBeUnjoined
<1>1. CASE MakeSpawner
  BY <1>1 DEF MakeSpawner, Begin
<1>2. CASE Spawn
  BY <1>2 DEF Spawn, SpawnChunk, AfterSpawn
<1>3. CASE StoreHashes /\ UNCHANGED spawner
  BY <1>3 DEF StoreHashes, spawner
<1>4. CASE SetupFails /\ UNCHANGED spawner
  BY <1>4 DEF SetupFails, spawner
<1>5. CASE CompressLast /\ UNCHANGED spawner
  BY <1>5 DEF CompressLast, spawner
<1>6. CASE BadSlot /\ UNCHANGED spawner
  BY <1>6 DEF BadSlot, PanicsAt, spawner
<1>7. CASE Finish /\ UNCHANGED spawner
  BY <1>7 DEF Finish, spawner
<1>8. CASE JoinReturns
  BY <1>8 DEF JoinReturns, JoinResult, Absorb, Advance, spawner
<1>9. CASE JoinFails
  BY <1>9 DEF JoinFails, JoinError, Advance, spawner
<1>10. CASE AbandonJoins
  BY <1>10 DEF AbandonJoins, AbandonIdle, AbandonResult, AbandonError,
               AbandonNext, spawner
<1>11. CASE Unwrap
  BY <1>11 DEF Unwrap, Return
<1>12. ASSUME NEW i \in Chunks, JobEnds(i)
       PROVE  Unjoined'
  BY <1>12 DEF JobEnds, control
<1>13. CASE UNCHANGED vars
  BY <1>13 DEF vars, control, spawner
<1> QED
  BY <1>1, <1>2, <1>3, <1>4, <1>5, <1>6, <1>7, <1>8, <1>9, <1>10, <1>11,
     <1>12, <1>13 DEF Next, Alone

(* The references to the input.                                            *)

(* Running jobs can be counted.                                            *)
LEMMA RunningIsFinite ==
    IsFiniteSet(Running) /\ Cardinality(Running) \in Nat
<1>1. IsFiniteSet(Chunks)
  BY NAssumption, FS_Interval DEF Chunks
<1>2. IsFiniteSet(Running)
  BY <1>1, FS_Subset DEF Running
<1> QED
  BY <1>2, FS_CardinalityType

LEMMA ReferencesInit == Init => References
<1> SUFFICES ASSUME Init PROVE References
  OBVIOUS
<1>1. Running = {}
  BY DEF Init, Running
<1> QED
  BY <1>1, FS_EmptySet DEF Init, References

LEMMA ReferencesNext ==
    Typed /\ Unjoined /\ References /\ [Next]_vars => References'
<1> SUFFICES ASSUME Typed, Unjoined, References, [Next]_vars PROVE References'
  OBVIOUS
<1> USE NAssumption DEF Typed, Places, Chunks, Last
<1>1. CASE MakeSpawner
  <2>1. pc = "idle" /\ pc' # "idle" /\ refs' = 1 /\ Running' = {}
    BY <1>1 DEF MakeSpawner, Begin, Running
  <2> QED
    BY <2>1, FS_EmptySet DEF References
<1>2. CASE Spawn
  <2>1. Running' = Running \cup {next} /\ next \notin Running
    BY <1>2 DEF Spawn, SpawnChunk, Running, Unjoined, MayBeUnjoined
  <2>2. Cardinality(Running') = Cardinality(Running) + 1
    BY <2>1, RunningIsFinite, FS_AddElement
  <2>3. pc # "idle" /\ pc' # "idle" /\ refs' = refs + 1
    BY <1>2 DEF Spawn, SpawnChunk, AfterSpawn
  <2> QED
    BY <2>2, <2>3, RunningIsFinite DEF References
<1>3. CASE Alone \/ JoinReturns \/ JoinFails \/ AbandonJoins
  <2>1. UNCHANGED spawner /\ pc # "idle" /\ pc' # "idle"
    BY <1>3 DEF Alone, StoreHashes, SetupFails, CompressLast, BadSlot,
        PanicsAt, Finish, JoinReturns, JoinResult, JoinFails, JoinError,
        Advance, AbandonJoins, AbandonIdle, AbandonResult, AbandonError,
        AbandonNext
  <2> QED
    BY <2>1 DEF References, Running, spawner
<1>4. CASE Unwrap
  (* No thread is unjoined, so none runs and the caller's reference is the *)
  (* only one.                                                             *)
  <2>1. pc = "unwrap" /\ pc' = "idle" /\ job' = job /\ refs' = refs - 1
    BY <1>4 DEF Unwrap, Return
  <2>2. Running = {} /\ Running' = {}
    BY <2>1 DEF Running, Unjoined, MayBeUnjoined
  <2>3. refs = 1 /\ Cardinality(Running') = 0
    BY <2>1, <2>2, FS_EmptySet DEF References
  <2>4. input' = "Item"
    BY <1>4, <2>3 DEF Unwrap, Return
  <2> QED
    BY <2>1, <2>3, <2>4 DEF References
<1>5. ASSUME NEW i \in Chunks, JobEnds(i)
      PROVE  References'
  <2>1. Running' = Running \ {i} /\ i \in Running
    BY <1>5 DEF JobEnds, Running
  <2>2. Cardinality(Running') = Cardinality(Running) - 1
    BY <2>1, RunningIsFinite, FS_RemoveElement
  <2>3. UNCHANGED <<pc, input>> /\ refs' = refs - 1
    BY <1>5 DEF JobEnds, control
  <2> QED
    BY <2>2, <2>3, RunningIsFinite DEF References
<1>6. CASE UNCHANGED vars
  BY <1>6 DEF vars, control, spawner, References, Running
<1> QED
  BY <1>1, <1>2, <1>3, <1>4, <1>5, <1>6 DEF Next

(* The allocators of the first call.                                       *)

LEMMA FirstCallInit == Init => FirstCall
  BY DEF Init, FirstCall, Chunks

LEMMA FirstCallNext ==
    Typed /\ Unjoined /\ FirstCall /\ [Next]_vars => FirstCall'
<1> SUFFICES ASSUME Typed, Unjoined, FirstCall, [Next]_vars PROVE FirstCall'
  OBVIOUS
<1> USE NAssumption DEF Typed, Places, Chunks, Last, Put, Unjoined,
        MayBeUnjoined, FirstCall, Kept, LostChunks, Untouched
<1>1. CASE MakeSpawner
  BY <1>1 DEF MakeSpawner, Begin
<1>2. CASE Spawn
  BY <1>2 DEF Spawn, SpawnChunk, AfterSpawn
<1>3. CASE StoreHashes /\ UNCHANGED spawner
  BY <1>3 DEF StoreHashes, spawner
<1>4. CASE SetupFails /\ UNCHANGED spawner
  BY <1>4 DEF SetupFails, spawner
<1>5. CASE CompressLast /\ UNCHANGED spawner
  BY <1>5 DEF CompressLast, spawner
<1>6. CASE BadSlot /\ UNCHANGED spawner
  BY <1>6 DEF BadSlot, PanicsAt, spawner
<1>7. CASE Finish /\ UNCHANGED spawner
  BY <1>7 DEF Finish, spawner
<1>8. CASE JoinReturns
  BY <1>8 DEF JoinReturns, JoinResult, Absorb, Advance, spawner
<1>9. CASE JoinFails
  BY <1>9 DEF JoinFails, JoinError, Advance, spawner
<1>10. CASE AbandonJoins
  BY <1>10 DEF AbandonJoins, AbandonIdle, AbandonResult, AbandonError,
               AbandonNext, spawner
<1>11. CASE Unwrap
  BY <1>11 DEF Unwrap, Return
<1>12. ASSUME NEW i \in Chunks, JobEnds(i)
       PROVE  FirstCall'
  BY <1>12 DEF JobEnds, control
<1>13. CASE UNCHANGED vars
  BY <1>13 DEF vars, control, spawner
<1> QED
  BY <1>1, <1>2, <1>3, <1>4, <1>5, <1>6, <1>7, <1>8, <1>9, <1>10, <1>11,
     <1>12, <1>13 DEF Next, Alone

LEMMA Invariance == Spec => []IInv
<1>1. Init => IInv
  BY TypedInit, UnjoinedInit, ReferencesInit, FirstCallInit DEF IInv
<1>2. IInv /\ [Next]_vars => IInv'
  BY TypedNext, UnjoinedNext, ReferencesNext, FirstCallNext DEF IInv
<1> QED
  BY <1>1, <1>2, PTL DEF Spec

(* Whatever fails in a call, when it has returned no thread is unjoined,   *)
(* the caller has the only reference to its input and so has it back, and  *)
(* of the allocators of a first call only the lost threads' are missing.   *)
THEOREM ComesBack == Spec => []EverythingComesBack
<1>1. IInv => EverythingComesBack
  <2> SUFFICES ASSUME IInv, pc = "idle" PROVE EverythingComesBack
    BY DEF EverythingComesBack
  <2>1. \A i \in Chunks : job[i] # "running" /\ slot[i] # "Join"
    BY DEF IInv, Unjoined, MayBeUnjoined
  <2>2. Running = {}
    BY <2>1 DEF Running
  <2>3. refs = 0 /\ input = "Item"
    BY <2>2, FS_EmptySet DEF IInv, References
  <2> QED
    BY <2>1, <2>3 DEF IInv, FirstCall, Kept, EverythingComesBack
<1> QED
  BY <1>1, Invariance, PTL

-----------------------------------------------------------------------------
(* What was written.                                                       *)

LEMMA WrittenInit == Init => Written
  BY DEF Init, Written

(* The steps that touch neither the output nor the pending error and do    *)
(* not enter or leave the places they are about.                           *)
LEMMA WrittenQuiet ==
    ASSUME Typed, Written, UNCHANGED <<catted, pending>>,
           pc' \in {"join", "finish"} => pc = pc' /\ UNCHANGED next,
           pc' \in {"spawn", "hash", "last"} =>
               pc \in {"spawn", "hash", "last"}
    PROVE  Written'
  BY DEF Written, Typed

(* Chunk i follows the ones that were written, is not written after a      *)
(* failure, or is the first to fail.                                       *)
LEMMA WrittenAbsorb ==
    ASSUME Typed, Written, pc = "join", pc' \in {"join", "finish"},
           next' = next + 1, pc' = "finish" => next' = N,
           \/ ~Failed(pending) /\ catted' = Append(catted, next)
              /\ UNCHANGED pending
           \/ UNCHANGED catted /\ Failed(pending) /\ UNCHANGED pending
           \/ UNCHANGED catted /\ ~Failed(pending)
              /\ Failed(pending') /\ pending'.chunk = next
    PROVE  Written'
<1> USE DEF Typed, Written
<1>1. CASE ~Failed(pending) /\ catted' = Append(catted, next)
           /\ UNCHANGED pending
  <2>1. Len(catted) = next /\ next \in Int
    BY <1>1
  <2>2. catted' \in Seq(Int) /\ Len(catted') = next + 1
    BY <1>1, <2>1, AppendProperties
  <2>3. \A k \in DOMAIN catted' : catted'[k] = k - 1
    BY <1>1, <2>1, <2>2, AppendProperties
  <2>4. Failed(pending') = Failed(pending)
    BY <1>1 DEF Failed, Ok
  <2> QED
    BY <1>1, <2>2, <2>3, <2>4
<1>2. CASE UNCHANGED catted /\ Failed(pending) /\ UNCHANGED pending
  BY <1>2 DEF Failed, Ok
<1>3. CASE UNCHANGED catted /\ ~Failed(pending)
           /\ Failed(pending') /\ pending'.chunk = next
  BY <1>3 DEF Failed, Ok
<1> QED
  BY <1>1, <1>2, <1>3

(* An error is a failed result, and names its chunk.                       *)
LEMMA ErrorsFail ==
    ASSUME NEW kind \in {"InsufficientOutputSpace", "ConcatenationError",
                         "OtherThreadPanic", "ThreadExecError"},
           NEW i
    PROVE  Failed(Error(kind, i)) /\ Error(kind, i).chunk = i
  BY DEF Failed, Error, Ok

LEMMA WrittenNext == Typed /\ Written /\ [Next]_vars => Written'
<1> SUFFICES ASSUME Typed, Written, [Next]_vars PROVE Written'
  OBVIOUS
<1> USE NAssumption DEF Last
<1>1. CASE MakeSpawner
  BY <1>1 DEF MakeSpawner, Begin, Written
<1>2. CASE Spawn \/ Alone \/ AbandonJoins \/ Unwrap
  <2>1. CASE CompressLast /\ UNCHANGED spawner
    BY <2>1, EmptySeq DEF CompressLast, Written, Failed, Ok
  <2>2. CASE Spawn \/ AbandonJoins \/ Unwrap \/
             ((StoreHashes \/ SetupFails \/ BadSlot \/ Finish)
              /\ UNCHANGED spawner)
    BY <2>2, WrittenQuiet DEF Spawn, SpawnChunk, AfterSpawn, StoreHashes,
        SetupFails, BadSlot, PanicsAt, Finish, AbandonJoins, AbandonIdle,
        AbandonResult, AbandonError, AbandonNext, Unwrap, Return
  <2> QED
    BY <1>2, <2>1, <2>2 DEF Alone
<1>3. CASE JoinReturns
  <2>1. /\ pc = "join" /\ pc' \in {"join", "finish"} /\ next' = next + 1
        /\ pc' = "finish" => next' = N
    BY <1>3 DEF JoinReturns, JoinResult, Advance, Typed
  <2>2. Absorb(next)
    BY <1>3 DEF JoinReturns, JoinResult
  <2> QED
    BY <2>1, <2>2, WrittenAbsorb, ErrorsFail DEF Absorb, SetPending
<1>4. CASE JoinFails
  <2>1. /\ pc = "join" /\ pc' \in {"join", "finish"} /\ next' = next + 1
        /\ pc' = "finish" => next' = N
        /\ UNCHANGED catted
    BY <1>4 DEF JoinFails, JoinError, Advance, Typed
  <2>2. \/ SetPending(Error("OtherThreadPanic", next))
        \/ SetPending(Error("ThreadExecError", next))
    BY <1>4 DEF JoinFails, JoinError
  <2> QED
    BY <2>1, <2>2, WrittenAbsorb, ErrorsFail DEF SetPending
<1>5. ASSUME NEW i \in Chunks, JobEnds(i)
      PROVE  Written'
  BY <1>5, WrittenQuiet DEF JobEnds, control
<1>6. CASE UNCHANGED vars
  BY <1>6, WrittenQuiet DEF vars, control
<1> QED
  BY <1>1, <1>2, <1>3, <1>4, <1>5, <1>6 DEF Next

(* The output is the chunks in the order of the input, all of them or      *)
(* those before the first one whose thread, buffer or concatenation failed *)
(* and which the pending error names.                                      *)
THEOREM OrderedPrefix == Spec => []OutputIsOrderedPrefix
<1>1. IInv /\ Written => OutputIsOrderedPrefix
  BY DEF Written, OutputIsOrderedPrefix
<1>2. IInv => Typed
  BY DEF IInv
<1> QED
  BY <1>1, <1>2, Invariance, WrittenInit, WrittenNext, PTL DEF Spec
=============================================================================
