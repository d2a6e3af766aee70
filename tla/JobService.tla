----------------------------- MODULE JobService -----------------------------
(***************************************************************************)
(* What a pool promises its callers, without queues, locks or threads: a   *)
(* submitted job is started at most once, in the order of submission, its  *)
(* result is handed over at most once, and only after the job ran.         *)
(* WorkerPool.tla implements this.                                         *)
(***************************************************************************)
EXTENDS Integers

CONSTANT MaxWorkIds     \* bound on the number of jobs

VARIABLE status         \* of each work id

WorkIds == 0..(MaxWorkIds - 1)

Init == status = [id \in WorkIds |-> "new"]

Becomes(id, from, to) ==
    /\ status[id] = from
    /\ status' = [status EXCEPT ![id] = to]

Submit(id) ==
    /\ \A earlier \in 0..(id - 1) : status[earlier] # "new"
    /\ Becomes(id, "new", "queued")

Start(id) ==
    /\ \A earlier \in 0..(id - 1) : status[earlier] # "queued"
    /\ Becomes(id, "queued", "running")

Finish(id) == Becomes(id, "running", "done")

(* The thread that ran the job, or was to store its result, panicked; or a *)
(* panic in submit dropped the job before it was stored.                   *)
Lose(id) ==
    \/ Becomes(id, "running", "lost")
    \/ Becomes(id, "new", "lost")

Take(id) == Becomes(id, "done", "taken")

Next ==
    \E id \in WorkIds :
        Submit(id) \/ Start(id) \/ Finish(id) \/ Lose(id) \/ Take(id)

Spec == Init /\ [][Next]_status
=============================================================================
