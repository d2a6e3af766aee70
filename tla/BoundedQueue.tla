---------------------------- MODULE BoundedQueue ----------------------------
(***************************************************************************)
(* What enc/fixed_queue.rs promises its one user, the worker pool: a       *)
(* bounded sequence.  push appends or reports "full", pop takes the oldest *)
(* position, and remove takes the first element that matches, after which  *)
(* the element at the head stands in its place (so a queue that is only    *)
(* pushed and popped is a FIFO, and one that is removed from is a bag with *)
(* a documented order).  FixedQueue.tla is the ring buffer that implements *)
(* this; WorkerPool.tla uses the operators below for both of its queues.   *)
(***************************************************************************)
EXTENDS QueueOps

CONSTANTS
    Items,          \* the values that are pushed
    Capacity,       \* data.len(), MAX_THREADS in the code
    None            \* the None of Option, and the Err(()) of push

VARIABLES
    queue,          \* the elements held, from the oldest position
    ret             \* what the last call returned

vars == <<queue, ret>>

Init == queue = <<>> /\ ret = None

Push(item) ==
    \/ /\ Len(queue) < Capacity
       /\ queue' = Append(queue, item)
       /\ ret' = item
    \/ /\ Len(queue) = Capacity
       /\ ret' = None
       /\ UNCHANGED queue

Pop ==
    \/ /\ queue # <<>>
       /\ ret' = Head(queue)
       /\ queue' = Tail(queue)
    \/ /\ queue = <<>>
       /\ ret' = None
       /\ UNCHANGED queue

Remove(wanted) ==
    \/ \E i \in FirstMatch(queue, LAMBDA x : x = wanted) :
          /\ ret' = queue[i]
          /\ queue' = SwapRemove(queue, i)
    \/ /\ \A i \in DOMAIN queue : queue[i] # wanted
       /\ ret' = None
       /\ UNCHANGED queue

Next ==
    \/ \E item \in Items : Push(item) \/ Remove(item)
    \/ Pop

Spec == Init /\ [][Next]_vars
=============================================================================
