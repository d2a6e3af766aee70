------------------------------ MODULE QueueOps ------------------------------
(* The operations of FixedQueue (enc/fixed_queue.rs) as seen by its user,  *)
(* on the sequence of the elements it holds.                               *)
EXTENDS Integers, Sequences

(* The position remove(f) picks: the first, from the head, that satisfies  *)
(* f; the empty set when none does.                                        *)
FirstMatch(q, f(_)) ==
    {i \in DOMAIN q : f(q[i]) /\ \A j \in 1..(i - 1) : ~f(q[j])}

(* remove(f) at position i: the element at the head moves into the hole    *)
(* and the head advances.  At i = 1 this is pop.                           *)
SwapRemove(q, i) == Tail([q EXCEPT ![i] = Head(q)])
=============================================================================
