----------------------------- MODULE FixedQueue -----------------------------
(***************************************************************************)
(* The ring buffer of enc/fixed_queue.rs: an array of Option slots, a size *)
(* and a start that only ever grows and is reduced modulo the array's      *)
(* length at every use.                                                    *)
(***************************************************************************)
EXTENDS Integers, Sequences, FiniteSets

CONSTANTS
    Items,          \* the values that are pushed
    Capacity,       \* data.len(), MAX_THREADS in the code
    None,           \* an empty slot, and the Err(()) of push
    MaxStart        \* bound on start, which the code lets grow for ever

ASSUME CapacityAssumption == Capacity \in Nat \ {0}
ASSUME NoneAssumption == None \notin Items

VARIABLES
    data,           \* the slots
    size,
    start,
    ret             \* what the last call returned

vars == <<data, size, start, ret>>

Slots == 0..(Capacity - 1)

(* The slot of the element that is k positions after the head.             *)
Slot(k) == (start + k) % Capacity

Init ==
    /\ data = [s \in Slots |-> None]
    /\ size = 0
    /\ start = 0
    /\ ret = None

(* A variant with a plausible bug, to show that the property can fail: the *)
(* hole is filled from the other end.                                      *)
RemoveAt_FillsFromTail(k) ==
    LET emptied == [data EXCEPT ![Slot(k)] = None]
    IN  /\ ret' = data[Slot(k)]
        /\ data' = [emptied EXCEPT ![Slot(k)] = emptied[Slot(size - 1)],
                                   ![Slot(size - 1)] = None]
        /\ size' = size - 1
        /\ UNCHANGED start

Push(item) ==
    \/ /\ size = Capacity
       /\ ret' = None
       /\ UNCHANGED <<data, size, start>>
    \/ /\ size # Capacity
       /\ data' = [data EXCEPT ![Slot(size)] = item]
       /\ size' = size + 1
       /\ ret' = item
       /\ UNCHANGED start

Pop ==
    \/ /\ size = 0
       /\ ret' = None
       /\ UNCHANGED <<data, size, start>>
    \/ /\ size # 0
       /\ start < MaxStart
       /\ ret' = data[Slot(0)]
       /\ data' = [data EXCEPT ![Slot(0)] = None]
       /\ start' = start + 1
       /\ size' = size - 1

(* remove(f), for the predicates the code passes: "the slot holds this     *)
(* item".  The matched slot is emptied first, so that taking the head when *)
(* the match is the head itself yields None.                               *)
RemoveAt(k) ==
    LET emptied == [data EXCEPT ![Slot(k)] = None]
    IN  /\ start < MaxStart
        /\ ret' = data[Slot(k)]
        /\ data' = [emptied EXCEPT ![Slot(k)] = emptied[Slot(0)],
                                   ![Slot(0)] = None]
        /\ start' = start + 1
        /\ size' = size - 1

Remove(wanted) ==
    \/ \E k \in 0..(size - 1) :
          /\ data[Slot(k)] = wanted
          /\ \A j \in 0..(k - 1) : data[Slot(j)] # wanted
          /\ RemoveAt(k)
    \/ /\ \A k \in 0..(size - 1) : data[Slot(k)] # wanted
       /\ ret' = None
       /\ UNCHANGED <<data, size, start>>

Next ==
    \/ \E item \in Items : Push(item) \/ Remove(item)
    \/ Pop

Spec == Init /\ [][Next]_vars

-----------------------------------------------------------------------------
TypeOK ==
    /\ data \in [Slots -> Items \cup {None}]
    /\ size \in 0..Capacity
    /\ start \in Nat
    /\ ret \in Items \cup {None}

(* The slots that hold something are exactly the size slots that follow    *)
(* start: nothing pushed is stranded outside the window, where no pop or   *)
(* remove would look, and no slot inside it is empty.                      *)
WindowIsFull ==
    {s \in Slots : data[s] # None} = {Slot(k) : k \in 0..(size - 1)}

(* The ring buffer implements the bounded sequence: same contents in the   *)
(* same order after every push, pop and remove, and the same answer.       *)
Contents == [i \in 1..size |-> data[Slot(i - 1)]]
Queue == INSTANCE BoundedQueue WITH queue <- Contents
ImplementsQueue == Queue!Spec
=============================================================================
