-------------------------- MODULE FixedQueueProofs --------------------------
(***************************************************************************)
(* Proofs about FixedQueue, for every capacity and any number of calls:    *)
(*   TypeCorrect      Spec => []TypeOK                                     *)
(*   WindowCorrect    Spec => []WindowIsFull                               *)
(*   Implementation   Spec => Queue!Spec                                   *)
(* WindowIsFull is inductive beside the types because the slots of a       *)
(* window no longer than the array are all different.  It is what makes    *)
(* the slot a push writes an empty one, and the slots pop and remove read  *)
(* full ones.                                                              *)
(***************************************************************************)
EXTENDS FixedQueue, QueueOps, SequenceTheorems, TLAPS

-----------------------------------------------------------------------------
(* What the proofs need of SwapRemove (QueueOps), and of places in a ring.    *)

(* remove keeps the elements in the queue's type and takes out one.        *)
LEMMA SwapRemoveProperties ==
    ASSUME NEW S, NEW q \in Seq(S), NEW i \in DOMAIN q
    PROVE  SwapRemove(q, i) \in Seq(S) /\ Len(SwapRemove(q, i)) = Len(q) - 1
<1>1. i \in 1..Len(q) /\ q # <<>>
  OBVIOUS
<1>2. Head(q) \in S
  BY <1>1, HeadTailProperties
<1> DEFINE r == [q EXCEPT ![i] = Head(q)]
<1>3. r \in Seq(S) /\ Len(r) = Len(q)
  BY <1>1, <1>2, ExceptSeq
<1>4. r # <<>>
  BY <1>1, <1>3
<1> QED
  BY <1>3, <1>4, HeadTailProperties DEF SwapRemove

(* The head stands in the hole, and what was behind it moves up.           *)
LEMMA SwapRemoveElements ==
    ASSUME NEW S, NEW q \in Seq(S), NEW i \in DOMAIN q
    PROVE  \A j \in 1..(Len(q) - 1) :
              SwapRemove(q, i)[j] = IF j + 1 = i THEN q[1] ELSE q[j + 1]
<1>1. i \in 1..Len(q) /\ q # <<>> /\ Head(q) = q[1] /\ Head(q) \in S
  BY HeadTailProperties
<1> DEFINE r == [q EXCEPT ![i] = Head(q)]
<1>2. /\ r \in Seq(S) /\ Len(r) = Len(q)
      /\ \A j \in 1..Len(q) : r[j] = IF j = i THEN q[1] ELSE q[j]
  BY <1>1, ExceptSeq
<1>3. r # <<>>
  BY <1>1, <1>2
<1> HIDE DEF r
<1>4. Len(Tail(r)) = Len(q) - 1
      /\ \A j \in 1..(Len(q) - 1) : Tail(r)[j] = r[j + 1]
  BY <1>2, <1>3, HeadTailProperties
<1>5. SwapRemove(q, i) = Tail(r)
  BY DEF r, SwapRemove
<1> QED
  BY <1>1, <1>2, <1>4, <1>5

(* A position is its whole rounds and its place in the ring.               *)
LEMMA DivMod ==
    ASSUME NEW C \in Nat \ {0}, NEW x \in Nat
    PROVE  /\ x \div C \in Nat /\ x % C \in 0..(C - 1)
           /\ x = (C * (x \div C)) + (x % C)
  OBVIOUS

(* One round more is at least C positions more.                            *)
LEMMA RoundsApart ==
    ASSUME NEW C \in Nat \ {0}, NEW a \in Nat, NEW b \in Nat, a < b
    PROVE  C * a + C <= C * b
<1>1. PICK d \in Nat : b = a + 1 + d
  <2>1. b - a - 1 \in Nat /\ b = a + 1 + (b - a - 1)
    OBVIOUS
  <2> QED
    BY <2>1
<1>2. C * b = C * a + C + C * d
  BY <1>1
<1>3. C * d >= 0 /\ C * a \in Nat
  OBVIOUS
<1> QED
  BY <1>2, <1>3

(* Positions less than a round apart have different places.                *)
LEMMA ModInjective ==
    ASSUME NEW C \in Nat \ {0}, NEW x \in Nat, NEW y \in Nat,
           x % C = y % C, x - y < C, y - x < C
    PROVE  x = y
<1>1. PICK a \in Nat, b \in Nat, r \in Nat : x = C * a + r /\ y = C * b + r
  <2>1. /\ x \div C \in Nat /\ x % C \in 0..(C - 1)
        /\ x = (C * (x \div C)) + (x % C)
    BY DivMod
  <2>2. x % C \in Nat
    BY <2>1
  <2>3. y \div C \in Nat /\ y = (C * (y \div C)) + (x % C)
    BY DivMod
  <2> QED
    BY <2>1, <2>2, <2>3
<1>2. C * a \in Nat /\ C * b \in Nat
  OBVIOUS
<1>3. CASE a < b
  BY <1>1, <1>2, <1>3, RoundsApart
<1>4. CASE b < a
  BY <1>1, <1>2, <1>4, RoundsApart
<1>5. CASE a = b
  BY <1>1, <1>5
<1> QED
  BY <1>3, <1>4, <1>5

-----------------------------------------------------------------------------

IInv == TypeOK /\ WindowIsFull

(* A slot is an index of the array.                                        *)
LEMMA SlotRange ==
    ASSUME start \in Nat
    PROVE  \A k \in Nat : Slot(k) \in Slots
<1> SUFFICES ASSUME NEW k \in Nat PROVE (start + k) % Capacity \in Slots
  BY DEF Slot
<1>1. start + k \in Nat
  OBVIOUS
<1> QED
  BY <1>1, DivMod, CapacityAssumption DEF Slots

(* No two positions of a window share a slot.                              *)
LEMMA SlotInjective ==
    ASSUME start \in Nat, NEW j \in 0..(Capacity - 1), NEW k \in 0..(Capacity - 1),
           Slot(j) = Slot(k)
    PROVE  j = k
<1>1. start + j \in Nat /\ start + k \in Nat /\ Capacity \in Nat \ {0}
  BY CapacityAssumption
<1>2. (start + j) - (start + k) < Capacity /\ (start + k) - (start + j) < Capacity
  BY <1>1
<1>3. (start + j) % Capacity = (start + k) % Capacity
  BY DEF Slot
<1>4. start + j = start + k
  BY <1>1, <1>2, <1>3, ModInjective
<1> QED
  BY <1>4

(* When start advances, each position names the slot behind its own.       *)
LEMMA SlotAdvances ==
    ASSUME start \in Nat, start' = start + 1
    PROVE  \A k \in Nat : Slot(k)' = Slot(k + 1)
<1> SUFFICES ASSUME NEW k \in Nat
             PROVE  (start' + k) % Capacity = (start + (k + 1)) % Capacity
  BY DEF Slot
<1>1. start' + k = start + (k + 1)
  OBVIOUS
<1> QED
  BY <1>1

(* The window, position by position.                                       *)
LEMMA WindowSlots ==
    ASSUME IInv
    PROVE  /\ \A k \in 0..(size - 1) : Slot(k) \in Slots /\ data[Slot(k)] \in Items
           /\ \A s \in Slots : data[s] # None
                  => \E k \in 0..(size - 1) : s = Slot(k)
           /\ \A k \in 0..(Capacity - 1) : k >= size => data[Slot(k)] = None
<1>1. /\ size \in Nat /\ size <= Capacity /\ start \in Nat /\ Capacity \in Nat
      /\ data \in [Slots -> Items \cup {None}]
      /\ \A k \in Nat : Slot(k) \in Slots
  BY SlotRange, CapacityAssumption DEF IInv, TypeOK
<1>2. \A s \in Slots : data[s] # None <=> \E k \in 0..(size - 1) : s = Slot(k)
  BY <1>1 DEF IInv, WindowIsFull
<1>3. \A k \in 0..(size - 1) : data[Slot(k)] \in Items
  BY <1>1, <1>2
<1>4. ASSUME NEW k \in 0..(Capacity - 1), k >= size, data[Slot(k)] # None
      PROVE  FALSE
  <2>1. PICK j \in 0..(size - 1) : Slot(k) = Slot(j)
    BY <1>1, <1>2, <1>4
  <2>2. j \in 0..(Capacity - 1) /\ j # k
    BY <1>1, <1>4, <2>1
  <2> QED
    BY <1>1, <2>1, <2>2, SlotInjective
<1> QED
  BY <1>1, <1>2, <1>3, <1>4

(* Conversely: the slots of the window are full and no other is.           *)
LEMMA WindowFromSlots ==
    ASSUME TypeOK,
           \A k \in 0..(size - 1) : data[Slot(k)] # None,
           \A s \in Slots : data[s] # None => \E k \in 0..(size - 1) : s = Slot(k)
    PROVE  WindowIsFull
<1>1. \A k \in 0..(size - 1) : Slot(k) \in Slots
  BY SlotRange DEF TypeOK
<1> QED
  BY <1>1 DEF WindowIsFull

LEMMA InitCorrect == Init => IInv
<1> SUFFICES ASSUME Init PROVE TypeOK /\ WindowIsFull
  BY DEF IInv
<1>1. TypeOK
  BY CapacityAssumption DEF Init, TypeOK
<1>2. \A s \in Slots : data[s] = None
  BY DEF Init
<1>3. size = 0
  BY DEF Init
<1> QED
  BY <1>1, <1>2, <1>3, WindowFromSlots

(* What the three calls that change the queue do, position by position.    *)
LEMMA PushEffect ==
    ASSUME IInv, NEW item \in Items, Push(item), size # Capacity
    PROVE  /\ TypeOK' /\ size' = size + 1 /\ ret' = item
           /\ \A k \in Nat : Slot(k)' = Slot(k)
           /\ \A k \in 0..(size - 1) : data'[Slot(k)] = data[Slot(k)]
           /\ data'[Slot(size)] = item
           /\ \A s \in Slots : data'[s] # None => data[s] # None \/ s = Slot(size)
<1>1. /\ size \in 0..(Capacity - 1) /\ start \in Nat /\ Capacity \in Nat
      /\ data \in [Slots -> Items \cup {None}] /\ ret \in Items \cup {None}
  BY CapacityAssumption DEF IInv, TypeOK
<1>2. /\ data' = [data EXCEPT ![Slot(size)] = item] /\ start' = start
      /\ size' = size + 1 /\ ret' = item
  BY DEF Push
<1>3. Slot(size) \in Slots /\ \A k \in Nat : Slot(k) \in Slots
  BY <1>1, SlotRange
<1>4. \A k \in 0..(size - 1) : Slot(k) # Slot(size) /\ k \in Nat
  BY <1>1, SlotInjective
<1>5. \A k \in Nat : Slot(k)' = Slot(k)
  BY <1>2 DEF Slot
<1>6. TypeOK'
  BY <1>1, <1>2, <1>3 DEF TypeOK
<1> QED
  BY <1>1, <1>2, <1>3, <1>4, <1>5, <1>6

(* What is left after a pop.                                               *)
LEMMA PopEffect ==
    ASSUME IInv, Pop, size # 0
    PROVE  /\ TypeOK' /\ size' = size - 1 /\ ret' = data[Slot(0)]
           /\ \A k \in Nat : Slot(k)' = Slot(k + 1)
           /\ \A k \in 1..(size - 1) : data'[Slot(k)] = data[Slot(k)]
           /\ \A s \in Slots : data'[s] # None => data[s] # None /\ s # Slot(0)
<1>1. /\ size \in 1..Capacity /\ start \in Nat /\ Capacity \in Nat
      /\ data \in [Slots -> Items \cup {None}] /\ ret \in Items \cup {None}
  BY CapacityAssumption DEF IInv, TypeOK
<1>2. /\ data' = [data EXCEPT ![Slot(0)] = None] /\ start' = start + 1
      /\ size' = size - 1 /\ ret' = data[Slot(0)]
  BY DEF Pop
<1>3. \A k \in Nat : Slot(k) \in Slots
  BY <1>1, SlotRange
<1>4. \A k \in 1..(size - 1) : Slot(k) # Slot(0) /\ k \in Nat
  BY <1>1, SlotInjective
<1>5. \A k \in Nat : Slot(k)' = Slot(k + 1)
  BY <1>1, <1>2, SlotAdvances
<1>6. TypeOK'
  BY <1>1, <1>2, <1>3 DEF TypeOK
<1> QED
  BY <1>1, <1>2, <1>3, <1>4, <1>5, <1>6

(* At the head itself (i = 0) remove leaves None behind, as pop does.      *)
LEMMA RemoveEffect ==
    ASSUME IInv, NEW i \in 0..(size - 1), RemoveAt(i)
    PROVE  /\ TypeOK' /\ size' = size - 1 /\ ret' = data[Slot(i)]
           /\ \A k \in Nat : Slot(k)' = Slot(k + 1)
           /\ \A k \in 1..(size - 1) :
                 data'[Slot(k)] = IF k = i THEN data[Slot(0)] ELSE data[Slot(k)]
           /\ \A s \in Slots : data'[s] # None => data[s] # None /\ s # Slot(0)
<1>1. /\ size \in 1..Capacity /\ start \in Nat /\ Capacity \in Nat
      /\ data \in [Slots -> Items \cup {None}] /\ ret \in Items \cup {None}
      /\ i \in Nat
  BY CapacityAssumption DEF IInv, TypeOK
<1> DEFINE emptied == [data EXCEPT ![Slot(i)] = None]
<1>2. /\ data' = [emptied EXCEPT ![Slot(i)] = emptied[Slot(0)], ![Slot(0)] = None]
      /\ start' = start + 1 /\ size' = size - 1 /\ ret' = data[Slot(i)]
  BY DEF RemoveAt
<1>3. \A k \in Nat : Slot(k) \in Slots
  BY <1>1, SlotRange
<1>4. \A j, k \in 0..(size - 1) : Slot(j) = Slot(k) => j = k
  BY <1>1, SlotInjective
<1>5. \A k \in Nat : Slot(k)' = Slot(k + 1)
  BY <1>1, <1>2, SlotAdvances
<1>6. /\ emptied \in [Slots -> Items \cup {None}]
      /\ \A s \in Slots : emptied[s] = IF s = Slot(i) THEN None ELSE data[s]
  BY <1>1, <1>3
<1> HIDE DEF emptied
<1>7. /\ data' \in [Slots -> Items \cup {None}]
      /\ \A s \in Slots :
            data'[s] = IF s = Slot(0) THEN None
                       ELSE IF s = Slot(i) THEN emptied[Slot(0)] ELSE emptied[s]
  BY <1>1, <1>2, <1>3, <1>6
<1>8. TypeOK'
  <2>1. data[Slot(i)] \in Items \cup {None}
    BY <1>1, <1>3
  <2> QED
    BY <1>1, <1>2, <1>7, <2>1 DEF TypeOK
<1>9. ASSUME NEW k \in 1..(size - 1)
      PROVE  data'[Slot(k)] = IF k = i THEN data[Slot(0)] ELSE data[Slot(k)]
  <2>1. /\ k \in Nat /\ Slot(k) \in Slots /\ Slot(0) \in Slots
        /\ Slot(k) # Slot(0) /\ (Slot(k) = Slot(i) <=> k = i)
    BY <1>1, <1>3, <1>4
  <2>2. k = i => Slot(0) # Slot(i)
    BY <2>1
  <2> QED
    BY <1>6, <1>7, <2>1, <2>2
<1>10. ASSUME NEW s \in Slots, data'[s] # None
       PROVE  data[s] # None /\ s # Slot(0)
  <2>1. s # Slot(0) /\ (s = Slot(i) \/ data[s] # None)
    BY <1>6, <1>7, <1>10
  <2>2. data[Slot(i)] # None
    BY WindowSlots, NoneAssumption
  <2> QED
    BY <2>1, <2>2
<1> QED
  BY <1>2, <1>5, <1>8, <1>9, <1>10

(* After an advance: the window begins at the second slot of the old one.  *)
LEMMA WindowAdvances ==
    ASSUME IInv, TypeOK', size # 0, size' = size - 1,
           \A k \in Nat : Slot(k)' = Slot(k + 1),
           \A k \in 1..(size - 1) : data'[Slot(k)] # None,
           \A s \in Slots : data'[s] # None => data[s] # None /\ s # Slot(0)
    PROVE  WindowIsFull'
<1>1. size \in 1..Capacity /\ Capacity \in Nat
  BY CapacityAssumption DEF IInv, TypeOK
<1>2. \A k \in 0..(size' - 1) : (data[Slot(k)])' # None
  <2> SUFFICES ASSUME NEW k \in 0..(size' - 1) PROVE (data[Slot(k)])' # None
    OBVIOUS
  <2>1. k \in Nat /\ k + 1 \in 1..(size - 1) /\ Slot(k)' = Slot(k + 1)
    BY <1>1
  <2> QED
    BY <2>1
<1>3. ASSUME NEW s \in Slots, data'[s] # None
      PROVE  \E k \in 0..(size' - 1) : s = Slot(k)'
  <2>1. PICK k \in 0..(size - 1) : s = Slot(k) /\ k # 0
    BY <1>3, WindowSlots
  <2>2. k - 1 \in 0..(size' - 1) /\ k - 1 \in Nat /\ (k - 1) + 1 = k
    BY <1>1, <2>1
  <2>3. Slot(k - 1)' = Slot(k)
    BY <2>2
  <2> QED
    BY <2>1, <2>2, <2>3
<1>4. \A k \in 0..(size' - 1) : Slot(k)' \in Slots
  <2>1. \A k \in 0..(size' - 1) : k \in Nat /\ k + 1 \in Nat
    BY <1>1
  <2>2. start \in Nat
    BY DEF IInv, TypeOK
  <2> QED
    BY <2>1, <2>2, SlotRange
<1> QED
  BY <1>2, <1>3, <1>4 DEF WindowIsFull

(* A call that finds nothing to do changes only the answer.                *)
Refuses == ret' = None /\ UNCHANGED <<data, size, start>>

LEMMA NextCases ==
    ASSUME IInv, [Next]_vars
    PROVE  \/ \E item \in Items : Push(item) /\ size # Capacity
           \/ Pop /\ size # 0
           \/ \E i \in 0..(size - 1) : RemoveAt(i)
           \/ Refuses
           \/ UNCHANGED vars
  BY DEF Next, Push, Pop, Remove, Refuses

LEMMA InvNext == IInv /\ [Next]_vars => IInv'
<1> SUFFICES ASSUME IInv, [Next]_vars PROVE IInv'
  OBVIOUS
<1>1. ASSUME NEW item \in Items, Push(item), size # Capacity
      PROVE  IInv'
  <2>0. size \in 0..(Capacity - 1) /\ Capacity \in Nat /\ start \in Nat
    BY <1>1, CapacityAssumption DEF IInv, TypeOK
  <2>1. /\ TypeOK' /\ size' = size + 1
        /\ \A k \in Nat : Slot(k)' = Slot(k)
        /\ \A k \in 0..(size - 1) : data'[Slot(k)] = data[Slot(k)]
        /\ data'[Slot(size)] = item
        /\ \A s \in Slots : data'[s] # None => data[s] # None \/ s = Slot(size)
    BY <1>1, PushEffect
  <2>2. ASSUME NEW k \in 0..(size' - 1)
        PROVE  Slot(k)' = Slot(k) /\ Slot(k) \in Slots /\ data'[Slot(k)] # None
    <3>1. k \in Nat /\ (k \in 0..(size - 1) \/ k = size)
      BY <2>0, <2>1
    <3>2. CASE k \in 0..(size - 1)
      BY <2>1, <3>1, <3>2, WindowSlots, NoneAssumption
    <3>3. CASE k = size
      BY <2>0, <2>1, <3>1, <3>3, SlotRange, NoneAssumption
    <3> QED
      BY <3>1, <3>2, <3>3
  <2>3. ASSUME NEW s \in Slots, data'[s] # None
        PROVE  \E k \in 0..(size' - 1) : s = Slot(k)
    <3>1. CASE data[s] # None
      <4>1. PICK k \in 0..(size - 1) : s = Slot(k)
        BY <3>1, WindowSlots
      <4>2. k \in 0..(size' - 1)
        BY <2>0, <2>1
      <4> QED
        BY <4>1, <4>2
    <3>2. CASE s = Slot(size)
      <4>1. size \in 0..(size' - 1)
        BY <2>0, <2>1
      <4> QED
        BY <3>2, <4>1
    <3> QED
      BY <2>1, <2>3, <3>1, <3>2
  <2>4. WindowIsFull'
    BY <2>2, <2>3 DEF WindowIsFull
  <2> QED
    BY <2>1, <2>4 DEF IInv
<1>2. CASE Pop /\ size # 0
  <2>1. /\ TypeOK' /\ size' = size - 1
        /\ \A k \in Nat : Slot(k)' = Slot(k + 1)
        /\ \A k \in 1..(size - 1) : data'[Slot(k)] = data[Slot(k)]
        /\ \A s \in Slots : data'[s] # None => data[s] # None /\ s # Slot(0)
    BY <1>2, PopEffect
  <2>2. \A k \in 1..(size - 1) : data'[Slot(k)] # None
    BY <2>1, WindowSlots, NoneAssumption DEF IInv, TypeOK
  <2>3. WindowIsFull'
    BY <1>2, <2>1, <2>2, WindowAdvances
  <2> QED
    BY <2>1, <2>3 DEF IInv
<1>3. ASSUME NEW i \in 0..(size - 1), RemoveAt(i)
      PROVE  IInv'
  <2>1. /\ TypeOK' /\ size' = size - 1 /\ size # 0
        /\ \A k \in Nat : Slot(k)' = Slot(k + 1)
        /\ \A k \in 1..(size - 1) :
              data'[Slot(k)] = IF k = i THEN data[Slot(0)] ELSE data[Slot(k)]
        /\ \A s \in Slots : data'[s] # None => data[s] # None /\ s # Slot(0)
    BY <1>3, RemoveEffect DEF IInv, TypeOK
  <2>2. \A k \in 1..(size - 1) : data'[Slot(k)] # None
    <3>1. \A k \in 0..(size - 1) : data[Slot(k)] # None
      BY WindowSlots, NoneAssumption
    <3>2. 0 \in 0..(size - 1) /\ \A k \in 1..(size - 1) : k \in 0..(size - 1)
      BY <1>3 DEF IInv, TypeOK
    <3> QED
      BY <2>1, <3>1, <3>2
  <2>3. WindowIsFull'
    BY <2>1, <2>2, WindowAdvances
  <2> QED
    BY <2>1, <2>3 DEF IInv
<1>4. CASE Refuses \/ UNCHANGED vars
  <2>1. UNCHANGED <<data, size, start>> /\ (ret' = None \/ ret' = ret)
    BY <1>4 DEF Refuses, vars
  <2>2. \A k : Slot(k)' = Slot(k)
    BY <2>1 DEF Slot
  <2> QED
    BY <2>1, <2>2 DEF IInv, TypeOK, WindowIsFull
<1> QED
  BY <1>1, <1>2, <1>3, <1>4, NextCases

LEMMA InvCorrect == Spec => []IInv
  BY InitCorrect, InvNext, PTL DEF Spec

(* size never exceeds the array's length, and no index leaves the array.   *)
THEOREM TypeCorrect == Spec => []TypeOK
<1>1. IInv => TypeOK
  BY DEF IInv
<1> QED
  BY <1>1, InvCorrect, PTL

(* Nothing is stranded outside the window and no slot in it is empty.      *)
THEOREM WindowCorrect == Spec => []WindowIsFull
<1>1. IInv => WindowIsFull
  BY DEF IInv
<1> QED
  BY <1>1, InvCorrect, PTL

-----------------------------------------------------------------------------
(* The ring buffer implements the bounded sequence.                        *)

ContentsAreTheWindow ==
    /\ Contents \in Seq(Items) /\ Len(Contents) = size
    /\ DOMAIN Contents = 1..size
    /\ \A i \in 1..size : Contents[i] = data[Slot(i - 1)]

LEMMA ContentsProperties == IInv => ContentsAreTheWindow
<1> SUFFICES ASSUME IInv PROVE ContentsAreTheWindow
  OBVIOUS
<1>1. size \in Nat
  BY CapacityAssumption DEF IInv, TypeOK
<1>2. \A i \in 1..size : data[Slot(i - 1)] \in Items
  <2>1. \A i \in 1..size : i - 1 \in 0..(size - 1)
    BY <1>1
  <2> QED
    BY <2>1, WindowSlots
<1>3. Contents \in [1..size -> Items]
  BY <1>2 DEF Contents
<1> QED
  BY <1>1, <1>3 DEF Contents, ContentsAreTheWindow

LEMMA ContentsNext == IInv' => ContentsAreTheWindow'
  BY ContentsProperties, PTL

LEMMA QueueInit == Init => Queue!Init
<1> SUFFICES ASSUME Init PROVE Queue!Init
  OBVIOUS
<1>1. IInv /\ size = 0 /\ ret = None
  BY InitCorrect DEF Init
<1>2. Contents = <<>>
  BY <1>1, ContentsProperties DEF ContentsAreTheWindow
<1> QED
  BY <1>1, <1>2 DEF Queue!Init

(* One lemma per method: a step of the ring is one of the bounded queue.   *)
LEMMA PushImplements ==
    ASSUME IInv, IInv', NEW item \in Items, Push(item), size # Capacity
    PROVE  Queue!Push(item)
<1>1. /\ size' = size + 1 /\ ret' = item /\ size \in Nat /\ size < Capacity
      /\ \A k \in Nat : Slot(k)' = Slot(k)
      /\ \A k \in 0..(size - 1) : data'[Slot(k)] = data[Slot(k)]
      /\ data'[Slot(size)] = item
  BY PushEffect, CapacityAssumption DEF IInv, TypeOK
<1>2. /\ Contents \in Seq(Items) /\ Len(Contents) = size
      /\ \A i \in 1..size : Contents[i] = data[Slot(i - 1)]
  BY ContentsProperties DEF ContentsAreTheWindow
<1>3. /\ Contents' \in Seq(Items) /\ Len(Contents') = size + 1
      /\ \A i \in 1..(size + 1) : Contents'[i] = data'[Slot(i - 1)']
  BY <1>1, ContentsNext DEF ContentsAreTheWindow
<1>4. ASSUME NEW i \in 1..(size + 1)
      PROVE  Contents'[i] = Append(Contents, item)[i]
  <2>1. i - 1 \in Nat /\ Contents'[i] = data'[Slot(i - 1)]
    BY <1>1, <1>3
  <2>2. CASE i \in 1..size
    <3>1. i - 1 \in 0..(size - 1)
      BY <1>1, <2>2
    <3>2. Append(Contents, item)[i] = Contents[i]
      BY <1>2, <2>2, AppendProperties
    <3> QED
      BY <1>1, <1>2, <2>1, <2>2, <3>1, <3>2
  <2>3. CASE i = size + 1
    <3>1. i - 1 = size
      BY <1>1, <2>3
    <3>2. Append(Contents, item)[i] = item
      BY <1>1, <1>2, <2>3, AppendProperties
    <3> QED
      BY <1>1, <2>1, <3>1, <3>2
  <2> QED
    <3>1. i \in 1..size \/ i = size + 1
      BY <1>1
    <3> QED
      BY <2>2, <2>3, <3>1
<1>5. Contents' = Append(Contents, item)
  <2>1. /\ Append(Contents, item) \in Seq(Items)
        /\ Len(Append(Contents, item)) = size + 1
    BY <1>2, AppendProperties
  <2> QED
    BY <1>3, <1>4, <2>1, SeqEqual
<1> QED
  BY <1>1, <1>2, <1>5 DEF Queue!Push

LEMMA PopImplements ==
    ASSUME IInv, IInv', Pop, size # 0
    PROVE  Queue!Pop
<1>1. /\ size' = size - 1 /\ ret' = data[Slot(0)] /\ size \in Nat \ {0}
      /\ \A k \in Nat : Slot(k)' = Slot(k + 1)
      /\ \A k \in 1..(size - 1) : data'[Slot(k)] = data[Slot(k)]
  BY PopEffect, CapacityAssumption DEF IInv, TypeOK
<1>2. /\ Contents \in Seq(Items) /\ Len(Contents) = size
      /\ \A i \in 1..size : Contents[i] = data[Slot(i - 1)]
  BY ContentsProperties DEF ContentsAreTheWindow
<1>3. /\ Contents' \in Seq(Items) /\ Len(Contents') = size - 1
      /\ \A i \in 1..(size - 1) : Contents'[i] = data'[Slot(i - 1)']
  BY <1>1, ContentsNext DEF ContentsAreTheWindow
<1>4. /\ Contents # <<>> /\ Head(Contents) = Contents[1]
      /\ Tail(Contents) \in Seq(Items) /\ Len(Tail(Contents)) = size - 1
      /\ \A i \in 1..(size - 1) : Tail(Contents)[i] = Contents[i + 1]
  <2>1. Contents # <<>>
    BY <1>1, <1>2
  <2> QED
    BY <1>2, <2>1, HeadTailProperties
<1>5. ASSUME NEW i \in 1..(size - 1)
      PROVE  Contents'[i] = Tail(Contents)[i]
  <2>1. /\ i - 1 \in Nat /\ (i - 1) + 1 = i /\ (i + 1) - 1 = i
        /\ i + 1 \in 1..size
    BY <1>1
  <2>2. Contents'[i] = data'[Slot(i)]
    BY <1>1, <1>3, <2>1
  <2>3. Tail(Contents)[i] = data[Slot(i)]
    BY <1>2, <1>4, <2>1
  <2> QED
    BY <1>1, <2>2, <2>3
<1>6. Contents' = Tail(Contents)
  BY <1>3, <1>4, <1>5, SeqEqual
<1>7. ret' = Head(Contents)
  <2>1. Contents[1] = data[Slot(1 - 1)] /\ 1 - 1 = 0
    BY <1>1, <1>2
  <2> QED
    BY <1>1, <1>4, <2>1
<1> QED
  BY <1>4, <1>6, <1>7 DEF Queue!Pop

LEMMA RemoveImplements ==
    ASSUME IInv, IInv', NEW wanted \in Items, NEW i \in 0..(size - 1),
           RemoveAt(i), data[Slot(i)] = wanted,
           \A j \in 0..(i - 1) : data[Slot(j)] # wanted
    PROVE  Queue!Remove(wanted)
<1>1. /\ size' = size - 1 /\ ret' = data[Slot(i)] /\ size \in Nat \ {0}
      /\ i \in Nat
      /\ \A k \in Nat : Slot(k)' = Slot(k + 1)
      /\ \A k \in 1..(size - 1) :
            data'[Slot(k)] = IF k = i THEN data[Slot(0)] ELSE data[Slot(k)]
  BY RemoveEffect, CapacityAssumption DEF IInv, TypeOK
<1>2. /\ Contents \in Seq(Items) /\ Len(Contents) = size
      /\ DOMAIN Contents = 1..size
      /\ \A k \in 1..size : Contents[k] = data[Slot(k - 1)]
  BY ContentsProperties DEF ContentsAreTheWindow
<1>3. /\ Contents' \in Seq(Items) /\ Len(Contents') = size - 1
      /\ \A k \in 1..(size - 1) : Contents'[k] = data'[Slot(k - 1)']
  BY <1>1, ContentsNext DEF ContentsAreTheWindow
<1> DEFINE at == i + 1
<1>4. /\ at \in 1..size /\ at - 1 = i /\ Contents[at] = data[Slot(i)]
  <2>1. at \in 1..size /\ at - 1 = i
    BY <1>1
  <2> QED
    BY <1>2, <2>1
<1>5. /\ SwapRemove(Contents, at) \in Seq(Items)
      /\ Len(SwapRemove(Contents, at)) = size - 1
      /\ \A k \in 1..(size - 1) :
            SwapRemove(Contents, at)[k] =
                IF k + 1 = at THEN Contents[1] ELSE Contents[k + 1]
  BY <1>2, <1>4, SwapRemoveProperties, SwapRemoveElements
<1>6. ASSUME NEW k \in 1..(size - 1)
      PROVE  Contents'[k] = SwapRemove(Contents, at)[k]
  <2>1. /\ k - 1 \in Nat /\ (k - 1) + 1 = k /\ (k + 1) - 1 = k
        /\ k + 1 \in 1..size /\ 1 - 1 = 0 /\ 1 \in 1..size
        /\ (k + 1 = at <=> k = i)
    BY <1>1
  <2>2. Contents'[k] = data'[Slot(k)]
    BY <1>1, <1>3, <2>1
  <2>3. Contents[1] = data[Slot(0)] /\ Contents[k + 1] = data[Slot(k)]
    BY <1>2, <2>1
  <2> QED
    BY <1>1, <1>5, <2>1, <2>2, <2>3
<1>7. Contents' = SwapRemove(Contents, at)
  BY <1>3, <1>5, <1>6, SeqEqual
<1>8. \A j \in 1..(at - 1) : Contents[j] # wanted
  <2> SUFFICES ASSUME NEW j \in 1..(at - 1) PROVE Contents[j] # wanted
    OBVIOUS
  <2>1. j \in 1..size /\ j - 1 \in 0..(i - 1)
    BY <1>1, <1>4
  <2> QED
    BY <1>2, <2>1
<1>9. /\ at \in DOMAIN Contents /\ Contents[at] = wanted
      /\ ret' = Contents[at]
  BY <1>1, <1>2, <1>4
<1> HIDE DEF at
<1>10. at \in Queue!FirstMatch(Contents, LAMBDA x : x = wanted)
  BY <1>8, <1>9 DEF Queue!FirstMatch
<1>11. Contents' = Queue!SwapRemove(Contents, at)
  BY <1>7 DEF SwapRemove, Queue!SwapRemove
<1> QED
  BY <1>9, <1>10, <1>11 DEF Queue!Remove

LEMMA QueueNext == IInv /\ IInv' /\ [Next]_vars => [Queue!Next]_(Queue!vars)
<1> SUFFICES ASSUME IInv, IInv', [Next]_vars, UNCHANGED vars \/ Next
             PROVE  Queue!Next \/ UNCHANGED <<Contents, ret>>
  BY DEF Queue!vars
<1>1. /\ Contents \in Seq(Items) /\ Len(Contents) = size
      /\ DOMAIN Contents = 1..size
      /\ \A k \in 1..size : Contents[k] = data[Slot(k - 1)]
      /\ size \in Nat
  BY ContentsProperties, CapacityAssumption
  DEF ContentsAreTheWindow, IInv, TypeOK
<1>2. UNCHANGED <<data, size, start>> => Contents' = Contents
  BY DEF Contents, Slot
<1>3. CASE UNCHANGED vars
  BY <1>2, <1>3 DEF vars
<1>4. ASSUME NEW item \in Items, Push(item)
      PROVE  Queue!Push(item)
  <2>1. CASE size = Capacity
    BY <1>1, <1>2, <1>4, <2>1 DEF Push, Queue!Push
  <2>2. CASE size # Capacity
    BY <1>4, <2>2, PushImplements
  <2> QED
    BY <2>1, <2>2
<1>5. ASSUME Pop
      PROVE  Queue!Pop
  <2>1. CASE size = 0
    BY <1>1, <1>2, <1>5, <2>1 DEF Pop, Queue!Pop
  <2>2. CASE size # 0
    BY <1>5, <2>2, PopImplements
  <2> QED
    BY <2>1, <2>2
<1>6. ASSUME NEW wanted \in Items, Remove(wanted)
      PROVE  Queue!Remove(wanted)
  <2>1. ASSUME \A k \in 0..(size - 1) : data[Slot(k)] # wanted,
               ret' = None, UNCHANGED <<data, size, start>>
        PROVE  Queue!Remove(wanted)
    <3>1. \A k \in 1..size : k - 1 \in 0..(size - 1)
      BY <1>1
    <3> QED
      BY <1>1, <1>2, <2>1, <3>1 DEF Queue!Remove
  <2> QED
    BY <1>6, <2>1, RemoveImplements DEF Remove
<1> QED
  BY <1>3, <1>4, <1>5, <1>6 DEF Next, Queue!Next

(* push, pop and remove act on the circular array as on a sequence: the    *)
(* same elements in the same order after every call, and the same answer,  *)
(* for every capacity and however often start has gone round.              *)
THEOREM Implementation == Spec => ImplementsQueue
  BY QueueInit, QueueNext, InvCorrect, PTL
  DEF Spec, ImplementsQueue, Queue!Spec
=============================================================================
