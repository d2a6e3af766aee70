---------------------- MODULE BackwardReferencesProofs ----------------------
(* Proofs about BackwardReferences: for every window, hasher, input and       *)
(* matcher, a decoder reads the commands of encode_data as the matcher meant  *)
(* them.  The module goes from the parts to the whole: what a decoder makes   *)
(* of a sequence of commands (States); that the name which                    *)
(* ComputeDistanceCode gives to a distance is resolved to it                  *)
(* (CodeIsResolved); that one more copy is read as it was meant (CopyIsRead)  *)
(* and a lengthened one too (LongerIsRead); that the ways and the shortcuts   *)
(* of a graph are well defined and agree (WaysDefined, NodeCacheIs); and that *)
(* every action keeps CommandsInv.                                            *)
EXTENDS BackwardReferences, FiniteSetTheorems, SequenceTheorems,
        WellFoundedInduction, TLAPS

-----------------------------------------------------------------------------
(* A set of natural numbers has a least one.                                  *)
LEMMA LeastNumber ==
    ASSUME NEW T \in SUBSET Nat, T # {}
    PROVE  \E n \in T : \A m \in T : n <= m
<1> DEFINE Below == {1 .. n : n \in T}
           Order == StrictSubsetOrdering(Nat)
<1>1. IsWellFoundedOn(Order, FiniteSubsetsOf(Nat))
  BY FS_StrictSubsetOrderingWellFounded
<1>2. Below \subseteq FiniteSubsetsOf(Nat) /\ Below # {}
  <2>1. ASSUME NEW n \in T
        PROVE  1 .. n \in SUBSET Nat /\ IsFiniteSet(1 .. n)
    BY FS_Interval
  <2> QED
    BY <2>1 DEF FiniteSubsetsOf
<1>3. \E x \in Below : \A y \in Below : <<y, x>> \notin Order
  <2> HIDE DEF Below, Order
  <2> QED
    BY <1>1, <1>2, WFMin
<1>4. PICK n \in T : \A y \in Below : <<y, 1 .. n>> \notin Order
  BY <1>3
<1>5. ASSUME NEW m \in T, m < n
      PROVE  FALSE
  <2>1. 1 .. m \subseteq 1 .. n /\ n \in 1 .. n /\ n \notin 1 .. m
    BY <1>5
  <2>2. <<1 .. m, 1 .. n>> \in Order
    BY <2>1 DEF StrictSubsetOrdering
  <2> QED
    BY <1>4, <2>2
<1> QED
  BY <1>5

-----------------------------------------------------------------------------
(* Sequences.                                                              *)
LEMMA Indexed ==
    ASSUME NEW S, NEW n \in Nat, NEW f, f \in [1 .. n -> S]
    PROVE  f \in Seq(S) /\ Len(f) = n
<1>1. f \in Seq(S)
  BY SeqDef
<1> QED
  BY <1>1, LenProperties

(* The states of a decoder after each of the commands.                     *)
States(cmds, from, cache) ==
    LET after[n \in 0 .. Len(cmds)] ==
            IF n = 0 THEN [at |-> from, cache |-> cache, out |-> << >>]
            ELSE Follow(after[n - 1], cmds[n])
    IN after

StatesTo(g, n, cmds, from, cache) ==
    g = [k \in 0 .. n |-> IF k = 0 THEN [at |-> from, cache |-> cache, out |-> << >>]
                          ELSE Follow(g[k - 1], cmds[k])]

(* There is such a function, for any number of commands.                   *)
LEMMA StatesExist ==
    ASSUME NEW cmds, NEW from, NEW cache
    PROVE  \A n \in Nat : \E g : StatesTo(g, n, cmds, from, cache)
<1> DEFINE T == {n \in Nat : ~ \E g : StatesTo(g, n, cmds, from, cache)}
<1> SUFFICES ASSUME T # {} PROVE FALSE
  OBVIOUS
<1>1. PICK n \in T : \A m \in T : n <= m
  <2> HIDE DEF T
  <2> QED
    BY LeastNumber DEF T
<1>2. CASE n = 0
  <2> DEFINE g == [k \in 0 .. 0 |-> [at |-> from, cache |-> cache, out |-> << >>]]
  <2>1. StatesTo(g, 0, cmds, from, cache)
    BY DEF StatesTo
  <2> QED
    BY <1>1, <1>2, <2>1
<1>3. CASE n # 0
  <2>1. n - 1 \in Nat /\ n - 1 \notin T
    BY <1>1, <1>3
  <2>2. PICK g : StatesTo(g, n - 1, cmds, from, cache)
    BY <2>1
  <2> DEFINE h == [k \in 0 .. n |-> IF k = n THEN Follow(g[n - 1], cmds[n]) ELSE g[k]]
  <2>3. ASSUME NEW k \in 0 .. n
        PROVE  h[k] = IF k = 0 THEN [at |-> from, cache |-> cache, out |-> << >>]
                      ELSE Follow(h[k - 1], cmds[k])
    <3>1. CASE k = n
      <4>1. h[k] = Follow(g[n - 1], cmds[n]) /\ h[k - 1] = g[n - 1]
        BY <1>1, <1>3, <3>1
      <4> QED
        BY <1>3, <3>1, <4>1
    <3>2. CASE k # n /\ k # 0
      <4>1. k \in 0 .. (n - 1) /\ k - 1 \in 0 .. (n - 1) /\ k - 1 \in 0 .. n
            /\ k - 1 # n
        BY <1>1, <3>2
      <4>2. h[k] = g[k] /\ h[k - 1] = g[k - 1]
        BY <3>2, <4>1
      <4>3. g[k] = Follow(g[k - 1], cmds[k])
        BY <2>2, <3>2, <4>1 DEF StatesTo
      <4> QED
        BY <3>2, <4>2, <4>3
    <3>3. CASE k # n /\ k = 0
      <4>1. 0 \in 0 .. (n - 1)
        BY <1>1, <1>3
      <4>2. g[0] = [at |-> from, cache |-> cache, out |-> << >>]
        BY <2>2, <4>1 DEF StatesTo
      <4> QED
        BY <3>3, <4>2
    <3> QED
      BY <3>1, <3>2, <3>3
  <2>4. StatesTo(h, n, cmds, from, cache)
    BY <2>3 DEF StatesTo
  <2> QED
    BY <1>1, <2>4
<1> QED
  BY <1>2, <1>3

(* There is one function as States describes one: recursion over the        *)
(* commands.                                                                *)
LEMMA StatesDefined ==
    ASSUME NEW cmds, NEW from, NEW cache, Len(cmds) \in Nat
    PROVE  StatesTo(States(cmds, from, cache), Len(cmds), cmds, from, cache)
<1>1. PICK g : StatesTo(g, Len(cmds), cmds, from, cache)
  BY StatesExist
<1> QED
  BY <1>1 DEF StatesTo, States

(* Before the first command a decoder is where it started.                  *)
LEMMA StatesFirst ==
    ASSUME NEW cmds, NEW from, NEW cache, Len(cmds) \in Nat
    PROVE  States(cmds, from, cache)[0] = [at |-> from, cache |-> cache, out |-> << >>]
<1> DEFINE s == States(cmds, from, cache)
<1>1. StatesTo(s, Len(cmds), cmds, from, cache)
  BY StatesDefined
<1> HIDE DEF s
<1>2. 0 \in 0 .. Len(cmds)
  OBVIOUS
<1>3. s[0] = [at |-> from, cache |-> cache, out |-> << >>]
  BY <1>1, <1>2 DEF StatesTo
<1> QED
  BY <1>3 DEF s

(* Each command takes a decoder from the state before it to the one after.  *)
LEMMA StatesStep ==
    ASSUME NEW cmds, NEW from, NEW cache, Len(cmds) \in Nat, NEW n \in 1 .. Len(cmds)
    PROVE  States(cmds, from, cache)[n] = Follow(States(cmds, from, cache)[n - 1], cmds[n])
<1> DEFINE s == States(cmds, from, cache)
<1>1. StatesTo(s, Len(cmds), cmds, from, cache)
  BY StatesDefined
<1> HIDE DEF s
<1>2. n \in 0 .. Len(cmds) /\ n # 0
  OBVIOUS
<1>3. s[n] = Follow(s[n - 1], cmds[n])
  BY <1>1, <1>2 DEF StatesTo
<1> QED
  BY <1>3 DEF s

(* Decode gives the state after all of the commands.                        *)
LEMMA DecodeIsLast ==
    ASSUME NEW cmds, NEW from, NEW cache
    PROVE  Decode(cmds, from, cache) = States(cmds, from, cache)[Len(cmds)]
  BY DEF Decode, States

(* What is read first does not depend on what follows.                     *)
LEMMA StatesAgree ==
    ASSUME NEW b, NEW c, Len(b) \in Nat, Len(c) \in Nat, NEW from, NEW cache,
           NEW n \in Nat, n <= Len(b), n <= Len(c), \A k \in 1 .. n : b[k] = c[k]
    PROVE  \A k \in 0 .. n : States(b, from, cache)[k] = States(c, from, cache)[k]
<1> DEFINE T == {k \in 0 .. n : States(b, from, cache)[k] # States(c, from, cache)[k]}
<1> SUFFICES ASSUME T # {} PROVE FALSE
  OBVIOUS
<1>1. PICK k \in T : \A m \in T : k <= m
  <2>1. T \in SUBSET Nat
    OBVIOUS
  <2> HIDE DEF T
  <2> QED
    BY <2>1, LeastNumber
<1>2. k \in 0 .. n /\ States(b, from, cache)[k] # States(c, from, cache)[k]
  BY <1>1
<1>3. k # 0
  <2>1. States(b, from, cache)[0] = [at |-> from, cache |-> cache, out |-> << >>]
    BY StatesFirst
  <2>2. States(c, from, cache)[0] = [at |-> from, cache |-> cache, out |-> << >>]
    BY StatesFirst
  <2> QED
    BY <1>2, <2>1, <2>2
<1>4. k \in 1 .. n /\ k \in 1 .. Len(b) /\ k \in 1 .. Len(c) /\ k - 1 \in 0 .. n
  BY <1>2, <1>3
<1>5. k - 1 \notin T
  <2>1. ~ (k <= k - 1)
    BY <1>2
  <2> QED
    BY <1>1, <2>1
<1>6. States(b, from, cache)[k - 1] = States(c, from, cache)[k - 1]
  BY <1>4, <1>5
<1>7. States(b, from, cache)[k] = Follow(States(b, from, cache)[k - 1], b[k])
  BY <1>4, StatesStep
<1>8. States(c, from, cache)[k] = Follow(States(c, from, cache)[k - 1], c[k])
  BY <1>4, StatesStep
<1> QED
  BY <1>2, <1>4, <1>6, <1>7, <1>8

(* A decoder of no commands, and of one command more.                      *)
LEMMA DecodeNothing ==
    ASSUME NEW from, NEW cache
    PROVE  Decode(<< >>, from, cache) = [at |-> from, cache |-> cache, out |-> << >>]
<1>1. Len(<< >>) = 0 /\ Len(<< >>) \in Nat
  OBVIOUS
<1>2. States(<< >>, from, cache)[0] = [at |-> from, cache |-> cache, out |-> << >>]
  BY <1>1, StatesFirst
<1>3. Decode(<< >>, from, cache) = States(<< >>, from, cache)[Len(<< >>)]
  BY DecodeIsLast
<1> QED
  BY <1>1, <1>2, <1>3

(* A command more is followed from where the others ended.                  *)
LEMMA DecodeAppend ==
    ASSUME NEW S, NEW cmds \in Seq(S), NEW c \in S, NEW from, NEW cache
    PROVE  Decode(Append(cmds, c), from, cache) = Follow(Decode(cmds, from, cache), c)
<1> DEFINE a == Append(cmds, c)
<1>1. /\ Len(cmds) \in Nat /\ Len(a) = Len(cmds) + 1 /\ a[Len(a)] = c
      /\ \A k \in 1 .. Len(cmds) : a[k] = cmds[k]
  BY AppendProperties, LenProperties
<1> HIDE DEF a
<1>2. Len(a) \in Nat /\ Len(a) \in 1 .. Len(a) /\ Len(a) - 1 = Len(cmds)
      /\ Len(cmds) <= Len(a) /\ Len(cmds) \in 0 .. Len(cmds)
  BY <1>1
<1>3. \A k \in 0 .. Len(cmds) : States(a, from, cache)[k] = States(cmds, from, cache)[k]
  BY <1>1, <1>2, StatesAgree
<1>4. Decode(a, from, cache) = States(a, from, cache)[Len(a)]
  BY DecodeIsLast
<1>5. States(a, from, cache)[Len(a)] = Follow(States(a, from, cache)[Len(a) - 1], a[Len(a)])
  BY <1>2, StatesStep
<1>6. Decode(cmds, from, cache) = States(cmds, from, cache)[Len(cmds)]
  BY DecodeIsLast
<1> QED
  BY <1>1, <1>2, <1>3, <1>4, <1>5, <1>6 DEF a

(* How far the commands go depends neither on where they start nor on the  *)
(* ring.                                                                   *)
Command == [insert : Nat, len : Nat, code : Nat]

AsFar(cmds, b, known, c, other) ==
    \E n \in Nat : /\ Decode(cmds, b, known).at = b + n
                  /\ Decode(cmds, c, other).at = c + n

(* Two decoders with different rings and starts go the same way.            *)
LEMMA DecodeLength ==
    ASSUME NEW cmds \in Seq(Command), NEW b \in Nat, NEW c \in Nat, NEW known, NEW other
    PROVE  AsFar(cmds, b, known, c, other)
<1> DEFINE Same(k) == \E n \in Nat : /\ States(cmds, b, known)[k].at = b + n
                                     /\ States(cmds, c, other)[k].at = c + n
           T == {k \in 0 .. Len(cmds) : ~ Same(k)}
<1>1. Len(cmds) \in Nat /\ Len(cmds) \in 0 .. Len(cmds)
  BY LenProperties
<1>2. Same(0)
  <2>1. States(cmds, b, known)[0] = [at |-> b, cache |-> known, out |-> << >>]
    BY <1>1, StatesFirst
  <2>2. States(cmds, c, other)[0] = [at |-> c, cache |-> other, out |-> << >>]
    BY <1>1, StatesFirst
  <2>3. b = b + 0 /\ c = c + 0
    OBVIOUS
  <2> QED
    BY <2>1, <2>2, <2>3
<1>3. ASSUME NEW k \in 1 .. Len(cmds), Same(k - 1)
      PROVE  Same(k)
  <2>1. cmds[k] \in Command
    BY ElementOfSeq
  <2>2. PICK n \in Nat : /\ States(cmds, b, known)[k - 1].at = b + n
                        /\ States(cmds, c, other)[k - 1].at = c + n
    BY <1>3
  <2>3. States(cmds, b, known)[k] = Follow(States(cmds, b, known)[k - 1], cmds[k])
    BY <1>1, StatesStep
  <2>4. States(cmds, c, other)[k] = Follow(States(cmds, c, other)[k - 1], cmds[k])
    BY <1>1, StatesStep
  <2> DEFINE m == n + cmds[k].insert + cmds[k].len
  <2>5. cmds[k].insert \in Nat /\ cmds[k].len \in Nat
    BY <2>1 DEF Command
  <2>6. m \in Nat
    BY <2>5, SMTT(60)
  <2>7. \A x, y, i, l \in Nat : x + y + i + l = x + (y + i + l)
    OBVIOUS
  <2>8. States(cmds, b, known)[k].at = b + n + cmds[k].insert + cmds[k].len
    BY <2>2, <2>3 DEF Follow
  <2>9. States(cmds, c, other)[k].at = c + n + cmds[k].insert + cmds[k].len
    BY <2>2, <2>4 DEF Follow
  <2>10. States(cmds, b, known)[k].at = b + m /\ States(cmds, c, other)[k].at = c + m
    BY <2>5, <2>7, <2>8, <2>9, SMTT(60)
  <2> HIDE DEF m
  <2> QED
    BY <2>6, <2>10
<1> HIDE DEF Same
<1>4. T = {}
  <2> SUFFICES ASSUME T # {} PROVE FALSE
    OBVIOUS
  <2>1. PICK k \in T : \A m \in T : k <= m
    <3>1. T \in SUBSET Nat
      BY <1>1
    <3> HIDE DEF T
    <3> QED
      BY <3>1, LeastNumber
  <2>2. k \in 0 .. Len(cmds) /\ ~ Same(k)
    BY <2>1
  <2>3. k # 0
    BY <1>2, <2>2
  <2>4. k \in 1 .. Len(cmds) /\ k - 1 \in 0 .. Len(cmds) /\ ~ (k <= k - 1)
    BY <1>1, <2>2, <2>3
  <2>5. k - 1 \notin T
    BY <2>1, <2>4
  <2> QED
    BY <1>3, <2>2, <2>4, <2>5
<1>5. Same(Len(cmds))
  BY <1>1, <1>4
<1> QED
  BY <1>5, DecodeIsLast DEF Same, AsFar

(* A decoder never goes back.                                               *)
LEMMA DecodeForward ==
    ASSUME NEW cmds \in Seq(Command), NEW b \in Nat, NEW known
    PROVE  \E n \in Nat : Decode(cmds, b, known).at = b + n
<1>1. AsFar(cmds, b, known, b, known)
  BY DecodeLength
<1> QED
  BY <1>1 DEF AsFar

-----------------------------------------------------------------------------
(* What is decoded, rings and distances.                                   *)
Element == {"literal", "copy", "word"} \X Int \X Int
Outs == Seq(Element)
Rings == [1 .. 4 -> Nat \ {0}]

(* Outputs can be joined, and nothing is their unit.                        *)
LEMMA OutsJoin ==
    ASSUME NEW a \in Outs, NEW b \in Outs
    PROVE  a \o b \in Outs /\ a \o << >> = a /\ << >> \o a = a
  BY ConcatProperties, ConcatEmptySeq DEF Outs

(* Joining outputs is associative.                                          *)
LEMMA OutsAssociate ==
    ASSUME NEW a \in Outs, NEW b \in Outs, NEW c \in Outs
    PROVE  (a \o b) \o c = a \o (b \o c)
  BY ConcatAssociative DEF Outs

(* What a run of literals writes is an output of as many bytes.             *)
LEMMA LiteralsType ==
    ASSUME NEW n \in Nat
    PROVE  Literals(n) \in Outs /\ Len(Literals(n)) = n
<1>1. [i \in 1 .. n |-> << "literal", 0, 0 >>] \in [1 .. n -> Element]
  BY DEF Element
<1> QED
  BY <1>1, Indexed DEF Literals, Outs

(* No literals write nothing.                                               *)
LEMMA LiteralsNone == Literals(0) = << >>
<1>1. Literals(0) \in Outs /\ Len(Literals(0)) = 0
  BY LiteralsType
<1> QED
  BY <1>1, EmptySeq DEF Outs

(* Two runs of literals are one run.                                        *)
LEMMA LiteralsJoin ==
    ASSUME NEW m \in Nat, NEW n \in Nat
    PROVE  Literals(m) \o Literals(n) = Literals(m + n)
<1> DEFINE a == Literals(m)  b == Literals(n)  c == Literals(m + n)
<1>1. /\ a \in Seq(Element) /\ Len(a) = m
      /\ b \in Seq(Element) /\ Len(b) = n
      /\ c \in Seq(Element) /\ Len(c) = m + n
  BY LiteralsType DEF Outs
<1>2. /\ \A i \in 1 .. m : a[i] = << "literal", 0, 0 >>
      /\ \A i \in 1 .. n : b[i] = << "literal", 0, 0 >>
      /\ \A i \in 1 .. (m + n) : c[i] = << "literal", 0, 0 >>
  BY DEF Literals
<1> HIDE DEF a, b, c
<1>3. /\ a \o b \in Seq(Element) /\ Len(a \o b) = m + n
      /\ \A i \in 1 .. (m + n) : (a \o b)[i] = IF i <= m THEN a[i] ELSE b[i - m]
  BY <1>1, ConcatProperties
<1>4. ASSUME NEW i \in 1 .. (m + n)
      PROVE  (a \o b)[i] = c[i]
  <2>1. i <= m => i \in 1 .. m
    OBVIOUS
  <2>2. ~ (i <= m) => i - m \in 1 .. n
    OBVIOUS
  <2> QED
    BY <1>2, <1>3, <2>1, <2>2
<1>5. a \o b = c
  BY <1>1, <1>3, <1>4, SeqEqual
<1> QED
  BY <1>5 DEF a, b, c

(* What a copy writes is an output.                                         *)
LEMMA BytesType ==
    ASSUME NEW distance \in Int, NEW len \in Nat, NEW window \in Int
    PROVE  Bytes(distance, len, window) \in Outs /\ Len(Bytes(distance, len, window)) = len
<1>1. distance - window \in Int /\ len \in Int
  OBVIOUS
<1>2. Bytes(distance, len, window) \in [1 .. len -> Element]
  BY <1>1 DEF Bytes, Element
<1> QED
  BY <1>2, Indexed DEF Outs

(* A copy of no bytes writes nothing.                                       *)
LEMMA BytesNone ==
    ASSUME NEW distance \in Int, NEW window \in Int
    PROVE  Bytes(distance, 0, window) = << >>
<1>1. Bytes(distance, 0, window) \in Outs /\ Len(Bytes(distance, 0, window)) = 0
  BY BytesType
<1> QED
  BY <1>1, EmptySeq DEF Outs

(* A copy is the same in every window that it is inside of.                *)
LEMMA BytesInside ==
    ASSUME NEW distance \in Int, NEW len, NEW w \in Int, NEW v \in Int,
           distance \in 1 .. w, distance \in 1 .. v
    PROVE  Bytes(distance, len, w) = Bytes(distance, len, v)
  BY DEF Bytes

Copied(distance, n) == [i \in 1 .. n |-> << "copy", distance, 0 >>]

(* Copied bytes are an output.                                              *)
LEMMA CopiedType ==
    ASSUME NEW distance \in Int, NEW n \in Nat
    PROVE  Copied(distance, n) \in Outs /\ Len(Copied(distance, n)) = n
<1>1. Copied(distance, n) \in [1 .. n -> Element]
  BY DEF Copied, Element
<1> QED
  BY <1>1, Indexed DEF Outs

(* A longer copy within the window only adds bytes at its end, which is     *)
(* what extend_last_command relies on.                                      *)
LEMMA BytesLonger ==
    ASSUME NEW distance \in Int, NEW w \in Int, distance \in 1 .. w,
           NEW m \in Nat, NEW n \in Nat
    PROVE  Bytes(distance, m + n, w) = Bytes(distance, m, w) \o Copied(distance, n)
<1> DEFINE a == Bytes(distance, m, w)  b == Copied(distance, n)
           c == Bytes(distance, m + n, w)
<1>1. /\ a \in Seq(Element) /\ Len(a) = m
      /\ b \in Seq(Element) /\ Len(b) = n
      /\ c \in Seq(Element) /\ Len(c) = m + n
  BY BytesType, CopiedType DEF Outs
<1>2. /\ \A i \in 1 .. m : a[i] = << "copy", distance, 0 >>
      /\ \A i \in 1 .. n : b[i] = << "copy", distance, 0 >>
      /\ \A i \in 1 .. (m + n) : c[i] = << "copy", distance, 0 >>
  BY DEF Bytes, Copied
<1> HIDE DEF a, b, c
<1>3. /\ a \o b \in Seq(Element) /\ Len(a \o b) = m + n
      /\ \A i \in 1 .. (m + n) : (a \o b)[i] = IF i <= m THEN a[i] ELSE b[i - m]
  BY <1>1, ConcatProperties
<1>4. ASSUME NEW i \in 1 .. (m + n)
      PROVE  (a \o b)[i] = c[i]
  <2>1. i <= m => i \in 1 .. m
    OBVIOUS
  <2>2. ~ (i <= m) => i - m \in 1 .. n
    OBVIOUS
  <2> QED
    BY <1>2, <1>3, <2>1, <2>2
<1>5. a \o b = c
  BY <1>1, <1>3, <1>4, SeqEqual
<1> QED
  BY <1>5 DEF a, b, c

(* A remembered distance is the first of the ring and the others move one   *)
(* place back.                                                              *)
LEMMA RememberIs ==
    ASSUME NEW r \in Rings, NEW distance \in Nat \ {0}
    PROVE  /\ Remember(r, distance) \in Rings
           /\ Remember(r, distance)[1] = distance
           /\ \A i \in 2 .. 4 : Remember(r, distance)[i] = r[i - 1]
<1> DEFINE S == Nat \ {0}  t == SubSeq(r, 1, 3)  h == << distance >>
<1>1. \A i \in 1 .. 3 : r[i] \in S
  BY DEF Rings
<1>2. /\ t \in Seq(S) /\ Len(t) = 3
      /\ \A i \in 1 .. 3 : t[i] = r[i]
  <2> HIDE DEF S
  <2>1. \A n \in Int : n = 3 =>
          /\ SubSeq(r, 1, n) \in Seq(S)
          /\ Len(SubSeq(r, 1, n)) = IF 1 <= n THEN n - 1 + 1 ELSE 0
          /\ \A i \in 1 .. n - 1 + 1 : SubSeq(r, 1, n)[i] = r[1 + i - 1]
    BY <1>1, SubSeqProperties
  <2>2. /\ SubSeq(r, 1, 3) \in Seq(S)
        /\ Len(SubSeq(r, 1, 3)) = 3
        /\ \A i \in 1 .. 3 : SubSeq(r, 1, 3)[i] = r[1 + i - 1]
    BY <2>1
  <2>3. \A i \in 1 .. 3 : 1 + i - 1 = i
    OBVIOUS
  <2> QED
    BY <2>2, <2>3
<1>3. h \in Seq(S) /\ Len(h) = 1 /\ h[1] = distance
  <2>1. h \in [1 .. 1 -> S]
    OBVIOUS
  <2>2. h[1] = distance
    OBVIOUS
  <2> HIDE DEF h, S
  <2> QED
    BY <2>1, <2>2, Indexed
<1> HIDE DEF S, t, h
<1>4. /\ h \o t \in Seq(S) /\ Len(h \o t) = Len(h) + Len(t)
      /\ \A i \in 1 .. Len(h) + Len(t) :
            (h \o t)[i] = IF i <= Len(h) THEN h[i] ELSE t[i - Len(h)]
  BY <1>2, <1>3, ConcatProperties
<1> DEFINE q == h \o t
<1> HIDE DEF q
<1>5. q \in [1 .. 4 -> S]
  <2>1. Len(q) = 4
    BY <1>2, <1>3, <1>4 DEF q
  <2> QED
    BY <1>4, <2>1, LenProperties DEF q
<1>6. Remember(r, distance) = q
  BY DEF Remember, h, t, q
<1>7. q[1] = distance /\ \A i \in 2 .. 4 : q[i] = r[i - 1]
  <2>1. \A i \in 1 .. 4 : q[i] = IF i <= 1 THEN h[i] ELSE t[i - 1]
    BY <1>2, <1>3, <1>4 DEF q
  <2>2. q[1] = distance
    <3>1. q[1] = h[1]
      BY <2>1
    <3> QED
      BY <1>3, <3>1
  <2>3. ASSUME NEW i \in 2 .. 4
        PROVE  q[i] = r[i - 1]
    <3>1. i \in 1 .. 4 /\ ~ (i <= 1) /\ i - 1 \in 1 .. 3
      OBVIOUS
    <3>2. q[i] = t[i - 1]
      BY <2>1, <3>1
    <3>3. t[i - 1] = r[i - 1]
      BY <1>2, <3>1
    <3> QED
      BY <3>2, <3>3
  <2> QED
    BY <2>2, <2>3
<1> QED
  BY <1>5, <1>6, <1>7 DEF S, Rings

(* What the window at a place allows.                                       *)
LEMMA WindowIs ==
    ASSUME NEW n \in Nat
    PROVE  /\ Window(n) \in Nat /\ Window(n) <= n /\ Window(n) <= MaxBackward
           /\ \A d \in Int : d <= Window(n) <=> d <= n /\ d <= MaxBackward
  BY SizesAssumption DEF Window

(* The name that the encoder gives to a distance means that distance in    *)
(* the same ring, and only distances inside the window get a short one.    *)
LEMMA CodeIsResolved ==
    ASSUME NEW r \in Rings, NEW distance \in Nat \ {0}, NEW window \in Int
    PROVE  /\ ComputeDistanceCode(distance, window, r) \in Nat
           /\ Resolve(r, ComputeDistanceCode(distance, window, r)) = distance
           /\ ComputeDistanceCode(distance, window, r) < ShortCodes => distance <= window
<1> DEFINE code == ComputeDistanceCode(distance, window, r)
<1>1. r[1] \in Nat /\ r[2] \in Nat /\ r[3] \in Nat /\ r[4] \in Nat
  BY DEF Rings
<1>2. CASE code = distance + ShortCodes - 1
  <2>1. code \in Nat /\ ~ (code < ShortCodes) /\ code - ShortCodes + 1 = distance
    BY <1>2 DEF ShortCodes
  <2> QED
    BY <2>1 DEF Resolve
<1>3. CASE distance <= window /\ code \in 0 .. 3 /\ distance = r[code + 1]
  <2>1. RingSlot[code + 1] = code + 1 /\ RingDelta[code + 1] = 0
    BY <1>3 DEF RingSlot, RingDelta
  <2>2. code \in Nat /\ code < ShortCodes /\ distance + 0 = distance
    BY <1>3 DEF ShortCodes
  <2> HIDE DEF code
  <2>3. Resolve(r, code) = r[code + 1] + 0
    BY <2>1, <2>2 DEF Resolve
  <2> QED
    BY <1>3, <2>2, <2>3 DEF code
<1>4. CASE /\ distance <= window
           /\ \E delta \in -3 .. 3 : distance - r[1] = delta /\ delta # 0
                                  /\ code = NearLast[delta + 4]
  <2>1. PICK delta \in -3 .. 3 : distance - r[1] = delta /\ delta # 0
                                 /\ code = NearLast[delta + 4]
    BY <1>4
  <2> HIDE DEF code
  <2>2. /\ code \in 4 .. 9 /\ RingSlot[code + 1] = 1
        /\ RingDelta[code + 1] = delta
    BY <2>1 DEF NearLast, RingSlot, RingDelta
  <2>3. code \in Nat /\ code < ShortCodes /\ r[1] + delta = distance
    BY <1>1, <2>1, <2>2 DEF ShortCodes
  <2>4. Resolve(r, code) = r[1] + delta
    BY <2>2, <2>3 DEF Resolve
  <2> QED
    BY <1>4, <2>3, <2>4 DEF code
<1>5. CASE /\ distance <= window
           /\ \E delta \in -3 .. 3 : distance - r[2] = delta /\ delta # 0
                                  /\ code = NearSecond[delta + 4]
  <2>1. PICK delta \in -3 .. 3 : distance - r[2] = delta /\ delta # 0
                                 /\ code = NearSecond[delta + 4]
    BY <1>5
  <2> HIDE DEF code
  <2>2. /\ code \in 10 .. 15 /\ RingSlot[code + 1] = 2
        /\ RingDelta[code + 1] = delta
    BY <2>1 DEF NearSecond, RingSlot, RingDelta
  <2>3. code \in Nat /\ code < ShortCodes /\ r[2] + delta = distance
    BY <1>1, <2>1, <2>2 DEF ShortCodes
  <2>4. Resolve(r, code) = r[2] + delta
    BY <2>2, <2>3 DEF Resolve
  <2> QED
    BY <1>5, <2>3, <2>4 DEF code
<1>6. \/ code = distance + ShortCodes - 1
      \/ distance <= window /\ code \in 0 .. 3 /\ distance = r[code + 1]
      \/ /\ distance <= window
         /\ \E delta \in -3 .. 3 : distance - r[1] = delta /\ delta # 0
                                /\ code = NearLast[delta + 4]
      \/ /\ distance <= window
         /\ \E delta \in -3 .. 3 : distance - r[2] = delta /\ delta # 0
                                /\ code = NearSecond[delta + 4]
  <2>1. CASE distance > window
    BY <2>1 DEF ComputeDistanceCode
  <2>2. CASE distance <= window /\ distance = r[1]
    <3>1. code = 0
      BY <2>2 DEF ComputeDistanceCode
    <3> HIDE DEF code
    <3> QED
      BY <2>2, <3>1
  <2>3. CASE distance <= window /\ distance # r[1] /\ distance = r[2]
    <3>1. code = 1
      BY <2>3 DEF ComputeDistanceCode
    <3> HIDE DEF code
    <3> QED
      BY <2>3, <3>1
  <2>4. CASE distance <= window /\ distance # r[1] /\ distance # r[2]
             /\ Close(distance, r[1])
    <3>1. code = NearLast[distance - r[1] + 4]
      BY <2>4 DEF ComputeDistanceCode
    <3>2. distance - r[1] \in -3 .. 3 /\ distance - r[1] # 0
      BY <1>1, <2>4 DEF Close
    <3> HIDE DEF code
    <3> QED
      BY <2>4, <3>1, <3>2
  <2>5. CASE distance <= window /\ distance # r[1] /\ distance # r[2]
             /\ ~ Close(distance, r[1]) /\ Close(distance, r[2])
    <3>1. code = NearSecond[distance - r[2] + 4]
      BY <2>5 DEF ComputeDistanceCode
    <3>2. distance - r[2] \in -3 .. 3 /\ distance - r[2] # 0
      BY <1>1, <2>5 DEF Close
    <3> HIDE DEF code
    <3> QED
      BY <2>5, <3>1, <3>2
  <2>6. CASE distance <= window /\ distance # r[1] /\ distance # r[2]
             /\ ~ Close(distance, r[1]) /\ ~ Close(distance, r[2])
    <3>1. code = IF distance = r[3] THEN 2 ELSE IF distance = r[4] THEN 3
                 ELSE distance + ShortCodes - 1
      BY <2>6 DEF ComputeDistanceCode
    <3> HIDE DEF code
    <3> QED
      BY <2>6, <3>1
  <2> QED
    BY <2>1, <2>2, <2>3, <2>4, <2>5, <2>6
<1> HIDE DEF code
<1>7. /\ code \in Nat /\ Resolve(r, code) = distance
      /\ code < ShortCodes => distance <= window
  BY <1>2, <1>3, <1>4, <1>5, <1>6 DEF code
<1> QED
  BY <1>7 DEF code

-----------------------------------------------------------------------------
(* Decoding "cmds" from "base", with a ring that is "known" there, leads to    *)
(* the ring r and, with the literals of a later command, to "end" and "bytes". *)
Reads(base, known, cmds, r, insert, bytes, end) ==
    /\ cmds \in Seq(Command) /\ r \in Rings /\ insert \in Nat
    /\ \E out \in Outs, p \in Nat :
          /\ Decode(cmds, base, known) = [at |-> p, cache |-> r, out |-> out]
          /\ bytes = out \o Literals(insert)
          /\ p + insert = end

(* A last command with a short code copies from the first distance of the     *)
(* ring that it leaves.                                                       *)
LastIsFirst(base, known, cmds, r) ==
    cmds # << >> =>
        \E front \in Seq(Command), last \in Command :
            /\ cmds = Append(front, last) /\ last.len > 0
            /\ Decode(front, base, known).out \in Outs
            /\ last.code < ShortCodes =>
                  Resolve(Decode(front, base, known).cache, last.code) = r[1]

(* The types of all that Reads relates.                                     *)
LEMMA ReadsTypes ==
    ASSUME NEW base, NEW known, NEW cmds, NEW r, NEW insert, NEW bytes, NEW end,
           Reads(base, known, cmds, r, insert, bytes, end)
    PROVE  /\ cmds \in Seq(Command) /\ r \in Rings /\ insert \in Nat
           /\ bytes \in Outs /\ end \in Nat /\ insert <= end
<1>1. PICK out \in Outs, p \in Nat : bytes = out \o Literals(insert) /\ p + insert = end
  BY DEF Reads
<1>2. insert \in Nat
  BY DEF Reads
<1>3. bytes \in Outs
  BY <1>1, <1>2, LiteralsType, ConcatProperties DEF Outs
<1> QED
  BY <1>1, <1>2, <1>3 DEF Reads

RingAfter(r, distance, code, here) ==
    IF distance <= Window(here) /\ code > 0 THEN Remember(r, distance) ELSE r

(* What one command does to a decoder, when it names a distance the encoder   *)
(* meant: the decoder is where the encoder is or further.  A lemma with this  *)
(* many parameters is cited through a predicate that names them all.          *)
FollowsAs(p, r, out, n, len, code, distance, here) ==
    (/\ p \in Nat /\ r \in Rings /\ n \in Nat
     /\ len \in Nat \ {0} /\ code \in Nat /\ distance \in Nat \ {0}
     /\ here \in Nat /\ here <= p + n
     /\ Resolve(r, code) = distance
     /\ distance > Window(here) => p + n = here)
    => Follow([at |-> p, cache |-> r, out |-> out], NewCommand(n, len, code))
          = [at |-> p + n + len, cache |-> RingAfter(r, distance, code, here),
             out |-> out \o Literals(n) \o Bytes(distance, len, Window(here))]

(* The decoder obeys the name of a distance as the encoder meant it.        *)
LEMMA FollowIs ==
    ASSUME NEW p, NEW r, NEW out, NEW n, NEW len, NEW code, NEW distance, NEW here
    PROVE  FollowsAs(p, r, out, n, len, code, distance, here)
<1> SUFFICES ASSUME p \in Nat, r \in Rings, n \in Nat,
                    len \in Nat \ {0}, code \in Nat, distance \in Nat \ {0},
                    here \in Nat, here <= p + n,
                    Resolve(r, code) = distance,
                    distance > Window(here) => p + n = here,
                    NEW s, s = [at |-> p, cache |-> r, out |-> out]
             PROVE  Follow(s, NewCommand(n, len, code))
                      = [at |-> p + n + len, cache |-> RingAfter(r, distance, code, here),
                         out |-> out \o Literals(n) \o Bytes(distance, len, Window(here))]
  BY Zenon DEF FollowsAs
<1> DEFINE w == Window(here)  v == Window(p + n)
<1>0. p + n \in Nat
  OBVIOUS
<1>1. /\ w \in Nat
      /\ \A d \in Int : d <= w <=> d <= here /\ d <= MaxBackward
  BY WindowIs
<1>11. /\ v \in Nat
       /\ \A d \in Int : d <= v <=> d <= p + n /\ d <= MaxBackward
  BY <1>0, WindowIs
<1>2. distance > w => v = w
  <2> SUFFICES ASSUME distance > w PROVE v = w
    OBVIOUS
  <2>1. p + n = here
    OBVIOUS
  <2> QED
    BY <2>1
<1> HIDE DEF w, v
<1>3. distance <= w <=> distance <= v
  BY <1>1, <1>11, <1>2, SizesAssumption
<1>4. Bytes(distance, len, v) = Bytes(distance, len, w)
  <2>1. CASE distance <= w
    <3>1. distance \in 1 .. w /\ distance \in 1 .. v /\ distance \in Int
      BY <1>1, <1>11, <1>3, <2>1
    <3> QED
      BY <1>1, <1>11, <3>1, BytesInside
  <2>2. CASE ~ (distance <= w)
    <3>1. v = w
      BY <1>1, <1>11, <1>2, <2>2
    <3> QED
      BY <3>1
  <2> QED
    BY <2>1, <2>2
<1>5. (len > 0 /\ code # 0 /\ distance <= v) <=> (distance <= w /\ code > 0)
  BY <1>3
<1> DEFINE c == NewCommand(n, len, code)
<1>6. /\ s.at = p /\ s.cache = r /\ s.out = out
      /\ c.insert = n /\ c.len = len /\ c.code = code
  BY DEF NewCommand
<1> HIDE DEF c
<1>7. Follow(s, c)
        = [at    |-> p + n + len,
           cache |-> IF len > 0 /\ code # 0 /\ distance <= v
                     THEN Remember(r, distance) ELSE r,
           out   |-> out \o Literals(n) \o Bytes(distance, len, v)]
  BY <1>6 DEF Follow, v
<1> QED
  BY <1>4, <1>5, <1>7 DEF w, c, RingAfter

(* A copy that the encoder adds is read as what it was meant to be.           *)
CopyIsReadAs(base, known, cmds, r, insert, bytes, end, earlier, delay, len, code, distance, here) ==
    LET cs == Append(cmds, NewCommand(insert + delay, len, code))
        rs == RingAfter(r, distance, code, here)
    IN (/\ Reads(base, known, cmds, r, insert, bytes, end)
        /\ delay \in Nat /\ len \in Nat \ {0} /\ code \in Nat /\ distance \in Nat \ {0}
        /\ here \in Nat /\ earlier \in Nat /\ end + delay = here + earlier
        /\ Resolve(r, code) = distance
        /\ code < ShortCodes => distance <= Window(here)
        /\ distance > Window(here) => earlier = 0)
       => /\ Reads(base, known, cs, rs, 0,
                   bytes \o Literals(delay) \o Bytes(distance, len, Window(here)),
                   end + delay + len)
          /\ LastIsFirst(base, known, cs, rs)

(* A copy that is written after commands that are read is read as well: the *)
(* one step of every matcher.                                               *)
LEMMA CopyIsRead ==
    ASSUME NEW base, NEW known, NEW cmds, NEW r, NEW insert, NEW bytes, NEW end, NEW earlier,
           NEW delay, NEW len, NEW code, NEW distance, NEW here
    PROVE  CopyIsReadAs(base, known, cmds, r, insert, bytes, end, earlier,
                        delay, len, code, distance, here)
<1> DEFINE n == insert + delay  c == NewCommand(n, len, code)
           cs == Append(cmds, c)  rs == RingAfter(r, distance, code, here)
           w == Window(here)  b == Bytes(distance, len, w)
           read == bytes \o Literals(delay) \o b
<1> SUFFICES ASSUME Reads(base, known, cmds, r, insert, bytes, end),
                    delay \in Nat, len \in Nat \ {0}, code \in Nat, distance \in Nat \ {0},
                    here \in Nat, earlier \in Nat, end + delay = here + earlier,
                    Resolve(r, code) = distance,
                    code < ShortCodes => distance <= Window(here),
                    distance > Window(here) => earlier = 0
             PROVE  /\ Reads(base, known, cs, rs, 0, read, end + delay + len)
                    /\ LastIsFirst(base, known, cs, rs)
  BY Zenon DEF CopyIsReadAs
<1>1. PICK out \in Outs, p \in Nat :
         /\ Decode(cmds, base, known) = [at |-> p, cache |-> r, out |-> out]
         /\ bytes = out \o Literals(insert)
         /\ p + insert = end
  BY DEF Reads
<1>2. cmds \in Seq(Command) /\ r \in Rings /\ insert \in Nat /\ bytes \in Outs
  BY ReadsTypes DEF Reads
<1>3. n \in Nat /\ p + n = here + earlier /\ w \in Nat
  <2>1. end \in Nat /\ p + insert = end
    BY <1>1, <1>2
  <2>2. \A a, i, d \in Nat : a + (i + d) = a + i + d
    OBVIOUS
  <2>3. p + n = end + delay
    BY <1>2, <2>1, <2>2
  <2>4. n \in Nat
    BY <1>2
  <2>5. w \in Nat
    BY WindowIs
  <2> HIDE DEF n, w
  <2> QED
    BY <2>3, <2>4, <2>5
<1>4. c \in Command /\ c.len = len /\ c.code = code
  BY <1>3 DEF Command, NewCommand
<1>5. b \in Outs
  BY <1>3, BytesType
<1>6. cs \in Seq(Command)
  <2> HIDE DEF c
  <2> QED
    BY <1>2, <1>4, AppendProperties
<1>7. rs \in Rings
  BY <1>2, RememberIs DEF RingAfter
<1>8. Decode(cs, base, known)
        = [at |-> p + n + len, cache |-> rs, out |-> out \o Literals(n) \o b]
  <2>1. Decode(cs, base, known) = Follow(Decode(cmds, base, known), c)
    <3> HIDE DEF c
    <3> QED
      BY <1>2, <1>4, <1>6, DecodeAppend
  <2>2. FollowsAs(p, r, out, n, len, code, distance, here)
    BY FollowIs
  <2>3. Follow([at |-> p, cache |-> r, out |-> out], c)
           = [at |-> p + n + len, cache |-> rs, out |-> out \o Literals(n) \o b]
    <3>1. r \in Rings /\ n \in Nat /\ here <= p + n
      BY <1>2, <1>3
    <3>2. distance > Window(here) => p + n = here
      BY <1>3
    <3> HIDE DEF n
    <3> QED
      BY <2>2, <3>1, <3>2 DEF FollowsAs
  <2> HIDE DEF c, cs, rs, n, b
  <2> QED
    BY <1>1, <2>1, <2>3
<1>9. out \o Literals(n) = bytes \o Literals(delay)
  <2> DEFINE li == Literals(insert)  ld == Literals(delay)
  <2>1. li \in Outs /\ ld \in Outs
    BY <1>2, LiteralsType
  <2>2. li \o ld = Literals(n)
    BY <1>2, LiteralsJoin
  <2>3. bytes = out \o li
    BY <1>1
  <2> HIDE DEF li, ld, n
  <2>4. (out \o li) \o ld = out \o (li \o ld)
    BY <2>1, OutsAssociate
  <2>5. out \o Literals(n) = bytes \o ld
    BY <2>2, <2>3, <2>4
  <2> QED
    BY <2>5 DEF ld
<1>10. read \in Outs /\ read = read \o Literals(0)
  <2>1. Literals(delay) \in Outs
    BY LiteralsType
  <2> HIDE DEF b
  <2>2. bytes \o Literals(delay) \in Outs
    BY <1>2, <2>1, OutsJoin
  <2>3. read \in Outs
    BY <1>5, <2>2, OutsJoin
  <2> HIDE DEF read
  <2>4. read \o << >> = read
    BY <2>3, OutsJoin
  <2> QED
    BY <2>3, <2>4, LiteralsNone
<1>11. p + n + len \in Nat /\ p + n + len + 0 = end + delay + len
  <2>1. \A x, i, d, l \in Nat : /\ x + (i + d) + l \in Nat
                               /\ x + (i + d) + l + 0 = x + i + d + l
    OBVIOUS
  <2>2. len \in Nat
    OBVIOUS
  <2> QED
    BY <1>1, <1>2, <2>1, <2>2
<1>12. Reads(base, known, cs, rs, 0, read, end + delay + len)
  <2>1. Decode(cs, base, known) = [at |-> p + n + len, cache |-> rs, out |-> read]
    BY <1>8, <1>9, Zenon
  <2> HIDE DEF read, n, cs, rs
  <2> QED
    BY <1>6, <1>7, <1>10, <1>11, <2>1 DEF Reads
<1>13. LastIsFirst(base, known, cs, rs)
  <2>1. code < ShortCodes => Resolve(Decode(cmds, base, known).cache, code) = rs[1]
    <3> SUFFICES ASSUME code < ShortCodes PROVE distance = rs[1]
      BY <1>1
    <3>1. CASE code = 0
      <4>1. RingSlot[1] = 1 /\ RingDelta[1] = 0 /\ r[1] \in Nat
        BY <1>2 DEF RingSlot, RingDelta, Rings
      <4>2. Resolve(r, 0) = r[1] + 0
        BY <4>1 DEF Resolve, ShortCodes
      <4>3. rs = r
        BY <3>1 DEF RingAfter
      <4>4. distance = r[1]
        BY <3>1, <4>1, <4>2
      <4> QED
        BY <4>3, <4>4
    <3>2. CASE code > 0
      BY <1>2, <3>2, RememberIs DEF RingAfter
    <3> QED
      BY <3>1, <3>2
  <2>2. Decode(cmds, base, known).out \in Outs
    BY <1>1
  <2> HIDE DEF c, rs
  <2> QED
    BY <1>2, <1>4, <1>6, <2>1, <2>2 DEF LastIsFirst
<1> QED
  BY <1>12, <1>13

(* A last command that extend_last_command lengthens goes on copying from     *)
(* where it copied from.                                                      *)
Lengthened(cmds, n) == [cmds EXCEPT ![Len(cmds)].len = @ + n]

LengthensAs(base, known, cmds, r, bytes, here, earlier, n) ==
    LET last == cmds[Len(cmds)]
        cs   == Lengthened(cmds, n)
    IN (/\ Reads(base, known, cmds, r, 0, bytes, here + earlier)
        /\ LastIsFirst(base, known, cmds, r) /\ cmds # << >>
        /\ base \in Nat /\ here \in Nat /\ earlier \in Nat /\ earlier <= base /\ n \in Nat
        /\ last.code < ShortCodes \/ last.code - ShortCodes + 1 = r[1]
        /\ r[1] <= Window(here - last.len))
       => /\ Reads(base, known, cs, r, 0, bytes \o Copied(r[1], n), here + n + earlier)
          /\ LastIsFirst(base, known, cs, r)
          /\ Len(cs) = Len(cmds)

(* A lengthened last command is read as the copy and the bytes it grew by   *)
(* (extend_last_command).                                                   *)
LEMMA LongerIsRead ==
    ASSUME NEW base, NEW known, NEW cmds, NEW r, NEW bytes, NEW here, NEW earlier, NEW n
    PROVE  LengthensAs(base, known, cmds, r, bytes, here, earlier, n)
<1> DEFINE cs == Lengthened(cmds, n)
<1> SUFFICES ASSUME Reads(base, known, cmds, r, 0, bytes, here + earlier),
                    LastIsFirst(base, known, cmds, r), cmds # << >>,
                    base \in Nat, here \in Nat, earlier \in Nat, earlier <= base, n \in Nat,
                    \/ cmds[Len(cmds)].code < ShortCodes
                    \/ cmds[Len(cmds)].code - ShortCodes + 1 = r[1],
                    r[1] <= Window(here - cmds[Len(cmds)].len)
             PROVE  /\ Reads(base, known, cs, r, 0, bytes \o Copied(r[1], n), here + n + earlier)
                    /\ LastIsFirst(base, known, cs, r)
                    /\ Len(cs) = Len(cmds)
  BY Zenon DEF LengthensAs
<1>1. PICK front \in Seq(Command), last \in Command :
         /\ cmds = Append(front, last) /\ last.len > 0
         /\ Decode(front, base, known).out \in Outs
         /\ last.code < ShortCodes =>
               Resolve(Decode(front, base, known).cache, last.code) = r[1]
  BY DEF LastIsFirst
<1>2. /\ Len(front) \in Nat /\ Len(cmds) = Len(front) + 1 /\ cmds[Len(cmds)] = last
      /\ cmds \in Seq(Command)
      /\ \A k \in 1 .. Len(front) : cmds[k] = front[k]
  BY <1>1, AppendProperties, LenProperties
<1>3. PICK out \in Outs, p \in Nat :
         /\ Decode(cmds, base, known) = [at |-> p, cache |-> r, out |-> out]
         /\ bytes = out \o Literals(0)
         /\ p + 0 = here + earlier
  BY DEF Reads
<1>4. r \in Rings /\ r[1] \in Nat \ {0} /\ p = here + earlier
  BY <1>3 DEF Reads, Rings
<1>5. bytes = out
  BY <1>3, LiteralsNone, OutsJoin
<1> DEFINE was == Decode(front, base, known)
           longer == [last EXCEPT !.len = @ + n]
<1>6. longer \in Command /\ longer.insert = last.insert /\ longer.code = last.code
      /\ longer.len = last.len + n
  <2>1. last.insert \in Nat /\ last.len \in Nat /\ last.code \in Nat
        /\ last = [insert |-> last.insert, len |-> last.len, code |-> last.code]
    BY DEF Command
  <2>2. longer = [insert |-> last.insert, len |-> last.len + n, code |-> last.code]
    BY <2>1, SMTT(60)
  <2>3. last.len + n \in Nat
    BY <2>1
  <2> HIDE DEF longer
  <2> QED
    BY <2>1, <2>2, <2>3 DEF Command
<1>7. cs = Append(front, longer) /\ cs \in Seq(Command) /\ Len(cs) = Len(cmds)
  <2>1. cs = [cmds EXCEPT ![Len(cmds)] = longer]
    BY <1>2 DEF Lengthened
  <2>2. Len(cmds) \in 1 .. Len(cmds)
    BY <1>2
  <2> HIDE DEF longer, cs
  <2>3. /\ cs \in Seq(Command) /\ Len(cs) = Len(cmds)
        /\ \A k \in 1 .. Len(cmds) : cs[k] = IF k = Len(cmds) THEN longer ELSE cmds[k]
    BY <1>2, <1>6, <2>1, <2>2, ExceptSeq
  <2> DEFINE a == Append(front, longer)
  <2>4. /\ a \in Seq(Command) /\ Len(a) = Len(front) + 1 /\ a[Len(front) + 1] = longer
        /\ \A k \in 1 .. Len(front) : a[k] = front[k]
    BY <1>1, <1>6, AppendProperties
  <2> HIDE DEF a
  <2>5. ASSUME NEW k \in 1 .. Len(cs)
        PROVE  cs[k] = a[k]
    <3>1. CASE k = Len(cmds)
      BY <1>2, <2>3, <2>4, <3>1
    <3>2. CASE k # Len(cmds)
      <4>1. k \in 1 .. Len(front) /\ k \in 1 .. Len(cmds)
        BY <1>2, <2>3, <3>2
      <4> QED
        BY <1>2, <2>3, <2>4, <3>2, <4>1
    <3> QED
      BY <3>1, <3>2
  <2>6. cs = a
    BY <1>2, <2>3, <2>4, <2>5, SeqEqual
  <2> QED
    BY <2>3, <2>6 DEF a
<1>8. /\ [at |-> p, cache |-> r, out |-> out] = Follow(was, last)
      /\ Decode(cs, base, known) = Follow(was, longer)
  <2>1. Decode(cmds, base, known) = Follow(was, last)
    BY <1>1, DecodeAppend
  <2> HIDE DEF longer, cs
  <2>2. Decode(cs, base, known) = Follow(was, longer)
    BY <1>6, <1>7, DecodeAppend
  <2> QED
    BY <1>3, <2>1, <2>2
<1>9. PICK m \in Nat : was.at = base + m
  BY DecodeForward
<1> DEFINE d == Resolve(was.cache, last.code)  w == Window(was.at + last.insert)
<1>10. last.insert \in Nat /\ last.len \in Nat \ {0} /\ last.code \in Nat
  BY <1>1 DEF Command
<1>11. d = r[1]
  <2>1. CASE last.code < ShortCodes
    BY <1>1, <2>1
  <2>2. CASE ~ (last.code < ShortCodes)
    <3>1. last.code - ShortCodes + 1 = r[1]
      BY <1>2, <2>2
    <3> QED
      BY <2>2, <3>1 DEF Resolve
  <2> QED
    BY <2>1, <2>2
<1> HIDE DEF was, longer, cs, d
<1>12. p = was.at + last.insert + last.len
  BY <1>8 DEF Follow
<1>13. /\ was.at + last.insert \in Nat /\ here - last.len \in Nat
       /\ here - last.len <= was.at + last.insert
  <2>1. \A b, k, i, l, h, e \in Nat :
          b + k + i + l = h + e /\ e <= b =>
             b + k + i \in Nat /\ h - l \in Nat /\ h - l <= b + k + i
    OBVIOUS
  <2>2. base + m + last.insert + last.len = here + earlier
    BY <1>4, <1>9, <1>12
  <2>3. last.len \in Nat
    BY <1>10
  <2> QED
    BY <1>9, <1>10, <2>1, <2>2, <2>3, SMTT(60)
<1>14. w \in Nat /\ d \in 1 .. w
  <2>1. /\ w \in Nat
        /\ \A x \in Int : x <= w <=> x <= was.at + last.insert /\ x <= MaxBackward
    BY <1>13, WindowIs
  <2>2. \A x \in Int : x <= Window(here - last.len) <=> x <= here - last.len /\ x <= MaxBackward
    BY <1>13, WindowIs
  <2>3. r[1] <= here - last.len /\ r[1] <= MaxBackward
    <3>1. r[1] <= Window(here - last.len)
      BY <1>2
    <3> QED
      BY <1>4, <2>2, <3>1
  <2>4. r[1] <= was.at + last.insert
    BY <1>4, <1>13, <2>3
  <2> HIDE DEF w
  <2>5. r[1] <= w
    BY <1>4, <2>1, <2>3, <2>4
  <2> QED
    BY <1>4, <1>11, <2>1, <2>5
<1> HIDE DEF w
<1> DEFINE pre == was.out \o Literals(last.insert)
<1>15. /\ out = pre \o Bytes(d, last.len, w)
       /\ r = IF last.len > 0 /\ last.code # 0 /\ d <= w THEN Remember(was.cache, d) ELSE was.cache
  BY <1>8 DEF Follow, d, w
<1>16. Decode(cs, base, known)
          = [at |-> was.at + last.insert + (last.len + n),
             cache |-> IF last.len + n > 0 /\ last.code # 0 /\ d <= w
                       THEN Remember(was.cache, d) ELSE was.cache,
             out |-> pre \o Bytes(d, last.len + n, w)]
  BY <1>6, <1>8 DEF Follow, d, w
<1>17. was.at + last.insert + (last.len + n) = here + n + earlier
  <2> DEFINE x == was.at + last.insert
  <2>1. x + last.len = here + earlier /\ last.len \in Nat /\ x \in Nat
    BY <1>4, <1>10, <1>12, <1>13
  <2> HIDE DEF x
  <2>2. x + (last.len + n) = here + n + earlier
    BY <2>1, SMTT(60)
  <2> QED
    BY <2>2 DEF x
<1>18. pre \o Bytes(d, last.len + n, w) = bytes \o Copied(r[1], n)
  <2> DEFINE x == Bytes(d, last.len, w)  y == Copied(d, n)
  <2>1. last.len \in Nat /\ n \in Nat /\ d \in Int /\ w \in Int /\ d \in 1 .. w
    BY <1>10, <1>14
  <2>6. x \in Outs /\ y \in Outs
    BY <2>1, BytesType, CopiedType
  <2>2. Bytes(d, last.len + n, w) = x \o y
    BY <2>1, BytesLonger
  <2>3. pre \in Outs
    BY <1>1, <1>10, LiteralsType, OutsJoin DEF was
  <2> HIDE DEF x, y, pre
  <2>4. (pre \o x) \o y = pre \o (x \o y)
    BY <2>3, <2>6, OutsAssociate
  <2>5. bytes = pre \o x
    BY <1>5, <1>15 DEF x
  <2> QED
    BY <1>11, <2>2, <2>4, <2>5 DEF y
<1> DEFINE all == bytes \o Copied(r[1], n)
<1>19. all \in Outs /\ all = all \o Literals(0)
  <2>1. Copied(r[1], n) \in Outs
    BY <1>4, CopiedType
  <2>2. all \in Outs
    BY <1>5, <2>1, OutsJoin
  <2> HIDE DEF all
  <2> QED
    BY <2>2, LiteralsNone, OutsJoin
<1>20. Reads(base, known, cs, r, 0, all, here + n + earlier)
  <2>1. last.len + n > 0 <=> last.len > 0
    BY <1>10
  <2>2. Decode(cs, base, known) = [at |-> here + n + earlier, cache |-> r, out |-> all]
    BY <1>15, <1>16, <1>17, <1>18, <2>1
  <2>3. here + n + earlier \in Nat /\ here + n + earlier + 0 = here + n + earlier
    OBVIOUS
  <2> HIDE DEF all
  <2> QED
    BY <1>4, <1>7, <1>19, <2>2, <2>3 DEF Reads
<1>21. LastIsFirst(base, known, cs, r)
  <2>1. longer.len > 0
    BY <1>6, <1>10
  <2>2. longer.code < ShortCodes => Resolve(Decode(front, base, known).cache, longer.code) = r[1]
    BY <1>1, <1>6
  <2> QED
    BY <1>1, <1>6, <1>7, <2>1, <2>2 DEF LastIsFirst
<1> QED
  BY <1>7, <1>20, <1>21

(* More literals, a metablock without commands, and one with some: it is no   *)
(* longer empty.                                                              *)
LiteralsReadAs(base, known, cmds, r, insert, bytes, end, n) ==
    (Reads(base, known, cmds, r, insert, bytes, end) /\ n \in Nat)
       => Reads(base, known, cmds, r, insert + n, bytes \o Literals(n), end + n)

(* Literals left over add to what is read.                                  *)
LEMMA LiteralsAreRead ==
    ASSUME NEW base, NEW known, NEW cmds, NEW r, NEW insert, NEW bytes, NEW end, NEW n
    PROVE  LiteralsReadAs(base, known, cmds, r, insert, bytes, end, n)
<1> SUFFICES ASSUME Reads(base, known, cmds, r, insert, bytes, end), n \in Nat
             PROVE  Reads(base, known, cmds, r, insert + n, bytes \o Literals(n), end + n)
  BY Zenon DEF LiteralsReadAs
<1>1. PICK out \in Outs, p \in Nat :
         /\ Decode(cmds, base, known) = [at |-> p, cache |-> r, out |-> out]
         /\ bytes = out \o Literals(insert)
         /\ p + insert = end
  BY DEF Reads
<1>2. cmds \in Seq(Command) /\ r \in Rings /\ insert \in Nat
  BY DEF Reads
<1> DEFINE i == Literals(insert)  l == Literals(n)
<1>3. i \in Outs /\ l \in Outs /\ i \o l = Literals(insert + n)
  BY <1>2, LiteralsType, LiteralsJoin
<1> HIDE DEF i, l
<1>4. (out \o i) \o l = out \o (i \o l)
  BY <1>3, OutsAssociate
<1>5. bytes \o l = out \o Literals(insert + n)
  BY <1>1, <1>3, <1>4 DEF i
<1>6. insert + n \in Nat /\ p + (insert + n) = end + n
  BY <1>1, <1>2
<1> QED
  BY <1>1, <1>2, <1>5, <1>6 DEF Reads, l

(* Before the first command all is read, in any ring.                       *)
LEMMA NothingIsRead ==
    ASSUME NEW base \in Nat, NEW known \in Rings
    PROVE  /\ Reads(base, known, << >>, known, 0, << >>, base)
           /\ LastIsFirst(base, known, << >>, known)
<1>1. Decode(<< >>, base, known) = [at |-> base, cache |-> known, out |-> << >>]
  BY DecodeNothing
<1>2. << >> \in Outs /\ << >> \o Literals(0) = << >>
  <2>1. << >> \in Outs
    BY DEF Outs
  <2> QED
    BY <2>1, LiteralsNone, OutsJoin
<1>3. << >> \in Seq(Command) /\ base + 0 = base
  OBVIOUS
<1> QED
  BY <1>1, <1>2, <1>3 DEF Reads, LastIsFirst

(* What is read without a command is literals, and the ring is the one at   *)
(* the start.                                                               *)
LEMMA ReadOfNothing ==
    ASSUME NEW base \in Nat, NEW known, NEW r, NEW insert, NEW bytes, NEW end,
           Reads(base, known, << >>, r, insert, bytes, end)
    PROVE  r = known /\ end = base + insert /\ bytes = Literals(insert)
<1>1. Decode(<< >>, base, known) = [at |-> base, cache |-> known, out |-> << >>]
  BY DecodeNothing
<1>2. PICK out \in Outs, p \in Nat :
         /\ Decode(<< >>, base, known) = [at |-> p, cache |-> r, out |-> out]
         /\ bytes = out \o Literals(insert)
         /\ p + insert = end
  BY DEF Reads
<1>3. out = << >> /\ p = base /\ r = known
  BY <1>1, <1>2
<1>4. Literals(insert) \in Outs
  BY LiteralsType DEF Reads
<1>5. << >> \o Literals(insert) = Literals(insert)
  BY <1>4, OutsJoin
<1> QED
  BY <1>2, <1>3, <1>5

(* Commands move the decoder: a copy has at least one byte.                 *)
LEMMA CommandsGoOn ==
    ASSUME NEW base \in Nat, NEW known, NEW cmds, NEW r, NEW insert, NEW bytes, NEW end,
           Reads(base, known, cmds, r, insert, bytes, end), LastIsFirst(base, known, cmds, r)
    PROVE  cmds # << >> => end > base
<1> SUFFICES ASSUME cmds # << >> PROVE end > base
  OBVIOUS
<1>1. PICK front \in Seq(Command), last \in Command : cmds = Append(front, last) /\ last.len > 0
  BY DEF LastIsFirst
<1>2. PICK m \in Nat : Decode(front, base, known).at = base + m
  BY DecodeForward
<1>3. Decode(cmds, base, known) = Follow(Decode(front, base, known), last)
  BY <1>1, DecodeAppend
<1>4. Decode(cmds, base, known).at = base + m + last.insert + last.len
  BY <1>2, <1>3 DEF Follow
<1>5. last.insert \in Nat /\ last.len \in Nat
  BY DEF Command
<1>6. insert \in Nat /\ Decode(cmds, base, known).at + insert = end
  BY DEF Reads
<1> QED
  BY <1>1, <1>4, <1>5, <1>6

(* The command without a copy that closes a metablock.                        *)
Closing(cmds, insert) == IF insert > 0 THEN Append(cmds, NewCommand(insert, 0, ShortCodes))
                         ELSE cmds

(* The command that closes a metablock writes the left-over literals and    *)
(* leaves the ring.                                                         *)
LEMMA ClosingIsRead ==
    ASSUME NEW base, NEW known, NEW cmds, NEW r, NEW insert, NEW bytes, NEW end,
           Reads(base, known, cmds, r, insert, bytes, end)
    PROVE  /\ Decode(Closing(cmds, insert), base, known).out = bytes
           /\ Decode(Closing(cmds, insert), base, known).cache = r
<1>1. PICK out \in Outs, p \in Nat :
         /\ Decode(cmds, base, known) = [at |-> p, cache |-> r, out |-> out]
         /\ bytes = out \o Literals(insert)
  BY DEF Reads
<1>2. cmds \in Seq(Command) /\ insert \in Nat
  BY DEF Reads
<1>3. CASE insert = 0
  <2>1. bytes = out
    BY <1>1, <1>3, LiteralsNone, OutsJoin
  <2> QED
    BY <1>1, <1>3, <2>1 DEF Closing
<1>4. CASE insert > 0
  <2> DEFINE c == NewCommand(insert, 0, ShortCodes)  w == Window(p + insert)
             s == [at |-> p, cache |-> r, out |-> out]
  <2>1. c \in Command /\ c.insert = insert /\ c.len = 0 /\ c.code = 16
    BY <1>2 DEF Command, NewCommand, ShortCodes
  <2>2. Resolve(r, 16) = 1
    BY DEF Resolve, ShortCodes
  <2>3. w \in Nat
    BY <1>2, WindowIs
  <2>10. s.at = p /\ s.cache = r /\ s.out = out
    OBVIOUS
  <2> HIDE DEF c, w, s
  <2>4. Bytes(1, 0, w) = << >>
    BY <2>3, BytesNone
  <2>5. Follow(s, c).cache = r /\ Follow(s, c).out = out \o Literals(insert) \o << >>
    BY <2>1, <2>2, <2>4, <2>10 DEF Follow, w
  <2>6. Decode(Append(cmds, c), base, known) = Follow(s, c)
    BY <1>1, <1>2, <2>1, DecodeAppend DEF s
  <2>7. bytes \in Outs /\ bytes \o << >> = bytes
    <3>1. Literals(insert) \in Outs
      BY <1>2, LiteralsType
    <3> QED
      BY <1>1, <3>1, OutsJoin
  <2>8. Closing(cmds, insert) = Append(cmds, c)
    BY <1>4 DEF Closing, c
  <2>9. Follow(s, c).out = bytes \o << >> /\ Follow(s, c).cache = r
    BY <1>1, <2>5
  <2> QED
    BY <2>6, <2>7, <2>8, <2>9
<1> QED
  BY <1>2, <1>3, <1>4

-----------------------------------------------------------------------------
(* Ways through the nodes.  A node is reached from an earlier one.            *)
Backwards(ns, n) == \A i \in 1 .. n : Before(ns, i) \in 0 .. (i - 1)

Start(r) == [commands |-> << >>, ring |-> r, meant |-> << >>]

WaysTo(g, k, ns, begin, ins, r) ==
    g = [i \in 0 .. k |-> IF i = 0 THEN Start(r) ELSE Created(ns, begin, ins, g[Before(ns, i)], i)]

(* There are functions as Ways describes one, for every graph.              *)
LEMMA WaysExist ==
    ASSUME NEW ns, NEW m \in Nat, NEW begin, NEW ins, NEW r, Backwards(ns, m)
    PROVE  \A n \in 0 .. m : \E g : WaysTo(g, n, ns, begin, ins, r)
<1> DEFINE T == {n \in 0 .. m : ~ \E g : WaysTo(g, n, ns, begin, ins, r)}
<1> SUFFICES ASSUME T # {} PROVE FALSE
  OBVIOUS
<1>1. PICK n \in T : \A k \in T : n <= k
  <2>1. T \in SUBSET Nat
    OBVIOUS
  <2> HIDE DEF T
  <2> QED
    BY <2>1, LeastNumber
<1>2. n \in 0 .. m /\ n \in Nat
  BY <1>1
<1>3. CASE n = 0
  <2> DEFINE g == [k \in 0 .. 0 |-> Start(r)]
  <2>1. WaysTo(g, 0, ns, begin, ins, r)
    BY DEF WaysTo
  <2> QED
    BY <1>1, <1>3, <2>1
<1>4. CASE n # 0
  <2>1. n - 1 \in 0 .. m /\ n - 1 \notin T
    BY <1>1, <1>4
  <2>2. PICK g : WaysTo(g, n - 1, ns, begin, ins, r)
    BY <2>1
  <2> DEFINE C(f, k) == Created(ns, begin, ins, f[Before(ns, k)], k)
             h == [k \in 0 .. n |-> IF k = n THEN C(g, n) ELSE g[k]]
  <2>3. ASSUME NEW k \in 0 .. n
        PROVE  h[k] = IF k = 0 THEN Start(r) ELSE C(h, k)
    <3>1. CASE k = 0
      <4>1. h[0] = g[0] /\ 0 \in 0 .. (n - 1)
        BY <1>2, <1>4
      <4> HIDE DEF h
      <4>2. g[0] = Start(r)
        BY <2>2, <4>1 DEF WaysTo
      <4> QED
        BY <3>1, <4>1, <4>2
    <3>2. CASE k # 0
      <4>1. Before(ns, k) \in 0 .. (k - 1)
        BY <1>2, <3>2 DEF Backwards
      <4>2. h[Before(ns, k)] = g[Before(ns, k)]
        BY <1>2, <4>1
      <4>3. C(h, k) = C(g, k)
        BY <4>2
      <4>4. CASE k = n
        <5>1. h[k] = C(g, n)
          BY <4>4
        <5> HIDE DEF h, C
        <5> QED
          BY <3>2, <4>3, <4>4, <5>1
      <4>5. CASE k # n
        <5>1. h[k] = g[k] /\ k \in 0 .. (n - 1)
          BY <1>2, <4>5
        <5>2. g[k] = C(g, k)
          BY <2>2, <3>2, <5>1 DEF WaysTo
        <5> HIDE DEF h, C
        <5> QED
          BY <3>2, <4>3, <5>1, <5>2
      <4> QED
        BY <4>4, <4>5
    <3> QED
      BY <3>1, <3>2
  <2>4. WaysTo(h, n, ns, begin, ins, r)
    BY <2>3 DEF WaysTo
  <2> QED
    BY <1>1, <2>4
<1> QED
  BY <1>3, <1>4

WaysAre(ns, n, begin, ins, r) ==
    LET w == Ways(ns, n, begin, ins, r)
    IN (n \in Nat /\ Backwards(ns, n))
       => /\ w[0] = Start(r)
          /\ \A i \in 1 .. n : w[i] = Created(ns, begin, ins, w[Before(ns, i)], i)

(* Ways is what its equations say: recursion over the nodes, each from the  *)
(* node before its command.                                                 *)
LEMMA WaysDefined ==
    ASSUME NEW ns, NEW n, NEW begin, NEW ins, NEW r
    PROVE  WaysAre(ns, n, begin, ins, r)
<1> SUFFICES ASSUME n \in Nat, Backwards(ns, n)
             PROVE  /\ Ways(ns, n, begin, ins, r)[0] = Start(r)
                    /\ \A i \in 1 .. n :
                          Ways(ns, n, begin, ins, r)[i]
                            = Created(ns, begin, ins, Ways(ns, n, begin, ins, r)[Before(ns, i)], i)
  BY Zenon DEF WaysAre
<1>1. \A k \in 0 .. n : \E g : WaysTo(g, k, ns, begin, ins, r)
  BY WaysExist
<1>2. PICK g : WaysTo(g, n, ns, begin, ins, r)
  BY <1>1
<1> DEFINE w == Ways(ns, n, begin, ins, r)
<1>3. WaysTo(w, n, ns, begin, ins, r)
  BY <1>2 DEF WaysTo, Ways, Start
<1> HIDE DEF w
<1>4. 0 \in 0 .. n /\ \A i \in 1 .. n : i \in 0 .. n /\ i # 0
  OBVIOUS
<1>5. w[0] = Start(r)
  BY <1>3, <1>4 DEF WaysTo
<1>6. ASSUME NEW i \in 1 .. n
      PROVE  w[i] = Created(ns, begin, ins, w[Before(ns, i)], i)
  BY <1>3, <1>4 DEF WaysTo
<1> QED
  BY <1>5, <1>6 DEF w

(* Two graphs whose first k nodes have the same commands have the same ways   *)
(* to them.                                                                   *)
SameCommand(a, b) == a.len = b.len /\ a.insert = b.insert /\ a.dist = b.dist /\ a.short = b.short

WaysAgreeAs(ms, ns, n, k, begin, ins, r) ==
    (/\ n \in Nat /\ k \in 0 .. n /\ Backwards(ms, n) /\ Backwards(ns, n)
     /\ \A i \in 1 .. k : SameCommand(ms[i], ns[i]))
    => \A i \in 0 .. k : Ways(ms, n, begin, ins, r)[i] = Ways(ns, n, begin, ins, r)[i]

(* The ways to the first nodes depend on the nodes before them alone, so    *)
(* later updates leave them.                                                *)
LEMMA WaysAgree ==
    ASSUME NEW ms, NEW ns, NEW n, NEW k, NEW begin, NEW ins, NEW r
    PROVE  WaysAgreeAs(ms, ns, n, k, begin, ins, r)
<1> DEFINE v == Ways(ms, n, begin, ins, r)  w == Ways(ns, n, begin, ins, r)
<1> SUFFICES ASSUME n \in Nat, k \in 0 .. n, Backwards(ms, n), Backwards(ns, n),
                    \A i \in 1 .. k : SameCommand(ms[i], ns[i])
             PROVE  \A i \in 0 .. k : v[i] = w[i]
  BY Zenon DEF WaysAgreeAs
<1>1. WaysAre(ms, n, begin, ins, r) /\ WaysAre(ns, n, begin, ins, r)
  BY WaysDefined
<1>2. /\ v[0] = Start(r) /\ w[0] = Start(r)
      /\ \A i \in 1 .. n : v[i] = Created(ms, begin, ins, v[Before(ms, i)], i)
      /\ \A i \in 1 .. n : w[i] = Created(ns, begin, ins, w[Before(ns, i)], i)
  BY <1>1, Zenon DEF WaysAre
<1> HIDE DEF v, w
<1> DEFINE T == {i \in 0 .. k : v[i] # w[i]}
<1> SUFFICES ASSUME T # {} PROVE FALSE
  OBVIOUS
<1>3. PICK i \in T : \A j \in T : i <= j
  <2>1. T \in SUBSET Nat
    OBVIOUS
  <2> HIDE DEF T
  <2> QED
    BY <2>1, LeastNumber
<1>4. i \in 1 .. k /\ i \in 1 .. n /\ v[i] # w[i]
  <2>1. i \in 0 .. k /\ v[i] # w[i]
    BY <1>3
  <2>2. i # 0
    BY <1>2, <2>1
  <2> QED
    BY <2>1, <2>2
<1>5. SameCommand(ms[i], ns[i])
  BY <1>4
<1>6. Before(ms, i) = Before(ns, i) /\ Before(ms, i) \in 0 .. (i - 1)
  BY <1>4, <1>5 DEF SameCommand, Before, Backwards
<1>7. v[Before(ms, i)] = w[Before(ns, i)]
  <2>1. Before(ms, i) \in 0 .. k /\ ~ (i <= Before(ms, i))
    BY <1>4, <1>6
  <2>2. Before(ms, i) \notin T
    BY <1>3, <2>1
  <2> QED
    BY <1>6, <2>1, <2>2
<1>8. \A x : Created(ms, begin, ins, x, i) = Created(ns, begin, ins, x, i)
  BY <1>5 DEF Created, SameCommand, NodeCode
<1>9. v[i] = w[i]
  BY <1>2, <1>4, <1>7, <1>8
<1> QED
  BY <1>4, <1>9

(* Following the shortcuts ends.                                              *)
ShortcutsBack(ns, n) ==
    /\ Backwards(ns, n)
    /\ \A p \in 0 .. n : ns[p].shortcut \in 0 .. p

TrailsTo(g, k, ns) ==
    g = [p \in 0 .. k |-> IF p = 0 THEN << >>
                          ELSE << ns[p].dist >> \o g[ns[Before(ns, p)].shortcut]]

(* There are functions as Trail describes one, when shortcuts lead back.    *)
LEMMA TrailsExist ==
    ASSUME NEW ns, NEW m \in Nat, ShortcutsBack(ns, m)
    PROVE  \A n \in 0 .. m : \E g : TrailsTo(g, n, ns)
<1> DEFINE T == {n \in 0 .. m : ~ \E g : TrailsTo(g, n, ns)}
<1> SUFFICES ASSUME T # {} PROVE FALSE
  OBVIOUS
<1>1. PICK n \in T : \A k \in T : n <= k
  <2>1. T \in SUBSET Nat
    OBVIOUS
  <2> HIDE DEF T
  <2> QED
    BY <2>1, LeastNumber
<1>2. n \in 0 .. m /\ n \in Nat
  BY <1>1
<1>3. CASE n = 0
  <2> DEFINE g == [k \in 0 .. 0 |-> << >>]
  <2>1. TrailsTo(g, 0, ns)
    BY DEF TrailsTo
  <2> QED
    BY <1>1, <1>3, <2>1
<1>4. CASE n # 0
  <2>1. n - 1 \in 0 .. m /\ n - 1 \notin T
    BY <1>1, <1>4
  <2>2. PICK g : TrailsTo(g, n - 1, ns)
    BY <2>1
  <2> DEFINE S(k) == ns[Before(ns, k)].shortcut
             C(f, k) == << ns[k].dist >> \o f[S(k)]
             h == [k \in 0 .. n |-> IF k = n THEN C(g, n) ELSE g[k]]
  <2>3. ASSUME NEW k \in 0 .. n
        PROVE  h[k] = IF k = 0 THEN << >> ELSE C(h, k)
    <3>1. CASE k = 0
      <4>1. h[0] = g[0] /\ 0 \in 0 .. (n - 1)
        BY <1>2, <1>4
      <4> HIDE DEF h
      <4>2. g[0] = << >>
        BY <2>2, <4>1 DEF TrailsTo
      <4> QED
        BY <3>1, <4>1, <4>2
    <3>2. CASE k # 0
      <4>1. S(k) \in 0 .. (k - 1)
        <5>1. k \in 1 .. m
          BY <1>2, <3>2
        <5>2. Before(ns, k) \in 0 .. (k - 1)
          BY <5>1 DEF ShortcutsBack, Backwards
        <5>3. Before(ns, k) \in 0 .. m
          BY <5>1, <5>2
        <5>4. S(k) \in 0 .. Before(ns, k)
          BY <5>3 DEF ShortcutsBack
        <5> HIDE DEF S
        <5> QED
          BY <5>1, <5>2, <5>4
      <4> HIDE DEF S
      <4>2. h[S(k)] = g[S(k)]
        BY <1>2, <4>1
      <4>3. C(h, k) = C(g, k)
        BY <4>2
      <4>4. CASE k = n
        <5>1. h[k] = C(g, n)
          BY <4>4
        <5> HIDE DEF h, C
        <5> QED
          BY <3>2, <4>3, <4>4, <5>1
      <4>5. CASE k # n
        <5>1. h[k] = g[k] /\ k \in 0 .. (n - 1)
          BY <1>2, <4>5
        <5>2. g[k] = C(g, k)
          BY <2>2, <3>2, <5>1 DEF TrailsTo, S
        <5> HIDE DEF h, C
        <5> QED
          BY <3>2, <4>3, <5>1, <5>2
      <4> QED
        BY <4>4, <4>5
    <3> QED
      BY <3>1, <3>2
  <2>4. TrailsTo(h, n, ns)
    BY <2>3 DEF TrailsTo
  <2> QED
    BY <1>1, <2>4
<1> QED
  BY <1>3, <1>4

Trails(ns) ==
    LET trail[p \in DOMAIN ns] ==
            IF p = 0 THEN << >>
            ELSE << ns[p].dist >> \o trail[ns[Before(ns, p)].shortcut]
    IN trail

(* Trail is the value of its own recursive function.                        *)
LEMMA TrailIs ==
    ASSUME NEW ns, NEW i
    PROVE  Trail(ns, i) = Trails(ns)[ns[i].shortcut]
  BY DEF Trail, Trails

(* Trails is what its equations say.                                        *)
LEMMA TrailsDefined ==
    ASSUME NEW ns, NEW n \in Nat, DOMAIN ns = 0 .. n, ShortcutsBack(ns, n)
    PROVE  TrailsTo(Trails(ns), n, ns)
<1>1. \A k \in 0 .. n : \E g : TrailsTo(g, k, ns)
  BY TrailsExist
<1>2. PICK g : TrailsTo(g, n, ns)
  BY <1>1
<1> QED
  BY <1>2 DEF TrailsTo, Trails

(* The first node has no distances before it.                               *)
LEMMA TrailFirst ==
    ASSUME NEW ns, NEW n \in Nat, DOMAIN ns = 0 .. n, ShortcutsBack(ns, n)
    PROVE  Trails(ns)[0] = << >>
<1> DEFINE t == Trails(ns)
<1>1. TrailsTo(t, n, ns)
  BY TrailsDefined
<1> HIDE DEF t
<1>2. 0 \in 0 .. n
  OBVIOUS
<1>3. t[0] = << >>
  BY <1>1, <1>2 DEF TrailsTo
<1> QED
  BY <1>3 DEF t

(* A node adds its own distance to those of its shortcut.                   *)
LEMMA TrailStep ==
    ASSUME NEW ns, NEW n \in Nat, DOMAIN ns = 0 .. n, ShortcutsBack(ns, n), NEW p \in 1 .. n
    PROVE  Trails(ns)[p] = << ns[p].dist >> \o Trails(ns)[ns[Before(ns, p)].shortcut]
<1> DEFINE t == Trails(ns)
<1>1. TrailsTo(t, n, ns)
  BY TrailsDefined
<1> HIDE DEF t
<1>2. p \in 0 .. n /\ p # 0
  OBVIOUS
<1>3. t[p] = << ns[p].dist >> \o t[ns[Before(ns, p)].shortcut]
  BY <1>1, <1>2 DEF TrailsTo
<1> QED
  BY <1>3 DEF t

(* The first four distances of a trail that goes on in the ring it started    *)
(* from are that ring with the distances remembered one after the other.      *)
FirstFour(t, r) == SubSeq(t \o r, 1, 4)

(* The entries of the first four distances.                                 *)
LEMMA FirstFourIs ==
    ASSUME NEW t \in Seq(Int), NEW r \in Seq(Int), Len(r) = 4
    PROVE  /\ FirstFour(t, r) \in Seq(Int) /\ Len(FirstFour(t, r)) = 4
           /\ \A i \in 1 .. 4 : FirstFour(t, r)[i] = (t \o r)[i]
<1> DEFINE a == t \o r
<1>1. a \in Seq(Int) /\ Len(a) = Len(t) + Len(r) /\ Len(t) \in Nat
  BY ConcatProperties, LenProperties
<1> HIDE DEF a
<1>2. \A i \in 1 .. 4 : i \in 1 .. Len(a) /\ a[i] \in Int
  <2>1. ASSUME NEW i \in 1 .. 4
        PROVE  i \in 1 .. Len(a)
    BY <1>1
  <2> QED
    BY <1>1, <2>1, ElementOfSeq
<1>3. \A n \in Int : n = 4 =>
        /\ SubSeq(a, 1, n) \in Seq(Int)
        /\ Len(SubSeq(a, 1, n)) = IF 1 <= n THEN n - 1 + 1 ELSE 0
        /\ \A i \in 1 .. n - 1 + 1 : SubSeq(a, 1, n)[i] = a[1 + i - 1]
  BY <1>2, SubSeqProperties
<1>4. /\ SubSeq(a, 1, 4) \in Seq(Int)
      /\ Len(SubSeq(a, 1, 4)) = 4
      /\ \A i \in 1 .. 4 : SubSeq(a, 1, 4)[i] = a[1 + i - 1]
  BY <1>3
<1>5. \A i \in 1 .. 4 : 1 + i - 1 = i
  OBVIOUS
<1> QED
  BY <1>4, <1>5 DEF FirstFour, a

(* Without distances before it the ring is the one at the start of the      *)
(* block.                                                                   *)
LEMMA FirstFourOfNone ==
    ASSUME NEW r \in Seq(Int), Len(r) = 4
    PROVE  FirstFour(<< >>, r) = r
<1>1. << >> \in Seq(Int) /\ << >> \o r = r
  BY ConcatEmptySeq
<1>2. /\ FirstFour(<< >>, r) \in Seq(Int) /\ Len(FirstFour(<< >>, r)) = 4
      /\ \A i \in 1 .. 4 : FirstFour(<< >>, r)[i] = (<< >> \o r)[i]
  BY <1>1, FirstFourIs
<1> QED
  BY <1>1, <1>2, SeqEqual

(* A distance before all others is what a decoder remembers last.           *)
LEMMA FirstFourRemember ==
    ASSUME NEW t \in Seq(Int), NEW r \in Seq(Int), Len(r) = 4, NEW d \in Int
    PROVE  FirstFour(<< d >> \o t, r) = Remember(FirstFour(t, r), d)
<1> DEFINE h == << d >>  q == FirstFour(t, r)  a == t \o r  u == h \o t
           s == SubSeq(q, 1, 3)
<1>1. h \in Seq(Int) /\ Len(h) = 1 /\ h[1] = d
  OBVIOUS
<1>2. /\ q \in Seq(Int) /\ Len(q) = 4 /\ \A i \in 1 .. 4 : q[i] = a[i]
  BY FirstFourIs
<1> HIDE DEF h, q
<1>3. a \in Seq(Int) /\ Len(a) = Len(t) + 4 /\ Len(t) \in Nat
  <2>1. t \o r \in Seq(Int) /\ Len(t \o r) = Len(t) + Len(r)
    BY ConcatProperties
  <2>2. Len(t) \in Nat
    BY LenProperties
  <2> QED
    BY <2>1, <2>2
<1>4. u \in Seq(Int)
  BY <1>1, ConcatProperties
<1>5. u \o r = h \o a
  BY <1>1, ConcatAssociative, SMTT(60)
<1>6. /\ s \in Seq(Int) /\ Len(s) = 3 /\ \A i \in 1 .. 3 : s[i] = q[i]
  <2>1. ASSUME NEW i \in 1 .. 3
        PROVE  q[i] \in Int
    <3>1. i \in 1 .. Len(q)
      BY <1>2
    <3> QED
      BY <1>2, <3>1, ElementOfSeq
  <2>2. \A n \in Int : n = 3 =>
          /\ SubSeq(q, 1, n) \in Seq(Int)
          /\ Len(SubSeq(q, 1, n)) = IF 1 <= n THEN n - 1 + 1 ELSE 0
          /\ \A i \in 1 .. n - 1 + 1 : SubSeq(q, 1, n)[i] = q[1 + i - 1]
    BY <2>1, SubSeqProperties
  <2>3. /\ SubSeq(q, 1, 3) \in Seq(Int)
        /\ Len(SubSeq(q, 1, 3)) = 3
        /\ \A i \in 1 .. 3 : SubSeq(q, 1, 3)[i] = q[1 + i - 1]
    BY <2>2
  <2>4. \A i \in 1 .. 3 : 1 + i - 1 = i
    OBVIOUS
  <2> QED
    BY <2>3, <2>4
<1> DEFINE x == FirstFour(u, r)  y == h \o s
<1>7. /\ x \in Seq(Int) /\ Len(x) = 4 /\ \A i \in 1 .. 4 : x[i] = (h \o a)[i]
  <2> HIDE DEF u, a
  <2>1. /\ FirstFour(u, r) \in Seq(Int) /\ Len(FirstFour(u, r)) = 4
        /\ \A i \in 1 .. 4 : FirstFour(u, r)[i] = (u \o r)[i]
    BY <1>4, FirstFourIs
  <2> QED
    BY <1>5, <2>1
<1> HIDE DEF a, s, u, x
<1>8. /\ y \in Seq(Int) /\ Len(y) = 4
      /\ \A i \in 1 .. 4 : y[i] = IF i <= 1 THEN h[i] ELSE s[i - 1]
  <2>1. /\ y \in Seq(Int) /\ Len(y) = Len(h) + Len(s)
        /\ \A i \in 1 .. Len(h) + Len(s) : y[i] = IF i <= Len(h) THEN h[i] ELSE s[i - Len(h)]
    BY <1>1, <1>6, ConcatProperties
  <2> HIDE DEF y
  <2> QED
    BY <1>1, <1>6, <2>1
<1>9. \A i \in 1 .. 4 : (h \o a)[i] = IF i <= 1 THEN h[i] ELSE a[i - 1]
  <2>0. h \in Seq(Int) /\ a \in Seq(Int)
    BY <1>1, <1>3
  <2>1. \A i \in 1 .. Len(h) + Len(a) :
           (h \o a)[i] = IF i <= Len(h) THEN h[i] ELSE a[i - Len(h)]
    BY ONLY <2>0, ConcatProperties, ZenonT(60)
  <2>2. \A i \in 1 .. 4 : i \in 1 .. Len(h) + Len(a)
    BY <1>1, <1>3
  <2> QED
    BY <1>1, <2>1, <2>2
<1> DEFINE z == h \o a
<1>12. /\ \A i \in 1 .. 4 : x[i] = z[i]
       /\ \A i \in 1 .. 4 : z[i] = IF i <= 1 THEN h[i] ELSE a[i - 1]
  BY <1>7, <1>9, Zenon
<1> HIDE DEF y, z
<1>10. ASSUME NEW i \in 1 .. 4
       PROVE  x[i] = y[i]
  <2>1. CASE i = 1
    <3>1. x[i] = h[i]
      BY <1>12, <2>1
    <3>2. y[i] = h[i]
      BY <1>8, <2>1
    <3> QED
      BY <3>1, <3>2
  <2>2. CASE i # 1
    <3>1. i - 1 \in 1 .. 3 /\ ~ (i <= 1) /\ i - 1 \in 1 .. 4
      BY <2>2
    <3>2. x[i] = a[i - 1]
      BY <1>12, <3>1
    <3>3. y[i] = s[i - 1]
      BY <1>8, <3>1
    <3>4. s[i - 1] = a[i - 1]
      BY <1>2, <1>6, <3>1
    <3> QED
      BY <3>2, <3>3, <3>4
  <2> QED
    BY <2>1, <2>2
<1>11. x = y
  BY <1>7, <1>8, <1>10, SeqEqual
<1> QED
  BY <1>11 DEF x, y, u, h, s, q, Remember

(* ComputeDistanceCache follows the shortcuts to the ring that a decoder has  *)
(* after the way to the node, as far as the shortcuts were computed.          *)
Node == [len : Nat, dist : Nat, insert : Nat, short : 0 .. ShortCodes, shortcut : Nat]

CachesAs(ns, n, k, begin, ins, r) ==
    (/\ n \in Nat /\ k \in 0 .. n /\ begin \in Nat /\ r \in Rings
     /\ ns \in [0 .. n -> Node] /\ ShortcutsBack(ns, n)
     /\ \A i \in 1 .. k : ns[i].shortcut = Shortcut(ns, i, begin))
    => \A i \in 0 .. k : NodeCache(ns, i, r) = Ways(ns, n, begin, ins, r)[i].ring

(* ComputeDistanceCache gives the ring a decoder has at the node, though it *)
(* follows shortcuts and never the commands.                                *)
LEMMA NodeCacheIs ==
    ASSUME NEW ns, NEW n, NEW k, NEW begin, NEW ins, NEW r
    PROVE  CachesAs(ns, n, k, begin, ins, r)
<1> DEFINE w == Ways(ns, n, begin, ins, r)
<1> SUFFICES ASSUME n \in Nat, k \in 0 .. n, begin \in Nat, r \in Rings,
                    ns \in [0 .. n -> Node], ShortcutsBack(ns, n),
                    \A i \in 1 .. k : ns[i].shortcut = Shortcut(ns, i, begin)
             PROVE  \A i \in 0 .. k : NodeCache(ns, i, r) = w[i].ring
  BY Zenon DEF CachesAs
<1>1. r \in Seq(Int) /\ Len(r) = 4
  <2>1. r \in [1 .. 4 -> Int]
    BY DEF Rings
  <2>2. \A m \in Nat : r \in [1 .. m -> Int] => r \in Seq(Int) /\ Len(r) = m
    BY Indexed
  <2> QED
    BY <2>1, <2>2
<1>2. WaysAre(ns, n, begin, ins, r)
  BY WaysDefined
<1>3. /\ w[0] = Start(r)
      /\ \A i \in 1 .. n : w[i] = Created(ns, begin, ins, w[Before(ns, i)], i)
  BY <1>2, Zenon DEF WaysAre, ShortcutsBack
<1> HIDE DEF w
<1>4. DOMAIN ns = 0 .. n
  OBVIOUS
<1> DEFINE P(i) == Trail(ns, i) \in Seq(Int) /\ FirstFour(Trail(ns, i), r) = w[i].ring
<1>5. P(0)
  <2>1. ns[0].shortcut = 0
    <3>1. 0 \in 0 .. n
      OBVIOUS
    <3>2. ns[0].shortcut \in 0 .. 0
      BY <3>1 DEF ShortcutsBack
    <3> QED
      BY <3>2
  <2>2. Trail(ns, 0) = << >>
    <3>1. Trails(ns)[0] = << >>
      BY <1>4, TrailFirst
    <3>2. Trail(ns, 0) = Trails(ns)[ns[0].shortcut]
      BY TrailIs
    <3> QED
      BY <2>1, <3>1, <3>2
  <2>3. w[0].ring = r
    BY <1>3 DEF Start
  <2>4. FirstFour(<< >>, r) = r
    BY <1>1, FirstFourOfNone
  <2>5. << >> \in Seq(Int)
    OBVIOUS
  <2> QED
    BY <2>2, <2>3, <2>4, <2>5
<1>6. ASSUME NEW i \in 1 .. k, P(Before(ns, i))
      PROVE  P(i)
  <2> DEFINE b == Before(ns, i)  d == ns[i].dist  here == begin + i - ns[i].len
             t == Trail(ns, b)
  <2>1. i \in 1 .. n /\ i \in 0 .. n /\ i \in Nat
    OBVIOUS
  <2>2. ns[i].len \in Nat /\ d \in Nat /\ ns[i].insert \in Nat
    BY <2>1 DEF Node
  <2>3. b \in 0 .. (i - 1) /\ here \in Nat
    <3>1. b \in 0 .. (i - 1)
      BY <2>1 DEF ShortcutsBack, Backwards
    <3>2. i - ns[i].len - ns[i].insert >= 0
      BY <3>1 DEF Before
    <3>3. begin + i - ns[i].len \in Nat
      BY <2>1, <2>2, <3>2
    <3> QED
      BY <3>1, <3>3
  <2>4. d <= Window(here) <=> d + ns[i].len <= begin + i /\ d <= MaxBackward
    <3>1. \A e \in Int : e <= Window(here) <=> e <= here /\ e <= MaxBackward
      BY <2>3, WindowIs
    <3>2. d <= begin + i - ns[i].len <=> d + ns[i].len <= begin + i
      BY <2>1, <2>2
    <3> QED
      BY <2>2, <3>1, <3>2
  <2> DEFINE moves == d <= Window(here) /\ NodeCode(ns[i]) > 0
  <2>5. ns[i].shortcut = IF moves THEN i ELSE ns[b].shortcut
    <3>1. ns[i].shortcut = Shortcut(ns, i, begin) /\ i # 0
      OBVIOUS
    <3> QED
      BY <2>4, <3>1 DEF Shortcut
  <2>6. w[i].ring = IF moves THEN Remember(w[b].ring, d) ELSE w[b].ring
    <3>1. w[i] = Created(ns, begin, ins, w[b], i)
      BY <1>3, <2>1
    <3> QED
      BY <3>1 DEF Created
  <2>7. CASE ~ moves
    <3>1. ns[i].shortcut = ns[b].shortcut /\ w[i].ring = w[b].ring
      BY <2>5, <2>6, <2>7
    <3>2. Trail(ns, i) = t
      BY <3>1, TrailIs
    <3> HIDE DEF b, t
    <3> QED
      BY <1>6, <3>1, <3>2 DEF b, t
  <2>8. CASE moves
    <3>1. ns[i].shortcut = i /\ w[i].ring = Remember(w[b].ring, d)
      BY <2>5, <2>6, <2>8
    <3>2. Trails(ns)[i] = << d >> \o Trails(ns)[ns[b].shortcut]
      BY <1>4, <2>1, TrailStep
    <3>3. Trail(ns, i) = << d >> \o t
      BY <3>1, <3>2, TrailIs
    <3>4. t \in Seq(Int) /\ FirstFour(t, r) = w[b].ring
      BY <1>6
    <3>5. << d >> \in Seq(Int) /\ d \in Int
      BY <2>2
    <3> HIDE DEF b, t, d
    <3>6. << d >> \o t \in Seq(Int)
      BY <3>4, <3>5, ConcatProperties
    <3>7. FirstFour(<< d >> \o t, r) = Remember(FirstFour(t, r), d)
      BY <1>1, <3>4, <3>5, FirstFourRemember
    <3> QED
      BY <3>1, <3>3, <3>4, <3>6, <3>7
  <2> QED
    BY <2>7, <2>8
<1> HIDE DEF P
<1> DEFINE T == {i \in 0 .. k : ~ P(i)}
<1>7. T = {}
  <2> SUFFICES ASSUME T # {} PROVE FALSE
    OBVIOUS
  <2>1. PICK i \in T : \A j \in T : i <= j
    <3>1. T \in SUBSET Nat
      OBVIOUS
    <3> HIDE DEF T
    <3> QED
      BY <3>1, LeastNumber
  <2>2. i \in 0 .. k /\ ~ P(i) /\ i # 0
    BY <1>5, <2>1
  <2>3. i \in 1 .. k /\ i \in 1 .. n
    BY <2>2
  <2>4. Before(ns, i) \in 0 .. (i - 1)
    BY <2>3 DEF ShortcutsBack, Backwards
  <2>5. Before(ns, i) \in 0 .. k /\ ~ (i <= Before(ns, i))
    BY <2>3, <2>4
  <2>6. Before(ns, i) \notin T
    BY <2>1, <2>5
  <2> QED
    BY <1>6, <2>2, <2>3, <2>5, <2>6
<1>8. \A i \in 0 .. k : P(i)
  BY <1>7
<1> QED
  BY <1>8 DEF P, NodeCache, FirstFour

(* ComputeShortestPathFromNodes finds a node.                                 *)
LEMMA LastReachedIs ==
    ASSUME NEW ns, NEW n \in Nat
    PROVE  /\ LastReached(ns, n) \in 0 .. n
           /\ LastReached(ns, n) = 0 \/ Reached(ns, LastReached(ns, n))
<1> DEFINE Good(i) == /\ i = 0 \/ Reached(ns, i)
                      /\ \A j \in i + 1 .. n : ~ Reached(ns, j)
           T == {m \in 0 .. n : n - m = 0 \/ Reached(ns, n - m)}
<1>1. PICK m \in T : \A j \in T : m <= j
  <2>1. T \in SUBSET Nat /\ n \in T
    OBVIOUS
  <2> HIDE DEF T
  <2> QED
    BY <2>1, LeastNumber
<1>2. m \in 0 .. n /\ (n - m = 0 \/ Reached(ns, n - m))
  BY <1>1
<1>3. ASSUME NEW j \in n - m + 1 .. n, Reached(ns, j)
      PROVE  FALSE
  <2>1. n - j \in 0 .. n /\ n - (n - j) = j /\ ~ (m <= n - j)
    BY <1>2
  <2>2. n - j \in T
    BY <1>3, <2>1
  <2> QED
    BY <1>1, <2>1, <2>2
<1>4. Good(n - m) /\ n - m \in 0 .. n
  BY <1>2, <1>3
<1>5. \E i \in 0 .. n : Good(i)
  BY <1>4
<1>6. LastReached(ns, n) = CHOOSE i \in 0 .. n : Good(i)
  BY DEF LastReached
<1> HIDE DEF Good
<1>7. LastReached(ns, n) \in 0 .. n /\ Good(LastReached(ns, n))
  BY <1>5, <1>6, Zenon
<1> QED
  BY <1>7 DEF Good

-----------------------------------------------------------------------------
(* The inductive invariant.  The pending commands, decoded from the start of  *)
(* the metablock with the ring that was saved there, lead to the ring and the *)
(* position of the encoder; a catable stream has none before its raw bytes.   *)
Base == flushed + Earlier

Pending(cmds, r, insert, bytes, end) ==
    /\ Reads(Base, saved, cmds, r, insert, bytes, end + Earlier)
    /\ LastIsFirst(Base, saved, cmds, r)
    /\ catable /\ firstBytes < 2 => cmds = << >> /\ insert = 0

\* A command takes at least two bytes, so there is room for those still to come.
Room(cmds, begin) == 2 * Len(cmds) + (posEnd - begin) + 1 <= 2 * allocated

InBlock == /\ position <= posEnd /\ posEnd = input
           /\ catable /\ firstBytes < 2 => position = posEnd

StreamInv ==
    /\ catable \in BOOLEAN /\ firstBytes \in 0 .. 2
    /\ input \in Nat /\ processed \in Nat /\ flushed \in Nat
    /\ flushed <= processed /\ processed <= input
    /\ allocated \in Nat /\ Len(commands) <= allocated
    /\ saved \in Rings /\ theirs = saved
    /\ emitted.read = emitted.meant
    /\ position \in Nat /\ posEnd \in Nat
    /\ phase \in {"idle", "greedy", "nodes", "again", "tail", "finished"}

IdleInv ==
    phase = "idle" => /\ processed = input
                      /\ Pending(commands, ring, lastInsert, meant, processed)

GreedyInv ==
    phase = "greedy" => /\ InBlock
                        /\ Pending(commands, ring, insertLength, meant, position)
                        /\ Room(commands, position)

TailInv ==
    phase = "tail" => /\ posEnd = input
                      /\ Pending(commands, ring, lastInsert, meant, posEnd)
                      /\ Room(commands, posEnd)

Passes == [pass : 1 .. 2, ring : Rings, commands : Seq(Command), lastInsert : Nat, meant : Outs]

PassInv ==
    phase \in {"nodes", "again"} =>
        /\ orig \in Passes /\ InBlock
        /\ Pending(orig.commands, orig.ring, orig.lastInsert, orig.meant, position)
        /\ Room(orig.commands, position)

(* The graph: a node that was reached stands for a command that starts from a *)
(* node whose way is final, and that names its distance by the ring a decoder *)
(* has there; the search goes on from nodes whose ring it knows.              *)
Way == Ways(nodes, NumBytes, position, orig.lastInsert, orig.ring)

Meant(ns, ways, known, i) ==
    LET node == ns[i]
        here == position + i - node.len
    IN /\ node.len >= MinMatch /\ node.dist > 0
       /\ Before(ns, i) <= known
       /\ Before(ns, i) = 0 \/ Reached(ns, Before(ns, i))
       /\ node.short = 0 /\ node.dist > Window(here) => UseDictionary
       /\ node.short > 0 => /\ node.dist <= Window(here)
                            /\ Resolve(ways[Before(ns, i)].ring, node.short - 1) = node.dist

Starts(e, ns, ways, known) ==
    /\ e.pos \in 0 .. known
    /\ e.pos = 0 \/ Reached(ns, e.pos)
    /\ e.cache = ways[e.pos].ring

GraphInv ==
    phase = "nodes" =>
        /\ at \in 0 .. NumBytes
        /\ nodes \in [0 .. NumBytes -> Node]
        /\ ShortcutsBack(nodes, NumBytes)
        /\ \A i \in 1 .. at : nodes[i].shortcut = Shortcut(nodes, i, position)
        /\ \A i \in 1 .. NumBytes : Reached(nodes, i) => Meant(nodes, Way, at, i)
        /\ \A e \in queue : Starts(e, nodes, Way, at)

CommandsInv == StreamInv /\ IdleInv /\ GreedyInv /\ TailInv /\ PassInv /\ GraphInv

-----------------------------------------------------------------------------
(* What the parts of the invariant say.                                       *)
LEMMA Places ==
    ASSUME StreamInv
    PROVE  /\ Earlier \in Nat /\ Base \in Nat /\ Earlier <= Base
           /\ UseDictionary => Earlier = 0
<1>1. Earlier \in Nat /\ flushed \in Nat
  BY SizesAssumption DEF StreamInv, Earlier
<1>2. UseDictionary => Earlier = 0
  BY DEF UseDictionary, Earlier
<1> HIDE DEF Earlier
<1> QED
  BY <1>1, <1>2 DEF Base

Steady == UNCHANGED << fixed, stream, allocated, posEnd, written >>

(* The places of the stream do not move while a block is matched.           *)
LEMMA SteadyPlaces ==
    ASSUME Steady
    PROVE  Base' = Base /\ Earlier' = Earlier /\ UseDictionary' = UseDictionary
  BY DEF Steady, fixed, stream, written, Base, Earlier, UseDictionary

(* A step of a matcher keeps what holds of the stream.                      *)
LEMMA SteadyStream ==
    ASSUME StreamInv, Steady, position' \in Nat, Len(commands') <= allocated,
           phase' \in {"greedy", "nodes", "again", "tail"}
    PROVE  StreamInv'
  BY DEF Steady, StreamInv, fixed, stream, written

(* A matcher that adds a copy.                                                *)
LEMMA GreedyMatchKeeps ==
    ASSUME CommandsInv, GreedyMatch
    PROVE  CommandsInv'
<1>01. PICK delay \in Delays : \E distance \in Distances(position + delay) :
          \E len \in MinMatch .. posEnd - position : MatchFound(delay, distance, len)
  BY Zenon DEF GreedyMatch
<1>02. PICK distance \in Distances(position + delay) :
          \E len \in MinMatch .. posEnd - position : MatchFound(delay, distance, len)
  BY <1>01
<1>1. PICK len \in MinMatch .. posEnd - position : MatchFound(delay, distance, len)
  BY <1>02
<1> DEFINE p == position + delay
           window == Window(p)
           code == ComputeDistanceCode(distance, window, ring)
<1>2. /\ StreamInv /\ phase = "greedy" /\ phase' = "greedy" /\ Steady
      /\ InBlock /\ Pending(commands, ring, insertLength, meant, position)
      /\ Room(commands, position) /\ position < posEnd
  <2>1. phase = "greedy" /\ phase' = phase /\ position + HashLength < posEnd
    BY <1>1 DEF MatchFound, Searching
  <2>2. Steady
    BY <1>1 DEF MatchFound, Steady, fixed, stream, written
  <2>3. HashLength \in Nat /\ position \in Nat /\ posEnd \in Nat
    BY SizesAssumption DEF CommandsInv, StreamInv
  <2> QED
    BY <2>1, <2>2, <2>3 DEF CommandsInv, GreedyInv
<1>3. /\ position \in Nat /\ posEnd \in Nat /\ delay \in Nat /\ p \in Nat /\ len \in Nat /\ len >= 2
      /\ p + len <= posEnd
  BY <1>1, <1>2, MatchAssumption DEF StreamInv, Delays, MatchFound
<1>4. window \in Nat /\ distance \in Nat \ {0}
  <2>1. window \in Nat
    BY <1>3, WindowIs
  <2> QED
    BY <2>1, SizesAssumption DEF Distances
<1>5. /\ Earlier \in Nat /\ Base \in Nat
      /\ distance > window => Earlier = 0
  BY <1>1, <1>2, Places DEF MatchFound
<1>6. ring \in Rings /\ insertLength \in Nat /\ commands \in Seq(Command)
  BY <1>2 DEF Pending, Reads
<1>7. /\ code \in Nat /\ Resolve(ring, code) = distance
      /\ code < ShortCodes => distance <= window
  <2>1. window \in Int
    BY <1>4
  <2> HIDE DEF window
  <2>2. /\ ComputeDistanceCode(distance, window, ring) \in Nat
        /\ Resolve(ring, ComputeDistanceCode(distance, window, ring)) = distance
        /\ ComputeDistanceCode(distance, window, ring) < ShortCodes => distance <= window
    BY <1>4, <1>6, <2>1, CodeIsResolved
  <2> QED
    BY <2>2
<1> HIDE DEF code
<1>8. /\ ring' = RingAfter(ring, distance, code, p)
      /\ commands' = Append(commands, NewCommand(insertLength + delay, len, code))
      /\ insertLength' = 0 /\ position' = p + len
      /\ meant' = meant \o Literals(delay) \o Bytes(distance, len, Window(p))
  BY <1>1 DEF MatchFound, RingAfter, code
<1>9. /\ Reads(Base, saved, commands', ring', 0, meant', position' + Earlier)
      /\ LastIsFirst(Base, saved, commands', ring')
  <2>1. CopyIsReadAs(Base, saved, commands, ring, insertLength, meant, position + Earlier,
                     Earlier, delay, len, code, distance, p)
    BY CopyIsRead
  <2>2. Reads(Base, saved, commands, ring, insertLength, meant, position + Earlier)
    BY <1>2 DEF Pending
  <2>3. position + Earlier + delay = p + Earlier
        /\ position + Earlier + delay + len = position' + Earlier
    BY <1>3, <1>5, <1>8
  <2>4. len \in Nat \ {0}
    BY <1>3
  <2> HIDE DEF p
  <2> QED
    BY <1>3, <1>4, <1>5, <1>7, <1>8, <2>1, <2>2, <2>3, <2>4 DEF CopyIsReadAs
<1>10. /\ Len(commands') = Len(commands) + 1 /\ Len(commands) \in Nat
  <2>1. NewCommand(insertLength + delay, len, code) \in Command
    BY <1>3, <1>6, <1>7 DEF NewCommand, Command
  <2> QED
    BY <1>6, <1>8, <2>1, AppendProperties, LenProperties
<1>11. allocated \in Nat /\ allocated' = allocated /\ posEnd' = posEnd /\ position' \in Nat
       /\ position' <= posEnd /\ position' >= position + 2
  BY <1>2, <1>3, <1>8, SMTT(60) DEF StreamInv, Steady
<1>12. Len(commands') <= allocated /\ Room(commands, position)'
  <2>1. \A n, a, e, x, y \in Nat :
           /\ 2 * n + (e - x) + 1 <= 2 * a /\ y >= x + 2 /\ y <= e
           => n + 1 <= a /\ 2 * (n + 1) + (e - y) + 1 <= 2 * a
    OBVIOUS
  <2>2. 2 * Len(commands) + (posEnd - position) + 1 <= 2 * allocated
    BY <1>2 DEF Room
  <2>3. Len(commands) + 1 <= allocated
        /\ 2 * (Len(commands) + 1) + (posEnd - position') + 1 <= 2 * allocated
    BY <1>3, <1>10, <1>11, <2>1, <2>2
  <2> QED
    BY <1>10, <1>11, <2>3 DEF Room
<1>13. Base' = Base /\ Earlier' = Earlier /\ saved' = saved
  BY <1>2, SteadyPlaces DEF Steady, written
<1>14. ~ (catable /\ firstBytes < 2)
  BY <1>2, <1>3 DEF InBlock
<1>15. GreedyInv'
  <2>1. ~ (catable /\ firstBytes < 2)' /\ (posEnd = input)' /\ (position <= posEnd)'
    BY <1>2, <1>11, <1>14 DEF Steady, fixed, stream, InBlock
  <2>2. Pending(commands, ring, insertLength, meant, position)'
    BY <1>8, <1>9, <1>13, <2>1 DEF Pending
  <2> QED
    BY <1>12, <2>1, <2>2 DEF GreedyInv, InBlock
<1>16. StreamInv'
  BY <1>2, <1>11, <1>12, SteadyStream
<1> QED
  BY <1>2, <1>15, <1>16 DEF CommandsInv, IdleInv, TailInv, PassInv, GraphInv

\* A matcher that finds nothing, and the end of its block.
LEMMA GreedyMissKeeps ==
    ASSUME CommandsInv, GreedyMiss
    PROVE  CommandsInv'
<1>1. /\ StreamInv /\ phase = "greedy" /\ phase' = "greedy" /\ Steady
      /\ InBlock /\ Pending(commands, ring, insertLength, meant, position)
      /\ Room(commands, position) /\ position < posEnd
      /\ ring' = ring /\ commands' = commands
  <2>1. phase = "greedy" /\ phase' = phase /\ position + HashLength < posEnd
    BY DEF GreedyMiss, Searching
  <2>2. Steady /\ ring' = ring /\ commands' = commands
    BY DEF GreedyMiss, Steady, fixed, stream, written
  <2>3. HashLength \in Nat /\ position \in Nat /\ posEnd \in Nat
    BY SizesAssumption DEF CommandsInv, StreamInv
  <2> QED
    BY <2>1, <2>2, <2>3 DEF CommandsInv, GreedyInv
<1>2. position \in Nat /\ posEnd \in Nat /\ posEnd' = posEnd
  BY <1>1 DEF StreamInv, Steady
<1>3. PICK to : /\ to \in position + 1 .. posEnd /\ position' = to
                /\ insertLength' = insertLength + to - position
                /\ meant' = meant \o Literals(to - position)
  <2>1. PICK leap \in {0, Sparse, Sparser} :
          LET p == position + 1
              to == IF leap = 0 THEN p
                    ELSE IF p + Sparser >= posEnd - Margin THEN posEnd ELSE p + leap
          IN /\ position' = to
             /\ insertLength' = insertLength + to - position
             /\ meant' = meant \o Literals(to - position)
    BY DEF GreedyMiss
  <2> DEFINE p == position + 1
             to == IF leap = 0 THEN p
                   ELSE IF p + Sparser >= posEnd - Margin THEN posEnd ELSE p + leap
  <2>2. to \in position + 1 .. posEnd
    BY <1>1, <1>2, SizesAssumption
  <2>3. /\ position' = to
        /\ insertLength' = insertLength + to - position
        /\ meant' = meant \o Literals(to - position)
    BY <2>1
  <2> HIDE DEF to
  <2> QED
    BY <2>2, <2>3
<1> DEFINE n == to - position
<1>4. Earlier \in Nat /\ insertLength \in Nat /\ n \in Nat
  <2>1. Earlier \in Nat /\ insertLength \in Nat
    BY <1>1, Places DEF Pending, Reads
  <2> QED
    BY <1>2, <1>3, <2>1
<1>5. /\ insertLength' = insertLength + n /\ position' = position + n
      /\ position' + Earlier = position + Earlier + n /\ position' \in Nat
      /\ position' <= posEnd /\ position <= position'
  BY <1>2, <1>3, <1>4
<1>6. Reads(Base, saved, commands', ring', insertLength', meant', position' + Earlier)
  <2>1. LiteralsReadAs(Base, saved, commands, ring, insertLength, meant, position + Earlier, n)
    BY LiteralsAreRead
  <2>2. Reads(Base, saved, commands, ring, insertLength, meant, position + Earlier)
    BY <1>1 DEF Pending
  <2>3. meant' = meant \o Literals(n)
    BY <1>3
  <2> HIDE DEF n
  <2> QED
    BY <1>1, <1>4, <1>5, <2>1, <2>2, <2>3 DEF LiteralsReadAs
<1>7. Base' = Base /\ Earlier' = Earlier /\ saved' = saved
  BY <1>1, SteadyPlaces DEF Steady, written
<1>8. ~ (catable /\ firstBytes < 2)
  BY <1>1, <1>2 DEF InBlock
<1>9. /\ ~ (catable /\ firstBytes < 2)' /\ (posEnd = input)' /\ (position <= posEnd)'
  BY <1>1, <1>2, <1>5, <1>8 DEF Steady, fixed, stream, InBlock
<1>10. LastIsFirst(Base, saved, commands', ring')
  BY <1>1 DEF Pending
<1>11. Room(commands, position)'
  <2>1. \A k, a, e, x, y \in Nat :
          2 * k + (e - x) + 1 <= 2 * a /\ x <= y => 2 * k + (e - y) + 1 <= 2 * a
    OBVIOUS
  <2>2. 2 * Len(commands) + (posEnd - position) + 1 <= 2 * allocated
    BY <1>1 DEF Room
  <2>3. Len(commands) \in Nat /\ allocated \in Nat /\ allocated' = allocated
    BY <1>1, LenProperties DEF StreamInv, Pending, Reads, Steady
  <2>4. 2 * Len(commands) + (posEnd - position') + 1 <= 2 * allocated
    BY <1>2, <1>5, <2>1, <2>2, <2>3
  <2> QED
    BY <1>1, <1>2, <2>3, <2>4 DEF Room
<1>12. GreedyInv'
  BY <1>6, <1>7, <1>9, <1>10, <1>11 DEF GreedyInv, InBlock, Pending
<1>13. StreamInv'
  <2>1. Len(commands') <= allocated
    BY <1>1 DEF StreamInv
  <2> QED
    BY <1>1, <1>5, <2>1, SteadyStream
<1> QED
  BY <1>1, <1>12, <1>13 DEF CommandsInv, IdleInv, TailInv, PassInv, GraphInv

(* The end of a greedy pass leaves the rest of the block as literals.       *)
LEMMA GreedyEndKeeps ==
    ASSUME CommandsInv, GreedyEnd
    PROVE  CommandsInv'
<1>1. /\ StreamInv /\ phase = "greedy" /\ phase' = "tail" /\ Steady
      /\ InBlock /\ Pending(commands, ring, insertLength, meant, position)
      /\ Room(commands, position)
      /\ ring' = ring /\ commands' = commands
      /\ lastInsert' = insertLength + posEnd - position
      /\ meant' = meant \o Literals(posEnd - position)
      /\ position' = posEnd
  <2>1. Steady
    BY DEF GreedyEnd, Steady, fixed, stream, written
  <2> QED
    BY <2>1 DEF GreedyEnd, CommandsInv, GreedyInv
<1>2. position \in Nat /\ posEnd \in Nat /\ posEnd' = posEnd /\ position <= posEnd
  BY <1>1 DEF StreamInv, Steady, InBlock
<1> DEFINE n == posEnd - position
<1>3. Earlier \in Nat /\ insertLength \in Nat /\ n \in Nat
  <2>1. Earlier \in Nat /\ insertLength \in Nat
    BY <1>1, Places DEF Pending, Reads
  <2> QED
    BY <1>2, <2>1
<1>4. lastInsert' = insertLength + n /\ posEnd' + Earlier = position + Earlier + n
  BY <1>1, <1>2, <1>3
<1>5. Reads(Base, saved, commands', ring', lastInsert', meant', posEnd' + Earlier)
  <2>1. LiteralsReadAs(Base, saved, commands, ring, insertLength, meant, position + Earlier, n)
    BY LiteralsAreRead
  <2>2. Reads(Base, saved, commands, ring, insertLength, meant, position + Earlier)
    BY <1>1 DEF Pending
  <2>3. meant' = meant \o Literals(n)
    BY <1>1
  <2> HIDE DEF n
  <2> QED
    BY <1>1, <1>3, <1>4, <2>1, <2>2, <2>3 DEF LiteralsReadAs
<1>6. Base' = Base /\ Earlier' = Earlier /\ saved' = saved
  BY <1>1, SteadyPlaces DEF Steady, written
<1>7. (catable /\ firstBytes < 2)' => commands' = << >> /\ lastInsert' = 0
  <2>1. (catable /\ firstBytes < 2)' => catable /\ firstBytes < 2
    BY <1>1 DEF Steady, fixed, stream
  <2>2. catable /\ firstBytes < 2 => commands = << >> /\ insertLength = 0 /\ n = 0
    BY <1>1, <1>2 DEF Pending, InBlock
  <2> QED
    BY <1>1, <1>4, <2>1, <2>2
<1>8. (posEnd = input)' /\ LastIsFirst(Base, saved, commands', ring')
  BY <1>1 DEF Steady, stream, InBlock, Pending
<1>9. Room(commands, posEnd)'
  <2>1. \A k, a, e, x \in Nat :
          2 * k + (e - x) + 1 <= 2 * a /\ x <= e => 2 * k + (e - e) + 1 <= 2 * a
    OBVIOUS
  <2>2. 2 * Len(commands) + (posEnd - position) + 1 <= 2 * allocated
    BY <1>1 DEF Room
  <2>3. Len(commands) \in Nat /\ allocated \in Nat /\ allocated' = allocated
    BY <1>1, LenProperties DEF StreamInv, Pending, Reads, Steady
  <2>4. 2 * Len(commands) + (posEnd - posEnd) + 1 <= 2 * allocated
    BY <1>2, <2>1, <2>2, <2>3
  <2> QED
    BY <1>1, <1>2, <2>3, <2>4 DEF Room
<1>10. TailInv'
  BY <1>5, <1>6, <1>7, <1>8, <1>9 DEF TailInv, Pending
<1>11. StreamInv'
  <2>1. Len(commands') <= allocated /\ position' \in Nat
    BY <1>1, <1>2 DEF StreamInv
  <2> QED
    BY <1>1, <2>1, SteadyStream
<1> QED
  BY <1>1, <1>10, <1>11 DEF CommandsInv, IdleInv, GreedyInv, PassInv, GraphInv

-----------------------------------------------------------------------------
(* The steps of the search leave the rest alone.                              *)
LEMMA PassStays ==
    ASSUME StreamInv, PassInv, Steady, UNCHANGED << orig, position, commands >>,
           phase \in {"nodes", "again"}, phase' = "nodes"
    PROVE  /\ StreamInv' /\ PassInv'
           /\ NumBytes \in Nat /\ NumBytes' = NumBytes /\ Way' = Ways(nodes', NumBytes, position, orig.lastInsert, orig.ring)
           /\ position \in Nat /\ orig.ring \in Rings
<1>1. Base' = Base /\ Earlier' = Earlier /\ UseDictionary' = UseDictionary
  BY SteadyPlaces
<1>2. PassInv'
  <2>1. /\ catable' = catable /\ firstBytes' = firstBytes /\ input' = input
        /\ allocated' = allocated /\ posEnd' = posEnd /\ saved' = saved
    BY DEF Steady, fixed, stream, written
  <2> QED
    BY <1>1, <2>1 DEF PassInv, InBlock, Pending, Room
<1>3. StreamInv'
  BY SteadyStream DEF StreamInv
<1>4. posEnd' = posEnd /\ NumBytes \in Nat
  BY DEF Steady, PassInv, InBlock, StreamInv, NumBytes
<1>5. orig.ring \in Rings /\ position \in Nat
  BY DEF PassInv, Passes, StreamInv
<1> QED
  BY <1>2, <1>3, <1>4, <1>5 DEF NumBytes, Way

(* A graph with no command in it has the form that is needed.               *)
LEMMA FreshGraph ==
    ASSUME NEW n \in Nat
    PROVE  /\ InitNodes(n) \in [0 .. n -> Node]
           /\ ShortcutsBack(InitNodes(n), n)
           /\ \A i \in 1 .. n : ~ Reached(InitNodes(n), i)
<1> DEFINE ns == InitNodes(n)
<1>1. ns \in [0 .. n -> Node]
  BY DEF InitNodes, Stub, Node, ShortCodes
<1>2. \A i \in 1 .. n : i \in 0 .. n /\ i # 0
  OBVIOUS
<1>3. \A i \in 1 .. n : ns[i] = Stub
  BY <1>2 DEF InitNodes
<1>4. ASSUME NEW i \in 1 .. n
      PROVE  Before(ns, i) \in 0 .. (i - 1) /\ ~ Reached(ns, i)
  BY <1>3 DEF Before, Reached, Stub
<1>5. ASSUME NEW i \in 0 .. n
      PROVE  ns[i].shortcut \in 0 .. i
  BY DEF InitNodes, Stub
<1> QED
  BY <1>1, <1>4, <1>5 DEF ShortcutsBack, Backwards

(* The graph that a pass starts from: no node of it is reached.               *)
LEMMA FreshGraphInv ==
    ASSUME NumBytes' \in Nat, nodes' = InitNodes(NumBytes'), at' = 0,
           queue' = {[pos |-> 0, cache |-> orig'.ring]}
    PROVE  GraphInv'
<1> DEFINE n == NumBytes'  ns == nodes'  w == Way'
<1>1. /\ ns \in [0 .. n -> Node]
      /\ ShortcutsBack(ns, n)
      /\ \A i \in 1 .. n : ~ Reached(ns, i)
  BY FreshGraph
<1>2. WaysAre(ns, n, position', orig'.lastInsert, orig'.ring)
  BY WaysDefined
<1>3. w[0] = Start(orig'.ring)
  BY <1>1, <1>2, Zenon DEF WaysAre, Way, ShortcutsBack
<1>4. \A e \in queue' : Starts(e, ns, w, at')
  BY <1>3 DEF Starts, Start
<1>5. at' \in 0 .. n /\ 1 .. at' = {}
  OBVIOUS
<1> HIDE DEF n, ns, w
<1>6. /\ \A i \in 1 .. at' : ns[i].shortcut = Shortcut(ns, i, position')
      /\ \A i \in 1 .. n : Reached(ns, i) => Meant(nodes, Way, at, i)'
  BY <1>1, <1>5
<1> QED
  BY <1>1, <1>4, <1>5, <1>6 DEF GraphInv, n, ns, w

\* A command that is better than the one the node had.
LEMMA UpdateKeeps ==
    ASSUME CommandsInv, InSearch,
           NEW start \in queue, NEW distance \in Nat \ {0}, NEW len \in MinMatch .. NumBytes - at,
           NEW short \in 0 .. ShortCodes, Update(start, distance, len, short),
           short = 0 /\ distance > Window(position + at) => UseDictionary,
           short > 0 => /\ distance <= Window(position + at)
                        /\ Resolve(start.cache, short - 1) = distance
    PROVE  CommandsInv'
<1> DEFINE j == at + len  n == NumBytes  b == start.pos
           node == [nodes[j] EXCEPT !.len = len, !.dist = distance,
                                    !.insert = at - b, !.short = short]
<1>1. /\ StreamInv /\ PassInv /\ GraphInv /\ phase = "nodes" /\ phase' = "nodes" /\ Steady
      /\ nodes' = [nodes EXCEPT ![j] = node]
      /\ queue' = queue /\ at' = at /\ UNCHANGED << orig, position, commands >>
  <2>1. Steady
    BY DEF Update, Steady, fixed, stream, written, block
  <2>2. UNCHANGED << orig, position, commands >> /\ queue' = queue /\ at' = at
    BY DEF Update, pending, block
  <2>3. phase = "nodes" /\ phase' = "nodes" /\ nodes' = [nodes EXCEPT ![j] = node]
    BY DEF Update, InSearch
  <2> QED
    BY <2>1, <2>2, <2>3 DEF CommandsInv
<1>2. /\ StreamInv' /\ PassInv'
      /\ n \in Nat /\ NumBytes' = n
      /\ Way' = Ways(nodes', n, position, orig.lastInsert, orig.ring)
      /\ position \in Nat
  BY <1>1, PassStays
<1> DEFINE w == Way
<1>3. /\ at \in 0 .. n /\ nodes \in [0 .. n -> Node] /\ ShortcutsBack(nodes, n)
      /\ \A i \in 1 .. at : nodes[i].shortcut = Shortcut(nodes, i, position)
      /\ \A i \in 1 .. n : Reached(nodes, i) => Meant(nodes, w, at, i)
      /\ \A e \in queue : Starts(e, nodes, w, at)
  BY <1>1 DEF GraphInv
<1> HIDE DEF n, w
<1>4. len \in Nat /\ len >= 2 /\ len >= MinMatch /\ j \in 1 .. n /\ j > at /\ at \in Nat
  BY <1>2, <1>3, MatchAssumption DEF n
<1>5. b \in 0 .. at /\ (b = 0 \/ Reached(nodes, b)) /\ start.cache = w[b].ring
  BY <1>3 DEF Starts
<1>6. /\ node \in Node /\ node.len = len /\ node.dist = distance /\ node.insert = at - b
      /\ node.short = short /\ node.shortcut = nodes[j].shortcut
  <2>1. nodes[j] \in Node
    BY <1>3, <1>4
  <2>2. at - b \in Nat
    BY <1>4, <1>5
  <2> HIDE DEF j, b
  <2> QED
    BY <1>4, <2>1, <2>2 DEF Node
<1> HIDE DEF j, node
<1>7. nodes' \in [0 .. n -> Node] /\ nodes'[j] = node
      /\ \A i \in 0 .. n : i # j => nodes'[i] = nodes[i]
  <2>1. j \in 0 .. n
    BY <1>4
  <2> QED
    BY <1>1, <1>3, <1>6, <2>1
<1>8. /\ Before(nodes', j) = b
      /\ \A i \in 1 .. n : i # j => Before(nodes', i) = Before(nodes, i)
  <2>1. Before(nodes', j) = j - len - (at - b)
    BY <1>6, <1>7 DEF Before
  <2>3. ASSUME NEW i \in 1 .. n, i # j
        PROVE  Before(nodes', i) = Before(nodes, i)
    <3>1. nodes'[i] = nodes[i]
      BY <1>7, <2>3
    <3> QED
      BY <3>1 DEF Before
  <2> HIDE DEF b
  <2>4. j - len - (at - b) = b
    <3>1. b \in Nat /\ at \in Nat /\ len \in Nat
      BY <1>4, <1>5
    <3> QED
      BY <3>1 DEF j
  <2>5. Before(nodes', j) = b
    BY <2>1, <2>4
  <2> QED
    BY <2>3, <2>5
<1>9. ShortcutsBack(nodes', n)
  <2>1. ASSUME NEW i \in 1 .. n
        PROVE  Before(nodes', i) \in 0 .. (i - 1)
    <3>1. CASE i = j
      BY <1>4, <1>5, <1>8, <3>1
    <3>2. CASE i # j
      BY <1>3, <1>8, <3>2 DEF ShortcutsBack, Backwards
    <3> QED
      BY <3>1, <3>2
  <2>2. ASSUME NEW i \in 0 .. n
        PROVE  nodes'[i].shortcut \in 0 .. i
    <3>1. nodes'[i].shortcut = nodes[i].shortcut
      BY <1>6, <1>7
    <3> QED
      BY <1>3, <3>1 DEF ShortcutsBack
  <2> QED
    BY <2>1, <2>2 DEF ShortcutsBack, Backwards
<1>10. \A i \in 0 .. at : Way'[i] = w[i]
  <2>1. WaysAgreeAs(nodes', nodes, n, at, position, orig.lastInsert, orig.ring)
    BY WaysAgree
  <2>2. ASSUME NEW i \in 1 .. at
        PROVE  SameCommand(nodes'[i], nodes[i])
    <3>1. i # j /\ i \in 0 .. n
      BY <1>2, <1>3, <1>4
    <3>2. nodes'[i] = nodes[i]
      BY <1>7, <3>1
    <3> QED
      BY <3>2 DEF SameCommand
  <2>3. Backwards(nodes', n) /\ Backwards(nodes, n)
    BY <1>3, <1>9 DEF ShortcutsBack
  <2>4. \A i \in 0 .. at : Ways(nodes', n, position, orig.lastInsert, orig.ring)[i]
                             = Ways(nodes, n, position, orig.lastInsert, orig.ring)[i]
    BY <1>2, <1>3, <2>1, <2>2, <2>3, Zenon DEF WaysAgreeAs
  <2> QED
    BY <1>2, <2>4 DEF w, n, Way
<1>11. \A i \in 0 .. at : Reached(nodes', i) <=> Reached(nodes, i)
  <2>1. ASSUME NEW i \in 0 .. at
        PROVE  nodes'[i] = nodes[i]
    <3>1. i # j /\ i \in 0 .. n
      BY <1>2, <1>3, <1>4
    <3> QED
      BY <1>7, <3>1
  <2> QED
    BY <2>1 DEF Reached
<1>12. ASSUME NEW i \in 1 .. at
       PROVE  nodes'[i].shortcut = Shortcut(nodes', i, position)
  <2>1. i # j /\ i \in 1 .. n /\ i \in 0 .. n /\ i # 0
    BY <1>2, <1>3, <1>4
  <2>2. nodes'[i] = nodes[i] /\ Before(nodes', i) = Before(nodes, i)
    BY <1>7, <1>8, <2>1
  <2>3. Before(nodes, i) \in 0 .. (i - 1)
    BY <1>3, <2>1 DEF ShortcutsBack, Backwards
  <2>4. Before(nodes, i) \in 0 .. n /\ Before(nodes, i) # j
    <3>1. n \in Nat /\ at \in Nat /\ j \in Nat /\ j > at /\ at <= n
      BY <1>2, <1>3, <1>4
    <3> QED
      BY <2>3, <3>1
  <2>5. nodes'[Before(nodes, i)] = nodes[Before(nodes, i)]
    BY <1>7, <2>4
  <2>6. Shortcut(nodes', i, position) = Shortcut(nodes, i, position)
    BY <2>1, <2>2, <2>5 DEF Shortcut
  <2> QED
    BY <1>3, <2>2, <2>6
<1>13. ASSUME NEW i \in 1 .. n, Reached(nodes', i)
       PROVE  Meant(nodes', Way', at, i)
  <2>1. CASE i = j
    <3> DEFINE here == position + i - node.len
    <3>1. here = position + at
      BY <1>2, <1>4, <1>6, <2>1 DEF j
    <3>2. nodes'[i] = node /\ Before(nodes', i) = b
      BY <1>7, <1>8, <2>1
    <3>3. Way'[b].ring = start.cache
      BY <1>5, <1>10
    <3>4. b = 0 \/ Reached(nodes', b)
      BY <1>5, <1>11
    <3> HIDE DEF here
    <3>5. /\ node.short = 0 /\ node.dist > Window(here) => UseDictionary
          /\ node.short > 0 => /\ node.dist <= Window(here)
                               /\ Resolve(Way'[b].ring, node.short - 1) = node.dist
      BY <1>6, <3>1, <3>3
    <3>6. node.len >= MinMatch /\ node.dist > 0 /\ b <= at
      BY <1>4, <1>5, <1>6
    <3> QED
      BY <3>2, <3>4, <3>5, <3>6 DEF Meant, here
  <2>2. CASE i # j
    <3>1. nodes'[i] = nodes[i] /\ Before(nodes', i) = Before(nodes, i)
      BY <1>7, <1>8, <2>2
    <3>2. Meant(nodes, w, at, i)
      BY <1>3, <1>13, <3>1 DEF Reached
    <3>3. Before(nodes, i) \in 0 .. at
      <4>1. Before(nodes, i) <= at
        BY <3>2 DEF Meant
      <4>2. Before(nodes, i) \in 0 .. (i - 1)
        BY <1>3 DEF ShortcutsBack, Backwards
      <4> QED
        BY <1>4, <4>1, <4>2
    <3>4. Way'[Before(nodes, i)] = w[Before(nodes, i)]
          /\ (Reached(nodes', Before(nodes, i)) <=> Reached(nodes, Before(nodes, i)))
      BY <1>10, <1>11, <3>3
    <3> QED
      BY <3>1, <3>2, <3>4 DEF Meant
  <2> QED
    BY <2>1, <2>2
<1>14. ASSUME NEW e \in queue
       PROVE  Starts(e, nodes', Way', at)
  <2>1. Starts(e, nodes, w, at)
    BY <1>3
  <2>2. e.pos \in 0 .. at
    BY <2>1 DEF Starts
  <2> QED
    BY <1>10, <1>11, <2>1, <2>2 DEF Starts
<1>15. GraphInv'
  <2>1. UseDictionary' = UseDictionary /\ position' = position
    BY <1>1, SteadyPlaces
  <2>2. ASSUME NEW i \in 1 .. n, Reached(nodes', i)
        PROVE  Meant(nodes, Way, at, i)'
    BY <1>1, <1>13, <2>1, <2>2 DEF Meant
  <2>3. ASSUME NEW e \in queue
        PROVE  Starts(e, nodes, Way, at)'
    BY <1>1, <1>14 DEF Starts
  <2> QED
    BY <1>1, <1>2, <1>3, <1>7, <1>9, <1>12, <2>1, <2>2, <2>3 DEF GraphInv
<1> QED
  BY <1>1, <1>2, <1>15 DEF CommandsInv, IdleInv, GreedyInv, TailInv

(* A command with a distance of the ring keeps the invariant.               *)
LEMMA UpdateByRingKeeps ==
    ASSUME CommandsInv, UpdateByRing
    PROVE  CommandsInv'
<1>1. PICK start \in queue, code \in 0 .. ShortCodes - 1 :
         /\ Resolve(start.cache, code) \in 1 .. Window(position + at)
         /\ \E len \in MinMatch .. NumBytes - at :
              Update(start, Resolve(start.cache, code), len, code + 1)
  BY DEF UpdateByRing
<1> DEFINE distance == Resolve(start.cache, code)
<1>2. PICK len \in MinMatch .. NumBytes - at : Update(start, distance, len, code + 1)
  BY <1>1
<1>3. distance \in 1 .. Window(position + at)
  BY <1>1
<1>4. Window(position + at) \in Nat
  <2>1. position \in Nat /\ at \in Nat
    BY DEF CommandsInv, StreamInv, GraphInv, UpdateByRing, InSearch
  <2> QED
    BY <2>1, WindowIs
<1>5. distance \in Nat \ {0} /\ distance <= Window(position + at)
  <2> HIDE DEF distance
  <2> QED
    BY <1>3, <1>4
<1>6. code + 1 \in 0 .. ShortCodes /\ code + 1 # 0 /\ code + 1 - 1 = code
  BY DEF ShortCodes
<1>7. InSearch
  BY DEF UpdateByRing
<1> DEFINE short == code + 1
<1>8. Resolve(start.cache, short - 1) = distance
  BY <1>6
<1>9. short \in 0 .. ShortCodes /\ short # 0 /\ Update(start, distance, len, short)
  BY <1>2, <1>6
<1> HIDE DEF distance, short
<1> QED
  BY <1>5, <1>7, <1>8, <1>9, UpdateKeeps

(* A command with a distance of the matcher keeps the invariant.            *)
LEMMA UpdateByMatchKeeps ==
    ASSUME CommandsInv, UpdateByMatch
    PROVE  CommandsInv'
<1>1. PICK start \in queue, distance \in Distances(position + at) :
         /\ distance > Window(position + at) => UseDictionary
         /\ \E len \in MinMatch .. NumBytes - at : Update(start, distance, len, 0)
  BY DEF UpdateByMatch
<1>2. PICK len \in MinMatch .. NumBytes - at : Update(start, distance, len, 0)
  BY <1>1
<1>3. distance \in Nat \ {0}
  <2>1. position \in Nat /\ at \in Nat
    BY DEF CommandsInv, StreamInv, GraphInv, UpdateByMatch, InSearch
  <2>2. Window(position + at) \in Nat
    BY <2>1, WindowIs
  <2> QED
    BY <2>2, SizesAssumption DEF Distances
<1>4. InSearch /\ 0 \in 0 .. ShortCodes
  BY DEF UpdateByMatch, ShortCodes
<1>5. ~ (0 > 0)
  OBVIOUS
<1> QED
  BY <1>1, <1>2, <1>3, <1>4, <1>5, UpdateKeeps

\* The next position: the ring after its way is read off the shortcuts.
LEMMA EvaluateNextKeeps ==
    ASSUME CommandsInv, EvaluateNext
    PROVE  CommandsInv'
<1> DEFINE k == at + 1  n == NumBytes  s == Shortcut(nodes, k, position)
           node == [nodes[k] EXCEPT !.shortcut = s]
<1>1. /\ StreamInv /\ PassInv /\ GraphInv /\ phase = "nodes" /\ phase' = "nodes" /\ Steady
      /\ nodes' = [nodes EXCEPT ![k] = node] /\ at' = k
      /\ queue' = (IF Reached(nodes, k)
                   THEN queue \cup {[pos |-> k, cache |-> NodeCache(nodes', k, orig.ring)]}
                   ELSE queue)
      /\ UNCHANGED << orig, position, commands >>
      /\ k + HashLength - 1 < n
  <2>1. Steady /\ UNCHANGED << orig, position, commands >>
    BY DEF EvaluateNext, Steady, fixed, stream, written, block, pending
  <2>2. phase = "nodes" /\ phase' = "nodes" /\ nodes' = [nodes EXCEPT ![k] = node] /\ at' = k
        /\ k + HashLength - 1 < n
    BY DEF EvaluateNext, InSearch
  <2>3. queue' = (IF Reached(nodes, k)
                  THEN queue \cup {[pos |-> k, cache |-> NodeCache(nodes', k, orig.ring)]}
                  ELSE queue)
    BY DEF EvaluateNext
  <2> QED
    BY <2>1, <2>2, <2>3 DEF CommandsInv
<1>2. /\ StreamInv' /\ PassInv'
      /\ n \in Nat /\ NumBytes' = n
      /\ Way' = Ways(nodes', n, position, orig.lastInsert, orig.ring)
      /\ position \in Nat /\ orig.ring \in Rings
  BY <1>1, PassStays
<1> DEFINE w == Way
<1>3. /\ at \in 0 .. n /\ nodes \in [0 .. n -> Node] /\ ShortcutsBack(nodes, n)
      /\ \A i \in 1 .. at : nodes[i].shortcut = Shortcut(nodes, i, position)
      /\ \A i \in 1 .. n : Reached(nodes, i) => Meant(nodes, w, at, i)
      /\ \A e \in queue : Starts(e, nodes, w, at)
  BY <1>1 DEF GraphInv
<1> HIDE DEF n, w
<1>4. k \in 1 .. n /\ k \in 0 .. n /\ k # 0 /\ at \in Nat /\ k > at
  BY <1>1, <1>2, <1>3, SizesAssumption
<1>5. s \in 0 .. k
  <2>1. Before(nodes, k) \in 0 .. (k - 1)
    BY <1>3, <1>4 DEF ShortcutsBack, Backwards
  <2>2. Before(nodes, k) \in 0 .. n
    BY <1>2, <1>4, <2>1
  <2>3. nodes[Before(nodes, k)].shortcut \in 0 .. Before(nodes, k)
    BY <1>3, <2>2 DEF ShortcutsBack
  <2>4. s = k \/ s = nodes[Before(nodes, k)].shortcut
    BY <1>4 DEF Shortcut
  <2> HIDE DEF s, k
  <2> QED
    BY <1>4, <2>1, <2>3, <2>4
<1> HIDE DEF s
<1>6. node \in Node /\ node.shortcut = s /\ SameCommand(node, nodes[k])
  <2>1. nodes[k] \in Node
    BY <1>3, <1>4
  <2>2. s \in Nat
    BY <1>4, <1>5
  <2> HIDE DEF k
  <2> QED
    BY <2>1, <2>2 DEF Node, SameCommand
<1> HIDE DEF k, node
<1>7. nodes' \in [0 .. n -> Node] /\ nodes'[k] = node
      /\ \A i \in 0 .. n : i # k => nodes'[i] = nodes[i]
  BY <1>1, <1>3, <1>4, <1>6
<1>8. \A i \in 0 .. n : SameCommand(nodes'[i], nodes[i])
  BY <1>6, <1>7 DEF SameCommand
<1>9. \A i \in 0 .. n : /\ Before(nodes', i) = Before(nodes, i)
                        /\ Reached(nodes', i) <=> Reached(nodes, i)
  BY <1>8 DEF SameCommand, Before, Reached
<1>10. ShortcutsBack(nodes', n)
  <2>1. ASSUME NEW i \in 1 .. n
        PROVE  Before(nodes', i) \in 0 .. (i - 1)
    <3>1. i \in 0 .. n
      BY <1>2
    <3> QED
      BY <1>3, <1>9, <3>1 DEF ShortcutsBack, Backwards
  <2>2. ASSUME NEW i \in 0 .. n
        PROVE  nodes'[i].shortcut \in 0 .. i
    <3>1. CASE i = k
      BY <1>5, <1>6, <1>7, <3>1
    <3>2. CASE i # k
      BY <1>3, <1>7, <3>2 DEF ShortcutsBack
    <3> QED
      BY <3>1, <3>2
  <2> QED
    BY <2>1, <2>2 DEF ShortcutsBack, Backwards
<1>11. \A i \in 0 .. n : Way'[i] = w[i]
  <2>1. WaysAgreeAs(nodes', nodes, n, n, position, orig.lastInsert, orig.ring)
    BY WaysAgree
  <2>2. n \in 0 .. n /\ \A i \in 1 .. n : SameCommand(nodes'[i], nodes[i])
    BY <1>2, <1>8
  <2>3. Backwards(nodes', n) /\ Backwards(nodes, n)
    BY <1>3, <1>10 DEF ShortcutsBack
  <2>4. \A i \in 0 .. n : Ways(nodes', n, position, orig.lastInsert, orig.ring)[i]
                            = Ways(nodes, n, position, orig.lastInsert, orig.ring)[i]
    BY <1>2, <2>1, <2>2, <2>3, Zenon DEF WaysAgreeAs
  <2> QED
    BY <1>2, <2>4 DEF w, n, Way
<1>12. ASSUME NEW i \in 1 .. k
       PROVE  nodes'[i].shortcut = Shortcut(nodes', i, position)
  <2>1. i \in 1 .. n /\ i \in 0 .. n /\ i # 0 /\ k \in Nat
    BY <1>2, <1>4
  <2>2. Before(nodes, i) \in 0 .. (i - 1)
    BY <1>3, <2>1 DEF ShortcutsBack, Backwards
  <2>3. Before(nodes, i) \in 0 .. n /\ Before(nodes, i) # k
    BY <1>2, <2>1, <2>2
  <2>4. nodes'[Before(nodes, i)] = nodes[Before(nodes, i)]
    BY <1>7, <2>3
  <2>5. Shortcut(nodes', i, position) = Shortcut(nodes, i, position)
    <3>1. SameCommand(nodes'[i], nodes[i]) /\ Before(nodes', i) = Before(nodes, i)
      BY <1>8, <1>9, <2>1
    <3> QED
      BY <2>1, <2>4, <3>1 DEF Shortcut, SameCommand, NodeCode
  <2>6. CASE i = k
    BY <1>6, <1>7, <2>5, <2>6 DEF s
  <2>7. CASE i # k
    <3>1. i \in 1 .. at /\ nodes'[i] = nodes[i]
      BY <1>4, <1>7, <2>1, <2>7 DEF k
    <3> QED
      BY <1>3, <2>5, <3>1
  <2> QED
    BY <2>6, <2>7
<1>13. ASSUME NEW i \in 1 .. n, Reached(nodes', i)
       PROVE  Meant(nodes', Way', k, i)
  <2>1. i \in 0 .. n
    OBVIOUS
  <2>2. Meant(nodes, w, at, i)
    BY <1>3, <1>9, <1>13, <2>1
  <2>3. Before(nodes, i) \in 0 .. n /\ Before(nodes, i) <= k
    <3>1. Before(nodes, i) \in 0 .. (i - 1) /\ Before(nodes, i) <= at
      BY <1>3, <2>2 DEF ShortcutsBack, Backwards, Meant
    <3> QED
      BY <1>2, <1>4, <3>1
  <2>4. Way'[Before(nodes, i)] = w[Before(nodes, i)]
        /\ (Reached(nodes', Before(nodes, i)) <=> Reached(nodes, Before(nodes, i)))
    BY <1>9, <1>11, <2>3
  <2>5. SameCommand(nodes'[i], nodes[i]) /\ Before(nodes', i) = Before(nodes, i)
    BY <1>8, <1>9, <2>1
  <2> QED
    BY <2>2, <2>3, <2>4, <2>5 DEF Meant, SameCommand
<1>14. ASSUME NEW e \in queue'
       PROVE  Starts(e, nodes', Way', k)
  <2>1. CASE e \in queue
    <3>1. Starts(e, nodes, w, at)
      BY <1>3, <2>1
    <3>2. e.pos \in 0 .. n /\ e.pos \in 0 .. k
      BY <1>2, <1>3, <1>4, <3>1 DEF Starts
    <3> QED
      BY <1>9, <1>11, <3>1, <3>2 DEF Starts
  <2>2. CASE e \notin queue
    <3>1. Reached(nodes, k) /\ e = [pos |-> k, cache |-> NodeCache(nodes', k, orig.ring)]
      BY <1>1, <2>2
    <3>2. CachesAs(nodes', n, k, position, orig.lastInsert, orig.ring)
      BY NodeCacheIs
    <3>3. \A i \in 0 .. k : NodeCache(nodes', i, orig.ring)
                              = Ways(nodes', n, position, orig.lastInsert, orig.ring)[i].ring
      BY <1>2, <1>4, <1>7, <1>10, <1>12, <3>2, Zenon DEF CachesAs
    <3>4. k \in 0 .. k
      BY <1>4
    <3>5. NodeCache(nodes', k, orig.ring) = Way'[k].ring
      BY <1>2, <3>3, <3>4
    <3>6. Reached(nodes', k)
      BY <1>4, <1>9, <3>1
    <3> QED
      BY <3>1, <3>4, <3>5, <3>6 DEF Starts
  <2> QED
    BY <2>1, <2>2
<1>15. GraphInv'
  <2>1. UseDictionary' = UseDictionary /\ position' = position /\ at' = k
    BY <1>1, SteadyPlaces DEF k
  <2>2. ASSUME NEW i \in 1 .. n, Reached(nodes', i)
        PROVE  Meant(nodes, Way, at, i)'
    BY <1>13, <2>1, <2>2 DEF Meant
  <2>3. ASSUME NEW e \in queue'
        PROVE  Starts(e, nodes', Way', at')
    BY <1>14, <2>1
  <2> QED
    BY <1>2, <1>4, <1>7, <1>10, <1>12, <2>1, <2>2, <2>3 DEF GraphInv
<1> QED
  BY <1>1, <1>2, <1>15 DEF CommandsInv, IdleInv, GreedyInv, TailInv

-----------------------------------------------------------------------------
(* The commands of the way to a node that was reached are read as they were   *)
(* meant, and lead a decoder to the ring and the position of that node.       *)
LeftOver(i) == IF i = 0 THEN orig.lastInsert ELSE 0

Leads(i) ==
    /\ Way[i].commands \in Seq(Command) /\ Way[i].meant \in Outs
    /\ 2 * Len(Way[i].commands) <= i
    /\ Way[i].commands = << >> <=> i = 0
    /\ Reads(Base, saved, orig.commands \o Way[i].commands, Way[i].ring, LeftOver(i),
             orig.meant \o Way[i].meant, position + i + Earlier)
    /\ LastIsFirst(Base, saved, orig.commands \o Way[i].commands, Way[i].ring)

(* The way to the start of a block is the commands before it.               *)
LEMMA PathStarts ==
    ASSUME StreamInv, PassInv, phase = "nodes", Way[0] = Start(orig.ring)
    PROVE  Leads(0)
<1>1. /\ Pending(orig.commands, orig.ring, orig.lastInsert, orig.meant, position)
      /\ orig.commands \in Seq(Command) /\ orig.meant \in Outs /\ position \in Nat
  BY DEF PassInv, Passes, StreamInv
<1>2. /\ Way[0].commands = << >> /\ Way[0].meant = << >> /\ Way[0].ring = orig.ring
  BY DEF Start
<1>3. orig.commands \o << >> = orig.commands /\ orig.meant \o << >> = orig.meant
  BY <1>1, ConcatEmptySeq DEF Outs
<1>4. << >> \in Seq(Command) /\ << >> \in Outs /\ Len(<< >>) = 0
  BY EmptySeq DEF Outs
<1>5. position + 0 = position
  BY <1>1
<1> QED
  BY <1>1, <1>2, <1>3, <1>4, <1>5 DEF Leads, LeftOver, Pending

(* If the way to the node before a command is read as meant, so is the way  *)
(* to its end.                                                              *)
LEMMA PathGoesOn ==
    ASSUME StreamInv, PassInv, GraphInv, phase = "nodes",
           NEW i \in 1 .. NumBytes, Reached(nodes, i), Leads(Before(nodes, i))
    PROVE  Leads(i)
<1> DEFINE b == Before(nodes, i)  node == nodes[i]  here == position + i - node.len
           was == Way[b]  is == Way[i]  n == NumBytes
           cmds == orig.commands \o was.commands  bytes == orig.meant \o was.meant
           insert == node.insert + (IF was.commands = << >> THEN orig.lastInsert ELSE 0)
           code == NodeCode(node)
           c == NewCommand(insert, node.len, code)
           copied == Bytes(node.dist, node.len, Window(here))
           lits == Literals(node.insert)
<1>1. /\ n \in Nat /\ position \in Nat /\ orig \in Passes
      /\ orig.commands \in Seq(Command) /\ orig.meant \in Outs /\ orig.lastInsert \in Nat
  BY DEF PassInv, InBlock, StreamInv, NumBytes, Passes
<1>2. /\ nodes \in [0 .. n -> Node] /\ ShortcutsBack(nodes, n) /\ Meant(nodes, Way, at, i)
  BY DEF GraphInv
<1>3. Earlier \in Nat /\ Base \in Nat /\ (UseDictionary => Earlier = 0)
  BY Places
<1> HIDE DEF n
<1>4. node \in Node /\ node.len \in Nat \ {0} /\ node.len >= 2 /\ node.dist \in Nat \ {0}
      /\ node.insert \in Nat /\ node.short \in 0 .. 16
  <2>1. node \in Node
    BY <1>1, <1>2 DEF n
  <2>2. node.len >= MinMatch /\ node.dist > 0
    BY <1>2 DEF Meant
  <2> HIDE DEF node
  <2> QED
    BY <2>1, <2>2, MatchAssumption DEF Node, ShortCodes
<1>5. /\ b \in 0 .. (i - 1) /\ i \in Nat /\ b + node.insert + node.len = i
      /\ here \in Nat /\ here = position + b + node.insert
  <2>1. b \in 0 .. (i - 1)
    BY <1>2 DEF ShortcutsBack, Backwards, n
  <2>2. b = i - node.len - node.insert
    BY DEF Before
  <2> DEFINE l == node.len  m == node.insert
  <2>3. i \in Nat /\ b \in Nat /\ l \in Nat /\ m \in Nat
    BY <1>4, <2>1
  <2>4. b = i - l - m
    BY <2>2
  <2> HIDE DEF b, l, m
  <2>5. b + m + l = i /\ position + i - l \in Nat /\ position + i - l = position + b + m
    BY <1>1, <2>3, <2>4
  <2> QED
    BY <2>1, <2>3, <2>5 DEF l, m
<1>6. /\ was.commands \in Seq(Command) /\ was.meant \in Outs
      /\ 2 * Len(was.commands) <= b
      /\ was.commands = << >> <=> b = 0
      /\ Reads(Base, saved, cmds, was.ring, LeftOver(b), bytes, position + b + Earlier)
  BY DEF Leads
<1>7. is = Created(nodes, position, orig.lastInsert, was, i)
  <2>1. WaysAre(nodes, n, position, orig.lastInsert, orig.ring)
    BY WaysDefined
  <2>2. \A k \in 1 .. n : Way[k] = Created(nodes, position, orig.lastInsert, Way[Before(nodes, k)], k)
    BY <1>1, <1>2, <2>1, Zenon DEF WaysAre, ShortcutsBack, Way, n
  <2> QED
    BY <2>2 DEF n
<1> HIDE DEF was, is
<1>8. /\ is.commands = Append(was.commands, c)
      /\ is.ring = RingAfter(was.ring, node.dist, code, here)
      /\ is.meant = was.meant \o lits \o copied
  BY <1>7 DEF Created, RingAfter
<1>9. /\ code \in Nat /\ Resolve(was.ring, code) = node.dist
      /\ code < ShortCodes => node.dist <= Window(here)
      /\ node.dist > Window(here) => Earlier = 0
  <2>1. node.dist > Window(here) => Earlier = 0
    <3>1. node.short = 0 /\ node.dist > Window(here) => UseDictionary
      BY <1>2 DEF Meant
    <3>2. node.short > 0 => node.dist <= Window(here)
      BY <1>2 DEF Meant
    <3>3. Window(here) \in Nat
      BY <1>5, WindowIs
    <3> HIDE DEF node, here
    <3> QED
      BY <1>3, <1>4, <3>1, <3>2, <3>3
  <2>2. CASE node.short = 0
    <3>1. code = node.dist + 15
      BY <2>2 DEF NodeCode, ShortCodes
    <3> HIDE DEF node, code
    <3>2. code \in Nat /\ ~ (code < ShortCodes) /\ code - ShortCodes + 1 = node.dist
      BY <1>4, <3>1 DEF ShortCodes
    <3> QED
      BY <2>1, <3>2 DEF Resolve
  <2>3. CASE node.short # 0
    <3>1. code = node.short - 1
      BY <2>3 DEF NodeCode
    <3>2. node.short > 0
      BY <1>4, <2>3
    <3>3. node.dist <= Window(here) /\ Resolve(was.ring, node.short - 1) = node.dist
      BY <1>2, <3>2 DEF Meant, was
    <3> HIDE DEF node, code
    <3> QED
      BY <1>4, <2>1, <3>1, <3>2, <3>3
  <2> QED
    BY <2>2, <2>3
<1>10. insert = LeftOver(b) + node.insert /\ insert \in Nat
  <2> DEFINE left == IF b = 0 THEN orig.lastInsert ELSE 0
  <2>1. insert = node.insert + left /\ LeftOver(b) = left
    BY <1>6 DEF LeftOver
  <2>2. left \in Nat
    BY <1>1
  <2> HIDE DEF left, b, node, insert
  <2> QED
    BY <1>4, <2>1, <2>2
<1> HIDE DEF b, node, here, insert, code
<1>11. c \in Command
  BY <1>4, <1>9, <1>10 DEF Command, NewCommand
<1>12. /\ Reads(Base, saved, Append(cmds, c), is.ring, 0, bytes \o lits \o copied,
                position + i + Earlier)
       /\ LastIsFirst(Base, saved, Append(cmds, c), is.ring)
  <2>1. CopyIsReadAs(Base, saved, cmds, was.ring, LeftOver(b), bytes, position + b + Earlier,
                     Earlier, node.insert, node.len, code, node.dist, here)
    BY CopyIsRead
  <2>2. /\ position + b + Earlier + node.insert = here + Earlier
        /\ position + b + Earlier + node.insert + node.len = position + i + Earlier
    <3>1. \A p, e, x, m, l \in Nat : /\ p + x + e + m = p + x + m + e
                                     /\ p + x + e + m + l = p + (x + m + l) + e
      OBVIOUS
    <3> DEFINE m == node.insert  l == node.len
    <3>2. /\ b \in Nat /\ l \in Nat /\ m \in Nat
          /\ b + m + l = i /\ here = position + b + m
      BY <1>4, <1>5
    <3> HIDE DEF m, l
    <3>3. /\ position + b + Earlier + m = position + b + m + Earlier
          /\ position + b + Earlier + m + l = position + (b + m + l) + Earlier
      BY <1>1, <1>3, <3>1, <3>2
    <3>4. /\ position + b + Earlier + m = here + Earlier
          /\ position + b + Earlier + m + l = position + i + Earlier
      BY <3>2, <3>3
    <3> QED
      BY <3>4 DEF m, l
  <2>3. c = NewCommand(LeftOver(b) + node.insert, node.len, code)
    BY <1>10
  <2> HIDE DEF c, cmds, bytes
  <2> QED
    BY <1>3, <1>4, <1>5, <1>6, <1>8, <1>9, <2>1, <2>2, <2>3 DEF CopyIsReadAs
<1> HIDE DEF c
<1>13. Append(cmds, c) = orig.commands \o is.commands
  <2> DEFINE one == << c >>  x == orig.commands  y == was.commands
  <2>1. x \in Seq(Command) /\ y \in Seq(Command) /\ cmds = x \o y
    BY <1>1, <1>6
  <2>2. one \in Seq(Command)
    BY <1>11
  <2> HIDE DEF x, y, cmds
  <2>3. cmds \in Seq(Command)
    BY <2>1, ConcatProperties
  <2>4. Append(cmds, c) = cmds \o one /\ Append(y, c) = y \o one
    BY <1>11, <2>1, <2>3, AppendIsConcat
  <2> HIDE DEF one
  <2>5. (x \o y) \o one = x \o (y \o one)
    BY <2>1, <2>2, ConcatAssociative
  <2>6. is.commands = Append(y, c)
    BY <1>8 DEF y
  <2>7. Append(cmds, c) = x \o is.commands
    BY <2>1, <2>4, <2>5, <2>6
  <2> QED
    BY <2>7 DEF x
<1>14. bytes \o lits \o copied = orig.meant \o is.meant /\ is.meant \in Outs
  <2>1. lits \in Outs /\ copied \in Outs
    <3>1. Window(here) \in Int
      BY <1>5, WindowIs
    <3>2. node.dist \in Int /\ node.len \in Nat /\ node.insert \in Nat
      BY <1>4
    <3> QED
      BY <3>1, <3>2, LiteralsType, BytesType
  <2> HIDE DEF lits, copied
  <2>2. bytes \o lits = orig.meant \o (was.meant \o lits)
    BY <1>1, <1>6, <2>1, OutsAssociate
  <2>3. was.meant \o lits \in Outs
    BY <1>6, <2>1, OutsJoin
  <2>4. (orig.meant \o (was.meant \o lits)) \o copied = orig.meant \o ((was.meant \o lits) \o copied)
    BY <1>1, <2>1, <2>3, OutsAssociate
  <2>5. (was.meant \o lits) \o copied \in Outs
    BY <2>1, <2>3, OutsJoin
  <2> HIDE DEF bytes
  <2> QED
    BY <1>8, <2>2, <2>4, <2>5
<1>15. /\ is.commands \in Seq(Command) /\ Len(is.commands) = Len(was.commands) + 1
       /\ Len(was.commands) \in Nat /\ is.commands # << >>
  <2>1. /\ is.commands \in Seq(Command) /\ Len(is.commands) = Len(was.commands) + 1
        /\ Len(was.commands) \in Nat
    BY <1>6, <1>8, <1>11, AppendProperties, LenProperties
  <2> QED
    BY <2>1, EmptySeq
<1>16. 2 * Len(is.commands) <= i /\ i # 0
  <2>1. \A k, x, m, l, j \in Nat : 2 * k <= x /\ l >= 2 /\ x + m + l = j => 2 * (k + 1) <= j
    OBVIOUS
  <2>2. b \in Nat /\ node.len \in Nat
    BY <1>4, <1>5
  <2> QED
    BY <1>4, <1>5, <1>6, <1>15, <2>1, <2>2, SMTT(60)
<1>17. LeftOver(i) = 0
  BY <1>16 DEF LeftOver
<1> HIDE DEF cmds, bytes
<1> QED
  BY <1>12, <1>13, <1>14, <1>15, <1>16, <1>17 DEF Leads, is

(* Every way in the graph is read as meant.                                 *)
LEMMA PathIsRead ==
    ASSUME StreamInv, PassInv, GraphInv, phase = "nodes"
    PROVE  \A i \in 0 .. NumBytes : i = 0 \/ Reached(nodes, i) => Leads(i)
<1> DEFINE T == {i \in 0 .. NumBytes : (i = 0 \/ Reached(nodes, i)) /\ ~ Leads(i)}
<1> SUFFICES ASSUME T # {} PROVE FALSE
  OBVIOUS
<1>1. NumBytes \in Nat /\ ShortcutsBack(nodes, NumBytes)
  BY DEF PassInv, InBlock, StreamInv, NumBytes, GraphInv
<1>2. PICK i \in T : \A j \in T : i <= j
  <2>1. T \in SUBSET Nat
    BY <1>1
  <2> HIDE DEF T
  <2> QED
    BY <2>1, LeastNumber
<1>3. i \in 0 .. NumBytes /\ (i = 0 \/ Reached(nodes, i)) /\ ~ Leads(i)
  BY <1>2
<1>4. i # 0
  <2>1. WaysAre(nodes, NumBytes, position, orig.lastInsert, orig.ring)
    BY WaysDefined
  <2>2. Way[0] = Start(orig.ring)
    BY <1>1, <2>1, Zenon DEF WaysAre, ShortcutsBack, Way
  <2> QED
    BY <1>3, <2>2, PathStarts
<1>5. i \in 1 .. NumBytes /\ Reached(nodes, i)
  BY <1>1, <1>3, <1>4
<1>6. /\ Before(nodes, i) \in 0 .. (i - 1)
      /\ Before(nodes, i) = 0 \/ Reached(nodes, Before(nodes, i))
  BY <1>1, <1>5 DEF ShortcutsBack, Backwards, GraphInv, Meant
<1>7. Before(nodes, i) \in 0 .. NumBytes /\ ~ (i <= Before(nodes, i))
  BY <1>1, <1>5, <1>6
<1>8. Leads(Before(nodes, i))
  BY <1>2, <1>6, <1>7
<1> QED
  BY <1>3, <1>5, <1>8, PathGoesOn

\* The end of a pass, and the start of the second.
LEMMA CreateCommandsKeeps ==
    ASSUME CommandsInv, CreateCommands
    PROVE  CommandsInv'
<1> DEFINE n == NumBytes  done == LastReached(nodes, n)  made == Way[done]  rest == n - done
           left == IF made.commands = << >> THEN orig.lastInsert ELSE 0
<1>1. /\ StreamInv /\ PassInv /\ GraphInv /\ phase = "nodes" /\ Steady
      /\ ring' = made.ring
      /\ commands' = orig.commands \o made.commands
      /\ lastInsert' = rest + left
      /\ meant' = orig.meant \o made.meant \o Literals(rest)
      /\ phase' = (IF orig.pass = 1 THEN "again" ELSE "tail")
      /\ position' = (IF orig.pass = 1 THEN position ELSE posEnd)
      /\ orig' = orig
  <2>1. Steady
    BY DEF CreateCommands, Steady, fixed, stream, written
  <2>2. StreamInv /\ PassInv /\ GraphInv
    BY DEF CommandsInv
  <2> QED
    BY <2>1, <2>2 DEF CreateCommands, PathCommands, Way
<1>2. /\ position \in Nat /\ posEnd \in Nat /\ position <= posEnd /\ allocated \in Nat
      /\ n \in Nat /\ n = posEnd - position
      /\ orig.commands \in Seq(Command) /\ orig.lastInsert \in Nat
      /\ Room(orig.commands, position)
  BY <1>1 DEF StreamInv, PassInv, InBlock, NumBytes, Passes
<1>3. done \in 0 .. n /\ (done = 0 \/ Reached(nodes, done))
  <2> HIDE DEF n
  <2> QED
    BY <1>2, LastReachedIs
<1>4. Leads(done)
  <2> HIDE DEF done
  <2> QED
    BY <1>1, <1>3, PathIsRead
<1> HIDE DEF n, done
<1>5. /\ rest \in Nat /\ Earlier \in Nat
      /\ position + done + Earlier + rest = posEnd + Earlier
  <2>1. Earlier \in Nat
    BY <1>1, Places
  <2> QED
    BY <1>2, <1>3, <2>1
<1>6. left = LeftOver(done) /\ left \in Nat
  BY <1>2, <1>4 DEF Leads, LeftOver
<1> HIDE DEF rest, left
<1>7. Reads(Base, saved, commands', ring', lastInsert', meant', posEnd + Earlier)
  <2> DEFINE bytes == orig.meant \o made.meant
  <2>1. LiteralsReadAs(Base, saved, commands', made.ring, left, bytes,
                       position + done + Earlier, rest)
    BY LiteralsAreRead
  <2>2. Reads(Base, saved, commands', made.ring, left, bytes, position + done + Earlier)
    BY <1>1, <1>4, <1>6 DEF Leads
  <2>3. lastInsert' = left + rest /\ meant' = bytes \o Literals(rest)
    BY <1>1, <1>5, <1>6
  <2> HIDE DEF made, bytes
  <2> QED
    BY <1>1, <1>5, <2>1, <2>2, <2>3 DEF LiteralsReadAs
<1>8. LastIsFirst(Base, saved, commands', ring')
  BY <1>1, <1>4 DEF Leads
<1>9. Room(commands', posEnd) /\ Len(commands') <= allocated
  <2>1. made.commands \in Seq(Command) /\ 2 * Len(made.commands) <= done
    BY <1>4 DEF Leads
  <2>2. /\ Len(commands') = Len(orig.commands) + Len(made.commands)
        /\ Len(orig.commands) \in Nat /\ Len(made.commands) \in Nat
    BY <1>1, <1>2, <2>1, ConcatProperties, LenProperties
  <2>3. 2 * Len(orig.commands) + (posEnd - position) + 1 <= 2 * allocated
    BY <1>2 DEF Room
  <2>4. \A x, y, e, p, a, d, m \in Nat :
          /\ 2 * x + (e - p) + 1 <= 2 * a /\ 2 * y <= d /\ d <= m /\ m = e - p
          => 2 * (x + y) + (e - e) + 1 <= 2 * a /\ x + y <= a
    OBVIOUS
  <2>5. done \in Nat /\ done <= n
    BY <1>2, <1>3
  <2>6. /\ 2 * (Len(orig.commands) + Len(made.commands)) + (posEnd - posEnd) + 1 <= 2 * allocated
        /\ Len(orig.commands) + Len(made.commands) <= allocated
    BY <1>2, <2>1, <2>2, <2>3, <2>4, <2>5
  <2> QED
    BY <2>2, <2>6 DEF Room
<1>10. /\ Base' = Base /\ Earlier' = Earlier /\ saved' = saved /\ posEnd' = posEnd
       /\ allocated' = allocated /\ catable' = catable /\ firstBytes' = firstBytes
       /\ input' = input
  BY <1>1, SteadyPlaces DEF Steady, written, fixed, stream
<1>11. StreamInv'
  <2>1. position' \in Nat /\ phase' \in {"greedy", "nodes", "again", "tail"}
    BY <1>1, <1>2
  <2> QED
    BY <1>1, <1>9, <2>1, SteadyStream
<1>12. CASE orig.pass = 1
  <2>1. phase' = "again" /\ position' = position
    BY <1>1, <1>12
  <2>2. PassInv'
    BY <1>1, <1>10, <2>1 DEF PassInv, InBlock, Pending, Room
  <2> QED
    BY <1>11, <2>1, <2>2 DEF CommandsInv, IdleInv, GreedyInv, TailInv, GraphInv
<1>13. CASE orig.pass # 1
  <2>1. phase' = "tail"
    BY <1>1, <1>13
  <2>2. catable /\ firstBytes < 2 => commands' = << >> /\ lastInsert' = 0
    <3> SUFFICES ASSUME catable /\ firstBytes < 2 PROVE commands' = << >> /\ lastInsert' = 0
      OBVIOUS
    <3>1. orig.commands = << >> /\ orig.lastInsert = 0 /\ position = posEnd
      BY <1>1 DEF PassInv, InBlock, Pending
    <3>2. n = 0 /\ done = 0 /\ rest = 0
      <4>1. n = 0
        BY <1>2, <3>1
      <4>2. done = 0
        BY <1>3, <4>1
      <4> QED
        BY <4>1, <4>2 DEF rest
    <3>3. made.commands = << >> /\ left = 0
      BY <1>4, <3>1, <3>2 DEF Leads, left
    <3>4. << >> \o << >> = << >>
      BY EmptySeq, ConcatEmptySeq
    <3>5. commands' = << >> \o << >>
      BY <1>1, <3>1, <3>3
    <3> QED
      BY <1>1, <3>2, <3>3, <3>4, <3>5
  <2>3. TailInv'
    <3>1. (posEnd = input)'
      BY <1>1, <1>10 DEF PassInv, InBlock
    <3> QED
      BY <1>7, <1>8, <1>9, <1>10, <2>2, <3>1 DEF TailInv, Pending, Room
  <2> QED
    BY <1>11, <2>1, <2>3 DEF CommandsInv, IdleInv, GreedyInv, PassInv, GraphInv
<1> QED
  BY <1>12, <1>13

(* The second pass of quality 11 starts from the ring, the commands and the *)
(* left-over literals of the first.                                         *)
LEMMA SecondPassKeeps ==
    ASSUME CommandsInv, SecondPass
    PROVE  CommandsInv'
<1>1. /\ StreamInv /\ PassInv /\ phase = "again" /\ phase' = "nodes" /\ Steady
      /\ commands' = orig.commands /\ ring' = orig.ring
      /\ nodes' = InitNodes(NumBytes) /\ queue' = {[pos |-> 0, cache |-> ring']} /\ at' = 0
      /\ orig' = [orig EXCEPT !.pass = 2]
      /\ position' = position
  <2>1. Steady /\ position' = position
    BY DEF SecondPass, Steady, fixed, stream, written, block
  <2> QED
    BY <2>1 DEF SecondPass, CommandsInv
<1>2. orig \in Passes /\ InBlock /\ Room(orig.commands, position)
  BY <1>1 DEF PassInv
<1>3. /\ orig' \in Passes /\ orig'.ring = orig.ring /\ orig'.commands = orig.commands
      /\ orig'.lastInsert = orig.lastInsert /\ orig'.meant = orig.meant
  BY <1>1, <1>2 DEF Passes
<1>4. /\ Base' = Base /\ Earlier' = Earlier /\ saved' = saved /\ posEnd' = posEnd
      /\ allocated' = allocated /\ catable' = catable /\ firstBytes' = firstBytes
      /\ input' = input
  BY <1>1, SteadyPlaces DEF Steady, written, fixed, stream
<1>5. PassInv'
  BY <1>1, <1>3, <1>4 DEF PassInv, InBlock, Pending, Room
<1>6. StreamInv'
  <2>1. Len(orig.commands) <= allocated
    <3>1. 2 * Len(orig.commands) + (posEnd - position) + 1 <= 2 * allocated
      BY <1>2 DEF Room
    <3>2. /\ position \in Nat /\ posEnd \in Nat /\ allocated \in Nat /\ position <= posEnd
      BY <1>1, <1>2 DEF StreamInv, InBlock
    <3>3. Len(orig.commands) \in Nat
      BY <1>2, LenProperties DEF Passes
    <3> QED
      BY <3>1, <3>2, <3>3
  <2>2. position' \in Nat
    BY <1>1 DEF StreamInv
  <2> QED
    BY <1>1, <2>1, <2>2, SteadyStream
<1>7. NumBytes' = NumBytes /\ NumBytes \in Nat
  BY <1>1, <1>2, <1>4 DEF NumBytes, InBlock, StreamInv
<1>8. GraphInv'
  BY <1>1, <1>3, <1>7, FreshGraphInv
<1> QED
  BY <1>1, <1>5, <1>6, <1>8 DEF CommandsInv, IdleInv, GreedyInv, TailInv

-----------------------------------------------------------------------------
(* The start and the end of encode_data.                                      *)
LEMMA InitKeeps ==
    ASSUME Init
    PROVE  CommandsInv
<1>1. custom \in Nat /\ catable \in BOOLEAN
  BY SizesAssumption DEF Init
<1>2. /\ StartRing \in Rings /\ TheirRing = StartRing
  <2>1. Unknown \in Nat \ {0}
    BY SizesAssumption, MatchAssumption DEF ShortCodes
  <2> QED
    BY <2>1 DEF StartRing, TheirRing, Nothing, Rings
<1>3. Len(<< >>) = 0
  BY EmptySeq
<1>4. StreamInv
  BY <1>1, <1>2, <1>3 DEF Init, StreamInv, NoBlock
<1>5. Base \in Nat /\ Base = processed + Earlier
  BY <1>1, <1>4, Places DEF Init, Base
<1>6. Reads(Base, saved, << >>, saved, 0, << >>, Base) /\ LastIsFirst(Base, saved, << >>, saved)
  BY <1>4, <1>5, NothingIsRead DEF StreamInv
<1>7. IdleInv
  BY <1>1, <1>5, <1>6 DEF Init, IdleInv, Pending
<1>8. phase = "idle"
  BY DEF Init
<1> QED
  BY <1>4, <1>7, <1>8 DEF CommandsInv, GreedyInv, TailInv, PassInv, GraphInv

(* A postponed block keeps its commands for the next.                       *)
LEMMA PostponeKeeps ==
    ASSUME CommandsInv, Postpone
    PROVE  CommandsInv'
<1>1. /\ StreamInv /\ TailInv /\ phase = "tail" /\ phase' = "idle" /\ processed' = input
      /\ position' = 0 /\ posEnd' = 0
      /\ UNCHANGED << fixed, input, flushed, firstBytes, pending, allocated, written >>
  BY DEF Postpone, CommandsInv
<1>2. /\ catable' = catable /\ input' = input /\ flushed' = flushed /\ firstBytes' = firstBytes
      /\ ring' = ring /\ commands' = commands /\ lastInsert' = lastInsert /\ meant' = meant
      /\ allocated' = allocated /\ saved' = saved /\ theirs' = theirs /\ emitted' = emitted
  BY <1>1 DEF fixed, pending, written
<1>3. posEnd = input /\ Pending(commands, ring, lastInsert, meant, posEnd)
  BY <1>1 DEF TailInv
<1>4. IdleInv'
  <2>1. Base' = Base /\ Earlier' = Earlier
    BY <1>2 DEF Base, Earlier
  <2> QED
    BY <1>1, <1>2, <1>3, <2>1 DEF IdleInv, Pending
<1>5. StreamInv'
  BY <1>1, <1>2 DEF StreamInv
<1> QED
  BY <1>1, <1>4, <1>5 DEF CommandsInv, GreedyInv, TailInv, PassInv, GraphInv

(* A call without input writes no metablock.                                *)
LEMMA NothingToWriteKeeps ==
    ASSUME CommandsInv, NothingToWrite
    PROVE  CommandsInv'
<1>1. /\ StreamInv /\ TailInv /\ phase = "tail" /\ phase' = "idle" /\ input = flushed
      /\ position' = 0 /\ posEnd' = 0
      /\ UNCHANGED << fixed, stream, pending, allocated, written >>
  BY DEF NothingToWrite, CommandsInv
<1>2. /\ catable' = catable /\ input' = input /\ flushed' = flushed /\ firstBytes' = firstBytes
      /\ processed' = processed
      /\ ring' = ring /\ commands' = commands /\ lastInsert' = lastInsert /\ meant' = meant
      /\ allocated' = allocated /\ saved' = saved /\ theirs' = theirs /\ emitted' = emitted
  BY <1>1 DEF fixed, stream, pending, written
<1>3. /\ posEnd = input /\ Pending(commands, ring, lastInsert, meant, posEnd)
      /\ processed = input
  BY <1>1 DEF TailInv, StreamInv
<1>4. IdleInv'
  <2>1. Base' = Base /\ Earlier' = Earlier
    BY <1>2 DEF Base, Earlier
  <2> QED
    BY <1>1, <1>2, <1>3, <2>1 DEF IdleInv, Pending
<1>5. StreamInv'
  BY <1>1, <1>2 DEF StreamInv
<1> QED
  BY <1>1, <1>4, <1>5 DEF CommandsInv, GreedyInv, TailInv, PassInv, GraphInv

\* A metablock, compressed or stored, or the empty one that ends the stream.
LEMMA WriteMetaBlockKeeps ==
    ASSUME CommandsInv, NEW last \in BOOLEAN, WriteMetaBlock(last)
    PROVE  CommandsInv'
<1>1. /\ StreamInv /\ TailInv /\ phase = "tail" /\ phase' \in {"idle", "finished"}
      /\ saved' = ring' /\ flushed' = input /\ processed' = input
      /\ commands' = << >> /\ lastInsert' = 0 /\ meant' = << >>
      /\ position' = 0 /\ posEnd' = 0
      /\ catable' = catable /\ input' = input /\ firstBytes' = firstBytes
      /\ allocated' = allocated
  BY DEF WriteMetaBlock, CommandsInv, fixed
<1>2. /\ posEnd = input
      /\ Reads(Base, saved, commands, ring, lastInsert, meant, posEnd + Earlier)
      /\ LastIsFirst(Base, saved, commands, ring)
  BY <1>1 DEF TailInv, Pending
<1>3. /\ Base \in Nat /\ Earlier \in Nat /\ saved \in Rings /\ theirs = saved
      /\ emitted.read = emitted.meant /\ ring \in Rings /\ input \in Nat
  BY <1>1, <1>2, Places DEF StreamInv, Reads
<1>4. ring' \in Rings /\ theirs' = ring' /\ emitted'.read = emitted'.meant
  <2>1. CASE input = flushed
    <3>1. posEnd + Earlier = Base
      BY <1>2, <2>1 DEF Base
    <3>2. commands = << >>
      <4>1. ~ (posEnd + Earlier > Base)
        BY <1>3, <3>1
      <4> QED
        BY <1>2, <1>3, <4>1, CommandsGoOn
    <3>3. ring = saved
      BY <1>2, <1>3, <3>2, ReadOfNothing
    <3>4. UNCHANGED << ring, theirs, emitted >>
      BY <2>1 DEF WriteMetaBlock
    <3> QED
      BY <1>3, <3>3, <3>4
  <2>2. CASE input # flushed /\ Compressed
    <3>1. Closed = Closing(commands, lastInsert)
      BY DEF Closed, Closing
    <3>2. /\ Decode(Closed, Base, saved).out = meant
          /\ Decode(Closed, Base, saved).cache = ring
      BY <1>2, <3>1, ClosingIsRead
    <3>3. /\ emitted' = [meant |-> meant, read |-> Decode(Closed, Base, saved).out]
          /\ theirs' = Decode(Closed, Base, saved).cache
          /\ ring' = ring
      BY <1>3, <2>2 DEF Compressed, Base
    <3> QED
      BY <1>3, <3>2, <3>3
  <2>3. CASE input # flushed /\ Stored
    BY <1>3, <2>3 DEF Stored
  <2> QED
    BY <2>1, <2>2, <2>3 DEF WriteMetaBlock
<1>5. Len(commands') = 0 /\ allocated \in Nat
  BY <1>1, EmptySeq DEF StreamInv
<1>6. StreamInv'
  BY <1>1, <1>3, <1>4, <1>5 DEF StreamInv
<1>7. IdleInv'
  <2>1. Earlier' = Earlier /\ Base' = processed' + Earlier'
    BY <1>1 DEF Base, Earlier
  <2>2. Base' \in Nat /\ saved' \in Rings
    BY <1>1, <1>3, <1>4, <2>1
  <2>3. /\ Reads(Base', saved', << >>, saved', 0, << >>, Base')
        /\ LastIsFirst(Base', saved', << >>, saved')
    BY <2>2, NothingIsRead
  <2> QED
    BY <1>1, <2>1, <2>3 DEF IdleInv, Pending
<1> QED
  BY <1>1, <1>6, <1>7 DEF CommandsInv, GreedyInv, TailInv, PassInv, GraphInv

\* New input: raw bytes, a longer last command, and the start of a matcher.
LEMMA EncodeDataKeeps ==
    ASSUME CommandsInv, NEW bytes \in Nat, EncodeData(bytes)
    PROVE  CommandsInv'
<1> DEFINE raw  == IF catable /\ firstBytes < 2 /\ bytes > 0
                   THEN IF bytes < 2 THEN bytes ELSE 2 ELSE 0
           left == bytes - raw
           from == processed + raw
<1>1. /\ phase = "idle" /\ StreamInv /\ IdleInv
      /\ input' = input + bytes
      /\ firstBytes' = (IF raw = 2 THEN 2 ELSE firstBytes + raw)
      /\ flushed' = flushed + raw
      /\ allocated' = (IF NewSize(left) > allocated THEN NewSize(left) ELSE allocated)
      /\ processed' = from
      /\ posEnd' = from + left
      /\ UNCHANGED << fixed, ring, lastInsert, written >>
  BY DEF EncodeData, CommandsInv
<1>2. PICK grows \in Extensions(from, left) :
         /\ commands' = (IF grows = 0 THEN commands ELSE Longer(grows))
         /\ meant' = meant \o [i \in 1 .. grows |-> << "copy", ring[1], 0 >>]
         /\ position' = from + grows
         /\ IF search = "greedy"
            THEN /\ phase' = "greedy"
                 /\ insertLength' = lastInsert
                 /\ UNCHANGED graph
            ELSE /\ phase' = "nodes"
                 /\ nodes' = InitNodes(left - grows)
                 /\ queue' = {[pos |-> 0, cache |-> ring]}
                 /\ at' = 0
                 /\ orig' = [pass |-> IF search = "twice" THEN 1 ELSE 2, ring |-> ring,
                             commands |-> commands', lastInsert |-> lastInsert, meant |-> meant']
                 /\ UNCHANGED insertLength
  BY DEF EncodeData
<1>3. /\ catable' = catable /\ saved' = saved /\ theirs' = theirs /\ emitted' = emitted
      /\ ring' = ring /\ lastInsert' = lastInsert
  BY <1>1 DEF fixed, written
<1>4. /\ processed = input
      /\ Reads(Base, saved, commands, ring, lastInsert, meant, processed + Earlier)
      /\ LastIsFirst(Base, saved, commands, ring)
      /\ catable /\ firstBytes < 2 => commands = << >> /\ lastInsert = 0
  BY <1>1 DEF IdleInv, Pending
<1>5. /\ Base \in Nat /\ Earlier \in Nat /\ Earlier <= Base /\ Earlier' = Earlier
      /\ Base = flushed + Earlier
  BY <1>1, <1>3, Places DEF Earlier, Base
<1>6. /\ ring \in Rings /\ ring[1] \in Nat /\ commands \in Seq(Command) /\ lastInsert \in Nat
      /\ meant \in Outs
  <2>1. ring \in Rings
    BY <1>4 DEF Reads
  <2>2. ring[1] \in Nat
    BY <2>1 DEF Rings
  <2>3. commands \in Seq(Command) /\ lastInsert \in Nat
    BY <1>4 DEF Reads
  <2>4. meant \in Outs
    BY <1>4, ReadsTypes
  <2> QED
    BY <2>1, <2>2, <2>3, <2>4
<1>7. /\ raw \in 0 .. 2 /\ raw <= bytes /\ left \in Nat
      /\ raw = 2 => bytes >= 2
      /\ raw # 0 => commands = << >> /\ lastInsert = 0
      /\ catable /\ firstBytes < 2 /\ raw = 0 => left = 0
      /\ raw = 1 => left = 0
  BY <1>4
<1>8. /\ input \in Nat /\ processed \in Nat /\ flushed \in Nat /\ flushed <= processed
      /\ allocated \in Nat /\ firstBytes \in 0 .. 2 /\ saved \in Rings /\ theirs = saved
      /\ emitted.read = emitted.meant /\ catable \in BOOLEAN
  BY <1>1 DEF StreamInv
<1> HIDE DEF raw
<1>9. grows \in 0 .. left /\ (commands = << >> => grows = 0)
  <2>1. Extensions(from, left) \subseteq 0 .. left
    BY <1>7 DEF Extensions
  <2>2. commands = << >> => Extensions(from, left) = {0}
    BY DEF Extensions
  <2> HIDE DEF from, left
  <2> QED
    BY <2>1, <2>2
<1>10. from \in Nat /\ grows \in Nat /\ posEnd' = input'
       /\ position' \in Nat /\ posEnd' \in Nat /\ position' <= posEnd'
       /\ posEnd' - position' = left - grows /\ left - grows \in Nat
  BY <1>1, <1>2, <1>4, <1>7, <1>8, <1>9
<1>11. Base' = Base + raw
  <2>1. \A f, e, w \in Nat : f + w + e = f + e + w
    OBVIOUS
  <2>2. raw \in Nat
    BY <1>7
  <2> QED
    BY <1>1, <1>5, <1>8, <2>1, <2>2 DEF Base
<1>12. meant' = meant \o Copied(ring[1], grows)
  BY <1>2 DEF Copied
<1>13. /\ Reads(Base', saved, commands', ring, lastInsert, meant', position' + Earlier)
       /\ LastIsFirst(Base', saved, commands', ring)
       /\ Len(commands') = Len(commands)
  <2>1. CASE grows = 0
    <3>1. commands' = commands /\ meant' = meant /\ position' = from
      <4>1. Copied(ring[1], 0) = << >>
        <5>1. Copied(ring[1], 0) \in Outs /\ Len(Copied(ring[1], 0)) = 0
          BY <1>6, CopiedType
        <5> QED
          BY <5>1, EmptySeq DEF Outs
      <4>2. meant' = meant
        BY <1>6, <1>12, <2>1, <4>1, OutsJoin
      <4>3. from + 0 = from
        BY <1>10
      <4> HIDE DEF from
      <4> QED
        BY <1>2, <2>1, <4>2, <4>3
    <3>2. CASE raw = 0
      <4>1. Base' = Base /\ from = processed
        BY <1>5, <1>8, <1>11, <3>2
      <4> QED
        BY <1>4, <3>1, <4>1
    <3>3. CASE raw # 0
      <4>1. commands = << >> /\ lastInsert = 0
        BY <1>7, <3>3
      <4>2. ring = saved /\ processed + Earlier = Base + lastInsert /\ meant = Literals(lastInsert)
        BY <1>4, <1>5, <4>1, ReadOfNothing
      <4>3. meant = << >>
        BY <4>1, <4>2, LiteralsNone
      <4>4. from + Earlier = Base'
        <5>1. processed + Earlier = Base
          BY <1>5, <4>1, <4>2
        <5>2. raw \in Nat
          BY <1>7
        <5>3. processed + raw + Earlier = Base + raw
          BY <1>5, <1>8, <5>1, <5>2
        <5> QED
          BY <1>11, <5>3
      <4>5. Base' \in Nat
        BY <1>5, <1>7, <1>11
      <4>6. /\ Reads(Base', saved, << >>, saved, 0, << >>, Base')
            /\ LastIsFirst(Base', saved, << >>, saved)
        BY <1>8, <4>5, NothingIsRead
      <4> HIDE DEF from
      <4> QED
        BY <3>1, <4>1, <4>2, <4>3, <4>4, <4>6
    <3> QED
      BY <3>2, <3>3
  <2>2. CASE grows # 0
    <3>1. commands # << >> /\ lastInsert = 0 /\ CanExtend(from)
      BY <2>2 DEF Extensions
    <3>2. raw = 0
      BY <1>7, <3>1
    <3>3. Base' = Base /\ from = processed
      BY <1>5, <1>8, <1>11, <3>2
    <3>4. LengthensAs(Base, saved, commands, ring, meant, from, Earlier, grows)
      BY LongerIsRead
    <3>5. commands' = Lengthened(commands, grows)
      BY <1>2, <2>2 DEF Longer, Lengthened
    <3>6. /\ commands[Len(commands)].code < ShortCodes
             \/ commands[Len(commands)].code - ShortCodes + 1 = ring[1]
          /\ ring[1] <= Window(from - commands[Len(commands)].len)
      BY <3>1 DEF CanExtend
    <3>7. Reads(Base, saved, commands, ring, 0, meant, from + Earlier)
      BY <1>4, <3>1, <3>3
    <3>8. position' = from + grows
      BY <1>2
    <3> HIDE DEF from
    <3> QED
      BY <1>4, <1>5, <1>10, <1>12, <3>1, <3>3, <3>4, <3>5, <3>6, <3>7, <3>8 DEF LengthensAs
  <2> QED
    BY <2>1, <2>2
<1>14. /\ NewSize(left) \in Nat /\ allocated' \in Nat /\ NewSize(left) <= allocated'
       /\ Len(commands') <= allocated'
       /\ 2 * Len(commands') + (posEnd' - position') + 1 <= 2 * allocated'
  <2>1. Len(commands) \in Nat
    BY <1>6, LenProperties
  <2> DEFINE k == Len(commands)
  <2> HIDE DEF k, left
  <2>2. \A l \in Nat : l \div 2 \in Nat /\ 2 * (l \div 2) + 1 >= l
    OBVIOUS
  <2>3. NewSize(left) = k + (left \div 2) + 1
    BY DEF NewSize, k
  <2>4. NewSize(left) \in Nat /\ 2 * NewSize(left) >= 2 * k + left + 1 /\ NewSize(left) >= k
    BY <1>7, <2>1, <2>2, <2>3 DEF k
  <2>5. allocated' \in Nat /\ NewSize(left) <= allocated'
    BY <1>1, <1>8, <2>4
  <2>6. 2 * k + (left - grows) + 1 <= 2 * allocated' /\ k <= allocated'
    BY <1>7, <1>9, <2>1, <2>4, <2>5 DEF k
  <2> QED
    BY <1>10, <1>13, <2>4, <2>5, <2>6 DEF k
<1>15. (catable /\ firstBytes < 2)' =>
          commands' = << >> /\ lastInsert' = 0 /\ position' = posEnd'
  <2> SUFFICES ASSUME catable /\ firstBytes' < 2
               PROVE  commands' = << >> /\ lastInsert' = 0 /\ position' = posEnd'
    BY <1>3
  <2>1. raw # 2 /\ firstBytes < 2
    <3>1. raw \in Nat
      BY <1>7
    <3>2. raw # 2
      BY <1>1
    <3> QED
      BY <1>1, <1>8, <3>1, <3>2
  <2>2. left = 0
    <3>1. raw = 0 \/ raw = 1
      BY <1>7, <2>1
    <3> HIDE DEF left
    <3> QED
      BY <1>7, <2>1, <3>1
  <2>3. commands = << >> /\ lastInsert = 0
    BY <1>4, <2>1
  <2>4. grows = 0
    BY <1>9, <2>3
  <2> HIDE DEF left
  <2> QED
    BY <1>2, <1>3, <1>10, <2>2, <2>3, <2>4
<1>16. phase' \in {"greedy", "nodes"}
  BY <1>2
<1>17. StreamInv'
  <2>1. firstBytes' \in 0 .. 2 /\ flushed' \in Nat /\ processed' \in Nat /\ input' \in Nat
        /\ flushed' <= processed' /\ processed' <= input'
    <3>1. firstBytes' \in 0 .. 2
      <4>1. raw # 0 => firstBytes < 2
        BY DEF raw
      <4>2. firstBytes = 2 => raw = 0
        BY <4>1
      <4> QED
        BY <1>1, <1>7, <1>8, <4>1
    <3>2. raw \in Nat /\ raw <= bytes
      BY <1>7
    <3>3. \A f, p, w, b \in Nat : f <= p /\ w <= b =>
             /\ f + w \in Nat /\ p + w \in Nat /\ p + b \in Nat
             /\ f + w <= p + w /\ p + w <= p + b
      OBVIOUS
    <3>4. flushed' = flushed + raw /\ processed' = processed + raw /\ input' = processed + bytes
      BY <1>1, <1>4
    <3> QED
      BY <1>8, <3>1, <3>2, <3>3, <3>4
  <2> QED
    BY <1>3, <1>8, <1>10, <1>14, <1>16, <2>1 DEF StreamInv
<1>18. InBlock'
  BY <1>10, <1>15 DEF InBlock
<1>19. GreedyInv'
  <2> SUFFICES ASSUME phase' = "greedy" PROVE GreedyInv'
    BY DEF GreedyInv
  <2>1. insertLength' = lastInsert
    BY <1>2
  <2> QED
    BY <1>3, <1>5, <1>13, <1>14, <1>15, <1>18, <2>1 DEF GreedyInv, Pending, Room
<1>20. PassInv' /\ GraphInv'
  <2>1. CASE phase' = "greedy"
    BY <2>1 DEF PassInv, GraphInv
  <2>2. CASE phase' # "greedy"
    <3>1. /\ nodes' = InitNodes(left - grows) /\ queue' = {[pos |-> 0, cache |-> ring]} /\ at' = 0
          /\ orig' = [pass |-> IF search = "twice" THEN 1 ELSE 2, ring |-> ring,
                      commands |-> commands', lastInsert |-> lastInsert, meant |-> meant']
      BY <1>2, <2>2
    <3>2. /\ orig'.ring = ring /\ orig'.commands = commands' /\ orig'.lastInsert = lastInsert
          /\ orig'.meant = meant'
      BY <3>1
    <3>3. orig' \in Passes
      <4>1. commands' \in Seq(Command) /\ meant' \in Outs
        BY <1>13, ReadsTypes
      <4> QED
        BY <1>6, <3>1, <4>1 DEF Passes
    <3>4. PassInv'
      BY <1>3, <1>5, <1>13, <1>14, <1>15, <1>18, <3>2, <3>3 DEF PassInv, Pending, Room
    <3>5. NumBytes' = left - grows
      BY <1>10 DEF NumBytes
    <3>6. GraphInv'
      BY <1>10, <3>1, <3>2, <3>5, FreshGraphInv
    <3> QED
      BY <3>4, <3>6
  <2> QED
    BY <2>1, <2>2
<1> QED
  BY <1>16, <1>17, <1>19, <1>20 DEF CommandsInv, IdleInv, TailInv

(* Every action keeps the invariant.                                        *)
LEMMA NextKeeps ==
    ASSUME CommandsInv, [Next]_vars
    PROVE  CommandsInv'
<1>1. ASSUME NEW bytes \in Offered, EncodeData(bytes)
      PROVE  CommandsInv'
  BY <1>1, SizesAssumption, EncodeDataKeeps
<1>2. CASE GreedyMatch
  BY <1>2, GreedyMatchKeeps
<1>3. CASE GreedyMiss
  BY <1>3, GreedyMissKeeps
<1>4. CASE GreedyEnd
  BY <1>4, GreedyEndKeeps
<1>5. CASE UpdateByRing
  BY <1>5, UpdateByRingKeeps
<1>6. CASE UpdateByMatch
  BY <1>6, UpdateByMatchKeeps
<1>7. CASE EvaluateNext
  BY <1>7, EvaluateNextKeeps
<1>8. CASE CreateCommands
  BY <1>8, CreateCommandsKeeps
<1>9. CASE SecondPass
  BY <1>9, SecondPassKeeps
<1>10. CASE Postpone
  BY <1>10, PostponeKeeps
<1>11. CASE NothingToWrite
  BY <1>11, NothingToWriteKeeps
<1>12. ASSUME NEW last \in BOOLEAN, WriteMetaBlock(last)
       PROVE  CommandsInv'
  BY <1>12, WriteMetaBlockKeeps
<1>13. CASE UNCHANGED vars
  <2>1. /\ UNCHANGED << search, catable, custom, input, processed, flushed, firstBytes >>
        /\ UNCHANGED << ring, commands, lastInsert, meant, allocated, position, posEnd >>
        /\ UNCHANGED << insertLength, nodes, queue, at, orig, phase, saved, theirs, emitted >>
    BY <1>13 DEF vars, fixed, stream, pending, block, graph, written
  <2>2. /\ Base' = Base /\ Earlier' = Earlier /\ NumBytes' = NumBytes /\ Way' = Way
        /\ UseDictionary' = UseDictionary
    BY <2>1 DEF Base, Earlier, NumBytes, Way, UseDictionary
  <2>3. StreamInv' /\ IdleInv' /\ GreedyInv' /\ TailInv' /\ PassInv'
    BY <2>1, <2>2 DEF CommandsInv, StreamInv, IdleInv, GreedyInv, TailInv, PassInv,
                      InBlock, Pending, Room
  <2>4. GraphInv'
    BY <2>1, <2>2 DEF CommandsInv, GraphInv, Meant
  <2> QED
    BY <2>3, <2>4 DEF CommandsInv
<1> QED
  BY <1>1, <1>2, <1>3, <1>4, <1>5, <1>6, <1>7, <1>8, <1>9, <1>10, <1>11, <1>12, <1>13
     DEF Next, Done

(* In every reachable state of encode_data, for every window, hasher,       *)
(* matcher and cut of the input into blocks, the pending commands are read  *)
(* by a decoder as they were meant, with its own ring.                      *)
THEOREM CommandsAreRead == Spec => []CommandsInv
<1>1. Init => CommandsInv
  BY InitKeeps
<1>2. CommandsInv /\ [Next]_vars => CommandsInv'
  BY NextKeeps
<1> QED
  BY <1>1, <1>2, PTL DEF Spec

-----------------------------------------------------------------------------
(* What the invariant shows.                                                  *)

(* Every compressed metablock, read by a decoder, is what the matcher meant:  *)
(* WriteMetaBlockInternal (encode.rs) writes commands whose distances mean    *)
(* the same in the decoder's ring, whatever was found, lengthened, tried in a *)
(* first pass or stored before.                                               *)
THEOREM SpecDecodesAsMeant == Spec => []DecodesAsMeant
<1>1. CommandsInv => DecodesAsMeant
  BY DEF CommandsInv, StreamInv, DecodesAsMeant
<1> QED
  BY <1>1, CommandsAreRead, PTL

(* saved_dist_cache_ is the decoder's ring wherever a metablock starts, and   *)
(* dist_cache_ is its ring after the pending commands.                        *)
THEOREM SpecRingIsTheDecoders == Spec => []RingIsTheDecoders
<1>1. CommandsInv => RingIsTheDecoders
  <2> SUFFICES ASSUME CommandsInv PROVE RingIsTheDecoders
    OBVIOUS
  <2>1. saved = theirs
    BY DEF CommandsInv, StreamInv
  <2>2. ASSUME NEW insert, NEW bytes, NEW end,
               Reads(Base, saved, commands, ring, insert, bytes, end)
        PROVE  ring = Decode(commands, flushed + Earlier, saved).cache
    BY <2>2 DEF Reads, Base
  <2>3. phase \in {"idle", "tail"} => ring = Decode(commands, flushed + Earlier, saved).cache
    BY <2>2 DEF CommandsInv, IdleInv, TailInv, Pending
  <2> QED
    BY <2>1, <2>3 DEF RingIsTheDecoders
<1> QED
  BY <1>1, CommandsAreRead, PTL

(* Between two calls of encode_data the pending commands and the left-over    *)
(* literals are exactly the bytes since the last metablock.                   *)
THEOREM SpecCommandsCoverInput == Spec => []CommandsCoverInput
<1>1. CommandsInv => CommandsCoverInput
  <2> SUFFICES ASSUME CommandsInv, phase = "idle"
               PROVE  Decode(commands, flushed, saved).at + lastInsert = processed
    BY DEF CommandsCoverInput
  <2>1. Reads(Base, saved, commands, ring, lastInsert, meant, processed + Earlier)
    BY DEF CommandsInv, IdleInv, Pending
  <2>2. /\ flushed \in Nat /\ processed \in Nat /\ Base \in Nat /\ Earlier \in Nat
        /\ Base = flushed + Earlier
    BY Places DEF CommandsInv, StreamInv, Base
  <2>3. commands \in Seq(Command) /\ lastInsert \in Nat
        /\ Decode(commands, Base, saved).at + lastInsert = processed + Earlier
    BY <2>1 DEF Reads
  <2>4. AsFar(commands, Base, saved, flushed, saved)
    BY <2>2, <2>3, DecodeLength
  <2>5. PICK n \in Nat : /\ Decode(commands, Base, saved).at = Base + n
                         /\ Decode(commands, flushed, saved).at = flushed + n
    BY <2>4 DEF AsFar
  <2>6. flushed + Earlier + n + lastInsert = processed + Earlier
    BY <2>2, <2>3, <2>5
  <2>7. flushed + n + lastInsert = processed
    BY <2>2, <2>3, <2>6
  <2> QED
    BY <2>5, <2>7
<1> QED
  BY <1>1, CommandsAreRead, PTL

(* encode_data makes room for the commands of a block, and for the one that   *)
(* closes the metablock, before it knows how many there will be.              *)
THEOREM SpecCommandsFit == Spec => []CommandsFit
<1>1. CommandsInv => CommandsFit
  <2> SUFFICES ASSUME CommandsInv PROVE CommandsFit
    OBVIOUS
  <2>1. Len(commands) <= allocated /\ allocated \in Nat
    BY DEF CommandsInv, StreamInv
  <2>2. ASSUME phase = "tail"
        PROVE  Len(Closed) <= allocated
    <3>1. /\ commands \in Seq(Command) /\ lastInsert \in Nat /\ posEnd \in Nat
          /\ Room(commands, posEnd)
      BY <2>2 DEF CommandsInv, StreamInv, TailInv, Pending, Reads
    <3>2. Len(commands) \in Nat
      BY <3>1, LenProperties
    <3>3. Len(commands) + 1 <= allocated
      <4>1. 2 * Len(commands) + (posEnd - posEnd) + 1 <= 2 * allocated
        BY <3>1 DEF Room
      <4> QED
        BY <2>1, <3>1, <3>2, <4>1
    <3>4. CASE lastInsert > 0
      <4>1. NewCommand(lastInsert, 0, ShortCodes) \in Command
        BY <3>1 DEF NewCommand, Command, ShortCodes
      <4>2. Len(Closed) = Len(commands) + 1
        BY <3>1, <3>4, <4>1, AppendProperties DEF Closed
      <4> QED
        BY <3>3, <4>2
    <3>5. CASE ~ (lastInsert > 0)
      BY <2>1, <3>5 DEF Closed
    <3> QED
      BY <3>4, <3>5
  <2> QED
    BY <2>1, <2>2 DEF CommandsFit
<1> QED
  BY <1>1, CommandsAreRead, PTL

=============================================================================
