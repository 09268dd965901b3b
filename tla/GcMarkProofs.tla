---------------------------- MODULE GcMarkProofs -----------------------------
(***************************************************************************)
(* Proofs about GcMark, for every heap, any roots and any size of the mark *)
(* stack, zero included.                                                   *)
(***************************************************************************)
EXTENDS GcMark, SequenceTheorems, TLAPS

Marking == pc # "done"

(* What each step knows of the loops it is in *)
Position ==
    Marking =>
        /\ heads = Objects
        /\ \A i \in 1..Len(stack) : stack[i] \in mark
        /\ pc = "children" => block \in mark
        /\ pc = "children" /\ caller = "roots" =>
                root <= Len(roots) /\ roots[root] \in mark
        /\ pc # "children" => stack = <<>>
        /\ pc = "sweep" => ~overflow

(* The roots that gc_collect_root() has passed are marked. *)
RootsMarked ==
    Marking =>
        /\ \A i \in 1..Len(roots) : i < root /\ roots[i] # 0 => roots[i] \in mark
        /\ pc \in {"overflow", "scan", "sweep"} => root > Len(roots)
        /\ pc = "children" /\ caller = "scan" => root > Len(roots)

(* Only what is in use is marked. *)
Sound ==
    Marking => \A S \in SUBSET Objects : HasRoots(S) /\ Closed(S) => mark \subseteq S

(* The words of the object in hand that gc_mark_subtree() has passed *)
PartlyDone(obj) ==
    /\ pc = "children" /\ obj = block
    /\ \A i \in 1..Len(words[obj]) : i < word /\ words[obj][i] # 0 => words[obj][i] \in mark

(* The rescan has not come to the object yet. *)
Ahead(obj) ==
    \/ pc = "scan" /\ obj >= scan
    \/ pc = "children" /\ caller = "scan" /\ obj > scan

Stacked(obj) == \E i \in 1..Len(stack) : stack[i] = obj

(* An object that is marked and may have unmarked children is on the       *)
(* stack, or in hand, or ahead of the rescan, or an overflow is noted.     *)
Accounted(obj) ==
    Complete(obj, mark) \/ overflow \/ Stacked(obj) \/ PartlyDone(obj) \/ Ahead(obj)

Frontier == Marking => \A obj \in mark : Accounted(obj)

Finished == NothingInUseFreed /\ NoGarbageKept

IInv == TypeOK /\ Position /\ RootsMarked /\ Sound /\ Frontier /\ Finished

(* An object whose children are marked stays so while more are marked. *)
LEMMA CompleteGrows ==
    ASSUME NEW obj, NEW S, NEW T, S \subseteq T, Complete(obj, S)
    PROVE  Complete(obj, T)
BY DEF Complete

(* The word of an object is 0 or an object. *)
LEMMA WordType ==
    ASSUME TypeOK, NEW obj \in Objects, NEW i \in 1..Len(words[obj])
    PROVE  words[obj][i] \in Words
BY DEF TypeOK

(* The words of the roots, likewise. *)
LEMMA RootType ==
    ASSUME TypeOK, NEW i \in 1..Len(roots)
    PROVE  roots[i] \in Words
BY DEF TypeOK

(* The invariant holds when a collection starts. *)
LEMMA InitIInv == Init => IInv
<1> SUFFICES ASSUME Init PROVE IInv
  OBVIOUS
<1>1. TypeOK
  <2>1. stack \in Seq(Objects) /\ Len(stack) = 0
    BY DEF Init
  <2>2. words \in [Objects -> Seq(Words)] /\ roots \in Seq(Words)
    BY GcMarkAssumption DEF Init
  <2>3. overflow \in BOOLEAN
    BY DEF Init
  <2>4. Len(stack) <= StackSize
    BY <2>1, GcMarkAssumption
  <2>5. heads \subseteq Objects /\ mark \subseteq Objects
    BY DEF Init
  <2> QED BY <2>1, <2>2, <2>3, <2>4, <2>5 DEF Init, TypeOK, PCs, Words
<1>2. Position
  BY DEF Init, Position
<1>3. RootsMarked
  BY DEF Init, RootsMarked
<1>4. Sound /\ Frontier /\ Finished
  BY DEF Init, Sound, Frontier, Finished, NothingInUseFreed, NoGarbageKept
<1> QED BY <1>1, <1>2, <1>3, <1>4 DEF IInv
(* The stack after a word of an object has been looked at. *)
LEMMA PushStack ==
    ASSUME TypeOK, NEW w \in Objects, Push(w)
    PROVE  /\ stack' \in Seq(Objects) /\ Len(stack') <= StackSize
           /\ overflow' \in BOOLEAN
           /\ \A i \in 1..Len(stack) : i \in 1..Len(stack') /\ stack'[i] = stack[i]
           /\ \A i \in 1..Len(stack') : i \in 1..Len(stack) \/ stack'[i] = w
           /\ overflow => overflow'
           /\ overflow' \/ \E i \in 1..Len(stack') : stack'[i] = w
<1>0. /\ stack \in Seq(Objects) /\ Len(stack) \in Nat /\ Len(stack) <= StackSize
      /\ overflow \in BOOLEAN
  BY DEF TypeOK
<1>1. CASE Len(stack) < StackSize
  <2>1. stack' = Append(stack, w) /\ overflow' = overflow
    BY <1>1 DEF Push
  <2>2. /\ stack' \in Seq(Objects) /\ Len(stack') = Len(stack) + 1
        /\ \A i \in 1..Len(stack) : stack'[i] = stack[i]
        /\ stack'[Len(stack) + 1] = w
    BY <1>0, <2>1, AppendProperties
  <2>3. Len(stack') <= StackSize
    BY <1>0, <1>1, <2>2, GcMarkAssumption
  <2>4. Len(stack) + 1 \in 1..Len(stack')
    BY <1>0, <2>2
  <2>5. \A i \in 1..Len(stack') : i \in 1..Len(stack) \/ stack'[i] = w
    BY <1>0, <2>2
  <2>6. \A i \in 1..Len(stack) : i \in 1..Len(stack') /\ stack'[i] = stack[i]
    BY <1>0, <2>2
  <2>7. \E i \in 1..Len(stack') : stack'[i] = w
    BY <2>2, <2>4
  <2>8. overflow' \in BOOLEAN /\ (overflow => overflow')
    BY <1>0, <2>1
  <2> QED BY <2>2, <2>3, <2>5, <2>6, <2>7, <2>8
<1>2. CASE ~(Len(stack) < StackSize)
  <2>1. stack' = stack /\ overflow' = TRUE
    BY <1>2 DEF Push
  <2> QED BY <1>0, <2>1
<1> QED BY <1>1, <1>2

(* Looking at a word of the object in hand keeps the invariant. *)
LEMMA ChildIInv == IInv /\ Child => IInv'
<1> SUFFICES ASSUME IInv, Child PROVE IInv'
  OBVIOUS
<1> DEFINE w == words[block][word]
<1>0. /\ TypeOK /\ Position /\ RootsMarked /\ Sound /\ Frontier
      /\ pc = "children" /\ word <= Len(words[block]) /\ word' = word + 1
      /\ UNCHANGED <<words, roots, heads, root, scan, block, caller, pc>>
  BY DEF IInv, Child, data
<1>1. /\ heads = Objects /\ block \in mark /\ mark \subseteq Objects
      /\ block \in Objects /\ word \in Nat \ {0}
  BY <1>0 DEF TypeOK, Position, Marking
<1>2. Len(words[block]) \in Nat /\ words[block] \in Seq(Words)
  BY <1>0, <1>1 DEF TypeOK
<1>3. word \in 1..Len(words[block])
  BY <1>0, <1>1, <1>2
<1>4. w \in Words
  BY <1>0, <1>1, <1>3, WordType
<1>5. /\ mark' \subseteq Objects /\ mark \subseteq mark' /\ mark' \subseteq mark \cup {w}
      /\ w # 0 => w \in mark'
      /\ stack' \in Seq(Objects) /\ Len(stack') <= StackSize
      /\ overflow' \in BOOLEAN
      /\ \A i \in 1..Len(stack) : i \in 1..Len(stack') /\ stack'[i] = stack[i]
      /\ \A i \in 1..Len(stack') : stack'[i] \in mark'
      /\ overflow => overflow'
      /\ \A obj \in mark' \ mark : overflow' \/ \E i \in 1..Len(stack') : stack'[i] = obj
  <2>1. CASE Unmarked(w)
    <3>1. w \in Objects /\ mark' = mark \cup {w} /\ Push(w)
      BY <1>1, <2>1 DEF Child, Unmarked
    <3>2. \A i \in 1..Len(stack) : stack[i] \in mark
      BY <1>0 DEF Position, Marking
    <3>3. /\ stack' \in Seq(Objects) /\ Len(stack') <= StackSize
          /\ overflow' \in BOOLEAN
          /\ \A i \in 1..Len(stack) : i \in 1..Len(stack') /\ stack'[i] = stack[i]
          /\ \A i \in 1..Len(stack') : i \in 1..Len(stack) \/ stack'[i] = w
          /\ overflow => overflow'
          /\ overflow' \/ \E i \in 1..Len(stack') : stack'[i] = w
      BY <1>0, <3>1, PushStack
    <3>4. \A i \in 1..Len(stack') : stack'[i] \in mark'
      BY <3>1, <3>2, <3>3
    <3>5. \A obj \in mark' \ mark : overflow' \/ \E i \in 1..Len(stack') : stack'[i] = obj
      BY <3>1, <3>3
    <3>6. /\ mark' \subseteq Objects /\ mark \subseteq mark' /\ mark' \subseteq mark \cup {w}
          /\ w # 0 => w \in mark'
      BY <1>1, <3>1
    <3> QED BY <3>3, <3>4, <3>5, <3>6
  <2>2. CASE ~Unmarked(w)
    <3>1. mark' = mark /\ stack' = stack /\ overflow' = overflow
      BY <2>2 DEF Child
    <3>2. w # 0 => w \in mark
      BY <1>1, <1>4, <2>2 DEF Unmarked, Words
    <3>3. /\ stack \in Seq(Objects) /\ Len(stack) <= StackSize /\ overflow \in BOOLEAN
      BY <1>0 DEF TypeOK
    <3>4. \A i \in 1..Len(stack) : stack[i] \in mark
      BY <1>0 DEF Position, Marking
    <3> QED BY <1>1, <3>1, <3>2, <3>3, <3>4
  <2> QED BY <2>1, <2>2
<1>6. TypeOK'
  <2>1. {root', scan', word'} \subseteq Nat \ {0}
    BY <1>0, <1>1 DEF TypeOK
  <2> QED BY <1>0, <1>5, <2>1 DEF TypeOK
<1>7. Position'
  BY <1>0, <1>5 DEF Position, Marking
<1>8. RootsMarked'
  BY <1>0, <1>5 DEF RootsMarked, Marking
<1>9. Sound'
  <2> SUFFICES ASSUME NEW S \in SUBSET Objects, HasRoots(S)', Closed(S)'
               PROVE  mark' \subseteq S
    BY DEF Sound
  <2>1. HasRoots(S) /\ Closed(S)
    BY <1>0 DEF HasRoots, Closed, Complete
  <2>2. mark \subseteq S
    BY <1>0, <2>1 DEF Sound, Marking
  <2>3. w # 0 => w \in S
    BY <1>1, <1>3, <2>1, <2>2 DEF Closed, Complete
  <2>4. w \in mark' => w # 0
    BY <1>5, GcMarkAssumption DEF Objects
  <2> QED BY <1>5, <2>2, <2>3, <2>4
<1>10. Frontier'
  <2> SUFFICES ASSUME NEW obj \in mark' PROVE Accounted(obj)'
    BY DEF Frontier
  <2>1. CASE obj \notin mark
    BY <1>5, <2>1 DEF Accounted, Stacked
  <2>2. CASE obj \in mark
    <3>1. Accounted(obj)
      BY <1>0, <2>2 DEF Frontier, Marking
    <3>2. CASE Complete(obj, mark)
      BY <1>0, <1>5, <3>2 DEF Accounted, Complete
    <3>3. CASE overflow
      BY <1>5, <3>3 DEF Accounted
    <3>4. CASE Stacked(obj)
      BY <1>5, <3>4 DEF Accounted, Stacked
    <3>5. CASE PartlyDone(obj)
      <4>1. obj = block /\ pc' = "children" /\ obj = block'
        BY <1>0, <3>5 DEF PartlyDone
      <4>2. ASSUME NEW i \in 1..Len(words[obj]), i < word + 1, words[obj][i] # 0
            PROVE  words[obj][i] \in mark'
        <5>1. CASE i = word
          BY <1>5, <4>1, <4>2, <5>1
        <5>2. CASE i < word
          BY <1>5, <3>5, <4>2, <5>2 DEF PartlyDone
        <5> QED BY <1>1, <1>2, <4>1, <4>2, <5>1, <5>2
      <4>3. PartlyDone(obj)'
        BY <1>0, <4>1, <4>2 DEF PartlyDone
      <4> QED BY <4>3 DEF Accounted
    <3>6. CASE Ahead(obj)
      BY <1>0, <3>6 DEF Accounted, Ahead
    <3> QED BY <3>1, <3>2, <3>3, <3>4, <3>5, <3>6 DEF Accounted
  <2> QED BY <2>1, <2>2
<1>11. Finished'
  BY <1>0 DEF Finished, NothingInUseFreed, NoGarbageKept
<1> QED BY <1>6, <1>7, <1>8, <1>9, <1>10, <1>11 DEF IInv

(* Taking the next object off the stack keeps the invariant: the one that  *)
(* was in hand is complete, the other is in hand now.                      *)
LEMMA PopIInv == IInv /\ Pop => IInv'
<1> SUFFICES ASSUME IInv, Pop PROVE IInv'
  OBVIOUS
<1>0. /\ TypeOK /\ Position /\ RootsMarked /\ Sound /\ Frontier
      /\ pc = "children" /\ word > Len(words[block]) /\ word' = 1 /\ stack # <<>>
      /\ block' = stack[Len(stack)] /\ stack' = SubSeq(stack, 1, Len(stack) - 1)
      /\ UNCHANGED <<words, roots, heads, mark, overflow, root, scan, caller, pc>>
  BY DEF IInv, Pop, data
<1>1. /\ block \in Objects /\ word \in Nat \ {0} /\ Len(words[block]) \in Nat
      /\ \A i \in 1..Len(stack) : stack[i] \in mark
  BY <1>0 DEF TypeOK, Position, Marking
<1>2. stack \in Seq(Objects) /\ Len(stack) \in Nat /\ Len(stack) <= StackSize
  BY <1>0 DEF TypeOK
<1>3. Len(stack) \in 1..Len(stack)
  BY <1>0, <1>2, EmptySeq
<1>4. /\ stack' \in Seq(Objects) /\ Len(stack') = Len(stack) - 1
      /\ \A i \in 1..Len(stack) - 1 : stack'[i] = stack[i]
  <2>1. \A i \in 1..Len(stack) - 1 : stack[i] \in Objects
    BY <1>2
  <2>2. Len(stack) - 1 \in Int
    BY <1>2
  <2>3. /\ SubSeq(stack, 1, Len(stack) - 1) \in Seq(Objects)
        /\ Len(SubSeq(stack, 1, Len(stack) - 1)) =
                IF 1 <= Len(stack) - 1 THEN Len(stack) - 1 - 1 + 1 ELSE 0
        /\ \A i \in 1..Len(stack) - 1 - 1 + 1 :
                SubSeq(stack, 1, Len(stack) - 1)[i] = stack[1 + i - 1]
    BY <2>1, <2>2, SubSeqProperties
  <2> DEFINE t == SubSeq(stack, 1, Len(stack) - 1)
  <2> HIDE DEF t
  <2>4. stack' = t
    BY <1>0 DEF t
  <2>5. t \in Seq(Objects)
    BY <2>3 DEF t
  <2>6. Len(t) = IF 1 <= Len(stack) - 1 THEN Len(stack) - 1 - 1 + 1 ELSE 0
    BY <2>3 DEF t
  <2>7. \A i \in 1..Len(stack) - 1 - 1 + 1 : t[i] = stack[1 + i - 1]
    BY <2>3 DEF t
  <2>8. Len(t) = Len(stack) - 1
    <3> DEFINE k == Len(stack)
    <3>1. k \in Nat /\ k >= 1
      BY <1>2, <1>3
    <3>2. CASE 1 <= k - 1
      <4>1. Len(t) = k - 1 - 1 + 1
        BY <2>6, <3>2
      <4> HIDE DEF k
      <4>2. k - 1 - 1 + 1 = k - 1
        BY <3>1
      <4> QED BY <4>1, <4>2 DEF k
    <3>3. CASE ~(1 <= k - 1)
      <4>1. Len(t) = 0
        BY <2>6, <3>3
      <4> HIDE DEF k
      <4>2. k - 1 = 0
        BY <3>1, <3>3
      <4> QED BY <4>1, <4>2 DEF k
    <3> QED BY <3>2, <3>3
  <2>9. \A i \in 1..Len(stack) - 1 : t[i] = stack[i]
    BY <1>2, <2>7
  <2> QED BY <2>4, <2>5, <2>8, <2>9
<1>5. block' \in mark /\ block' \in Objects
  BY <1>0, <1>1, <1>2, <1>3
<1>6. TypeOK'
  <2>1. Len(stack') <= StackSize
    BY <1>2, <1>4, GcMarkAssumption
  <2>2. {root', scan', word'} \subseteq Nat \ {0}
    BY <1>0 DEF TypeOK
  <2>3. overflow' \in BOOLEAN
    BY <1>0 DEF TypeOK
  <2>4. block' \in Words
    BY <1>5 DEF Words
  <2> QED BY <1>0, <1>4, <2>1, <2>2, <2>3, <2>4 DEF TypeOK
<1>7. Position'
  <2>1. \A i \in 1..Len(stack') : stack'[i] \in mark'
    BY <1>0, <1>1, <1>2, <1>4
  <2> QED BY <1>0, <1>5, <2>1 DEF Position, Marking
<1>8. RootsMarked'
  BY <1>0 DEF RootsMarked, Marking
<1>9. Sound'
  BY <1>0 DEF Sound, Marking, HasRoots, Closed, Complete
<1>10. Frontier'
  <2> SUFFICES ASSUME NEW obj \in mark PROVE Accounted(obj)'
    BY <1>0 DEF Frontier
  <2>1. Accounted(obj)
    BY <1>0 DEF Frontier, Marking
  <2>2. CASE Complete(obj, mark) \/ overflow
    BY <1>0, <2>2 DEF Accounted, Complete
  <2>3. CASE PartlyDone(obj)
    <3>1. Complete(obj, mark)
      BY <1>0, <1>1, <2>3 DEF PartlyDone, Complete
    <3> QED BY <1>0, <3>1 DEF Accounted, Complete
  <2>4. CASE Stacked(obj)
    <3>1. PICK i \in 1..Len(stack) : stack[i] = obj
      BY <2>4 DEF Stacked
    <3>2. CASE i = Len(stack)
      <4>1. PartlyDone(obj)'
        BY <1>0, <3>1, <3>2 DEF PartlyDone
      <4> QED BY <4>1 DEF Accounted
    <3>3. CASE i # Len(stack)
      <4>1. i \in 1..Len(stack') /\ stack'[i] = obj
        BY <1>2, <1>4, <3>1, <3>3
      <4> QED BY <4>1 DEF Accounted, Stacked
    <3> QED BY <3>2, <3>3
  <2>5. CASE Ahead(obj)
    BY <1>0, <2>5 DEF Accounted, Ahead
  <2> QED BY <2>1, <2>2, <2>3, <2>4, <2>5 DEF Accounted
<1>11. Finished'
  BY <1>0 DEF Finished, NothingInUseFreed, NoGarbageKept
<1> QED BY <1>6, <1>7, <1>8, <1>9, <1>10, <1>11 DEF IInv

(* The return of gc_mark_subtree() keeps the invariant. *)
LEMMA SubtreeReturnIInv == IInv /\ SubtreeReturn => IInv'
<1> SUFFICES ASSUME IInv, SubtreeReturn PROVE IInv'
  OBVIOUS
<1>0. /\ TypeOK /\ Position /\ RootsMarked /\ Sound /\ Frontier
      /\ pc = "children" /\ word > Len(words[block]) /\ stack = <<>>
      /\ pc' = caller
      /\ root' = IF caller = "roots" THEN root + 1 ELSE root
      /\ scan' = IF caller = "scan" THEN scan + 1 ELSE scan
      /\ UNCHANGED <<words, roots, heads, mark, stack, overflow, block, word, caller>>
  BY DEF IInv, SubtreeReturn, data
<1>1. /\ block \in Objects /\ word \in Nat \ {0} /\ Len(words[block]) \in Nat
      /\ root \in Nat \ {0} /\ scan \in Nat \ {0} /\ mark \subseteq Objects
      /\ caller \in {"roots", "scan"}
  BY <1>0 DEF TypeOK, Position, Marking
<1>2. {root', scan', word'} \subseteq Nat \ {0}
  BY <1>0, <1>1
<1>3. TypeOK'
  <2>1. overflow' \in BOOLEAN
    BY <1>0 DEF TypeOK
  <2>2. pc' \in PCs
    BY <1>0, <1>1 DEF PCs
  <2> QED BY <1>0, <1>2, <2>1, <2>2 DEF TypeOK
<1>4. Position'
  BY <1>0, <1>1 DEF Position, Marking
<1>5. RootsMarked'
  <2>1. CASE caller = "roots"
    <3>1. pc' = "roots" /\ root' = root + 1 /\ roots[root] \in mark
      BY <1>0, <2>1 DEF Position, Marking
    <3>2. ASSUME NEW i \in 1..Len(roots), i < root + 1, roots[i] # 0
          PROVE  roots[i] \in mark
      <4>1. CASE i = root
        BY <3>1, <4>1
      <4>2. CASE i < root
        BY <1>0, <3>2, <4>2 DEF RootsMarked, Marking
      <4> QED BY <1>1, <3>2, <4>1, <4>2
    <3> QED BY <1>0, <3>1, <3>2 DEF RootsMarked
  <2>2. CASE caller = "scan"
    BY <1>0, <2>2 DEF RootsMarked, Marking
  <2> QED BY <1>1, <2>1, <2>2
<1>6. Sound'
  BY <1>0 DEF Sound, Marking, HasRoots, Closed, Complete
<1>7. Frontier'
  <2> SUFFICES ASSUME NEW obj \in mark PROVE Accounted(obj)'
    BY <1>0 DEF Frontier
  <2>1. Accounted(obj)
    BY <1>0 DEF Frontier, Marking
  <2>2. CASE Complete(obj, mark) \/ overflow
    BY <1>0, <2>2 DEF Accounted, Complete
  <2>3. CASE PartlyDone(obj)
    <3>1. Complete(obj, mark)
      BY <1>0, <1>1, <2>3 DEF PartlyDone, Complete
    <3> QED BY <1>0, <3>1 DEF Accounted, Complete
  <2>4. CASE Stacked(obj)
    BY <1>0, <2>4 DEF Stacked
  <2>5. CASE Ahead(obj)
    <3>1. caller = "scan" /\ obj > scan /\ obj \in Int
      BY <1>0, <1>1, <2>5 DEF Ahead, Objects
    <3>2. Ahead(obj)'
      BY <1>0, <1>1, <3>1 DEF Ahead
    <3> QED BY <3>2 DEF Accounted
  <2> QED BY <2>1, <2>2, <2>3, <2>4, <2>5 DEF Accounted
<1>8. Finished'
  BY <1>0, <1>1 DEF Finished, NothingInUseFreed, NoGarbageKept
<1> QED BY <1>3, <1>4, <1>5, <1>6, <1>7, <1>8 DEF IInv

(* A root that is an unmarked object is marked and traced. *)
LEMMA RootIInv == IInv /\ Root => IInv'
<1> SUFFICES ASSUME IInv, Root PROVE IInv'
  OBVIOUS
<1>0. /\ TypeOK /\ Position /\ RootsMarked /\ Sound /\ Frontier
      /\ pc = "roots" /\ root <= Len(roots)
      /\ UNCHANGED <<words, roots, heads, overflow, scan>>
  BY DEF IInv, Root, data
<1>1. /\ heads = Objects /\ mark \subseteq Objects /\ stack = <<>>
      /\ root \in Nat \ {0} /\ scan \in Nat \ {0} /\ word \in Nat \ {0}
      /\ Len(roots) \in Nat /\ overflow \in BOOLEAN
  BY <1>0 DEF TypeOK, Position, Marking
<1>2. root \in 1..Len(roots)
  BY <1>0, <1>1
<1>3. roots[root] \in Words
  BY <1>0, <1>2, RootType
<1>4. CASE Unmarked(roots[root])
  <2> DEFINE o == roots[root]
  <2>1. /\ o \in Objects /\ mark' = mark \cup {o} /\ root' = root
        /\ block' = o /\ word' = 1 /\ caller' = "roots" /\ stack' = <<>> /\ pc' = "children"
    BY <1>1, <1>4 DEF Root, Subtree, Unmarked
  <2>2. TypeOK'
    <3>1. stack' \in Seq(Objects) /\ Len(stack') <= StackSize
      BY <1>0, <1>1, <2>1 DEF TypeOK
    <3>2. {root', scan', word'} \subseteq Nat \ {0} /\ block' \in Words
      BY <1>0, <1>1, <2>1 DEF Words
    <3>3. overflow' \in BOOLEAN
      BY <1>0, <1>1
    <3>4. mark' \subseteq Objects
      BY <1>1, <2>1
    <3> QED BY <1>0, <2>1, <3>1, <3>2, <3>3, <3>4 DEF TypeOK, PCs
  <2>3. Position'
    BY <1>0, <1>1, <2>1 DEF Position, Marking
  <2>4. RootsMarked'
    BY <1>0, <2>1 DEF RootsMarked, Marking
  <2>5. Sound'
    <3> SUFFICES ASSUME NEW S \in SUBSET Objects, HasRoots(S)', Closed(S)'
                 PROVE  mark' \subseteq S
      BY DEF Sound
    <3>1. HasRoots(S) /\ Closed(S)
      BY <1>0 DEF HasRoots, Closed, Complete
    <3>2. mark \subseteq S
      BY <1>0, <3>1 DEF Sound, Marking
    <3>3. o # 0
      BY <2>1 DEF Objects
    <3>4. o \in S
      BY <1>2, <3>1, <3>3 DEF HasRoots
    <3> QED BY <2>1, <3>2, <3>4
  <2>6. Frontier'
    <3> SUFFICES ASSUME NEW obj \in mark' PROVE Accounted(obj)'
      BY DEF Frontier
    <3>1. CASE obj = o
      <4>1. PartlyDone(obj)'
        BY <1>0, <2>1, <3>1 DEF PartlyDone
      <4> QED BY <4>1 DEF Accounted
    <3>2. CASE obj \in mark
      <4>1. Accounted(obj) /\ ~Stacked(obj) /\ ~PartlyDone(obj) /\ ~Ahead(obj)
        BY <1>0, <1>1, <3>2 DEF Frontier, Marking, Stacked, PartlyDone, Ahead
      <4>2. Complete(obj, mark) \/ overflow
        BY <4>1 DEF Accounted
      <4> QED BY <1>0, <2>1, <4>2 DEF Accounted, Complete
    <3> QED BY <2>1, <3>1, <3>2
  <2>7. Finished'
    BY <2>1 DEF Finished, NothingInUseFreed, NoGarbageKept
  <2> QED BY <2>2, <2>3, <2>4, <2>5, <2>6, <2>7 DEF IInv
<1>5. CASE ~Unmarked(roots[root])
  <2>1. root' = root + 1 /\ UNCHANGED <<mark, stack, block, word, caller, pc>>
    BY <1>5 DEF Root
  <2>2. roots[root] # 0 => roots[root] \in mark
    BY <1>1, <1>3, <1>5 DEF Unmarked, Words
  <2>3. TypeOK'
    <3>1. {root', scan', word'} \subseteq Nat \ {0}
      BY <1>0, <1>1, <2>1
    <3>2. overflow' \in BOOLEAN
      BY <1>0, <1>1
    <3> QED BY <1>0, <2>1, <3>1, <3>2 DEF TypeOK
  <2>4. Position'
    BY <1>0, <2>1 DEF Position, Marking
  <2>5. RootsMarked'
    <3>1. ASSUME NEW i \in 1..Len(roots), i < root + 1, roots[i] # 0
          PROVE  roots[i] \in mark
      <4>1. CASE i = root
        BY <2>2, <3>1, <4>1
      <4>2. CASE i < root
        BY <1>0, <3>1, <4>2 DEF RootsMarked, Marking
      <4> QED BY <1>1, <3>1, <4>1, <4>2
    <3> QED BY <1>0, <2>1, <3>1 DEF RootsMarked
  <2>6. Sound'
    BY <1>0, <2>1 DEF Sound, Marking, HasRoots, Closed, Complete
  <2>7. Frontier'
    BY <1>0, <2>1 DEF Frontier, Marking, Accounted, Complete, Stacked, PartlyDone, Ahead
  <2>8. Finished'
    BY <1>0, <2>1 DEF Finished, NothingInUseFreed, NoGarbageKept
  <2> QED BY <2>3, <2>4, <2>5, <2>6, <2>7, <2>8 DEF IInv
<1> QED BY <1>4, <1>5

(* The end of the roots keeps the invariant. *)
LEMMA RootsEndIInv == IInv /\ RootsEnd => IInv'
<1> SUFFICES ASSUME IInv, RootsEnd PROVE IInv'
  OBVIOUS
<1>0. /\ TypeOK /\ Position /\ RootsMarked /\ Sound /\ Frontier
      /\ pc = "roots" /\ root > Len(roots) /\ pc' = "overflow"
      /\ UNCHANGED <<words, roots, heads, mark, stack, overflow, root, scan, block, word, caller>>
  BY DEF IInv, RootsEnd, data, loops
<1>1. TypeOK'
  <2>1. overflow' \in BOOLEAN /\ {root', scan', word'} \subseteq Nat \ {0}
    BY <1>0 DEF TypeOK
  <2> QED BY <1>0, <2>1 DEF TypeOK, PCs
<1>2. Position'
  BY <1>0 DEF Position, Marking
<1>3. RootsMarked'
  BY <1>0 DEF RootsMarked, Marking
<1>4. Sound'
  BY <1>0 DEF Sound, Marking, HasRoots, Closed, Complete
<1>5. Frontier'
  BY <1>0 DEF Frontier, Marking, Accounted, Complete, Stacked, PartlyDone, Ahead
<1>6. Finished'
  BY <1>0 DEF Finished, NothingInUseFreed, NoGarbageKept
<1> QED BY <1>1, <1>2, <1>3, <1>4, <1>5, <1>6 DEF IInv

(* Starting a rescan, or going on to the sweep, keeps the invariant. *)
LEMMA OverflowTestIInv == IInv /\ OverflowTest => IInv'
<1> SUFFICES ASSUME IInv, OverflowTest PROVE IInv'
  OBVIOUS
<1>0. /\ TypeOK /\ Position /\ RootsMarked /\ Sound /\ Frontier
      /\ pc = "overflow"
      /\ UNCHANGED <<words, roots, heads, mark, stack, root, block, word, caller>>
  BY DEF IInv, OverflowTest, data
<1>1. /\ mark \subseteq Objects /\ overflow \in BOOLEAN /\ {root, scan, word} \subseteq Nat \ {0}
      /\ stack = <<>>
  BY <1>0 DEF TypeOK, Position, Marking
<1>2. \/ overflow /\ overflow' = FALSE /\ pc' = "scan" /\ scan' = 1
      \/ ~overflow /\ overflow' = overflow /\ pc' = "sweep" /\ scan' = scan
  BY DEF OverflowTest
<1>3. overflow' \in BOOLEAN
  BY <1>1, <1>2
<1>4. TypeOK'
  <2>1. {root', scan', word'} \subseteq Nat \ {0}
    BY <1>0, <1>1, <1>2
  <2>2. pc' \in PCs
    BY <1>2 DEF PCs
  <2> QED BY <1>0, <1>3, <2>1, <2>2 DEF TypeOK
<1>5. pc' \in {"scan", "sweep"}
  BY <1>2
<1>6. Position'
  <2>1. pc' = "sweep" => ~overflow'
    BY <1>2
  <2> QED BY <1>0, <1>5, <2>1 DEF Position, Marking
<1>7. RootsMarked'
  BY <1>0, <1>5 DEF RootsMarked, Marking
<1>8. Sound'
  BY <1>0 DEF Sound, Marking, HasRoots, Closed, Complete
<1>9. Frontier'
  <2> SUFFICES ASSUME NEW obj \in mark PROVE Accounted(obj)'
    BY <1>0 DEF Frontier
  <2>1. CASE overflow
    <3>1. pc' = "scan" /\ scan' = 1 /\ obj >= 1
      BY <1>1, <1>2, <2>1 DEF Objects
    <3> QED BY <3>1 DEF Accounted, Ahead
  <2>2. CASE ~overflow
    <3>1. Accounted(obj) /\ ~Stacked(obj) /\ ~PartlyDone(obj) /\ ~Ahead(obj)
      BY <1>0, <1>1 DEF Frontier, Marking, Stacked, PartlyDone, Ahead
    <3>2. Complete(obj, mark)
      BY <2>2, <3>1 DEF Accounted
    <3> QED BY <1>0, <3>2 DEF Accounted, Complete
  <2> QED BY <2>1, <2>2
<1>10. Finished'
  BY <1>5 DEF Finished, NothingInUseFreed, NoGarbageKept
<1> QED BY <1>4, <1>6, <1>7, <1>8, <1>9, <1>10 DEF IInv

(* A step of the rescan keeps the invariant: a marked object is traced     *)
(* again, an unmarked one is passed.                                       *)
LEMMA ScanIInv == IInv /\ Scan => IInv'
<1> SUFFICES ASSUME IInv, Scan PROVE IInv'
  OBVIOUS
<1>0. /\ TypeOK /\ Position /\ RootsMarked /\ Sound /\ Frontier
      /\ pc = "scan" /\ scan <= Count
      /\ UNCHANGED <<words, roots, heads, mark, overflow, root>>
  BY DEF IInv, Scan, data
<1>1. /\ mark \subseteq Objects /\ overflow \in BOOLEAN
      /\ root \in Nat \ {0} /\ scan \in Nat \ {0} /\ word \in Nat \ {0}
      /\ stack = <<>> /\ root > Len(roots)
  BY <1>0 DEF TypeOK, Position, RootsMarked, Marking
<1>2. ASSUME NEW obj \in mark
      PROVE  Complete(obj, mark) \/ overflow \/ obj >= scan
  <2>1. Accounted(obj) /\ ~Stacked(obj) /\ ~PartlyDone(obj)
    BY <1>0, <1>1 DEF Frontier, Marking, Stacked, PartlyDone
  <2> QED BY <1>0, <2>1 DEF Accounted, Ahead
<1>3. CASE scan \in mark
  <2>1. /\ block' = scan /\ word' = 1 /\ caller' = "scan" /\ stack' = <<>>
        /\ pc' = "children" /\ scan' = scan
    BY <1>3 DEF Scan, Subtree
  <2>2. TypeOK'
    <3>1. stack' \in Seq(Objects) /\ Len(stack') <= StackSize
      BY <1>0, <1>1, <2>1 DEF TypeOK
    <3>2. {root', scan', word'} \subseteq Nat \ {0} /\ block' \in Words
      BY <1>0, <1>1, <1>3, <2>1 DEF Words
    <3>3. overflow' \in BOOLEAN
      BY <1>0, <1>1
    <3> QED BY <1>0, <2>1, <3>1, <3>2, <3>3 DEF TypeOK, PCs
  <2>3. Position'
    BY <1>0, <1>1, <1>3, <2>1 DEF Position, Marking
  <2>4. RootsMarked'
    BY <1>0, <1>1, <2>1 DEF RootsMarked, Marking
  <2>5. Sound'
    BY <1>0 DEF Sound, Marking, HasRoots, Closed, Complete
  <2>6. Frontier'
    <3> SUFFICES ASSUME NEW obj \in mark PROVE Accounted(obj)'
      BY <1>0 DEF Frontier
    <3>1. CASE Complete(obj, mark) \/ overflow
      BY <1>0, <3>1 DEF Accounted, Complete
    <3>2. CASE obj = scan
      <4>1. PartlyDone(obj)'
        BY <1>0, <2>1, <3>2 DEF PartlyDone
      <4> QED BY <4>1 DEF Accounted
    <3>3. CASE obj > scan
      BY <2>1, <3>3 DEF Accounted, Ahead
    <3>4. obj \in Int
      BY <1>1 DEF Objects
    <3> QED BY <1>1, <1>2, <3>1, <3>2, <3>3, <3>4
  <2>7. Finished'
    BY <2>1 DEF Finished, NothingInUseFreed, NoGarbageKept
  <2> QED BY <2>2, <2>3, <2>4, <2>5, <2>6, <2>7 DEF IInv
<1>4. CASE scan \notin mark
  <2>1. scan' = scan + 1 /\ UNCHANGED <<stack, block, word, caller, pc>>
    BY <1>4 DEF Scan
  <2>2. TypeOK'
    <3>1. {root', scan', word'} \subseteq Nat \ {0}
      BY <1>0, <1>1, <2>1
    <3>2. overflow' \in BOOLEAN
      BY <1>0, <1>1
    <3> QED BY <1>0, <2>1, <3>1, <3>2 DEF TypeOK
  <2>3. Position'
    BY <1>0, <2>1 DEF Position, Marking
  <2>4. RootsMarked'
    BY <1>0, <2>1 DEF RootsMarked, Marking
  <2>5. Sound'
    BY <1>0, <2>1 DEF Sound, Marking, HasRoots, Closed, Complete
  <2>6. Frontier'
    <3> SUFFICES ASSUME NEW obj \in mark PROVE Accounted(obj)'
      BY <1>0 DEF Frontier
    <3>1. obj \in Int /\ obj # scan
      BY <1>1, <1>4 DEF Objects
    <3>2. CASE Complete(obj, mark) \/ overflow
      BY <1>0, <3>2 DEF Accounted, Complete
    <3>3. CASE obj >= scan
      <4>1. obj >= scan'
        BY <1>1, <2>1, <3>1, <3>3
      <4> QED BY <1>0, <2>1, <4>1 DEF Accounted, Ahead
    <3> QED BY <1>2, <3>2, <3>3
  <2>7. Finished'
    BY <1>0, <2>1 DEF Finished, NothingInUseFreed, NoGarbageKept
  <2> QED BY <2>2, <2>3, <2>4, <2>5, <2>6, <2>7 DEF IInv
<1> QED BY <1>3, <1>4

(* At the end of a rescan no marked object is ahead of it. *)
LEMMA ScanEndIInv == IInv /\ ScanEnd => IInv'
<1> SUFFICES ASSUME IInv, ScanEnd PROVE IInv'
  OBVIOUS
<1>0. /\ TypeOK /\ Position /\ RootsMarked /\ Sound /\ Frontier
      /\ pc = "scan" /\ scan > Count /\ pc' = "overflow"
      /\ UNCHANGED <<words, roots, heads, mark, stack, overflow, root, scan, block, word, caller>>
  BY DEF IInv, ScanEnd, data, loops
<1>1. TypeOK'
  <2>1. overflow' \in BOOLEAN /\ {root', scan', word'} \subseteq Nat \ {0}
    BY <1>0 DEF TypeOK
  <2> QED BY <1>0, <2>1 DEF TypeOK, PCs
<1>2. Position'
  BY <1>0 DEF Position, Marking
<1>3. RootsMarked'
  BY <1>0 DEF RootsMarked, Marking
<1>4. Sound'
  BY <1>0 DEF Sound, Marking, HasRoots, Closed, Complete
<1>5. Frontier'
  <2> SUFFICES ASSUME NEW obj \in mark PROVE Accounted(obj)'
    BY <1>0 DEF Frontier
  <2>1. scan \in Nat /\ obj \in Objects
    BY <1>0 DEF TypeOK
  <2>2. ~Ahead(obj)
    BY <1>0, <2>1, GcMarkAssumption DEF Ahead, Objects
  <2>3. Accounted(obj) /\ ~PartlyDone(obj)
    BY <1>0 DEF Frontier, Marking, PartlyDone
  <2>4. Complete(obj, mark) \/ overflow \/ Stacked(obj)
    BY <2>2, <2>3 DEF Accounted
  <2> QED BY <1>0, <2>4 DEF Accounted, Complete, Stacked
<1>6. Finished'
  BY <1>0 DEF Finished, NothingInUseFreed, NoGarbageKept
<1> QED BY <1>1, <1>2, <1>3, <1>4, <1>5, <1>6 DEF IInv

(* The sweep comes when every marked object is complete: what it leaves is *)
(* exactly what is in use.                                                 *)
LEMMA SweepIInv == IInv /\ Sweep => IInv'
<1> SUFFICES ASSUME IInv, Sweep PROVE IInv'
  OBVIOUS
<1>0. /\ TypeOK /\ Position /\ RootsMarked /\ Sound /\ Frontier
      /\ pc = "sweep" /\ heads' = mark /\ mark' = {} /\ pc' = "done"
      /\ UNCHANGED <<words, roots, stack, overflow, root, scan, block, word, caller>>
  BY DEF IInv, Sweep, data, loops
<1>1. TypeOK'
  <2>1. overflow' \in BOOLEAN /\ {root', scan', word'} \subseteq Nat \ {0}
    BY <1>0 DEF TypeOK
  <2> QED BY <1>0, <2>1 DEF TypeOK, PCs
<1>2. Closed(mark)
  <2> SUFFICES ASSUME NEW obj \in mark PROVE Complete(obj, mark)
    BY DEF Closed
  <2>1. stack = <<>> /\ ~overflow
    BY <1>0 DEF Position, Marking
  <2>2. Accounted(obj) /\ ~Stacked(obj) /\ ~PartlyDone(obj) /\ ~Ahead(obj)
    BY <1>0, <2>1 DEF Frontier, Marking, Stacked, PartlyDone, Ahead
  <2> QED BY <2>1, <2>2 DEF Accounted
<1>3. HasRoots(mark)
  <2>1. root \in Nat /\ root > Len(roots) /\ Len(roots) \in Nat
    BY <1>0 DEF RootsMarked, Marking, TypeOK
  <2> QED BY <1>0, <2>1 DEF RootsMarked, Marking, HasRoots
<1>4. NothingInUseFreed'
  BY <1>0, <1>2, <1>3 DEF NothingInUseFreed, HasRoots, Closed, Complete
<1>5. NoGarbageKept'
  BY <1>0 DEF NoGarbageKept, Sound, Marking, HasRoots, Closed, Complete
<1> QED BY <1>0, <1>1, <1>4, <1>5
        DEF IInv, Position, RootsMarked, Sound, Frontier, Marking, Finished

(* Every step of a collection keeps the invariant. *)
LEMMA NextIInv == IInv /\ [Next]_vars => IInv'
<1>1. IInv /\ UNCHANGED vars => IInv'
  <2> SUFFICES ASSUME IInv, UNCHANGED vars PROVE IInv'
    OBVIOUS
  <2>0. UNCHANGED <<words, roots, heads, mark, stack, overflow, root, scan, block, word, caller, pc>>
    BY DEF vars, data, loops
  <2>1. TypeOK' /\ Position' /\ RootsMarked'
    BY <2>0 DEF IInv, TypeOK, Position, RootsMarked, Marking
  <2>2. Sound'
    BY <2>0 DEF IInv, Sound, Marking, HasRoots, Closed, Complete
  <2>3. Frontier'
    BY <2>0 DEF IInv, Frontier, Marking, Accounted, Complete, Stacked, PartlyDone, Ahead
  <2>4. Finished'
    BY <2>0 DEF IInv, Finished, NothingInUseFreed, NoGarbageKept, HasRoots, Closed, Complete
  <2> QED BY <2>1, <2>2, <2>3, <2>4 DEF IInv
<1> QED
  BY <1>1, ChildIInv, PopIInv, SubtreeReturnIInv, RootIInv, RootsEndIInv,
     OverflowTestIInv, ScanIInv, ScanEndIInv, SweepIInv DEF Next

(* The variables keep their types; the mark stack never grows past its     *)
(* end.                                                                    *)
THEOREM TypeSafety == Spec => []TypeOK
<1>1. IInv => TypeOK
  BY DEF IInv
<1> QED BY <1>1, InitIInv, NextIInv, PTL DEF Spec

(* gc_collect() frees nothing that is in use, for every heap, any roots    *)
(* and any size of the mark stack.                                         *)
THEOREM MarkingSafe == Spec => []NothingInUseFreed
<1>1. IInv => NothingInUseFreed
  BY DEF IInv, Finished
<1> QED BY <1>1, InitIInv, NextIInv, PTL DEF Spec

(* gc_collect() keeps only what is in use, however often it rescans.       *)
THEOREM MarkingExact == Spec => []NoGarbageKept
<1>1. IInv => NoGarbageKept
  BY DEF IInv, Finished
<1> QED BY <1>1, InitIInv, NextIInv, PTL DEF Spec
==============================================================================
