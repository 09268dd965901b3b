------------------------------- MODULE GcMark --------------------------------
(***************************************************************************)
(* The mark phase of the garbage collector (py/gc.c), as gc_collect() of   *)
(* ports/sh/main.c runs it: from the root pointers, the registers and the  *)
(* C stack, with an explicit stack of bounded size. When that is full, an  *)
(* object is marked and its children are not, and the whole heap is        *)
(* scanned again for such objects, as often as it takes.                   *)
(*                                                                         *)
(* An object is named by the rank of its head block in the order in which  *)
(* the areas of the heap are scanned. Its words are the words of its chain *)
(* of blocks; a word that is not the address of a head block (other data,  *)
(* a pointer into the middle of an object) is 0. The chains themselves are *)
(* the subject of GcHeap.                                                  *)
(***************************************************************************)
EXTENDS Integers, Sequences

CONSTANTS
    Count,          \* number of objects in the heap
    StackSize,      \* MICROPY_ALLOC_GC_STACK_SIZE
    Heaps,          \* contents of the heap: object -> its words
    RootLists       \* words of the root section, the registers and the stack

Objects == 1..Count
Words == Objects \cup {0}

ASSUME GcMarkAssumption ==
    /\ Count \in Nat
    /\ StackSize \in Nat
    /\ Heaps \subseteq [Objects -> Seq(Words)]
    /\ RootLists \subseteq Seq(Words)

VARIABLES
    words,          \* contents of the objects, not changed by a collection
    roots,          \* the root words, likewise
    heads,          \* allocated objects: AT_HEAD or AT_MARK
    mark,           \* objects whose head is AT_MARK
    stack,          \* gc_block_stack (with gc_area_stack) up to sp
    overflow,       \* gc_stack_overflow
    root,           \* position in gc_collect_root()
    scan,           \* position in gc_deal_with_stack_overflow()
    block, word,    \* object and position in gc_mark_subtree()
    caller,         \* who called gc_mark_subtree()
    pc

data == <<words, roots>>
loops == <<root, scan, block, word, caller>>
vars == <<data, heads, mark, stack, overflow, loops, pc>>

PCs == {"roots", "children", "overflow", "scan", "sweep", "done"}

(* gc_collect_start() up to its loop. No head is marked between            *)
(* collections.                                                            *)
Init ==
    /\ words \in Heaps
    /\ roots \in RootLists
    /\ heads = Objects
    /\ mark = {}
    /\ stack = <<>>
    /\ overflow = FALSE
    /\ root = 1 /\ scan = 1
    /\ block = 0 /\ word = 1 /\ caller = "roots"
    /\ pc = "roots"

Unmarked(w) == w \in heads \ mark

-----------------------------------------------------------------------------
(* gc_mark_subtree() *)

Subtree(obj, from) ==
    /\ block' = obj /\ word' = 1 /\ caller' = from
    /\ stack' = <<>>
    /\ pc' = "children"

Push(obj) ==
    IF Len(stack) < StackSize
    THEN stack' = Append(stack, obj) /\ UNCHANGED overflow
    ELSE overflow' = TRUE /\ UNCHANGED stack

(* A word of the object: an unmarked head is marked and pushed *)
Child ==
    /\ pc = "children" /\ word <= Len(words[block])
    /\ LET w == words[block][word]
       IN  IF Unmarked(w)
           THEN mark' = mark \cup {w} /\ Push(w)
           ELSE UNCHANGED <<mark, stack, overflow>>
    /\ word' = word + 1
    /\ UNCHANGED <<data, heads, root, scan, block, caller, pc>>

Pop ==
    /\ pc = "children" /\ word > Len(words[block])
    /\ stack # <<>>
    /\ block' = stack[Len(stack)]
    /\ stack' = SubSeq(stack, 1, Len(stack) - 1)
    /\ word' = 1
    /\ UNCHANGED <<data, heads, mark, overflow, root, scan, caller, pc>>

SubtreeReturn ==
    /\ pc = "children" /\ word > Len(words[block])
    /\ stack = <<>>
    /\ pc' = caller
    /\ root' = IF caller = "roots" THEN root + 1 ELSE root
    /\ scan' = IF caller = "scan" THEN scan + 1 ELSE scan
    /\ UNCHANGED <<data, heads, mark, stack, overflow, block, word, caller>>

-----------------------------------------------------------------------------
(* gc_collect_root(): an unmarked head is marked and traced *)

Root ==
    /\ pc = "roots" /\ root <= Len(roots)
    /\ IF Unmarked(roots[root])
       THEN /\ mark' = mark \cup {roots[root]}
            /\ Subtree(roots[root], "roots")
            /\ UNCHANGED root
       ELSE root' = root + 1 /\ UNCHANGED <<mark, stack, block, word, caller, pc>>
    /\ UNCHANGED <<data, heads, overflow, scan>>

RootsEnd ==
    /\ pc = "roots" /\ root > Len(roots)
    /\ pc' = "overflow"
    /\ UNCHANGED <<data, heads, mark, stack, overflow, loops>>

-----------------------------------------------------------------------------
(* gc_deal_with_stack_overflow() *)

mut_OverflowSticky ==
    /\ pc = "overflow"
    /\ IF overflow
       THEN pc' = "scan" /\ scan' = 1
       ELSE pc' = "sweep" /\ UNCHANGED scan
    /\ UNCHANGED <<data, heads, mark, stack, overflow, root, block, word, caller>>

OverflowTest ==
    /\ pc = "overflow"
    /\ IF overflow
       THEN overflow' = FALSE /\ pc' = "scan" /\ scan' = 1
       ELSE pc' = "sweep" /\ UNCHANGED <<overflow, scan>>
    /\ UNCHANGED <<data, heads, mark, stack, root, block, word, caller>>

mut_ScanUnmarked ==
    /\ pc = "scan" /\ scan <= Count
    /\ Subtree(scan, "scan")
    /\ UNCHANGED <<data, heads, mark, overflow, root, scan>>

Scan ==
    /\ pc = "scan" /\ scan <= Count
    /\ IF scan \in mark
       THEN Subtree(scan, "scan") /\ UNCHANGED scan
       ELSE scan' = scan + 1 /\ UNCHANGED <<stack, block, word, caller, pc>>
    /\ UNCHANGED <<data, heads, mark, overflow, root>>

mut_ScanEndToSweep ==
    /\ pc = "scan" /\ scan > Count
    /\ pc' = "sweep"
    /\ UNCHANGED <<data, heads, mark, stack, overflow, loops>>

ScanEnd ==
    /\ pc = "scan" /\ scan > Count
    /\ pc' = "overflow"
    /\ UNCHANGED <<data, heads, mark, stack, overflow, loops>>

-----------------------------------------------------------------------------

(* gc_sweep(): unmarked heads are freed, marked ones are heads again. How  *)
(* it goes through the allocation table is in GcHeap.                      *)
Sweep ==
    /\ pc = "sweep"
    /\ heads' = mark
    /\ mark' = {}
    /\ pc' = "done"
    /\ UNCHANGED <<data, stack, overflow, loops>>

Next ==
    \/ Child \/ Pop \/ SubtreeReturn
    \/ Root \/ RootsEnd
    \/ OverflowTest \/ Scan \/ ScanEnd
    \/ Sweep

(* The collector runs to its end. *)
Spec == Init /\ [][Next]_vars /\ WF_vars(Next)

-----------------------------------------------------------------------------

(* Types of the variables. *)
TypeOK ==
    /\ words \in [Objects -> Seq(Words)]
    /\ roots \in Seq(Words)
    /\ heads \subseteq Objects /\ mark \subseteq Objects
    /\ stack \in Seq(Objects) /\ Len(stack) <= StackSize
    /\ overflow \in BOOLEAN
    /\ {root, scan, word} \subseteq Nat \ {0}
    /\ block \in Words
    /\ caller \in {"roots", "scan"}
    /\ pc \in PCs

HasRoots(S) == \A i \in 1..Len(roots) : roots[i] # 0 => roots[i] \in S

Complete(obj, S) == \A i \in 1..Len(words[obj]) : words[obj][i] # 0 => words[obj][i] \in S

Closed(S) == \A obj \in S : Complete(obj, S)

(* Nothing in use is freed: after the sweep the roots and the objects that *)
(* are left point to objects that are left, however often the mark stack   *)
(* overflowed and whatever the order of addresses.                         *)
NothingInUseFreed == pc = "done" => HasRoots(heads) /\ Closed(heads)

(* Only what is in use is kept: whatever set of objects contains the roots *)
(* and is closed under pointers contains the objects left by the sweep.    *)
NoGarbageKept ==
    pc = "done" => \A S \in SUBSET Objects : HasRoots(S) /\ Closed(S) => heads \subseteq S

(* The rescans end, though each may overflow the stack again: every one    *)
(* that does has marked more objects.                                      *)
CollectionEnds == <>(pc = "done")
==============================================================================
