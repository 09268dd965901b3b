------------------------------- MODULE GcHeap --------------------------------
(***************************************************************************)
(* The heap of MicroPython (py/gc.c): areas of blocks, an allocation table *)
(* with the kind of each block, and the hints that keep the searches and   *)
(* the sweep short: the area and the table byte where the next search      *)
(* starts, and the last block a sweep has to look at.                      *)
(*                                                                         *)
(* An object is a chain of blocks, a head and its tails, named by its      *)
(* area and its first block. The objects that the program can reach, with  *)
(* the lengths it has asked for, are kept beside the heap; the mark phase, *)
(* which finds them, is the subject of GcMark and is one step here.        *)
(***************************************************************************)
EXTENDS Integers, FiniteSets, FiniteSetsExt

CONSTANTS
    Areas,              \* number of areas: gc_init() and the calls of gc_add()
    ByteLen,            \* gc_alloc_table_byte_len of each area
    BlocksPerATB,       \* BLOCKS_PER_ATB
    MaxBlocks,          \* bound on the size of a request, in blocks
    LockDepths          \* range of gc_lock_depth, which wraps

AreaSet == 1..Areas
Blocks(a) == ByteLen[a] * BlocksPerATB
BlockSet(a) == 0..Blocks(a) - 1
Kinds == {"free", "head", "tail", "mark"}
Addresses == UNION {{a} \X BlockSet(a) : a \in AreaSet}

ASSUME GcHeapAssumption ==
    /\ Areas \in Nat \ {0}
    /\ ByteLen \in [AreaSet -> Nat \ {0}]
    /\ BlocksPerATB \in Nat \ {0}
    /\ MaxBlocks \in Nat
    /\ LockDepths \in Nat \ {0, 1}

VARIABLES
    heap,           \* mp_state_mem_t: table, last_free_area and, per area,
                    \* last_free_atb_index and last_used_block
    depth,          \* gc_lock_depth
    auto,           \* gc_auto_collect_enabled
    live,           \* objects in use: address -> blocks asked for
    failed          \* blocks of the request that has just failed for lack of
                    \* room, 0 if the last operation is another

vars == <<heap, depth, auto, live, failed>>

(* gc_init(), gc_add() and gc_setup_area() *)
Init ==
    /\ heap = [table |-> [a \in AreaSet |-> [b \in BlockSet(a) |-> "free"]],
               area |-> 1,
               index |-> [a \in AreaSet |-> 0],
               used |-> [a \in AreaSet |-> 0]]
    /\ depth = 0
    /\ auto = TRUE
    /\ live = << >>
    /\ failed = 0

-----------------------------------------------------------------------------
(* Chains *)

(* End of the chain that starts at a block: the next block that is no tail *)
ChainEnd(h, a, b) ==
    Min({c \in b + 1..Blocks(a) : c = Blocks(a) \/ h.table[a][c] # "tail"})

AllFree(h, a, from, to) == \A c \in from..to - 1 : h.table[a][c] = "free"

SetKind(h, a, from, to, kind) ==
    [h EXCEPT !.table[a] = [c \in BlockSet(a) |-> IF c \in from..to - 1 THEN kind ELSE @[c]]]

mut_FreeHint(h, a, b) ==
    [h EXCEPT !.index[a] = Min({@, b \div BlocksPerATB})]

(* A block becomes free: the next search may not start after it *)
FreeHint(h, a, b) ==
    [h EXCEPT !.area = IF @ # a THEN 1 ELSE @,
              !.index[a] = Min({@, b \div BlocksPerATB})]

FreeChain(h, a, b) == SetKind(FreeHint(h, a, b), a, b, ChainEnd(h, a, b), "free")

-----------------------------------------------------------------------------
(* gc_collect(): mark, sweep, reset the hints *)

MarkLive(h, objects) ==
    [h EXCEPT !.table = [a \in AreaSet |-> [b \in BlockSet(a) |->
        IF <<a, b>> \in objects /\ @[a][b] = "head" THEN "mark" ELSE @[a][b]]]]

mut_SweepEnd(h, a) ==
    IF h.used[a] < Blocks(a) THEN h.used[a] ELSE Blocks(a)

SweepEnd(h, a) ==
    IF h.used[a] < Blocks(a) THEN h.used[a] + 1 ELSE Blocks(a)

(* free_tail at a tail: the head before it was not marked *)
FreeTail(t, b) ==
    LET owners == {c \in 0..b : t[c] \in {"head", "mark"}}
    IN  owners # {} /\ t[Max(owners)] = "head"

Swept(t, b) ==
    CASE t[b] = "mark" -> "head"
      [] t[b] = "head" -> "free"
      [] t[b] = "tail" -> IF FreeTail(t, b) THEN "free" ELSE "tail"
      [] t[b] = "free" -> "free"

(* gc_sweep() *)
Sweep(h) ==
    LET table == [a \in AreaSet |-> [b \in BlockSet(a) |->
                    IF b < SweepEnd(h, a) THEN Swept(h.table[a], b) ELSE h.table[a][b]]]
        kept(a) == {b \in BlockSet(a) : b < SweepEnd(h, a) /\ table[a][b] # "free"}
    IN  [h EXCEPT !.table = table,
                  !.used = [a \in AreaSet |-> Max(kept(a) \cup {0})]]

(* gc_collect_end() *)
CollectEnd(h) ==
    [Sweep(h) EXCEPT !.area = 1, !.index = [a \in AreaSet |-> 0]]

Collect(h, objects) == CollectEnd(MarkLive(h, objects))

-----------------------------------------------------------------------------
(* gc_alloc() *)

(* First blocks of the runs of n free blocks from the hint of an area on *)
Runs(h, a, n) ==
    {b \in BlockSet(a) :
        /\ b >= h.index[a] * BlocksPerATB
        /\ b + n <= Blocks(a)
        /\ AllFree(h, a, b, b + n)}

mut_Room(h, n) == {a \in {h.area} : Runs(h, a, n) # {}}

(* Areas of the search that have room *)
Room(h, n) == {a \in h.area..Areas : Runs(h, a, n) # {}}

(* The areas searched in vain for one block are marked as filled *)
Filled(h, n, upto) ==
    [h EXCEPT !.index = [a \in AreaSet |->
        IF n = 1 /\ a \in h.area..upto
        THEN (Max({@[a], ByteLen[a]}) + 1) \div BlocksPerATB
        ELSE @[a]]]

(* found: *)
Take(h, a, b, n) ==
    LET new == SetKind(SetKind(h, a, b, b + 1, "head"), a, b + 1, b + n, "tail")
    IN  [new EXCEPT !.area = IF n = 1 THEN a ELSE @,
                    !.index[a] = IF n = 1 THEN (b + n) \div BlocksPerATB ELSE @,
                    !.used[a] = Max({@, b + n - 1})]

NULL == <<0, 0>>

(* One search: the heap after it, and the object or NULL *)
Search(h, n) ==
    IF Room(h, n) = {}
    THEN [heap |-> Filled(h, n, Areas), ptr |-> NULL]
    ELSE LET a == Min(Room(h, n))
             b == Min(Runs(h, a, n))
         IN  [heap |-> Take(Filled(h, n, a - 1), a, b, n), ptr |-> <<a, b>>]

mut_Alloc(h, objects, n, early) ==
    Search(IF auto /\ early THEN Collect(h, objects) ELSE h, n)

(* early: gc_alloc_amount has reached the threshold, which the program     *)
(* sets as it likes with gc.threshold(). A collection is tried once.       *)
Alloc(h, objects, n, early) ==
    LET first == Search(IF auto /\ early THEN Collect(h, objects) ELSE h, n)
    IN  IF first.ptr # NULL \/ ~auto \/ early
        THEN first
        ELSE Search(Collect(first.heap, objects), n)

Early == IF auto THEN BOOLEAN ELSE {FALSE}

Forget(p) == [q \in DOMAIN live \ {p} |-> live[q]]

Remember(f, p, n) == [q \in DOMAIN f \cup {p} |-> IF q = p THEN n ELSE f[q]]

gc_alloc(n, early) ==
    /\ LET r == Alloc(heap, DOMAIN live, n, early)
       IN  IF depth > 0
           THEN failed' = 0 /\ UNCHANGED <<heap, live>>
           ELSE /\ heap' = r.heap
                /\ live' = IF r.ptr = NULL THEN live ELSE Remember(live, r.ptr, n)
                /\ failed' = IF r.ptr = NULL THEN n ELSE 0
    /\ UNCHANGED <<depth, auto>>

-----------------------------------------------------------------------------
(* gc_free() *)

(* A locked heap keeps the blocks until the next collection. *)
gc_free(p) ==
    /\ heap' = IF depth > 0 THEN heap ELSE FreeChain(heap, p[1], p[2])
    /\ live' = Forget(p)
    /\ failed' = 0
    /\ UNCHANGED <<depth, auto>>

-----------------------------------------------------------------------------
(* gc_realloc() of an object, to n > 0 blocks *)

Shrink(p, end, n) ==
    LET a == p[1] b == p[2]
    IN  /\ heap' = FreeHint(SetKind(heap, a, b + n, end, "free"), a, b + n)
        /\ live' = Remember(live, p, n)
        /\ failed' = 0

mut_Expand(p, end, n) ==
    LET a == p[1] b == p[2]
    IN  /\ heap' = SetKind(heap, a, end, b + n, "tail")
        /\ live' = Remember(live, p, n)
        /\ failed' = 0

(* end_block is the block after the last one *)
Expand(p, end, n) ==
    LET a == p[1] b == p[2]
    IN  /\ heap' = [SetKind(heap, a, end, b + n, "tail") EXCEPT !.used[a] = Max({@, b + n})]
        /\ live' = Remember(live, p, n)
        /\ failed' = 0

(* The old object is on the C stack while the new one is allocated. *)
Move(p, n, early) ==
    LET r == Alloc(heap, DOMAIN live, n, early)
    IN  IF r.ptr = NULL
        THEN heap' = r.heap /\ failed' = n /\ UNCHANGED live
        ELSE /\ heap' = FreeChain(r.heap, p[1], p[2])
             /\ live' = Remember(Forget(p), r.ptr, n)
             /\ failed' = 0

gc_realloc(p, n, move, early) ==
    /\ LET b == p[2]
           end == ChainEnd(heap, p[1], b)
       IN  CASE depth > 0 -> failed' = 0 /\ UNCHANGED <<heap, live>>
             [] depth = 0 /\ b + n = end -> failed' = 0 /\ UNCHANGED <<heap, live>>
             [] depth = 0 /\ b + n < end -> Shrink(p, end, n)
             [] depth = 0 /\ b + n > end ->
                    IF b + n <= Blocks(p[1]) /\ AllFree(heap, p[1], end, b + n)
                    THEN Expand(p, end, n)
                    ELSE IF move THEN Move(p, n, early)
                                 ELSE failed' = 0 /\ UNCHANGED <<heap, live>>
    /\ UNCHANGED <<depth, auto>>

-----------------------------------------------------------------------------
(* The other operations, and the program *)

(* gc.collect() works on a locked heap too *)
gc_collect ==
    /\ UNCHANGED <<depth, auto, live>>
    /\ failed' = 0
    /\ heap' = Collect(heap, DOMAIN live)

(* gc_sweep_all() in pe_reset_micropython(): nothing is marked *)
gc_sweep_all ==
    /\ live' = << >>
    /\ failed' = 0
    /\ UNCHANGED <<depth, auto>>
    /\ heap' = CollectEnd(heap)

(* micropython.heap_lock() and heap_unlock() *)
gc_lock ==
    /\ depth' = (depth + 1) % LockDepths
    /\ failed' = 0
    /\ UNCHANGED <<heap, auto, live>>

gc_unlock ==
    /\ depth' = (depth - 1) % LockDepths
    /\ failed' = 0
    /\ UNCHANGED <<heap, auto, live>>

(* gc.enable(), gc.disable() *)
gc_enable(on) ==
    /\ auto' = on
    /\ failed' = 0
    /\ UNCHANGED <<heap, depth, live>>

(* The program drops its last pointer to an object. *)
Drop(p) ==
    /\ live' = Forget(p)
    /\ failed' = 0
    /\ UNCHANGED <<heap, depth, auto>>

Next ==
    \/ \E n \in 1..MaxBlocks, early \in Early : gc_alloc(n, early)
    \/ \E p \in DOMAIN live : gc_free(p)
    \/ \E p \in DOMAIN live, n \in 1..MaxBlocks, early \in Early :
            \E move \in {TRUE, early} : gc_realloc(p, n, move, early)
    \/ \E p \in DOMAIN live : Drop(p)
    \/ \E on \in BOOLEAN : gc_enable(on)
    \/ gc_collect \/ gc_sweep_all \/ gc_lock \/ gc_unlock

Spec == Init /\ [][Next]_vars

-----------------------------------------------------------------------------

Covered(objects) ==
    UNION {{p[1]} \X (p[2]..p[2] + objects[p] - 1) : p \in DOMAIN objects}

UsedBlocks == {p \in Addresses : heap.table[p[1]][p[2]] # "free"}

(* An object in use is a chain of the length that was asked for, whatever  *)
(* was allocated, resized, moved, freed and collected around it, and no    *)
(* two objects share a block.                                              *)
ObjectsIntact ==
    \A p \in DOMAIN live :
        LET a == p[1] b == p[2]
        IN  /\ b + live[p] <= Blocks(a)
            /\ heap.table[a][b] = "head"
            /\ ChainEnd(heap, a, b) = b + live[p]

(* The hints never hide a free block: none lies in an area before the last *)
(* free one or before the last free table byte of its area.                *)
HintsSound ==
    \A p \in Addresses \ UsedBlocks :
        /\ heap.area <= p[1]
        /\ heap.index[p[1]] * BlocksPerATB <= p[2]

(* An allocation fails only when there is no room: no area has a run of    *)
(* free blocks of that length, wherever the hints made the search start.   *)
FailsOnlyWhenFull ==
    failed > 0 =>
        \A a \in AreaSet : \A b \in BlockSet(a) :
            b + failed <= Blocks(a) => ~AllFree(heap, a, b, b + failed)

(* Unless the program has disabled automatic collection, an allocation     *)
(* fails only when there is no garbage left.                               *)
FailsAfterCollecting == failed > 0 /\ auto => UsedBlocks = Covered(live)

(* A collection reclaims all garbage, the tails at the end of the heap     *)
(* included, though the sweep stops at the last used block; the reset of   *)
(* the interpreter reclaims everything.                                    *)
CollectionReclaims ==
    [][gc_collect \/ gc_sweep_all => UsedBlocks' = Covered(live')]_vars
==============================================================================
