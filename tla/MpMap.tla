-------------------------------- MODULE MpMap --------------------------------
(***************************************************************************)
(* The hash table of dicts and sets (py/map.c): open addressing with       *)
(* linear probing, deleted slots, and growth when no slot is left; and the *)
(* operations of py/objdict.c and py/objset.c on it.                       *)
(*                                                                         *)
(* A key is an object. Objects that are equal have the same class; a       *)
(* qstr and a str of the same text are different objects of one class. A   *)
(* map whose keys are all qstrs compares pointers.                         *)
(*                                                                         *)
(* Equality is taken to be an equivalence. A float NaN, and a tuple with   *)
(* one, differ from themselves and are outside of this model: a dict finds *)
(* them by their pointer, a set, which only calls mp_obj_equal(), does not.*)
(***************************************************************************)
EXTENDS Integers, FiniteSets, FiniteSetsExt

CONSTANTS
    Objects,        \* the keys
    Class,          \* object -> its equality class
    Type,           \* object -> "qstr", "str" or "other"
    Hash,           \* class -> hash
    Values,
    Sizes,          \* hash_allocation_sizes
    InitSizes,      \* sizes asked for when a table is made
    MaxAlloc        \* bound on the slots that memory has room for

Classes == {Class[k] : k \in Objects}
NULL == "NULL"
SENTINEL == "SENTINEL"

(* Equal objects hash alike. Two qstrs of the same text are one object,    *)
(* and no string equals an object of another type: so it is for the        *)
(* built-in types. A class of the program whose __eq__ and __hash__ make   *)
(* its instances equal to a string is outside of this model, and a dict of *)
(* qstrs does not find its key by them.                                    *)
ASSUME MpMapAssumption ==
    /\ Class \in [Objects -> Classes]
    /\ Type \in [Objects -> {"qstr", "str", "other"}]
    /\ Hash \in [Classes -> Nat]
    /\ Sizes \subseteq Nat /\ InitSizes \subseteq Nat /\ MaxAlloc \in Nat
    /\ Objects \cap {NULL, SENTINEL} = {}
    /\ \A j, k \in Objects : Class[j] = Class[k] /\ j # k =>
            /\ (Type[j] = "other") = (Type[k] = "other")
            /\ ~(Type[j] = "qstr" /\ Type[k] = "qstr")

VARIABLES
    kind,           \* "map" or "set"
    t,              \* mp_map_t or mp_set_t: table, alloc, used, qstrs
    ret             \* answer to the last operation

vars == <<kind, t, ret>>

Slot(k, v) == [key |-> k, value |-> v]
Answer(v) == Slot("none", v)

(* mp_map_init(), mp_set_init(): m_new0() of the table *)
Empty(n) ==
    [table |-> [p \in 0..n - 1 |-> Slot(NULL, NULL)],
     alloc |-> n, used |-> 0, qstrs |-> kind = "map"]

Init ==
    /\ kind \in {"map", "set"}
    /\ \E n \in InitSizes : t = Empty(n)
    /\ ret = Answer("ok")

-----------------------------------------------------------------------------
(* mp_map_lookup() and mp_set_lookup(): the search *)

(* compare_only_ptrs *)
ComparePtrs(m, k) == m.qstrs /\ Type[k] # "str"

Equal(m, key, k) ==
    \/ key = k
    \/ key \in Objects /\ ~ComparePtrs(m, k) /\ Class[key] = Class[k]

Pos(m, k, i) == (Hash[Class[k]] + i) % m.alloc

(* Steps of the search at which it ends: at a slot that was never used, or *)
(* at the key                                                              *)
Ends(m, k) ==
    {i \in 0..m.alloc - 1 :
        LET key == m.table[Pos(m, k, i)].key IN key = NULL \/ Equal(m, key, k)}

Found(m, k) ==
    Ends(m, k) # {} /\ m.table[Pos(m, k, Min(Ends(m, k)))].key # NULL

At(m, k) == Pos(m, k, Min(Ends(m, k)))

(* Steps at which a missing key may be put: the first deleted slot that    *)
(* was passed, else the slot that ended the search                         *)
Avail(m, k) ==
    LET passed == {i \in 0..m.alloc - 1 :
                        /\ m.table[Pos(m, k, i)].key = SENTINEL
                        /\ \A j \in Ends(m, k) : i < j}
    IN  passed \cup (IF Ends(m, k) = {} THEN {} ELSE {Min(Ends(m, k))})

Put(m, k, v) ==
    [m EXCEPT !.table[Pos(m, k, Min(Avail(m, k)))] = Slot(k, v),
              !.used = @ + 1,
              !.qstrs = @ /\ Type[k] = "qstr"]

-----------------------------------------------------------------------------
(* mp_map_rehash(), mp_set_rehash() *)

(* get_hash_alloc_greater_or_equal_to() *)
AllocAtLeast(x) ==
    LET larger == {n \in Sizes : n >= x}
        y == x + x \div 2
    IN  IF larger # {} THEN Min(larger) ELSE IF y % 2 = 0 THEN y + 1 ELSE y

NewAlloc(m) == AllocAtLeast(m.alloc + 1)

Filled(m, p) == m.table[p].key \notin {NULL, SENTINEL}

mut_Rehash(m) ==
    LET moved[p \in 0..m.alloc] ==
            IF p = 0 THEN Empty(NewAlloc(m))
            ELSE IF Filled(m, p - 1)
                 THEN Put(moved[p - 1], m.table[p - 1].key, m.table[p - 1].value)
                 ELSE moved[p - 1]
    IN  moved[IF m.alloc = 0 THEN 0 ELSE m.alloc - 1]

(* The elements of the old table are added one by one. *)
Rehash(m) ==
    LET moved[p \in 0..m.alloc] ==
            IF p = 0 THEN Empty(NewAlloc(m))
            ELSE IF Filled(m, p - 1)
                 THEN Put(moved[p - 1], m.table[p - 1].key, m.table[p - 1].value)
                 ELSE moved[p - 1]
    IN  moved[m.alloc]

mut_RehashFails(m) == [m EXCEPT !.alloc = NewAlloc(m), !.used = 0]

(* m_new0() in mp_map_rehash() comes before any store; in mp_set_rehash()  *)
(* it fails when alloc and used are already set: the set has more slots    *)
(* than its table.                                                         *)
RehashFails(m) ==
    IF kind = "map" THEN m ELSE [m EXCEPT !.alloc = NewAlloc(m), !.used = 0]

Broken == t.alloc # Cardinality(DOMAIN t.table)

-----------------------------------------------------------------------------
(* Adding *)

(* MP_MAP_LOOKUP_ADD_IF_NOT_FOUND of a missing key: the table after it *)
Added(m, k, v) == IF Avail(m, k) # {} THEN Put(m, k, v) ELSE Put(Rehash(m), k, v)

NoMemory ==
    /\ t' = RehashFails(t)
    /\ ret' = Answer("MemoryError")

(* mp_obj_dict_store(), set_add() *)
Store(k, v) ==
    /\ IF Found(t, k)
       THEN t' = [t EXCEPT !.table[At(t, k)].value = v] /\ ret' = Answer("ok")
       ELSE \/ /\ Avail(t, k) # {} \/ NewAlloc(t) <= MaxAlloc
               /\ t' = Added(t, k, v) /\ ret' = Answer("ok")
            \/ Avail(t, k) = {} /\ NoMemory
    /\ UNCHANGED kind

(* dict_setdefault() *)
SetDefault(k, v) ==
    /\ kind = "map"
    /\ IF Found(t, k)
       THEN ret' = Answer(t.table[At(t, k)].value) /\ UNCHANGED t
       ELSE \/ /\ Avail(t, k) # {} \/ NewAlloc(t) <= MaxAlloc
               /\ t' = Added(t, k, v) /\ ret' = Answer(v)
            \/ Avail(t, k) = {} /\ NoMemory
    /\ UNCHANGED kind

-----------------------------------------------------------------------------
(* Removing *)

mut_Deleted(m, p) == Slot(NULL, NULL)

(* The slot that is left: never used again if the next one is not *)
Deleted(m, p) ==
    Slot(IF m.table[(p + 1) % m.alloc].key = NULL THEN NULL ELSE SENTINEL, NULL)

mut_Remove(m, p) == [m EXCEPT !.table[p] = Deleted(m, p)]

Remove(m, p) == [m EXCEPT !.table[p] = Deleted(m, p), !.used = @ - 1]

(* A map of qstrs has no key of another type. *)
Shortcut(m, k) == m.qstrs /\ Type[k] = "other"

(* dict_pop(), mp_obj_dict_delete(), set_remove(), set_discard() *)
Pop(k) ==
    /\ IF ~Shortcut(t, k) /\ Found(t, k)
       THEN t' = Remove(t, At(t, k)) /\ ret' = Answer(t.table[At(t, k)].value)
       ELSE ret' = Answer("KeyError") /\ UNCHANGED t
    /\ UNCHANGED kind

FirstFilled(m) == Min({p \in 0..m.alloc - 1 : Filled(m, p)})

Item(slot) == Slot(Class[slot.key], slot.value)

(* dict_popitem(): the slot is deleted before the tuple is allocated *)
dict_popitem ==
    /\ kind = "map"
    /\ IF t.used = 0
       THEN ret' = Answer("KeyError") /\ UNCHANGED t
       ELSE LET p == FirstFilled(t)
            IN  /\ t' = [t EXCEPT !.table[p] = Slot(SENTINEL, NULL), !.used = @ - 1]
                /\ ret' \in {Item(t.table[p]), Answer("MemoryError")}
    /\ UNCHANGED kind

(* set_pop(), mp_set_remove_first() *)
set_pop ==
    /\ kind = "set"
    /\ IF \A p \in 0..t.alloc - 1 : ~Filled(t, p)
       THEN ret' = Answer("KeyError") /\ UNCHANGED t
       ELSE LET p == FirstFilled(t)
            IN  t' = Remove(t, p) /\ ret' = Item(t.table[p])
    /\ UNCHANGED kind

(* set_symmetric_difference_update() *)
set_toggle(k) ==
    /\ kind = "set"
    /\ IF Found(t, k)
       THEN t' = Remove(t, At(t, k)) /\ ret' = Answer("ok") /\ UNCHANGED kind
       ELSE Store(k, "in")

(* mp_map_clear(), mp_set_clear() *)
Clear ==
    /\ t' = Empty(0)
    /\ ret' = Answer("ok")
    /\ UNCHANGED kind

-----------------------------------------------------------------------------
(* Reading *)

(* mp_obj_dict_get(), dict_get(), the "in" of both *)
Get(k) ==
    /\ ret' = Answer(IF ~Shortcut(t, k) /\ Found(t, k)
                     THEN t.table[At(t, k)].value ELSE "KeyError")
    /\ UNCHANGED <<kind, t>>

(* A set has no values. *)
ValuesOf == IF kind = "map" THEN Values ELSE {"in"}

(* A set that mp_set_rehash() has left broken is undefined until cleared.  *)
Next ==
    \/ /\ ~Broken
       /\ \/ \E k \in Objects, v \in ValuesOf : Store(k, v) \/ SetDefault(k, v)
          \/ \E k \in Objects : Get(k) \/ Pop(k) \/ set_toggle(k)
          \/ dict_popitem \/ set_pop
    \/ Clear

Spec == Init /\ [][Next]_vars

-----------------------------------------------------------------------------

Slots == DOMAIN t.table
Stored == {p \in Slots : Filled(t, p)}

(* Every key that is stored is found, by whatever object of its class, and *)
(* nowhere else: no deletion cuts the probe sequence of another key.       *)
EveryKeyFound ==
    ~Broken => \A p \in Stored : \A k \in Objects :
        Class[k] = Class[t.table[p].key] =>
            ~Shortcut(t, k) /\ Found(t, k) /\ At(t, k) = p

(* len() is the number of keys, and alloc the number of slots: at all      *)
(* times for a dict, whose growth may fail, and for a set up to a growth   *)
(* that failed.                                                            *)
UsedCounts ==
    /\ kind = "map" => ~Broken
    /\ ~Broken => t.used = Cardinality(Stored)

SlotOf(c) == CHOOSE p \in Stored : Class[t.table[p].key] = c

D == INSTANCE Dict WITH
        Keys <- Classes,
        Values <- Values \cup {"in"},
        lost <- Broken,
        dict <- [c \in {Class[t.table[p].key] : p \in Stored} |-> t.table[SlotOf(c)].value]

(* The table is a finite function from keys to values: every operation     *)
(* answers and changes what the dict says, whatever was added and deleted  *)
(* before. A dict that cannot grow (mp_map_rehash()) goes on with all its  *)
(* keys and every operation defined; a set that cannot (mp_set_rehash())   *)
(* is lost until it is cleared, and nothing else loses it.                 *)
RefinesDict == D!Spec
==============================================================================
