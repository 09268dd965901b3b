-------------------------------- MODULE Dict ---------------------------------
(***************************************************************************)
(* What a dict or a set of MicroPython promises: a finite function from    *)
(* keys to values, and the answer to the last operation. Keys are compared *)
(* by value. Only an operation that adds a key, or one that has a tuple to *)
(* return, may run out of memory. The first then leaves a dict as it was;  *)
(* a set it may leave lost, and then only clearing it is defined.          *)
(***************************************************************************)
CONSTANTS Keys, Values

VARIABLES
    kind,           \* "map" or "set"
    dict, lost, ret

vars == <<kind, dict, lost, ret>>

Item(k, v) == [key |-> k, value |-> v]
Value(v) == Item("none", v)

Init ==
    /\ kind \in {"map", "set"}
    /\ dict = << >> /\ lost = FALSE
    /\ ret = Value("ok")

With(k, v) == [x \in DOMAIN dict \cup {k} |-> IF x = k THEN v ELSE dict[x]]
Without(k) == [x \in DOMAIN dict \ {k} |-> dict[x]]

Get(k) ==
    /\ ret' = Value(IF k \in DOMAIN dict THEN dict[k] ELSE "KeyError")
    /\ UNCHANGED dict

Store(k, v) == dict' = With(k, v) /\ ret' = Value("ok")

SetDefault(k, v) ==
    IF k \in DOMAIN dict
    THEN ret' = Value(dict[k]) /\ UNCHANGED dict
    ELSE dict' = With(k, v) /\ ret' = Value(v)

StoreFails(k) ==
    /\ k \notin DOMAIN dict
    /\ ret' = Value("MemoryError")
    /\ lost' \in {FALSE, kind = "set"}
    /\ UNCHANGED dict

Pop(k) ==
    IF k \in DOMAIN dict
    THEN ret' = Value(dict[k]) /\ dict' = Without(k)
    ELSE ret' = Value("KeyError") /\ UNCHANGED dict

PopItem ==
    IF dict = << >>
    THEN ret' = Value("KeyError") /\ UNCHANGED dict
    ELSE \E k \in DOMAIN dict :
            dict' = Without(k) /\ ret' \in {Item(k, dict[k]), Value("MemoryError")}

Toggle(k, v) ==
    IF k \in DOMAIN dict
    THEN dict' = Without(k) /\ ret' = Value("ok")
    ELSE Store(k, v)

Clear == dict' = << >> /\ ret' = Value("ok") /\ lost' = FALSE

Operation ==
    \/ \E k \in Keys : Get(k) \/ Pop(k)
    \/ \E k \in Keys, v \in Values : Store(k, v) \/ SetDefault(k, v) \/ Toggle(k, v)
    \/ PopItem

Next ==
    /\ \/ ~lost /\ Operation /\ UNCHANGED lost
       \/ ~lost /\ \E k \in Keys : StoreFails(k)
       \/ Clear
    /\ UNCHANGED kind

Spec == Init /\ [][Next]_vars
==============================================================================
