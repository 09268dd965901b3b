------------------------------- MODULE StrEdit -------------------------------
(***************************************************************************)
(* The editable string of ports/sh/stredit.c: a bounded text with a locked *)
(* prefix, in a heap block that grows on demand.                           *)
(*                                                                         *)
(* An editor is a record                                                   *)
(*   raw        state of the heap block: "null", "live" or "freed"         *)
(*   text       the bytes before the NUL (Len(text) is stredit_t.size)     *)
(*   prefix     number of initial characters that cannot be edited         *)
(*   alloc_size size of the heap block                                     *)
(*   rows       render_lines, kept in the reserved bytes of the block      *)
(* The operators are the C functions, without their allocation failures:   *)
(* the caller chooses whether realloc fails (see NeedsRealloc).            *)
(***************************************************************************)
EXTENDS Integers, Sequences

CONSTANTS
    Letters,    \* plain characters besides those of the escape sequences
    MaxLine,    \* PE_CONSOLE_LINE_MAX_LENGTH, the max_size of every line
    Prealloc,   \* characters a new line has room for (16)
    Grow        \* least growth of a block that is reallocated (16)

ASSUME StrEditAssumption ==
    /\ MaxLine \in Nat \ {0}
    /\ Prealloc \in Nat
    /\ Grow \in Nat

(* The bytes that console_write() interprets, and the rest of the alphabet *)
NL == "newline"
BS == "backspace"
ESC == "escape"
SOH == "soh"
Controls == {NL, BS, ESC}
Char == Letters \cup Controls \cup {"[", "K", SOH, "D", "C"}

(* CONSOLE_FLINE_SIZE: header bytes reserved in front of the text *)
Reserved == 3

Min2(a, b) == IF a < b THEN a ELSE b
Max2(a, b) == IF a < b THEN b ELSE a

PtrState == {"null", "live", "freed"}

Editor == [raw: PtrState, text: Seq(Char), prefix: Nat, alloc_size: Nat, rows: Nat]

(* stredit_init() with max_size = 0: cleared, no block *)
stredit_cleared ==
    [raw |-> "null", text |-> <<>>, prefix |-> 0, alloc_size |-> 0, rows |-> 0]

(* stredit_init() with a max_size: the reserved bytes are zeroed *)
stredit_init ==
    [raw |-> "live", text |-> <<>>, prefix |-> 0,
     alloc_size |-> Reserved + Prealloc + 1, rows |-> 0]

(* stredit_capacity() *)
stredit_capacity(ed) == MaxLine - Len(ed.text)

NeedsRealloc(ed, n) == ed.alloc_size < Reserved + n + 1

mut_AllocNoNul(ed, n) ==
    IF NeedsRealloc(ed, n) THEN Reserved + n ELSE ed.alloc_size

(* stredit_alloc(): the size of the block once n characters fit *)
stredit_alloc(ed, n) ==
    IF NeedsRealloc(ed, n) THEN Max2(ed.alloc_size + Grow, Reserved + n + 1)
                           ELSE ed.alloc_size

stredit_set_prefix(ed, n) ==
    [ed EXCEPT !.prefix = Min2(Max2(0, n), Len(ed.text))]

(* The bounds test of stredit_insert() *)
stredit_can_insert(ed, p, n) ==
    /\ 0 <= p /\ p <= Len(ed.text)
    /\ Len(ed.text) + n <= MaxLine

stredit_insert(ed, p, s) ==
    [ed EXCEPT !.text = SubSeq(@, 1, p) \o s \o SubSeq(@, p + 1, Len(@)),
               !.alloc_size = stredit_alloc(ed, Len(ed.text) + Len(s))]

(* How many characters stredit_delete() removes: those after the prefix *)
stredit_deleted(ed, p, n) ==
    LET q == Max2(p, ed.prefix)
    IN  Max2(0, Min2(n - (q - p), Len(ed.text) - q))

mut_DeleteFrom(ed, p, n) ==
    LET q == Max2(p, 0)
        k == Max2(0, Min2(n, Len(ed.text) - q))
    IN  [ed EXCEPT !.text = SubSeq(@, 1, q) \o SubSeq(@, q + k + 1, Len(@))]

(* stredit_delete(): remove at most n characters from p on *)
stredit_delete(ed, p, n) ==
    LET q == Max2(p, ed.prefix)
        k == stredit_deleted(ed, p, n)
    IN  [ed EXCEPT !.text = SubSeq(@, 1, q) \o SubSeq(@, q + k + 1, Len(@))]
==============================================================================
