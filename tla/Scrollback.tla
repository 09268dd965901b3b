------------------------------ MODULE Scrollback ------------------------------
(***************************************************************************)
(* What console.h promises of the line storage, without the ring, the      *)
(* editor or the running totals: a history of finished lines, numbered     *)
(* from first on, and a last line that can be edited. "Previous lines can  *)
(* no longer be edited"; old lines go away, oldest first, and only when    *)
(* there are Capacity lines or more than Backlog characters.               *)
(***************************************************************************)
EXTENDS Integers, Sequences, Sums

CONSTANTS Char, MaxLine, Capacity, Backlog

VARIABLES first, hist, tail

svars == <<first, hist, tail>>

TextSize(lines) == SumTo([n \in 0..(Len(lines) - 1) |-> Len(lines[n + 1])], Len(lines))

Init == first = 1 /\ hist = <<>> /\ tail = <<>>

(* Edit the last line *)
Edit ==
    /\ tail' \in Seq(Char) /\ Len(tail') <= MaxLine
    /\ UNCHANGED <<first, hist>>

(* Finish the last line; in a full buffer the oldest line makes space *)
Newline ==
    /\ tail' = <<>>
    /\ LET lines == Append(hist, tail)
       IN  IF Len(lines) = Capacity
           THEN hist' = Tail(lines) /\ first' = first + 1
           ELSE hist' = lines /\ UNCHANGED first

(* Drop the oldest line, over the backlog *)
Drop ==
    /\ hist # <<>>
    /\ TextSize(hist) + Len(tail) > Backlog
    /\ hist' = Tail(hist)
    /\ first' = first + 1
    /\ UNCHANGED tail

Next == Edit \/ Newline \/ Drop

Spec == Init /\ [][Next]_svars
==============================================================================
