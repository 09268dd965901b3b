------------------------------ MODULE MCProgram -------------------------------
(* Instance of Program for TLC. *)
EXTENDS Program

(* For ever, not at all, less than a round, a round, and more *)
MCTimeouts == {-1, 0, 1, 2, 3}
==============================================================================
