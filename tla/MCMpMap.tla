------------------------------- MODULE MCMpMap -------------------------------
(* An instance of MpMap for TLC: a qstr and a str of the same text, and    *)
(* keys whose probe sequences overlap.                                     *)
EXTENDS MpMap

MCObjects == {"q", "s", "i", "j", "k"}
MCClass == [o \in MCObjects |-> IF o = "q" THEN "s" ELSE o]
MCType == [o \in MCObjects |-> CASE o = "q" -> "qstr" [] o = "s" -> "str" [] OTHER -> "other"]
(* Two pairs of collisions in a table of seven, on both sides of its end. *)
MCHash == [c \in {"s", "i", "j", "k"} |-> CASE c = "i" -> 0 [] c = "s" -> 6 [] c = "j" -> 7 [] c = "k" -> 13]
==============================================================================
