------------------------------ MODULE MCGcMark -------------------------------
(* An instance of GcMark for TLC. *)
EXTENDS GcMark

Any == {<<w>> : w \in Words}
Leaf == {<<0>>, <<6>>}
Pairs(obj) ==
    {<<0>>} \cup {<<p[1], p[2]>> : p \in {q \in (Objects \ {obj}) \X (Objects \ {obj}) : q[1] > q[2]}}

(* Objects 2 and 4 may point to two others, the higher first: enough for   *)
(* the stack to overflow in a rescan that has passed the lower one.        *)
MCHeaps == {<<a, b, c, d, e, f>> : a, c \in Leaf, b \in Pairs(2), d \in Pairs(4), e, f \in Any}
MCRootLists == {<<4>>, <<5, 2>>}
==============================================================================
