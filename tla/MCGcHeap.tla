------------------------------ MODULE MCGcHeap -------------------------------
(* An instance of GcHeap for TLC: two areas of different lengths. *)
EXTENDS GcHeap

MCByteLen == <<1, 2>>
==============================================================================
