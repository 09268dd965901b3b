-------------------------------- MODULE GetKey --------------------------------
(***************************************************************************)
(* gint.getkey() and gint.getkey_opt() (getkey_opt_internal() of           *)
(* ports/sh/modgint.c): rounds of at most RoundMs milliseconds, each with  *)
(* a timer of its own, until there is an event or the time is up, with the *)
(* drawing hook of the VM after each. The transformation of key events is  *)
(* changed for the call. The timers are those of Timers.                   *)
(***************************************************************************)
EXTENDS Timers

CONSTANTS
    RoundMs,        \* 20 ms
    Timeouts        \* values of timeout_ms; a negative one waits for ever

ASSUME GetKeyAssumption ==
    /\ Cardinality(ETMU) > 1
    /\ RoundMs \in Nat \ {0}
    /\ Timeouts \subseteq Int

VARIABLES
    call,           \* the call in progress; waited is the time that passed
    transform       \* whose transformation of events is set: "ui" or "getkey"

NoCall == [pc |-> "none", timeout |-> 0, left |-> 0, round |-> 0, ev |-> "none", waited |-> 0]

InPython == running # "ui" /\ call = NoCall

GetKeyInit == call = NoCall /\ transform = "ui"

(* ev is declared without a value *)
GetkeyCall(timeout) ==
    /\ InPython
    /\ call' = [pc |-> "loop", timeout |-> timeout, left |-> timeout,
                round |-> 0, ev |-> "uninitialised", waited |-> 0]
    /\ transform' = "getkey"
    /\ UNCHANGED vars

has_timeout == call.timeout >= 0

mut_RoundTime == RoundMs

RoundTime == IF has_timeout /\ call.left < RoundMs THEN call.left ELSE RoundMs

GetkeyRound ==
    /\ call.pc = "loop" /\ (has_timeout => call.left > 0)
    /\ Round /\ configure_round
    /\ call' = [call EXCEPT !.pc = "wait", !.round = RoundTime]
    /\ UNCHANGED transform

(* getkey_opt() returns an event: the end of the loop *)
GetkeyEvent ==
    /\ call.pc = "wait"
    /\ Round /\ stop_round
    /\ call' = [call EXCEPT !.pc = "end", !.ev = "key"]
    /\ UNCHANGED transform

mut_GetkeyRunning ==
    /\ call.pc = "wait" /\ RunBy("getkey") # {}
    /\ call' = [call EXCEPT !.pc = "loop", !.ev = "none",
                            !.waited = IF has_timeout THEN @ + call.round ELSE @,
                            !.left = IF has_timeout THEN @ - call.round ELSE @]
    /\ UNCHANGED <<vars, transform>>

mut_GetkeyForever ==
    /\ call.pc = "wait" /\ RunBy("getkey") # {}
    /\ Round /\ stop_round
    /\ call' = [call EXCEPT !.pc = "loop", !.ev = "none"]
    /\ UNCHANGED transform

(* The timer sets the flag, if there is one, and getkey_opt() gives up. *)
GetkeyFlag ==
    /\ call.pc = "wait" /\ RunBy("getkey") # {}
    /\ Round /\ stop_round
    /\ call' = [call EXCEPT !.pc = "loop", !.ev = "none",
                            !.waited = IF has_timeout THEN @ + call.round ELSE @,
                            !.left = IF has_timeout THEN @ - call.round ELSE @]
    /\ UNCHANGED transform

GetkeyTimeout ==
    /\ call.pc = "loop" /\ has_timeout /\ call.left <= 0
    /\ call' = [call EXCEPT !.pc = "end"]
    /\ UNCHANGED <<vars, transform>>

GetkeyReturn ==
    /\ call.pc = "end"
    /\ transform' = "ui"
    /\ call' = NoCall
    /\ UNCHANGED vars

(* What the call does without the user *)
GetkeyRun == GetkeyRound \/ GetkeyFlag \/ GetkeyTimeout \/ GetkeyReturn

GetkeyStep == GetkeyRun \/ GetkeyEvent

-----------------------------------------------------------------------------

(* Every round of getkey() has a timer of its own, though nobody tests the *)
(* result of timer_configure(), and it gives it back: neither the imports  *)
(* of earlier programs nor the shell nor earlier rounds take the last one. *)
(* Without it the round would last until a key is pressed.                 *)
RoundHasTimer ==
    Cardinality(RunBy("getkey")) = IF call.pc = "wait" THEN 1 ELSE 0

(* However a call ends, the transformation of events is then again the one *)
(* of the shell, whose SHIFT and ALPHA depend on it.                       *)
TransformRestored == call.pc = "none" => transform = "ui"

(* A call that returns no event has waited for as long as was asked, the   *)
(* last round included; and only a call that may not wait at all returns   *)
(* an event that was never set.                                            *)
GetkeyWaits ==
    call.pc = "end" =>
        /\ call.ev = "none" => call.waited = call.timeout
        /\ call.ev = "uninitialised" => call.timeout = 0

(* A call with a timeout returns. *)
GetkeyEnds == call.pc # "none" /\ has_timeout ~> call.pc = "none"
==============================================================================
