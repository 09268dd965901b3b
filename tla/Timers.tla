-------------------------------- MODULE Timers --------------------------------
(***************************************************************************)
(* The hardware timers and the drawing window, which outlive the program   *)
(* that takes them: the __init__ of the kandinsky and time modules         *)
(* (ports/sh/numworks), the wide-screen functions of kandinsky, and        *)
(* pe_restore_window_and_timer() of main.c, which gives them back after a  *)
(* file was run. gint's timer driver is external: timer_configure() gives  *)
(* out a free timer of the requested kind, or fails. The timers that       *)
(* gint.getkey() takes for its rounds are here too; the calls of it are in *)
(* GetKey.                                                                 *)
(***************************************************************************)
EXTENDS Integers, FiniteSets

CONSTANTS
    TMU,            \* timers that the modules can get (3 on the calculator)
    ETMU            \* the other timers (6 on the calculator), for getkey()

ASSUME TimersAssumption ==
    /\ TMU \cap ETMU = {}
    /\ IsFiniteSet(TMU) /\ IsFiniteSet(ETMU)
    /\ TMU # {}

VARIABLES
    owner,          \* timer -> who configured it, "free" if nobody
    altered,        \* timer_altered[]: the timers that a module ever took
    is_timered, is_dwindowed,
    window,         \* the window set in gint: "full" or "numworks"
    running         \* what runs: "ui", a "line" of the shell or a "file"

vars == <<owner, altered, is_timered, is_dwindowed, window, running>>

AllTimers == TMU \cup ETMU
Modules == {"kandinsky", "time"}
Free(kind) == {t \in kind : owner[t] = "free"}
RunBy(who) == {t \in AllTimers : owner[t] = who}

(* widget_shell_create() takes the first timer, of either kind *)
Init ==
    /\ \E t \in AllTimers :
         owner = [u \in AllTimers |-> IF u = t THEN "shell" ELSE "free"]
    /\ altered = {}
    /\ is_timered = FALSE
    /\ is_dwindowed = FALSE
    /\ window = "full"
    /\ running = "ui"

Start(what) ==
    /\ running = "ui"
    /\ running' = what
    /\ UNCHANGED <<owner, altered, is_timered, is_dwindowed, window>>

mut_TakeTimerUnmarked(m) ==
    IF Free(TMU) = {}
    THEN UNCHANGED <<owner, altered, is_timered>>
    ELSE /\ \E t \in Free(TMU) : owner' = [owner EXCEPT ![t] = m]
         /\ is_timered' = TRUE
         /\ UNCHANGED altered

mut_TakeTimerOverMarks(m) ==
    IF Free(TMU) = {}
    THEN UNCHANGED <<owner, altered, is_timered>>
    ELSE /\ \E t \in Free(TMU) : owner' = [owner EXCEPT ![t] = m]
         /\ altered' = TMU
         /\ is_timered' = TRUE

(* timer_configure(TIMER_TMU, ...) in an __init__, and the record of it *)
take_timer(m) ==
    \/ /\ Free(TMU) = {}
       /\ UNCHANGED <<owner, altered, is_timered>>
    \/ \E t \in Free(TMU) :
         /\ owner' = [owner EXCEPT ![t] = m]
         /\ altered' = altered \cup {t}
         /\ is_timered' = TRUE

(* time___init__(). A built-in module is not kept among the loaded modules *)
(* (process_import_at_level), so that every import statement runs it.      *)
ImportTime ==
    /\ running # "ui"
    /\ take_timer("time")
    /\ UNCHANGED <<is_dwindowed, window, running>>

SetWindow(w, dwindowed) ==
    /\ window' = w
    /\ is_dwindowed' = dwindowed

(* Kandinsky_init() *)
ImportKandinsky ==
    /\ running # "ui"
    /\ take_timer("kandinsky")
    /\ SetWindow("numworks", TRUE)
    /\ UNCHANGED running

(* CGEXT_Enable_Wide_Screen() *)
EnableWideScreen ==
    /\ running # "ui"
    /\ SetWindow("full", FALSE)
    /\ UNCHANGED <<owner, altered, is_timered, running>>

(* CGEXT_Disable_Wide_Screen(), and CGEXT_Set_Margin_Color(), which goes   *)
(* through both windows                                                    *)
DisableWideScreen ==
    /\ running # "ui"
    /\ SetWindow("numworks", TRUE)
    /\ UNCHANGED <<owner, altered, is_timered, running>>

(* timer_configure(TIMER_ETMU, ...) of a round of getkey(): its result is  *)
(* not tested.                                                             *)
configure_round ==
    \/ Free(ETMU) = {} /\ UNCHANGED owner
    \/ \E t \in Free(ETMU) : owner' = [owner EXCEPT ![t] = "getkey"]

(* timer_stop(t) at the end of the round *)
stop_round ==
    owner' = [t \in AllTimers |-> IF owner[t] = "getkey" THEN "free" ELSE owner[t]]

(* A round of getkey() starts or ends. *)
Round ==
    /\ running # "ui"
    /\ configure_round \/ stop_round
    /\ UNCHANGED <<altered, is_timered, is_dwindowed, window, running>>

(* The end of a line typed in the shell: nothing is given back *)
EndLine ==
    /\ running = "line"
    /\ running' = "ui"
    /\ UNCHANGED <<owner, altered, is_timered, is_dwindowed, window>>

(* The end of a file: pe_restore_window_and_timer(). timer_altered[] is    *)
(* never cleared: it keeps the timers of earlier programs.                 *)
EndFile ==
    /\ running = "file"
    /\ running' = "ui"
    /\ IF is_dwindowed THEN SetWindow("full", FALSE) ELSE UNCHANGED <<window, is_dwindowed>>
    /\ IF is_timered
       THEN /\ owner' = [t \in AllTimers |-> IF t \in altered THEN "free" ELSE owner[t]]
            /\ is_timered' = FALSE
       ELSE UNCHANGED <<owner, is_timered>>
    /\ UNCHANGED altered

Next ==
    \/ \E what \in {"line", "file"} : Start(what)
    \/ ImportTime \/ ImportKandinsky
    \/ EnableWideScreen \/ DisableWideScreen
    \/ Round
    \/ EndLine \/ EndFile

Spec == Init /\ [][Next]_vars

-----------------------------------------------------------------------------

(* Types of the variables. *)
TypeOK ==
    /\ owner \in [AllTimers -> {"free", "shell", "getkey"} \cup Modules]
    /\ altered \subseteq AllTimers
    /\ is_timered \in BOOLEAN /\ is_dwindowed \in BOOLEAN
    /\ window \in {"full", "numworks"}
    /\ running \in {"ui", "line", "file"}

(* The end of a file gives everything back, also what lines of the shell   *)
(* took before it and whatever was taken by earlier programs.              *)
FileGivesBack ==
    [][running = "file" /\ running' = "ui" =>
        window' = "full" /\ \A m \in Modules : RunBy(m)' = {}]_vars

(* Giving back timers by the numbers remembered in timer_altered[] never   *)
(* stops the timer of the shell: the screen keeps being refreshed.         *)
ShellTimerRuns == Cardinality(RunBy("shell")) = 1
==============================================================================
