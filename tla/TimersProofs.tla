----------------------------- MODULE TimersProofs -----------------------------
(***************************************************************************)
(* Proofs about Timers, for any sets of timers and any number of imports,  *)
(* and about Program, which implements it.                                 *)
(***************************************************************************)
EXTENDS Program, FiniteSetTheorems, TLAPS

(* The timers that modules run are among those marked in timer_altered[],  *)
(* and is_timered is set while there are any.                              *)
MarksCover ==
    \A t \in AllTimers : owner[t] \in Modules => t \in altered /\ is_timered

(* One timer is the shell's, and it is not marked. *)
ShellTimer(t) ==
    /\ t \in AllTimers \ altered
    /\ \A u \in AllTimers : owner[u] = "shell" <=> u = t

WindowKnown == is_dwindowed <=> window = "numworks"

(* The inductive invariant. That timer_altered[] is never cleared costs    *)
(* nothing: a marked timer may be free, but it never becomes the shell's.  *)
IInv == TypeOK /\ MarksCover /\ WindowKnown /\ \E t \in AllTimers : ShellTimer(t)

(* widget_shell_create() establishes the invariant. *)
LEMMA InitIInv == Init => IInv
<1> SUFFICES ASSUME Init PROVE IInv
  OBVIOUS
<1>1. PICK t \in AllTimers : owner = [u \in AllTimers |-> IF u = t THEN "shell" ELSE "free"]
  BY DEF Init
<1>2. TypeOK
  BY <1>1 DEF Init, TypeOK
<1>3. MarksCover
  BY <1>1 DEF MarksCover, Modules
<1>4. ShellTimer(t)
  BY <1>1 DEF Init, ShellTimer
<1> QED BY <1>2, <1>3, <1>4 DEF Init, IInv, WindowKnown

(* Taking a timer for a module keeps the part about timers. *)
LEMMA TakeTimer ==
    ASSUME TypeOK, MarksCover, NEW s \in AllTimers, ShellTimer(s),
           NEW m \in Modules, take_timer(m)
    PROVE  /\ owner' \in [AllTimers -> {"free", "shell", "getkey"} \cup Modules]
           /\ altered' \subseteq AllTimers
           /\ is_timered' \in BOOLEAN
           /\ MarksCover'
           /\ ShellTimer(s)'
<1>1. CASE UNCHANGED <<owner, altered, is_timered>>
  BY <1>1 DEF TypeOK, MarksCover, ShellTimer
<1>2. ASSUME NEW t \in Free(TMU),
             owner' = [owner EXCEPT ![t] = m],
             altered' = altered \cup {t},
             is_timered' = TRUE
      PROVE  /\ owner' \in [AllTimers -> {"free", "shell", "getkey"} \cup Modules]
             /\ altered' \subseteq AllTimers
             /\ is_timered' \in BOOLEAN
             /\ MarksCover'
             /\ ShellTimer(s)'
  <2>1. t \in AllTimers /\ owner[t] = "free"
    BY DEF Free, AllTimers
  <2>2. t # s
    BY <2>1 DEF ShellTimer
  <2>3. owner' \in [AllTimers -> {"free", "shell", "getkey"} \cup Modules]
    BY <1>2 DEF TypeOK
  <2>4. MarksCover'
    BY <1>2, <2>1 DEF MarksCover, TypeOK
  <2>5. ShellTimer(s)'
    BY <1>2, <2>1, <2>2 DEF ShellTimer, TypeOK, Modules
  <2> QED BY <1>2, <2>1, <2>3, <2>4, <2>5 DEF TypeOK
<1> QED BY <1>1, <1>2 DEF take_timer

(* Every import, window switch and end of a program keeps the invariant. *)
LEMMA NextIInv == IInv /\ [Next]_vars => IInv'
<1> SUFFICES ASSUME IInv, [Next]_vars PROVE IInv'
  OBVIOUS
<1> PICK s \in AllTimers : ShellTimer(s)
  BY DEF IInv
<1>1. ASSUME NEW what \in {"line", "file"}, Start(what) PROVE IInv'
  BY <1>1 DEF Start, IInv, TypeOK, MarksCover, WindowKnown, ShellTimer
<1>2. CASE ImportTime
  <2>1. take_timer("time") /\ UNCHANGED <<is_dwindowed, window, running>>
    BY <1>2 DEF ImportTime
  <2>2. "time" \in Modules
    BY DEF Modules
  <2> QED BY <2>1, <2>2, TakeTimer DEF IInv, TypeOK, WindowKnown
<1>3. CASE ImportKandinsky
  <2>1. take_timer("kandinsky") /\ window' = "numworks" /\ is_dwindowed' = TRUE /\ UNCHANGED running
    BY <1>3 DEF ImportKandinsky, SetWindow
  <2>2. "kandinsky" \in Modules
    BY DEF Modules
  <2> QED BY <2>1, <2>2, TakeTimer DEF IInv, TypeOK, WindowKnown
<1>4. CASE EnableWideScreen
  BY <1>4 DEF EnableWideScreen, SetWindow, IInv, TypeOK, MarksCover, WindowKnown, ShellTimer
<1>5. CASE DisableWideScreen
  BY <1>5 DEF DisableWideScreen, SetWindow, IInv, TypeOK, MarksCover, WindowKnown, ShellTimer
<1>6. CASE EndLine
  BY <1>6 DEF EndLine, IInv, TypeOK, MarksCover, WindowKnown, ShellTimer
<1>7. CASE EndFile
  <2>1. WindowKnown' /\ window' \in {"full", "numworks"} /\ is_dwindowed' \in BOOLEAN
    BY <1>7 DEF EndFile, SetWindow, IInv, WindowKnown, TypeOK
  <2>2. CASE is_timered
    <3>1. /\ owner' = [t \in AllTimers |-> IF t \in altered THEN "free" ELSE owner[t]]
          /\ is_timered' = FALSE
          /\ altered' = altered
          /\ running' = "ui"
      BY <1>7, <2>2 DEF EndFile
    <3>2. TypeOK'
      BY <2>1, <3>1 DEF IInv, TypeOK
    <3>3. MarksCover'
      BY <3>1 DEF IInv, MarksCover, Modules
    <3>4. ShellTimer(s)'
      BY <3>1 DEF ShellTimer
    <3> QED BY <2>1, <3>2, <3>3, <3>4 DEF IInv
  <2>3. CASE ~is_timered
    BY <1>7, <2>1, <2>3 DEF EndFile, IInv, TypeOK, MarksCover, ShellTimer
  <2> QED BY <2>2, <2>3
<1>8. CASE Round
  <2>1. UNCHANGED <<altered, is_timered, is_dwindowed, window, running>>
    BY <1>8 DEF Round
  <2>2. ASSUME NEW t \in Free(ETMU), owner' = [owner EXCEPT ![t] = "getkey"] PROVE IInv'
    <3>1. t \in AllTimers /\ owner[t] = "free" /\ t # s
      BY DEF Free, AllTimers, ShellTimer
    <3>2. TypeOK'
      BY <2>1, <2>2 DEF IInv, TypeOK
    <3>3. MarksCover'
      BY <2>1, <2>2, <3>1 DEF IInv, MarksCover, TypeOK, Modules
    <3>4. ShellTimer(s)'
      BY <2>1, <2>2, <3>1 DEF IInv, ShellTimer, TypeOK
    <3> QED BY <2>1, <3>2, <3>3, <3>4 DEF IInv, WindowKnown
  <2>3. CASE stop_round
    <3>1. TypeOK'
      BY <2>1, <2>3 DEF stop_round, IInv, TypeOK
    <3>2. MarksCover'
      BY <2>1, <2>3 DEF stop_round, IInv, MarksCover, Modules
    <3>3. ShellTimer(s)'
      BY <2>1, <2>3 DEF stop_round, ShellTimer
    <3> QED BY <2>1, <3>1, <3>2, <3>3 DEF IInv, WindowKnown
  <2>4. CASE UNCHANGED owner
    BY <2>1, <2>4 DEF IInv, TypeOK, MarksCover, WindowKnown, ShellTimer
  <2> QED BY <1>8, <2>2, <2>3, <2>4 DEF Round, configure_round
<1>9. CASE UNCHANGED vars
  BY <1>9 DEF vars, IInv, TypeOK, MarksCover, WindowKnown, ShellTimer
<1> QED BY <1>1, <1>2, <1>3, <1>4, <1>5, <1>6, <1>7, <1>8, <1>9 DEF Next

(* IInv is an invariant of the timers. *)
THEOREM Invariance == Spec => []IInv
BY InitIInv, NextIInv, PTL DEF Spec

(* The types of the timer tables and flags. *)
THEOREM TypeCorrect == Spec => []TypeOK
<1>1. IInv => TypeOK
  BY DEF IInv
<1> QED BY <1>1, Invariance, PTL

(* The timer that refreshes the shell survives every import and every      *)
(* pe_restore_window_and_timer().                                          *)
THEOREM ShellTimerSurvives == Spec => []ShellTimerRuns
<1>1. IInv => ShellTimerRuns
  <2> SUFFICES ASSUME IInv PROVE ShellTimerRuns
    OBVIOUS
  <2>1. PICK s \in AllTimers : ShellTimer(s)
    BY DEF IInv
  <2>2. RunBy("shell") = {s}
    BY <2>1 DEF RunBy, ShellTimer
  <2> QED BY <2>2, FS_Singleton DEF ShellTimerRuns
<1> QED BY <1>1, Invariance, PTL

(* The end of a file gives back every timer and the window, whatever lines *)
(* and files came before it.                                               *)
THEOREM FileGivesAllBack == Spec => FileGivesBack
<1>1. IInv /\ [Next]_vars =>
        [running = "file" /\ running' = "ui" =>
            window' = "full" /\ \A m \in Modules : RunBy(m)' = {}]_vars
  <2> SUFFICES ASSUME IInv, Next, running = "file", running' = "ui"
               PROVE  window' = "full" /\ \A m \in Modules : RunBy(m)' = {}
    BY DEF vars
  <2>1. EndFile
    BY DEF Next, Start, ImportTime, ImportKandinsky, EnableWideScreen,
       DisableWideScreen, Round, EndLine
  <2>2. window' = "full"
    BY <2>1 DEF EndFile, SetWindow, IInv, WindowKnown, TypeOK
  <2>3. \A t \in AllTimers : owner'[t] \notin Modules
    <3>1. CASE is_timered
      BY <2>1, <3>1 DEF EndFile, IInv, MarksCover, Modules
    <3>2. CASE ~is_timered
      BY <2>1, <3>2 DEF EndFile, IInv, MarksCover
    <3> QED BY <3>1, <3>2
  <2>4. \A m \in Modules : RunBy(m)' = {}
    BY <2>3 DEF RunBy
  <2> QED BY <2>2, <2>4
<1> QED BY <1>1, Invariance, PTL DEF Spec, FileGivesBack

-----------------------------------------------------------------------------
(* The program as a whole *)

(* A step of the program takes or gives back timers and the window only in *)
(* the ways of Timers.                                                     *)
LEMMA ProgramStep == [ProgramNext]_programVars => [Next]_vars
<1> SUFFICES ASSUME [ProgramNext]_programVars PROVE [Next]_vars
  OBVIOUS
<1>1. CASE StartFile \/ StartLine
  BY <1>1 DEF StartFile, StartLine, Next
<1>2. CASE ModuleStep
  BY <1>2 DEF ModuleStep, Next
<1>3. CASE CallStep
  BY <1>3 DEF CallStep, GetkeyCall
<1>4. CASE WaitStep
  BY <1>4 DEF WaitStep, GetkeyStep, GetkeyRun, GetkeyRound, GetkeyEvent,
     GetkeyFlag, GetkeyTimeout,
     GetkeyReturn, Next
<1>5. CASE UseFile \/ UNCHANGED programVars
  BY <1>5 DEF UseFile, programVars
<1> QED BY <1>1, <1>2, <1>3, <1>4, <1>5 DEF ProgramNext

(* A program that imports modules, waits for keys and uses files           *)
(* implements Timers.                                                      *)
THEOREM ProgramImplementsTimers == ProgramSpec => Spec
<1>1. ProgramInit => Init
  BY DEF ProgramInit
<1> QED BY <1>1, ProgramStep, PTL DEF ProgramSpec, Spec

(* The shell keeps its timer, and the end of a file gives everything back, *)
(* whatever a program does.                                                *)
THEOREM ProgramGivesBack == ProgramSpec => []ShellTimerRuns /\ FileGivesBack
BY ProgramImplementsTimers, ShellTimerSurvives, FileGivesAllBack, PTL

(* The state of a call of getkey() *)
CallInv ==
    /\ call.pc \in {"none", "loop", "wait", "end"}
    /\ call.pc = "none" => call = NoCall
    /\ call = [pc |-> call.pc, timeout |-> call.timeout, left |-> call.left,
               round |-> call.round, ev |-> call.ev, waited |-> call.waited]
    /\ call.timeout \in Int /\ call.left \in Int /\ call.round \in Int /\ call.waited \in Int
    /\ call.timeout >= 0 => call.left >= 0 /\ call.waited + call.left = call.timeout
    /\ call.timeout < 0 => call.waited = 0
    /\ call.pc = "wait" /\ call.timeout >= 0 => call.round <= call.left
    /\ call.pc = "end" /\ call.ev # "key" => call.timeout >= 0 /\ call.left = 0
    /\ call.ev = "uninitialised" => call.waited = 0
    /\ call.ev \in {"none", "key", "uninitialised"}
    /\ call.pc = "none" <=> transform = "ui"

LEMMA CallNext == CallInv /\ [ProgramNext]_programVars => CallInv'
<1> SUFFICES ASSUME CallInv, [ProgramNext]_programVars PROVE CallInv'
  OBVIOUS
<1>0. RoundMs \in Nat \ {0} /\ Timeouts \subseteq Int
  BY GetKeyAssumption
<1>1. CASE UNCHANGED <<call, transform>>
  BY <1>1 DEF CallInv, NoCall
<1>2. ASSUME NEW timeout \in Timeouts, GetkeyCall(timeout) PROVE CallInv'
  BY <1>0, <1>2 DEF GetkeyCall, CallInv, NoCall
<1>3. CASE GetkeyRound
  <2>1. /\ call' = [pc |-> "wait", timeout |-> call.timeout, left |-> call.left,
                    round |-> RoundTime, ev |-> call.ev, waited |-> call.waited]
        /\ transform' = transform /\ call.pc = "loop"
    BY <1>3 DEF GetkeyRound, CallInv
  <2>2. RoundTime \in Int /\ (call.timeout >= 0 => RoundTime <= call.left)
    BY <1>0 DEF RoundTime, has_timeout, CallInv
  <2> QED BY <2>1, <2>2 DEF CallInv
<1>4. CASE GetkeyEvent
  <2>1. /\ call' = [pc |-> "end", timeout |-> call.timeout, left |-> call.left,
                    round |-> call.round, ev |-> "key", waited |-> call.waited]
        /\ transform' = transform /\ call.pc = "wait"
    BY <1>4 DEF GetkeyEvent, CallInv
  <2> QED BY <2>1 DEF CallInv
<1>5. CASE GetkeyFlag
  <2> DEFINE waited == IF has_timeout THEN call.waited + call.round ELSE call.waited
             left == IF has_timeout THEN call.left - call.round ELSE call.left
  <2>1. /\ call' = [call EXCEPT !.pc = "loop", !.ev = "none", !.waited = waited, !.left = left]
        /\ transform' = transform /\ call.pc = "wait"
    BY <1>5 DEF GetkeyFlag
  <2>2. /\ waited \in Int /\ left \in Int
        /\ call.timeout >= 0 => left >= 0 /\ waited + left = call.timeout
        /\ call.timeout < 0 => waited = 0
    BY <2>1 DEF CallInv, has_timeout
  <2> HIDE DEF waited, left
  <2>3. call' = [pc |-> "loop", timeout |-> call.timeout, left |-> left,
                 round |-> call.round, ev |-> "none", waited |-> waited]
    BY <2>1 DEF CallInv
  <2> QED BY <2>1, <2>2, <2>3 DEF CallInv
<1>6. CASE GetkeyTimeout
  <2>1. /\ call' = [pc |-> "end", timeout |-> call.timeout, left |-> call.left,
                    round |-> call.round, ev |-> call.ev, waited |-> call.waited]
        /\ transform' = transform /\ call.pc = "loop" /\ call.timeout >= 0 /\ call.left <= 0
    BY <1>6 DEF GetkeyTimeout, CallInv, has_timeout
  <2> QED BY <2>1 DEF CallInv
<1>7. CASE GetkeyReturn
  BY <1>7 DEF GetkeyReturn, CallInv, NoCall
<1>8. \/ UNCHANGED <<call, transform>>
      \/ \E timeout \in Timeouts : GetkeyCall(timeout)
      \/ GetkeyStep
  BY DEF ProgramNext, StartFile, StartLine, ModuleStep, CallStep, WaitStep, UseFile, programVars
<1> QED BY <1>1, <1>2, <1>3, <1>4, <1>5, <1>6, <1>7, <1>8 DEF GetkeyStep, GetkeyRun

(* A getkey() that returns without an event has waited for the time asked, *)
(* for every timeout and every length of a round, and leaves the           *)
(* transformation of events as it was.                                     *)
THEOREM GetkeyWaitsAsAsked == ProgramSpec => [](GetkeyWaits /\ TransformRestored)
<1>1. ProgramInit => CallInv
  BY DEF ProgramInit, GetKeyInit, CallInv, NoCall
<1>2. CallInv => GetkeyWaits /\ TransformRestored
  BY DEF CallInv, GetkeyWaits, TransformRestored
<1> QED BY <1>1, <1>2, CallNext, PTL DEF ProgramSpec

-----------------------------------------------------------------------------
(* The timers of getkey(): modules never take one of that kind, and a      *)
(* round has exactly one.                                                  *)
RoundInv ==
    /\ \A t \in ETMU : owner[t] \in {"free", "shell", "getkey"}
    /\ call.pc = "wait" => \E t \in ETMU : RunBy("getkey") = {t}
    /\ call.pc # "wait" => RunBy("getkey") = {}

(* Between two rounds a timer for the next one is free. *)
LEMMA RoundTimerFree ==
    ASSUME IInv, RoundInv, call.pc # "wait"
    PROVE  Free(ETMU) # {}
<1> SUFFICES ASSUME Free(ETMU) = {} PROVE FALSE
  OBVIOUS
<1>1. PICK s \in AllTimers : ShellTimer(s)
  BY DEF IInv
<1>2. ETMU \subseteq {s}
  BY <1>1 DEF RoundInv, RunBy, Free, ShellTimer, AllTimers
<1>3. IsFiniteSet({s}) /\ Cardinality({s}) = 1
  BY FS_Singleton
<1>4. Cardinality(ETMU) <= Cardinality({s}) /\ Cardinality(ETMU) \in Nat
  BY <1>2, <1>3, FS_Subset, FS_CardinalityType, TimersAssumption
<1> QED BY <1>3, <1>4, GetKeyAssumption

LEMMA RoundNext ==
    ASSUME IInv, RoundInv, CallInv, [ProgramNext]_programVars
    PROVE  RoundInv'
<1>0. owner \in [AllTimers -> {"free", "shell", "getkey"} \cup Modules]
  BY DEF IInv, TypeOK
<1>1. CASE UNCHANGED <<owner, call>>
  BY <1>1 DEF RoundInv, RunBy
<1>2. ASSUME NEW m \in Modules, take_timer(m), UNCHANGED call PROVE RoundInv'
  <2>1. CASE UNCHANGED owner
    BY <1>1, <1>2, <2>1
  <2>2. ASSUME NEW t \in Free(TMU), owner' = [owner EXCEPT ![t] = m] PROVE RoundInv'
    <3>1. t \in AllTimers /\ t \notin ETMU /\ owner[t] = "free" /\ m # "getkey"
      BY TimersAssumption DEF Free, AllTimers, Modules
    <3>2. RunBy("getkey")' = RunBy("getkey")
      BY <1>0, <2>2, <3>1 DEF RunBy
    <3>3. \A u \in ETMU : owner'[u] = owner[u]
      BY <1>0, <2>2, <3>1 DEF AllTimers
    <3> QED BY <1>2, <3>2, <3>3 DEF RoundInv
  <2> QED BY <1>2, <2>1, <2>2 DEF take_timer
<1>3. CASE EndFile /\ UNCHANGED call /\ call = NoCall
  <2>1. call.pc = "none"
    BY <1>3 DEF NoCall
  <2>2. \A t \in AllTimers : owner'[t] \in {owner[t], "free"}
    BY <1>0, <1>3 DEF EndFile
  <2> QED BY <1>3, <2>1, <2>2 DEF RoundInv, RunBy, AllTimers
<1>4. CASE GetkeyRound
  <2>1. call.pc = "loop" /\ call'.pc = "wait" /\ configure_round
    BY <1>4 DEF GetkeyRound, CallInv
  <2>2. PICK t \in Free(ETMU) : owner' = [owner EXCEPT ![t] = "getkey"]
    BY <2>1, RoundTimerFree DEF configure_round
  <2>3. t \in AllTimers /\ t \in ETMU
    BY DEF Free, AllTimers
  <2>4. RunBy("getkey")' = {t}
    BY <1>0, <2>1, <2>2, <2>3 DEF RunBy, RoundInv
  <2> QED BY <1>0, <2>1, <2>2, <2>3, <2>4 DEF RoundInv, AllTimers
<1>5. CASE GetkeyEvent \/ GetkeyFlag
  <2>1. call'.pc # "wait" /\ stop_round
    BY <1>5 DEF GetkeyEvent, GetkeyFlag, CallInv
  <2>2. RunBy("getkey")' = {}
    BY <2>1 DEF RunBy, stop_round
  <2> QED BY <2>1, <2>2 DEF RoundInv, stop_round, AllTimers
<1>6. CASE UNCHANGED owner /\ call.pc # "wait" /\ call'.pc # "wait"
  BY <1>6 DEF RoundInv, RunBy
<1>7. ASSUME NEW timeout \in Timeouts, GetkeyCall(timeout) PROVE RoundInv'
  BY <1>6, <1>7 DEF GetkeyCall, InPython, NoCall, vars
<1>8. CASE GetkeyTimeout \/ GetkeyReturn
  BY <1>6, <1>8 DEF GetkeyTimeout, GetkeyReturn, NoCall, CallInv, vars
<1>9. CASE ModuleStep
  <2>1. CASE ImportTime
    BY <1>2, <1>9, <2>1 DEF ModuleStep, ImportTime, Modules
  <2>2. CASE ImportKandinsky
    BY <1>2, <1>9, <2>2 DEF ModuleStep, ImportKandinsky, Modules
  <2>3. CASE EndFile
    BY <1>3, <1>9, <2>3 DEF ModuleStep, InPython
  <2>4. CASE EnableWideScreen \/ DisableWideScreen \/ EndLine
    BY <1>1, <1>9, <2>4 DEF ModuleStep, EnableWideScreen, DisableWideScreen, EndLine
  <2> QED BY <1>9, <2>1, <2>2, <2>3, <2>4 DEF ModuleStep
<1>10. CASE StartFile \/ StartLine \/ UseFile \/ UNCHANGED programVars
  BY <1>1, <1>10 DEF StartFile, StartLine, Start, UseFile, programVars, vars
<1> QED BY <1>4, <1>5, <1>7, <1>8, <1>9, <1>10
     DEF ProgramNext, CallStep, WaitStep, GetkeyStep, GetkeyRun

(* Every round of getkey() has a timer of its own, for any number of       *)
(* timers of its kind above one, whatever the programs before took.        *)
THEOREM RoundsHaveTimers == ProgramSpec => []RoundHasTimer
<1>1. ProgramInit => IInv /\ CallInv /\ RoundInv
  <2> SUFFICES ASSUME ProgramInit PROVE IInv /\ CallInv /\ RoundInv
    OBVIOUS
  <2>1. IInv
    BY InitIInv DEF ProgramInit
  <2>2. CallInv
    BY DEF ProgramInit, GetKeyInit, CallInv, NoCall
  <2>3. \A t \in AllTimers : owner[t] \in {"free", "shell"}
    BY DEF ProgramInit, Init
  <2>4. call.pc = "none"
    BY DEF ProgramInit, GetKeyInit, NoCall
  <2>5. RoundInv
    BY <2>3, <2>4 DEF RoundInv, RunBy, AllTimers
  <2> QED BY <2>1, <2>2, <2>5
<1>2. IInv /\ CallInv /\ RoundInv /\ [ProgramNext]_programVars => IInv' /\ CallInv' /\ RoundInv'
  <2>1. [ProgramNext]_programVars => [Next]_vars
    BY ProgramStep
  <2> QED BY <2>1, NextIInv, CallNext, RoundNext
<1>3. RoundInv => RoundHasTimer
  BY FS_Singleton, FS_EmptySet DEF RoundInv, RoundHasTimer
<1> QED BY <1>1, <1>2, <1>3, PTL DEF ProgramSpec

-----------------------------------------------------------------------------
(* Files: as long as no program goes behind the objects' back, each open   *)
(* object has a descriptor of its own, which stands for its file.          *)
FileInv ==
    /\ table = [fd \in Fds |-> table[fd]]
    /\ objs = [o \in Objects |-> objs[o]]
    /\ \A o \in Objects : objs[o] = [fd |-> objs[o].fd, name |-> objs[o].name]
    /\ \A o \in Objects : objs[o].fd \in Int
    /\ ~numbered =>
        /\ table[STDOUT_FILENO] = "console"
        /\ \A o \in Objects : objs[o].fd >= 0 =>
            /\ objs[o].fd \in Fds /\ objs[o].name \in Names
            /\ table[objs[o].fd] = objs[o].name
            /\ \A p \in Objects : p # o => objs[p].fd # objs[o].fd

LEMMA FileNext == FileInv /\ [ProgramNext]_programVars => FileInv'
<1> SUFFICES ASSUME FileInv, [ProgramNext]_programVars PROVE FileInv'
  OBVIOUS
<1>0. /\ Fds \subseteq Int /\ -1 \notin Fds /\ STDOUT_FILENO \in Fds /\ -1 \in Int
      /\ -1..MaxFd \subseteq Int /\ \A fd \in Fds : fd >= 0
  BY FdFileAssumption DEF Fds, STDOUT_FILENO
<1>1. CASE UNCHANGED fileVars
  BY <1>1 DEF fileVars, FileInv
<1>2. CASE ResetFiles
  <2>1. \A o \in Objects : objs'[o] = NoObject
    BY <1>2 DEF ResetFiles
  <2> QED BY <1>0, <1>2, <2>1 DEF ResetFiles, NoObject, FileInv
<1>3. ASSUME NEW o \in Objects, NEW name \in Names, fdfile_open(o, name) PROVE FileInv'
  <2>1. PICK fd \in Fds : /\ table[fd] = "closed"
                          /\ table' = [table EXCEPT ![fd] = name]
                          /\ objs' = [objs EXCEPT ![o] = [fd |-> fd, name |-> name]]
    BY <1>3 DEF fdfile_open
  <2>2. numbered' = numbered
    BY <1>3 DEF fdfile_open
  <2>3. \A p \in Objects : objs'[p] = IF p = o THEN [fd |-> fd, name |-> name] ELSE objs[p]
    BY <2>1 DEF FileInv
  <2>4. \A n \in Fds : table'[n] = IF n = fd THEN name ELSE table[n]
    BY <2>1 DEF FileInv
  <2>5. \A p \in Objects : ~numbered /\ objs[p].fd >= 0 => objs[p].fd # fd
    BY <2>1, FdFileAssumption DEF FileInv
  <2>6. table' = [n \in Fds |-> table'[n]] /\ objs' = [p \in Objects |-> objs'[p]]
    BY <2>1 DEF FileInv
  <2>7. /\ \A p \in Objects : objs'[p] = [fd |-> objs'[p].fd, name |-> objs'[p].name]
        /\ \A p \in Objects : objs'[p].fd \in Int
    BY <1>0, <2>3 DEF FileInv
  <2>8. ASSUME ~numbered'
        PROVE  /\ table'[STDOUT_FILENO] = "console"
               /\ \A p \in Objects : objs'[p].fd >= 0 =>
                    /\ objs'[p].fd \in Fds /\ objs'[p].name \in Names
                    /\ table'[objs'[p].fd] = objs'[p].name
                    /\ \A q \in Objects : q # p => objs'[q].fd # objs'[p].fd
    <3>1. table'[STDOUT_FILENO] = "console"
      BY <1>0, <2>1, <2>2, <2>4, <2>8 DEF FileInv
    <3>2. ASSUME NEW p \in Objects, objs'[p].fd >= 0
          PROVE  /\ objs'[p].fd \in Fds /\ objs'[p].name \in Names
                 /\ table'[objs'[p].fd] = objs'[p].name
      BY <2>2, <2>3, <2>4, <2>5, <2>8, <3>2 DEF FileInv
    <3>3. ASSUME NEW p \in Objects, NEW q \in Objects, objs'[p].fd >= 0, q # p
          PROVE  objs'[q].fd # objs'[p].fd
      <4>1. CASE p = o
        BY <1>0, <2>2, <2>3, <2>5, <2>8, <3>3, <4>1 DEF FileInv
      <4>2. CASE q = o
        BY <1>0, <2>2, <2>3, <2>5, <2>8, <3>3, <4>2 DEF FileInv
      <4>3. CASE p # o /\ q # o
        BY <2>2, <2>3, <2>8, <3>3, <4>3 DEF FileInv
      <4> QED BY <4>1, <4>2, <4>3
    <3> QED BY <3>1, <3>2, <3>3
  <2> QED BY <2>6, <2>7, <2>8 DEF FileInv
<1>4. ASSUME NEW o \in Objects, NEW n \in -1..MaxFd, fdfile_open_number(o, n) PROVE FileInv'
  <2>1. /\ objs' = [objs EXCEPT ![o] = [fd |-> n, name |-> "number"]]
        /\ numbered' = TRUE /\ table' = table /\ n \in Int
    BY <1>0, <1>4 DEF fdfile_open_number
  <2>2. \A p \in Objects : objs'[p] = IF p = o THEN [fd |-> n, name |-> "number"] ELSE objs[p]
    BY <2>1 DEF FileInv
  <2>3. objs' = [p \in Objects |-> objs'[p]]
    BY <2>1 DEF FileInv
  <2> QED BY <2>1, <2>2, <2>3 DEF FileInv
<1>5. ASSUME NEW o \in Objects, fdfile_close(o) PROVE FileInv'
  <2>1. /\ table' = [fd \in Fds |-> IF fd = objs[o].fd THEN "closed" ELSE table[fd]]
        /\ objs' = [objs EXCEPT ![o].fd = -1] /\ numbered' = numbered
    BY <1>5 DEF fdfile_close
  <2>2. \A p \in Objects : objs'[p] = IF p = o THEN [fd |-> -1, name |-> objs[o].name] ELSE objs[p]
    BY <2>1 DEF FileInv
  <2>3. table' = [fd \in Fds |-> table'[fd]] /\ objs' = [p \in Objects |-> objs'[p]]
    BY <2>1 DEF FileInv
  <2>4. /\ \A p \in Objects : objs'[p] = [fd |-> objs'[p].fd, name |-> objs'[p].name]
        /\ \A p \in Objects : objs'[p].fd \in Int
    BY <1>0, <2>2 DEF FileInv
  <2>5. ASSUME ~numbered'
        PROVE  /\ table'[STDOUT_FILENO] = "console"
               /\ \A p \in Objects : objs'[p].fd >= 0 =>
                    /\ objs'[p].fd \in Fds /\ objs'[p].name \in Names
                    /\ table'[objs'[p].fd] = objs'[p].name
                    /\ \A q \in Objects : q # p => objs'[q].fd # objs'[p].fd
    <3>1. table'[STDOUT_FILENO] = "console"
      <4>1. objs[o].fd # STDOUT_FILENO
        BY <2>1, <2>5, FdFileAssumption DEF FileInv, STDOUT_FILENO
      <4> QED BY <1>0, <2>1, <2>5, <4>1 DEF FileInv
    <3>2. ASSUME NEW p \in Objects, objs'[p].fd >= 0
          PROVE  /\ objs'[p].fd \in Fds /\ objs'[p].name \in Names
                 /\ table'[objs'[p].fd] = objs'[p].name
                 /\ \A q \in Objects : q # p => objs'[q].fd # objs'[p].fd
      <4>1. p # o /\ objs'[p] = objs[p] /\ objs[p].fd >= 0
        BY <2>2, <3>2
      <4>2. /\ objs[p].fd \in Fds /\ objs[p].name \in Names
            /\ table[objs[p].fd] = objs[p].name
            /\ \A q \in Objects : q # p => objs[q].fd # objs[p].fd
        BY <2>1, <2>5, <4>1 DEF FileInv
      <4>3. table'[objs[p].fd] = table[objs[p].fd]
        BY <2>1, <4>1, <4>2
      <4>4. \A q \in Objects : q # p => objs'[q].fd # objs[p].fd
        BY <2>2, <4>1, <4>2
      <4> QED BY <4>1, <4>2, <4>3, <4>4
    <3> QED BY <3>1, <3>2
  <2> QED BY <2>3, <2>4, <2>5 DEF FileInv
<1>6. ASSUME NEW o \in Objects, DropFile(o) PROVE FileInv'
  <2>1. objs' = [objs EXCEPT ![o] = NoObject] /\ UNCHANGED <<table, numbered>>
    BY <1>6 DEF DropFile
  <2>2. /\ \A p \in Objects : objs'[p] = IF p = o THEN NoObject ELSE objs[p]
        /\ objs' = [p \in Objects |-> objs'[p]]
    BY <2>1 DEF FileInv
  <2>3. NoObject.fd = -1 /\ NoObject = [fd |-> NoObject.fd, name |-> NoObject.name]
    BY DEF NoObject
  <2>4. \A p \in Objects : objs'[p].fd >= 0 => p # o /\ objs'[p] = objs[p]
    BY <2>2, <2>3
  <2> QED BY <1>0, <2>1, <2>2, <2>3, <2>4 DEF FileInv
<1>7. ASSUME NEW fd, close_stream(fd) PROVE FileInv'
  <2>1. table' = [table EXCEPT ![fd] = "closed"] /\ objs' = objs /\ numbered' = TRUE
    BY <1>7 DEF close_stream
  <2>2. table' = [n \in Fds |-> table'[n]]
    BY <2>1 DEF FileInv
  <2> QED BY <2>1, <2>2 DEF FileInv
<1>8. CASE FileStep
  BY <1>3, <1>4, <1>5, <1>6, <1>7, <1>8 DEF FileStep
<1> QED BY <1>1, <1>2, <1>8 DEF ProgramNext, StartFile, StartLine, ModuleStep, CallStep,
        WaitStep, UseFile, programVars

(* File objects reach their own files and print() reaches the console, for *)
(* any number of files, objects and descriptors.                           *)
THEOREM FilesAreOwn == ProgramSpec => []AccessesOwnFile
<1>1. ProgramInit => FileInv
  <2> SUFFICES ASSUME ProgramInit PROVE FileInv
    OBVIOUS
  <2>1. \A o \in Objects : objs[o] = NoObject
    BY DEF ProgramInit, FileInit
  <2>2. STDOUT_FILENO \in Fds /\ STDOUT_FILENO # STDIN_FILENO
    BY FdFileAssumption DEF Fds, STDOUT_FILENO, STDIN_FILENO
  <2> QED BY <2>1, <2>2 DEF ProgramInit, FileInit, FileInv, NoObject
<1>2. FileInv => AccessesOwnFile
  BY DEF FileInv, AccessesOwnFile, Reached, Printed
<1> QED BY <1>1, <1>2, FileNext, PTL DEF ProgramSpec
==============================================================================
