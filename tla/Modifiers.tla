------------------------------ MODULE Modifiers ------------------------------
(***************************************************************************)
(* The SHIFT and ALPHA keys of the shell widget (ports/sh/widget_shell.c): *)
(* held down they act at once, tapped they are locked. Their states follow *)
(* the key events that reach the widget, and not all events do: a program  *)
(* reads some, clearevents() at its end drops others (main.c), and in the  *)
(* file tab another widget has the focus.                                  *)
(***************************************************************************)
EXTENDS Integers, Sequences

CONSTANT QueueSize      \* size of the keyboard driver's event queue

ASSUME ModifiersAssumption == QueueSize \in Nat \ {0}

VARIABLES
    mods,       \* widget_shell.shift and .alpha
    down,       \* modifier keys that the user holds down
    queue,      \* the event queue: <<type, key>>
    focus,      \* which tab gets the keys: "shell" or "files"
    running,    \* the event loop of main() ("ui") or of input(), or a program
    update,     \* PE.scene->widget.update
    icon,       \* the modifier icon on the screen: <<layer, instant>>
    seen,       \* modifiers that are down by the events the widget got
    lock,       \* modifiers locked, as the user counts
    used,       \* modifiers held while another key was pressed
    missed      \* modifiers with lost events since the last release seen

window == <<focus, running>>
count == <<seen, lock, used, missed>>
vars == <<mods, down, queue, window, update, icon, count>>

Keys == {"SHIFT", "ALPHA"}
OtherKeys == {"EXE", "F1", "F2", "UP", "CHAR"}
ModState == {"IDLE", "INSTANT", "INSTANT_USED",
             "LOCKED", "LOCKED_INSTANT", "LOCKED_INSTANT_USED"}

-----------------------------------------------------------------------------
(* The states of a modifier *)

mod_down(state) ==
    IF state = "IDLE" THEN "INSTANT"
    ELSE IF state = "LOCKED" THEN "LOCKED_INSTANT" ELSE state

mut_UpUsedLocks(state) ==
    IF state \in {"INSTANT", "INSTANT_USED", "LOCKED_INSTANT_USED"} THEN "LOCKED"
    ELSE IF state = "LOCKED_INSTANT" THEN "IDLE" ELSE state

mod_up(state) ==
    IF state \in {"INSTANT", "LOCKED_INSTANT_USED"} THEN "LOCKED"
    ELSE IF state \in {"INSTANT_USED", "LOCKED_INSTANT"} THEN "IDLE" ELSE state

mod_down_other(state) ==
    IF state = "INSTANT" THEN "INSTANT_USED"
    ELSE IF state = "LOCKED_INSTANT" THEN "LOCKED_INSTANT_USED" ELSE state

mod_active(state) == state \in {"LOCKED", "INSTANT", "INSTANT_USED"}
mod_instant(state) == state \notin {"IDLE", "LOCKED"}
mod_locked(state) == state \in {"LOCKED", "LOCKED_INSTANT", "LOCKED_INSTANT_USED"}

(* widget_shell_modifier_info(): the layer is the set of active modifiers *)
modifier_info(m) ==
    <<{k \in Keys : mod_active(m[k])}, \E k \in Keys : mod_instant(m[k])>>

-----------------------------------------------------------------------------

(* widget_shell_create(); main() shows the file tab first *)
Init ==
    /\ mods = [k \in Keys |-> "IDLE"]
    /\ down = {}
    /\ queue = <<>>
    /\ focus = "files" /\ running = "ui"
    /\ update = FALSE
    /\ icon = modifier_info(mods)
    /\ seen = {} /\ lock = {} /\ used = {} /\ missed = {}

(* The keyboard driver. It notices nothing while its queue is full.        *)
Push(type, key) ==
    /\ Len(queue) < QueueSize
    /\ queue' = Append(queue, <<type, key>>)
    /\ UNCHANGED <<mods, window, update, icon, count>>

PressModifier(key) == key \notin down /\ Push("DOWN", key) /\ down' = down \cup {key}
HoldModifier(key) == key \in down /\ Push("HOLD", key) /\ UNCHANGED down
ReleaseModifier(key) == key \in down /\ Push("UP", key) /\ down' = down \ {key}

(* A key of another kind; its repetition is like another press, and the    *)
(* widget ignores its release.                                             *)
PressOther(key) == Push("DOWN", key) /\ UNCHANGED down

-----------------------------------------------------------------------------
(* widget_shell_poly_event() *)

Event == Head(queue)
ToShell == running \in {"ui", "input"} /\ focus = "shell" /\ queue # <<>>

mut_SetModsSilent(new) == mods' = new /\ UNCHANGED update

(* widget_shell_update_mod(), widget_shell_use_mods(): a change is         *)
(* announced with WIDGET_SHELL_MOD_CHANGED, and pe_handle_event() asks for *)
(* a repaint.                                                              *)
SetMods(new) ==
    /\ mods' = new
    /\ update' = (update \/ new # mods)

(* What the user counts: a modifier pressed and released with no other key *)
(* in between changes its lock.                                            *)
CountModifier(type, key) ==
    IF type = "UP"
    THEN LET toggled == IF key \in used \/ key \notin seen THEN lock
                        ELSE (lock \ {key}) \cup ({key} \ lock)
         IN  /\ lock' = IF key \notin missed THEN toggled
                        ELSE (lock \ {key}) \cup {k \in {key} : mod_locked(mods'[k])}
             /\ seen' = seen \ {key} /\ used' = used \ {key} /\ missed' = missed \ {key}
    ELSE seen' = seen \cup {key} /\ UNCHANGED <<lock, used, missed>>

ModifierEvent ==
    /\ ToShell /\ Event[2] \in Keys
    /\ LET type == Event[1]
           key == Event[2]
       IN  /\ SetMods([mods EXCEPT ![key] = IF type = "UP" THEN mod_up(@) ELSE mod_down(@)])
           /\ CountModifier(type, key)
    /\ queue' = Tail(queue)
    /\ UNCHANGED <<down, window, icon>>

(* The arrows that scroll return before widget_shell_use_mods().           *)
ScrollEvent ==
    /\ ToShell /\ Event[2] = "UP"
    /\ queue' = Tail(queue)
    /\ UNCHANGED <<mods, down, window, update, icon, count>>

(* A key that uses the modifiers. EXE ends the line: the program starts,   *)
(* or goes on after input(). F1 and F2 are left to pe_handle_event(),      *)
(* which changes the tab except in input().                                *)
OtherEvent ==
    /\ ToShell /\ Event[2] \in OtherKeys \ {"UP"}
    /\ SetMods([k \in Keys |-> mod_down_other(mods[k])])
    /\ running' = IF Event[2] = "EXE" THEN "program" ELSE running
    /\ focus' = IF Event[2] = "F1" /\ running = "ui" THEN "files" ELSE focus
    /\ queue' = Tail(queue)
    /\ used' = used \cup seen
    /\ UNCHANGED <<down, icon, seen, lock, missed>>

-----------------------------------------------------------------------------
(* Events that do not reach the shell widget *)

Miss(events) == missed' = missed \cup {k \in Keys : \E n \in DOMAIN events : events[n][2] = k}

(* The file tab: EXE opens a file, which runs in the shell, F2 shows the   *)
(* shell.                                                                  *)
FilesEvent ==
    /\ running = "ui" /\ focus = "files" /\ queue # <<>>
    /\ focus' = IF Event[2] \in {"EXE", "F2"} THEN "shell" ELSE "files"
    /\ running' = IF Event[2] = "EXE" THEN "program" ELSE "ui"
    /\ Miss(<<Event>>)
    /\ queue' = Tail(queue)
    /\ UNCHANGED <<mods, down, update, icon, seen, lock, used>>

(* The program reads an event *)
ProgramEvent ==
    /\ running = "program" /\ queue # <<>>
    /\ Miss(<<Event>>)
    /\ queue' = Tail(queue)
    /\ UNCHANGED <<mods, down, window, update, icon, seen, lock, used>>

(* input() *)
ProgramInput ==
    /\ running = "program"
    /\ running' = "input"
    /\ UNCHANGED <<mods, down, queue, focus, update, icon, count>>

(* pe_after_python_exec(): clearevents() *)
ProgramEnd ==
    /\ running = "program"
    /\ running' = "ui"
    /\ Miss(queue)
    /\ queue' = <<>>
    /\ UNCHANGED <<mods, down, focus, update, icon, seen, lock, used>>

(* pe_draw(), asked for by JSCENE_PAINT in the event loops, or by the      *)
(* drawing hook of the program                                             *)
Draw ==
    /\ running # "program" => update
    /\ icon' = modifier_info(mods)
    /\ update' = IF running = "program" THEN update ELSE FALSE
    /\ UNCHANGED <<mods, down, queue, window, count>>

-----------------------------------------------------------------------------

Next ==
    \/ \E key \in Keys : PressModifier(key) \/ HoldModifier(key) \/ ReleaseModifier(key)
    \/ \E key \in OtherKeys : PressOther(key)
    \/ ModifierEvent \/ ScrollEvent \/ OtherEvent
    \/ FilesEvent \/ ProgramEvent \/ ProgramInput \/ ProgramEnd
    \/ Draw

(* Safety only: nothing here waits for the user. *)
Spec == Init /\ [][Next]_vars

-----------------------------------------------------------------------------

(* Types of the variables; the driver never overfills its queue. *)
TypeOK ==
    /\ mods \in [Keys -> ModState]
    /\ down \subseteq Keys
    /\ queue \in Seq({"DOWN", "HOLD", "UP"} \X (Keys \cup OtherKeys))
    /\ Len(queue) <= QueueSize
    /\ focus \in {"shell", "files"} /\ running \in {"ui", "program", "input"}
    /\ update \in BOOLEAN
    /\ icon \in (SUBSET Keys) \X BOOLEAN
    /\ seen \subseteq Keys /\ lock \subseteq Keys
    /\ used \subseteq seen /\ missed \subseteq Keys

(* The modifiers behave as the user counts, for every order of presses,    *)
(* repetitions and releases of both, unless events were lost: a tap        *)
(* changes the lock and a combination does not; a modifier is instant      *)
(* exactly while it is held; and it is active if it is locked or held, but *)
(* not both. After a loss this holds again from the next release on that   *)
(* the widget sees.                                                        *)
ModifiersCount ==
    \A k \in Keys \ missed :
        /\ mod_instant(mods[k]) <=> k \in seen
        /\ mod_locked(mods[k]) <=> k \in lock
        /\ mod_active(mods[k]) <=> ((k \in lock) # (k \in seen))

(* The icon on the screen shows the modifiers, or a repaint is asked for,  *)
(* though changes come from two functions and paints from two places.      *)
IconFollows == icon = modifier_info(mods) \/ update
==============================================================================
