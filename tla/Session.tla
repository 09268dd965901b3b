------------------------------- MODULE Session -------------------------------
(***************************************************************************)
(* The execution of Python code from the user interface, and the AC/ON key *)
(* that interrupts it: pe_handle_event() and pe_readline() of main.c,      *)
(* parse_compile_execute() of pyexec.c, the keyboard filter that runs in   *)
(* the keyboard interrupt, the pending exception of py/scheduler.c.        *)
(*                                                                         *)
(* The main thread is pc, one step per access to what the interrupt also   *)
(* touches. A key press happens between any two of its steps.              *)
(***************************************************************************)
EXTENDS Integers, Sequences, SequencesExt

CONSTANTS
    QueueSize,      \* size of the keyboard driver's event queue
    MaxPresses      \* bound on the number of keys pressed

ASSUME SessionAssumption == QueueSize \in Nat \ {0} /\ MaxPresses \in Nat

VARIABLES
    interrupt_char, \* mp_interrupt_char: -1 or CHAR_CTRL_C
    pending,        \* mp_pending_exception holds the KeyboardInterrupt
    queue,          \* the event queue: <<key, whom it was pressed for>>
    presses,        \* number of keys pressed
    saved,          \* local c of pe_readline()
    pc

vars == <<interrupt_char, pending, queue, presses, saved, pc>>

CTRL_C == 3

(* ui: jscene_run() of main(); prep: pe_reset_micropython() for a file;    *)
(* compile: up to mp_compile(); call: the VM; getkey: gint.getkey() waits; *)
(* readline1/2/3: pe_readline() before, in and after its event loop;       *)
(* return1/2: the normal end; except1/2: the exception handler; finish:    *)
(* the end of parse_compile_execute(); prompt: the rest of                 *)
(* pe_handle_event().                                                      *)
PCs == {"ui", "prep", "compile", "enable", "call", "getkey",
        "readline1", "readline2", "readline3", "return1", "return2", "except1", "except2", "finish", "prompt"}

Init ==
    /\ interrupt_char = -1
    /\ pending = FALSE
    /\ queue = <<>>
    /\ presses = 0
    /\ saved = -1
    /\ pc = "ui"

-----------------------------------------------------------------------------
(* The keyboard interrupt *)

(* Whom a key is meant for that is pressed now *)
Addressee == IF pc \in {"ui", "prep", "readline2", "prompt"} THEN "ui" ELSE "program"

(* pushevent() of the keyboard driver: a full queue loses the event *)
Push(key) ==
    queue' = IF Len(queue) < QueueSize THEN Append(queue, <<key, Addressee>>) ELSE queue

(* async_filter() on AC/ON: it interrupts MicroPython, when that can be    *)
(* interrupted, and is an event like any other otherwise.                  *)
PressACON ==
    /\ presses < MaxPresses
    /\ presses' = presses + 1
    /\ IF interrupt_char >= 0
       THEN pending' = TRUE /\ UNCHANGED queue
       ELSE Push("ACON") /\ UNCHANGED pending
    /\ UNCHANGED <<interrupt_char, saved, pc>>

PressKey(key) ==
    /\ presses < MaxPresses
    /\ presses' = presses + 1
    /\ Push(key)
    /\ UNCHANGED <<interrupt_char, pending, saved, pc>>

-----------------------------------------------------------------------------
(* The event loop of main() *)

(* EXE ends a line: pyexec_repl_execute() runs it. F1 stands for choosing  *)
(* a file in the other tab. The rest edits the line or clears it.          *)
UiEvent ==
    /\ pc = "ui" /\ queue # <<>>
    /\ LET key == Head(queue)[1]
       IN  pc' = CASE key = "EXE" -> "compile" [] key = "F1" -> "prep" [] OTHER -> "ui"
    /\ queue' = Tail(queue)
    /\ UNCHANGED <<interrupt_char, pending, presses, saved>>

(* mp_deinit() and mp_init(): no exception is pending; then                *)
(* pyexec_repl_execute() is called, unless malloc() fails: the file is     *)
(* then not run, and nothing clears the events.                            *)
Prepare ==
    /\ pc = "prep"
    /\ pending' = FALSE
    /\ pc' \in {"compile", "prompt"}
    /\ UNCHANGED <<interrupt_char, queue, presses, saved>>

-----------------------------------------------------------------------------
(* parse_compile_execute() *)

Goto(from, to) ==
    /\ pc = from
    /\ pc' = to

(* mp_parse() and mp_compile(): they may raise *)
Compile ==
    /\ \E to \in {"enable", "except1"} : Goto("compile", to)
    /\ UNCHANGED <<interrupt_char, pending, queue, presses, saved>>

EnableInterrupt ==
    /\ Goto("enable", "call")
    /\ interrupt_char' = CTRL_C
    /\ UNCHANGED <<pending, queue, presses, saved>>

(* A branch of the VM: mp_handle_pending(TRUE). The program catches the    *)
(* exception or is ended by it.                                            *)
Branch ==
    /\ pc = "call"
    /\ pending
    /\ pending' = FALSE
    /\ pc' \in {"call", "except1"}
    /\ UNCHANGED <<interrupt_char, queue, presses, saved>>

(* The program reads events with gint.pollevent() *)
PollEvent ==
    /\ pc = "call" /\ queue # <<>>
    /\ queue' = Tail(queue)
    /\ UNCHANGED <<interrupt_char, pending, presses, saved, pc>>

(* getkey_opt_internal() of modgint.c: rounds of at most 20 ms until there *)
(* is an event. A round runs the VM's drawing hook, and not                *)
(* mp_handle_pending(): an interrupt waits until the call returns.         *)
GetkeyCall ==
    /\ Goto("call", "getkey")
    /\ UNCHANGED <<interrupt_char, pending, queue, presses, saved>>

GetkeyEvent ==
    /\ Goto("getkey", "call") /\ queue # <<>>
    /\ queue' = Tail(queue)
    /\ UNCHANGED <<interrupt_char, pending, presses, saved>>

(* The end of the delay, if the program gave one *)
GetkeyTimeout ==
    /\ Goto("getkey", "call")
    /\ UNCHANGED <<interrupt_char, pending, queue, presses, saved>>

(* The program returns, or raises an exception of its own *)
CallReturn ==
    /\ \E to \in {"return1", "except1"} : Goto("call", to)
    /\ UNCHANGED <<interrupt_char, pending, queue, presses, saved>>

mut_ReturnSwapped ==
    \/ /\ pc = "return1"
       /\ pending' = FALSE
       /\ pc' = IF pending THEN "except1" ELSE "return2"
       /\ UNCHANGED <<interrupt_char, queue, presses, saved>>
    \/ /\ Goto("return2", "finish")
       /\ interrupt_char' = -1
       /\ UNCHANGED <<pending, queue, presses, saved>>

(* The normal end: no more interrupts, then one that came in time is       *)
(* raised, into the exception handler.                                     *)
ReturnSteps ==
    \/ /\ Goto("return1", "return2")
       /\ interrupt_char' = -1
       /\ UNCHANGED <<pending, queue, presses, saved>>
    \/ /\ pc = "return2"
       /\ pending' = FALSE
       /\ pc' = IF pending THEN "except1" ELSE "finish"
       /\ UNCHANGED <<interrupt_char, queue, presses, saved>>

mut_ExceptKeepsPending ==
    \/ /\ Goto("except1", "except2")
       /\ interrupt_char' = -1
       /\ UNCHANGED <<pending, queue, presses, saved>>
    \/ /\ Goto("except2", "finish")
       /\ UNCHANGED <<interrupt_char, pending, queue, presses, saved>>

(* The exception handler: no more interrupts, and a pending one is cleared *)
ExceptSteps ==
    \/ /\ Goto("except1", "except2")
       /\ interrupt_char' = -1
       /\ UNCHANGED <<pending, queue, presses, saved>>
    \/ /\ Goto("except2", "finish")
       /\ pending' = FALSE
       /\ UNCHANGED <<interrupt_char, queue, presses, saved>>

mut_FinishKeepsEvents ==
    /\ Goto("finish", "prompt")
    /\ UNCHANGED <<interrupt_char, pending, queue, presses, saved>>

(* pe_after_python_exec(): clearevents(); then pyexec_repl_execute() ends  *)
Finish ==
    /\ Goto("finish", "prompt")
    /\ queue' = <<>>
    /\ UNCHANGED <<interrupt_char, pending, presses, saved>>

PrintPrompt ==
    /\ Goto("prompt", "ui")
    /\ UNCHANGED <<interrupt_char, pending, queue, presses, saved>>

-----------------------------------------------------------------------------
(* pe_readline(), for input() *)

ReadlineCall ==
    /\ Goto("call", "readline1")
    /\ saved' = interrupt_char
    /\ UNCHANGED <<interrupt_char, pending, queue, presses>>

mut_ReadlineInterruptible ==
    /\ Goto("readline1", "readline2")
    /\ UNCHANGED <<interrupt_char, pending, queue, presses, saved>>

ReadlineStart ==
    /\ Goto("readline1", "readline2")
    /\ interrupt_char' = -1
    /\ UNCHANGED <<pending, queue, presses, saved>>

(* Only EXE ends the loop, with the copy of the line that                  *)
(* console_get_line() makes; without memory for it the loop goes on, and   *)
(* the line is lost.                                                       *)
ReadlineEvent ==
    /\ pc = "readline2" /\ queue # <<>>
    /\ queue' = Tail(queue)
    /\ \/ pc' = "readline2"
       \/ Head(queue)[1] = "EXE" /\ pc' = "readline3"
    /\ UNCHANGED <<interrupt_char, pending, presses, saved>>

mut_ReadlineNoRestore ==
    /\ Goto("readline3", "call")
    /\ saved' = -1
    /\ UNCHANGED <<interrupt_char, pending, queue, presses>>

ReadlineEnd ==
    /\ Goto("readline3", "call")
    /\ interrupt_char' = saved
    /\ saved' = -1
    /\ UNCHANGED <<pending, queue, presses>>

-----------------------------------------------------------------------------

Interrupt == PressACON \/ \E key \in {"EXE", "F1", "OTHER"} : PressKey(key)

Main ==
    \/ UiEvent \/ Prepare
    \/ Compile \/ EnableInterrupt \/ Branch \/ ReturnSteps \/ ExceptSteps
    \/ Finish \/ PrintPrompt
    \/ GetkeyEvent \/ ReadlineStart \/ ReadlineEvent \/ ReadlineEnd

Program == PollEvent \/ CallReturn \/ ReadlineCall \/ GetkeyCall \/ GetkeyTimeout

Next == Interrupt \/ Main \/ Program

(* The processor runs on, and the VM reaches its next branch even if the   *)
(* program would rather do something else for ever: a loop of the program, *)
(* over getkey() or input() too, has a branch in each round. The user need *)
(* not press a key, getkey() need not time out, the program need not end.  *)
Spec == Init /\ [][Next]_vars /\ WF_vars(Main) /\ SF_vars(Branch)

-----------------------------------------------------------------------------

(* Types of the variables; the event queue of the driver never overflows. *)
TypeOK ==
    /\ interrupt_char \in {-1, CTRL_C} /\ saved \in {-1, CTRL_C}
    /\ pending \in BOOLEAN
    /\ queue \in Seq({"ACON", "EXE", "F1", "OTHER"} \X {"ui", "program"})
    /\ Len(queue) <= QueueSize
    /\ presses \in Nat
    /\ pc \in PCs

(* An interrupt meant for one program never hits the next one, nor the     *)
(* user interface: outside parse_compile_execute() AC/ON cannot schedule   *)
(* one and none is left over, wherever the key was pressed.                *)
NoStaleInterrupt ==
    pc \in {"ui", "prep", "compile", "enable", "finish", "prompt"} =>
        interrupt_char = -1 /\ ~pending

(* While Python code runs, before and after any number of input() calls,   *)
(* AC/ON interrupts it.                                                    *)
CallInterruptible == pc \in {"call", "getkey"} => interrupt_char = CTRL_C

(* While the user types a line for input(), AC/ON clears the line: it does *)
(* not schedule an exception.                                              *)
ReadlineNotInterrupted == [][pc = "readline2" => pending' = pending]_vars

(* Keys pressed while a program runs, or is compiled or fails, are never   *)
(* taken for shell input after it, whatever ended it.                      *)
NoTypeAhead == pc = "ui" => \A n \in 1..Len(queue) : queue[n][2] = "ui"

(* Every interrupt that is scheduled is raised, or dropped with its        *)
(* program, unless input() or getkey() waits for the user to press another *)
(* key.                                                                    *)
InterruptHandled ==
    pending ~> \/ ~pending
               \/ pc = "readline2"
               \/ pc = "getkey" /\ queue = <<>>
==============================================================================
