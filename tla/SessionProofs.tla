---------------------------- MODULE SessionProofs ----------------------------
(***************************************************************************)
(* Proofs about Session, for every queue size and any number of keys.      *)
(***************************************************************************)
EXTENDS Session, TLAPS

(* The steps of parse_compile_execute() at which AC/ON can still schedule  *)
(* an interrupt, or one can still be pending                               *)
Exposed == {"call", "getkey", "readline1", "readline2", "readline3",
            "return1", "return2", "except1", "except2"}

(***************************************************************************)
(* The inductive invariant: mp_interrupt_char is known at every step where *)
(* the code relies on it, and pe_readline() remembers the value it must    *)
(* restore. The exception handler is the only step entered both with and   *)
(* without interrupts enabled.                                             *)
(***************************************************************************)
IInv ==
    /\ TypeOK
    /\ pc \in {"call", "getkey", "readline1", "return1"} => interrupt_char = CTRL_C
    /\ pc \in {"readline2", "readline3", "return2", "except2"} => interrupt_char = -1
    /\ pc \in {"readline1", "readline2", "readline3"} => saved = CTRL_C
    /\ pc \notin Exposed => interrupt_char = -1 /\ ~pending

(* Pushing an event keeps the queue a queue of at most QueueSize events.   *)
LEMMA PushType ==
    ASSUME TypeOK, NEW key \in {"ACON", "EXE", "F1", "OTHER"}, Push(key)
    PROVE  /\ queue' \in Seq({"ACON", "EXE", "F1", "OTHER"} \X {"ui", "program"})
           /\ Len(queue') <= QueueSize
<1> DEFINE Event == {"ACON", "EXE", "F1", "OTHER"} \X {"ui", "program"}
<1>1. Addressee \in {"ui", "program"}
  BY DEF Addressee
<1>2. <<key, Addressee>> \in Event
  BY <1>1
<1>3. queue \in Seq(Event) /\ Len(queue) <= QueueSize
  BY DEF TypeOK
<1>4. CASE Len(queue) < QueueSize
  <2>1. queue' = Append(queue, <<key, Addressee>>)
    BY <1>4 DEF Push
  <2>2. queue' \in Seq(Event) /\ Len(queue') = Len(queue) + 1
    BY <1>2, <1>3, <2>1
  <2> QED BY <1>3, <1>4, <2>2, SessionAssumption
<1>5. CASE ~(Len(queue) < QueueSize)
  BY <1>3, <1>5 DEF Push
<1> QED BY <1>4, <1>5

(* Reading an event keeps the rest of the queue. *)
LEMMA TailType ==
    ASSUME TypeOK, queue # <<>>, queue' = Tail(queue)
    PROVE  /\ queue' \in Seq({"ACON", "EXE", "F1", "OTHER"} \X {"ui", "program"})
           /\ Len(queue') <= QueueSize
BY SessionAssumption DEF TypeOK

(* The invariant holds when main() enters the user interface. *)
LEMMA InitIInv == Init => IInv
<1> SUFFICES ASSUME Init PROVE IInv
  OBVIOUS
<1>1. queue \in Seq({"ACON", "EXE", "F1", "OTHER"} \X {"ui", "program"})
  BY DEF Init
<1>2. Len(queue) <= QueueSize
  BY SessionAssumption DEF Init
<1>3. TypeOK
  BY <1>1, <1>2 DEF Init, TypeOK, PCs
<1> QED BY <1>3 DEF Init, IInv, Exposed

(* A key press, at any step of the main thread, keeps the invariant. *)
LEMMA InterruptIInv == IInv /\ Interrupt => IInv'
<1> SUFFICES ASSUME IInv, Interrupt PROVE IInv'
  OBVIOUS
<1>1. CASE PressACON
  <2>1. CASE interrupt_char >= 0
    BY <1>1, <2>1 DEF PressACON, IInv, TypeOK, PCs, CTRL_C, Exposed
  <2>2. CASE ~(interrupt_char >= 0)
    <3>1. Push("ACON") /\ UNCHANGED <<pending, interrupt_char, saved, pc>> /\ presses' = presses + 1
      BY <1>1, <2>2 DEF PressACON
    <3>2. TypeOK'
      BY <3>1, PushType DEF IInv, TypeOK
    <3> QED BY <3>1, <3>2 DEF IInv
  <2> QED BY <2>1, <2>2
<1>2. ASSUME NEW key \in {"EXE", "F1", "OTHER"}, PressKey(key)
      PROVE  IInv'
  <2>1. Push(key) /\ UNCHANGED <<pending, interrupt_char, saved, pc>> /\ presses' = presses + 1
    BY <1>2 DEF PressKey
  <2>2. TypeOK'
    BY <2>1, PushType DEF IInv, TypeOK
  <2> QED BY <2>1, <2>2 DEF IInv
<1> QED BY <1>1, <1>2 DEF Interrupt

(* Every step of the main thread keeps the invariant. *)
LEMMA MainIInv == IInv /\ (Main \/ Program) => IInv'
<1> SUFFICES ASSUME IInv, Main \/ Program PROVE IInv'
  OBVIOUS
<1> USE DEF IInv, PCs, CTRL_C, Exposed
<1>1. CASE UiEvent
  <2>1. TypeOK'
    BY <1>1, TailType DEF UiEvent, TypeOK
  <2> QED BY <1>1, <2>1 DEF UiEvent, TypeOK
<1>2. CASE Prepare
  BY <1>2 DEF Prepare, TypeOK
<1>3. CASE Compile
  BY <1>3 DEF Compile, Goto, TypeOK
<1>4. CASE EnableInterrupt
  BY <1>4 DEF EnableInterrupt, Goto, TypeOK
<1>5. CASE Branch
  BY <1>5 DEF Branch, TypeOK
<1>6. CASE PollEvent
  <2>1. TypeOK'
    BY <1>6, TailType DEF PollEvent, TypeOK
  <2> QED BY <1>6, <2>1 DEF PollEvent
<1>7. CASE CallReturn
  BY <1>7 DEF CallReturn, Goto, TypeOK
<1>8. CASE ReturnSteps
  BY <1>8 DEF ReturnSteps, Goto, TypeOK
<1>9. CASE ExceptSteps
  BY <1>9 DEF ExceptSteps, Goto, TypeOK
<1>10. CASE Finish
  BY <1>10, SessionAssumption DEF Finish, Goto, TypeOK
<1>11. CASE PrintPrompt
  BY <1>11 DEF PrintPrompt, Goto, TypeOK
<1>12. CASE ReadlineCall
  BY <1>12 DEF ReadlineCall, Goto, TypeOK
<1>13. CASE ReadlineStart
  BY <1>13 DEF ReadlineStart, Goto, TypeOK
<1>14. CASE ReadlineEvent
  <2>1. TypeOK'
    BY <1>14, TailType DEF ReadlineEvent, TypeOK
  <2> QED BY <1>14, <2>1 DEF ReadlineEvent
<1>15. CASE ReadlineEnd
  BY <1>15 DEF ReadlineEnd, Goto, TypeOK
<1>16. CASE GetkeyCall \/ GetkeyTimeout
  BY <1>16 DEF GetkeyCall, GetkeyTimeout, Goto, TypeOK
<1>17. CASE GetkeyEvent
  <2>1. TypeOK'
    BY <1>17, TailType DEF GetkeyEvent, Goto, TypeOK
  <2> QED BY <1>17, <2>1 DEF GetkeyEvent, Goto
<1> QED
  BY <1>1, <1>2, <1>3, <1>4, <1>5, <1>6, <1>7, <1>8, <1>9, <1>10, <1>11,
     <1>12, <1>13, <1>14, <1>15, <1>16, <1>17 DEF Main, Program

(* IInv is an invariant of the session. *)
THEOREM Invariance == Spec => []IInv
<1>1. IInv /\ [Next]_vars => IInv'
  <2> SUFFICES ASSUME IInv, [Next]_vars PROVE IInv'
    OBVIOUS
  <2>1. CASE UNCHANGED vars
    BY <2>1 DEF vars, IInv, TypeOK
  <2> QED BY <2>1, InterruptIInv, MainIInv DEF Next
<1> QED BY <1>1, InitIInv, PTL DEF Spec

(* Types, and the bound of the event queue, for any queue size. *)
THEOREM TypeCorrect == Spec => []TypeOK
<1>1. IInv => TypeOK
  BY DEF IInv
<1> QED BY <1>1, Invariance, PTL

(* No interrupt outlives the program it was meant for: pyexec.c's order of *)
(* mp_hal_set_interrupt_char(-1) and mp_handle_pending() on both ways out. *)
THEOREM StaleInterruptFree == Spec => []NoStaleInterrupt
<1>1. IInv => NoStaleInterrupt
  BY DEF IInv, NoStaleInterrupt, Exposed
<1> QED BY <1>1, Invariance, PTL

(* Python code can always be interrupted, after any number of input()s. *)
THEOREM AlwaysInterruptible == Spec => []CallInterruptible
<1>1. IInv => CallInterruptible
  BY DEF IInv, CallInterruptible
<1> QED BY <1>1, Invariance, PTL

(* AC/ON schedules nothing while input() waits for its line. *)
THEOREM ReadlineSafe == Spec => ReadlineNotInterrupted
<1>1. IInv /\ [Next]_vars => [pc = "readline2" => pending' = pending]_vars
  <2> SUFFICES ASSUME IInv, Next, pc = "readline2" PROVE pending' = pending
    BY DEF vars
  <2>1. interrupt_char = -1
    BY DEF IInv
  <2>2. CASE Interrupt
    BY <2>1, <2>2 DEF Interrupt, PressACON, PressKey
  <2>3. CASE Main \/ Program
    BY <2>3 DEF Main, Program, UiEvent, Prepare, Compile, EnableInterrupt, Branch,
       ReturnSteps, ExceptSteps, Finish, PrintPrompt, ReadlineStart, ReadlineEvent,
       ReadlineEnd, PollEvent, CallReturn, ReadlineCall, GetkeyCall, GetkeyEvent,
       GetkeyTimeout, Goto
  <2> QED BY <2>2, <2>3 DEF Next
<1> QED BY <1>1, Invariance, PTL DEF Spec, ReadlineNotInterrupted

(* The events that are queued before a program starts, and once            *)
(* clearevents() has emptied the queue, are for the UI                     *)
UiEvents ==
    pc \in {"ui", "prep", "prompt"} => \A n \in 1..Len(queue) : queue[n][2] = "ui"

(* A key pressed at the user interface is for the user interface. *)
LEMMA PushUiEvents ==
    ASSUME TypeOK, UiEvents, NEW key \in {"ACON", "EXE", "F1", "OTHER"},
           Push(key), UNCHANGED pc
    PROVE  UiEvents'
<1> SUFFICES ASSUME pc \in {"ui", "prep", "prompt"}, NEW n \in 1..Len(queue')
             PROVE  queue'[n][2] = "ui"
  BY DEF UiEvents
<1>1. \A m \in 1..Len(queue) : queue[m][2] = "ui"
  BY DEF UiEvents
<1>2. CASE Len(queue) < QueueSize
  <2>1. queue' = Append(queue, <<key, "ui">>)
    BY <1>2 DEF Push, Addressee
  <2>2. n \in 1..(Len(queue) + 1)
    BY <2>1 DEF TypeOK
  <2>3. CASE n = Len(queue) + 1
    <3>1. queue'[n] = <<key, "ui">>
      BY <2>1, <2>3 DEF TypeOK
    <3> QED BY <3>1
  <2>4. CASE n \in 1..Len(queue)
    <3>1. queue'[n] = queue[n]
      BY <2>1, <2>4 DEF TypeOK
    <3> QED BY <1>1, <2>4, <3>1
  <2>5. Len(queue) \in Nat
    BY DEF TypeOK
  <2> QED BY <2>2, <2>3, <2>4, <2>5
<1>3. CASE ~(Len(queue) < QueueSize)
  BY <1>1, <1>3 DEF Push
<1> QED BY <1>2, <1>3

(* Keys pressed while a program runs are never taken for shell input:      *)
(* pe_after_python_exec() runs on every way out of a program, after the    *)
(* last step at which a key can be meant for it.                           *)
THEOREM TypeAheadFree == Spec => []NoTypeAhead
<1>1. Init => UiEvents
  BY DEF Init, UiEvents
<1>2. TypeOK /\ UiEvents /\ [Next]_vars => UiEvents'
  <2> SUFFICES ASSUME TypeOK, UiEvents, [Next]_vars PROVE UiEvents'
    OBVIOUS
  <2>1. CASE Interrupt
    <3>1. CASE PressACON
      <4>1. CASE UNCHANGED <<queue, pc>>
        BY <4>1 DEF UiEvents
      <4>2. CASE Push("ACON") /\ UNCHANGED pc
        BY <4>2, PushUiEvents
      <4> QED BY <3>1, <4>1, <4>2 DEF PressACON
    <3>2. ASSUME NEW key \in {"EXE", "F1", "OTHER"}, PressKey(key)
          PROVE  UiEvents'
      BY <3>2, PushUiEvents DEF PressKey
    <3> QED BY <2>1, <3>1, <3>2 DEF Interrupt
  <2>2. CASE UiEvent
    <3>1. CASE pc' \in {"ui", "prep"}
      <4>1. queue \in Seq({"ACON", "EXE", "F1", "OTHER"} \X {"ui", "program"})
        BY DEF TypeOK
      <4>2. queue # <<>> /\ queue' = Tail(queue)
        BY <2>2 DEF UiEvent
      <4>3. \A n \in 1..Len(queue') : n + 1 \in 1..Len(queue) /\ queue'[n] = queue[n + 1]
        BY <4>1, <4>2
      <4>4. \A m \in 1..Len(queue) : queue[m][2] = "ui"
        BY <2>2 DEF UiEvent, UiEvents
      <4> QED BY <4>3, <4>4 DEF UiEvents
    <3>2. CASE pc' = "compile"
      BY <3>2 DEF UiEvents
    <3> QED BY <2>2, <3>1, <3>2 DEF UiEvent
  <2>3. CASE Finish
    BY <2>3 DEF Finish, UiEvents
  <2>4. CASE PrintPrompt
    BY <2>4 DEF PrintPrompt, Goto, UiEvents
  <2>5. CASE \/ Compile \/ EnableInterrupt \/ Branch
            \/ ReturnSteps \/ ExceptSteps \/ ReadlineStart \/ ReadlineEvent
            \/ ReadlineEnd \/ GetkeyEvent \/ Program
    <3>1. pc' \notin {"ui", "prep", "prompt"}
      BY <2>5 DEF Compile, EnableInterrupt, Branch, ReturnSteps, ExceptSteps,
         ReadlineStart, ReadlineEvent, ReadlineEnd, Program, PollEvent, CallReturn,
         ReadlineCall, GetkeyCall, GetkeyEvent, GetkeyTimeout, Goto
    <3> QED BY <3>1 DEF UiEvents
  <2>6. CASE UNCHANGED vars
    BY <2>6 DEF vars, UiEvents
  <2>7. CASE Prepare
    BY <2>7 DEF Prepare, UiEvents
  <2> QED BY <2>1, <2>2, <2>3, <2>4, <2>5, <2>6, <2>7 DEF Next, Main
<1>3. UiEvents => NoTypeAhead
  BY DEF UiEvents, NoTypeAhead
<1> QED BY <1>1, <1>2, <1>3, TypeCorrect, PTL DEF Spec
==============================================================================
