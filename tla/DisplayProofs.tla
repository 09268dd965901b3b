---------------------------- MODULE DisplayProofs ----------------------------
(***************************************************************************)
(* Proofs about Display, for any number of console changes and drawings.   *)
(***************************************************************************)
EXTENDS Display, TLAPS

(* The two halves of TypeOK: the flags, and the rest *)
FlagTypes ==
    /\ render_needed \in BOOLEAN /\ update \in BOOLEAN /\ refresh \in BOOLEAN
    /\ timer \in BOOLEAN /\ graphics \in BOOLEAN /\ early \in BOOLEAN
    /\ visible \in BOOLEAN /\ bound \in BOOLEAN /\ scene_update \in BOOLEAN

ValueTypes ==
    /\ text \in Nat /\ drawings \in Nat
    /\ vram \in Painting /\ screen \in Painting
    /\ shown \in Nat \cup {-1}
    /\ pc \in PCs
    /\ after \in {"none", "hook2", "input", "run", "dupdate", "module", "kandinsky"}

(* Where the thread can be once a graphics call has returned, up to the    *)
(* next use of the shell                                                   *)
GraphicsSteps == {"run", "hook1", "hook2", "refresh1", "refresh2",
                  "graphics1", "graphics2", "init", "dupdate"}

(* A frame always knows the step it returns to; only the shell draws       *)
(* between its clearing of the VRAM and its dupdate(), and only while its  *)
(* tab is shown.                                                           *)
FrameReturns ==
    /\ pc \in DrawSteps => after \in {"hook2", "input", "run"}
    /\ pc \in {"flag", "late"} => visible
    /\ pc \in {"flag", "late", "dupdate_shell"} /\ visible => vram = <<"shell", text>>

(***************************************************************************)
(* The inductive invariant behind NoShellOverGraphics. It needs both       *)
(* flags: a frame starts when update is set, and the timer interrupt sets  *)
(* it whenever render_needed is. pe_enter_graphics_mode() clears           *)
(* render_needed first, so that from its second step on the interrupt      *)
(* cannot set update again.                                                *)
(***************************************************************************)
ScreenOwned ==
    /\ graphics => ~render_needed /\ ~update /\ pc \in GraphicsSteps
    /\ pc = "graphics2" => ~render_needed

(* The inductive invariant of the display *)
IInv == FlagTypes /\ ValueTypes /\ FrameReturns /\ ScreenOwned

(* What ChangeFlagged needs of a hidden shell: no program runs, and a      *)
(* frame of the file tab does not account for a change of the console, so  *)
(* that its flags must.                                                    *)
HiddenFlagged ==
    ~visible =>
        /\ pc \in {"input", "clear", "render", "dupdate_shell"}
        /\ pc # "input" => after = "input"
        /\ shown # text => render_needed \/ update

(* The first state of main(), in the user interface, satisfies it. *)
LEMMA InitIInv == Init => IInv
<1> SUFFICES ASSUME Init PROVE IInv
  OBVIOUS
<1>1. FlagTypes
  BY DEF Init, FlagTypes
<1>2. ValueTypes
  BY DEF Init, ValueTypes, PCs, Painting
<1>3. FrameReturns /\ ScreenOwned
  BY DEF Init, FrameReturns, ScreenOwned, DrawSteps
<1> QED BY <1>1, <1>2, <1>3 DEF IInv

(* Every step keeps the flags Boolean. *)
LEMMA FlagsKept == FlagTypes /\ [Next]_vars => FlagTypes'
<1> SUFFICES ASSUME FlagTypes, [Next]_vars PROVE FlagTypes'
  OBVIOUS
<1> USE DEF FlagTypes, flags, tabs
<1>1. CASE ShellTimer \/ KandinskyTimer
  BY <1>1 DEF ShellTimer, KandinskyTimer
<1>2. CASE Program
  BY <1>2 DEF Program, stdouterr_write, Draw, Compute, GraphicsCall, ReadInput, ProgramEnd
<1>3. CASE Run
  <2>1. CASE pe_enter_graphics_mode \/ ModuleInit \/ ModuleDupdate
    BY <2>1 DEF pe_enter_graphics_mode, ModuleInit, ModuleDupdate
  <2>2. CASE HookShell \/ HookRefresh \/ RefreshUpdate \/ RefreshFlag
    BY <2>2 DEF HookShell, HookRefresh, RefreshUpdate, RefreshFlag
  <2>3. CASE DrawClear \/ DrawLate
    BY <2>3, Zenon DEF DrawClear, DrawLate
  <2>4. CASE DrawRender \/ DrawFiles \/ DrawFlag \/ DrawUpdate
    BY <2>4 DEF DrawRender, DrawFiles, DrawFlag, DrawUpdate
  <2> QED BY <1>3, <2>1, <2>2, <2>3, <2>4 DEF Run
<1>4. CASE Paint \/ User
  BY <1>4 DEF Paint, User, SceneChanged, ShowTab, KeyEdit, KeyMove, KeyExe, RunFile
<1>5. CASE UNCHANGED vars
  BY <1>5 DEF vars
<1> QED BY <1>1, <1>2, <1>3, <1>4, <1>5 DEF Next

(* Every step keeps the other types; the end of a frame needs to know      *)
(* where it returns to.                                                    *)
LEMMA ValuesKept == ValueTypes /\ FrameReturns /\ [Next]_vars => ValueTypes'
<1> SUFFICES ASSUME ValueTypes, FrameReturns, [Next]_vars PROVE ValueTypes'
  OBVIOUS
<1> USE DEF ValueTypes, PCs, DrawSteps, Goto, Changed, tabs
<1>1. CASE ShellTimer \/ KandinskyTimer
  BY <1>1 DEF ShellTimer, KandinskyTimer
<1>2. CASE stdouterr_write
  BY <1>2 DEF stdouterr_write
<1>3. CASE Draw
  BY <1>3 DEF Draw, Painting
<1>4. CASE Compute \/ ReadInput \/ ProgramEnd
  <2>1. CASE Compute
    BY <2>1 DEF Compute
  <2>2. CASE ReadInput
    BY <2>2 DEF ReadInput
  <2>3. CASE ProgramEnd
    BY <2>3 DEF ProgramEnd
  <2> QED BY <1>4, <2>1, <2>2, <2>3
<1>5. ASSUME NEW what \in {"dupdate", "module", "kandinsky"}, GraphicsCall(what)
      PROVE  ValueTypes'
  BY <1>5 DEF GraphicsCall
<1>6. CASE pe_enter_graphics_mode
  BY <1>6 DEF pe_enter_graphics_mode
<1>7. CASE ModuleInit
  BY <1>7 DEF ModuleInit, Painting
<1>8. CASE ModuleDupdate \/ HookShell \/ HookRefresh
  BY <1>8 DEF ModuleDupdate, HookShell, HookRefresh
<1>9. CASE RefreshUpdate \/ RefreshFlag
  BY <1>9 DEF RefreshUpdate, RefreshFlag
<1>10. CASE DrawClear \/ DrawRender \/ DrawFiles
  BY <1>10 DEF DrawClear, DrawRender, DrawFiles, Painting
<1>11. CASE DrawFlag \/ DrawLate
  BY <1>11 DEF DrawFlag, DrawLate
<1>12. CASE DrawUpdate
  BY <1>12 DEF DrawUpdate, FrameReturns
<1>13. CASE Paint \/ User
  BY <1>13 DEF Paint, User, SceneChanged, ShowTab, KeyEdit, KeyMove, KeyExe, RunFile
<1>14. CASE UNCHANGED vars
  BY <1>14 DEF vars
<1> QED
  BY <1>1, <1>2, <1>3, <1>4, <1>5, <1>6, <1>7, <1>8, <1>9, <1>10, <1>11, <1>12, <1>13, <1>14
     DEF Next, Program, Run

(* Every step keeps track of the frame that is being drawn. *)
LEMMA FramesKept == ValueTypes /\ FrameReturns /\ [Next]_vars => FrameReturns'
<1> SUFFICES ASSUME ValueTypes, FrameReturns, [Next]_vars PROVE FrameReturns'
  OBVIOUS
<1> USE DEF FrameReturns, DrawSteps, Goto, tabs
<1>1. CASE ShellTimer \/ KandinskyTimer
  BY <1>1 DEF ShellTimer, KandinskyTimer
<1>2. CASE Program
  BY <1>2 DEF Program, stdouterr_write, Draw, Compute, GraphicsCall, ReadInput, ProgramEnd
<1>3. CASE pe_enter_graphics_mode \/ ModuleInit \/ ModuleDupdate
  BY <1>3 DEF pe_enter_graphics_mode, ModuleInit, ModuleDupdate
<1>4. CASE HookShell \/ HookRefresh \/ RefreshUpdate \/ RefreshFlag
  BY <1>4 DEF HookShell, HookRefresh, RefreshUpdate, RefreshFlag
<1>5. CASE DrawClear \/ DrawRender \/ DrawFiles \/ DrawFlag \/ DrawLate
  BY <1>5 DEF DrawClear, DrawRender, DrawFiles, DrawFlag, DrawLate
<1>6. CASE DrawUpdate
  BY <1>6 DEF DrawUpdate
<1>7. CASE Paint \/ User
  BY <1>7 DEF Paint, User, SceneChanged, ShowTab, KeyEdit, KeyMove, KeyExe, RunFile
<1>8. CASE UNCHANGED vars
  BY <1>8 DEF vars
<1> QED BY <1>1, <1>2, <1>3, <1>4, <1>5, <1>6, <1>7, <1>8 DEF Next, Run

(* Every step keeps the screen with its owner, the two interrupts included.*)
LEMMA ScreenKept == IInv /\ [Next]_vars => ScreenOwned'
<1> SUFFICES ASSUME IInv, [Next]_vars PROVE ScreenOwned'
  OBVIOUS
<1> USE DEF IInv, FlagTypes, ScreenOwned, GraphicsSteps, Goto, flags, tabs
<1>1. CASE ShellTimer \/ KandinskyTimer
  BY <1>1 DEF ShellTimer, KandinskyTimer
<1>2. CASE Program
  <2>1. CASE stdouterr_write \/ ReadInput \/ ProgramEnd
    <3>1. ~graphics' /\ pc' # "graphics2"
      BY <2>1 DEF stdouterr_write, ReadInput, ProgramEnd
    <3> QED BY <3>1
  <2>2. CASE Draw \/ Compute
    BY <2>2 DEF Draw, Compute
  <2>3. ASSUME NEW what \in {"dupdate", "module", "kandinsky"}, GraphicsCall(what)
        PROVE  ScreenOwned'
    BY <2>3 DEF GraphicsCall
  <2> QED BY <1>2, <2>1, <2>2, <2>3 DEF Program
<1>3. CASE pe_enter_graphics_mode
  BY <1>3 DEF pe_enter_graphics_mode
<1>4. CASE ModuleInit \/ ModuleDupdate
  <2>1. CASE ModuleInit
    BY <2>1 DEF ModuleInit
  <2>2. CASE ModuleDupdate
    BY <2>2 DEF ModuleDupdate
  <2> QED BY <1>4, <2>1, <2>2
<1>5. CASE HookShell \/ HookRefresh \/ RefreshUpdate \/ RefreshFlag
  BY <1>5 DEF HookShell, HookRefresh, RefreshUpdate, RefreshFlag
<1>6. CASE DrawClear \/ DrawRender \/ DrawFiles \/ DrawFlag \/ DrawLate
  BY <1>6 DEF DrawClear, DrawRender, DrawFiles, DrawFlag, DrawLate
<1>7. CASE DrawUpdate
  BY <1>7 DEF DrawUpdate, FrameReturns, DrawSteps
<1>8. CASE Paint \/ User
  BY <1>8 DEF Paint, User, SceneChanged, ShowTab, KeyEdit, KeyMove, KeyExe, RunFile
<1>9. CASE UNCHANGED vars
  BY <1>9 DEF vars
<1> QED BY <1>1, <1>2, <1>3, <1>4, <1>5, <1>6, <1>7, <1>8, <1>9 DEF Next, Run

(* IInv is an invariant of the display. *)
THEOREM Invariance == Spec => []IInv
<1>1. IInv /\ [Next]_vars => IInv'
  BY FlagsKept, ValuesKept, FramesKept, ScreenKept DEF IInv
<1> QED BY <1>1, InitIInv, PTL DEF Spec

(* The types of the flags and of the thread's state. *)
THEOREM TypeCorrect == Spec => []TypeOK
<1>1. IInv => TypeOK
  BY DEF IInv, FlagTypes, ValueTypes, TypeOK
<1> QED BY <1>1, Invariance, PTL

(* The shell never draws over a graphics program, wherever the timer       *)
(* interrupt falls between the two stores of pe_enter_graphics_mode().     *)
THEOREM ScreenLeftToProgram == Spec => []NoShellOverGraphics
<1>1. IInv => NoShellOverGraphics
  BY DEF IInv, ScreenOwned, NoShellOverGraphics, GraphicsSteps, DrawSteps
<1> QED BY <1>1, Invariance, PTL

(* No change of the console is forgotten between print(), the flags, the   *)
(* interrupt that passes them on and the frame that clears them.           *)
THEOREM NoChangeForgotten == Spec => []ChangeFlagged
<1>1. Init => HiddenFlagged /\ ChangeFlagged
  BY DEF Init, HiddenFlagged, ChangeFlagged
<1>2. IInv /\ HiddenFlagged /\ ChangeFlagged /\ [Next]_vars => HiddenFlagged'
  <2> SUFFICES ASSUME IInv, HiddenFlagged, ChangeFlagged, [Next]_vars
               PROVE  HiddenFlagged'
    OBVIOUS
  <2> USE DEF IInv, FlagTypes, HiddenFlagged, Goto, flags, tabs
  <2>1. CASE ShellTimer \/ KandinskyTimer
    BY <2>1 DEF ShellTimer, KandinskyTimer
  <2>2. CASE Program
    BY <2>2 DEF Program, stdouterr_write, Draw, Compute, GraphicsCall, ReadInput, ProgramEnd
  <2>3. CASE pe_enter_graphics_mode \/ ModuleInit \/ ModuleDupdate
    BY <2>3 DEF pe_enter_graphics_mode, ModuleInit, ModuleDupdate
  <2>4. CASE HookShell \/ HookRefresh \/ RefreshUpdate \/ RefreshFlag
    BY <2>4 DEF HookShell, HookRefresh, RefreshUpdate, RefreshFlag
  <2>5. CASE DrawClear \/ DrawRender \/ DrawFiles
    BY <2>5 DEF DrawClear, DrawRender, DrawFiles
  <2>6. CASE DrawFlag \/ DrawLate
    BY <2>6 DEF DrawFlag, DrawLate
  <2>7. CASE DrawUpdate
    BY <2>7 DEF DrawUpdate
  <2>8. ASSUME NEW shell \in BOOLEAN, ShowTab(shell) PROVE HiddenFlagged'
    BY <2>8 DEF ShowTab, ChangeFlagged, ScreenOwned, GraphicsSteps, DrawSteps
  <2>9. CASE Paint \/ SceneChanged \/ KeyEdit \/ KeyMove \/ KeyExe \/ RunFile
    BY <2>9 DEF Paint, SceneChanged, KeyEdit, KeyMove, KeyExe, RunFile
  <2>10. CASE UNCHANGED vars
    BY <2>10 DEF vars
  <2> QED
    BY <2>1, <2>2, <2>3, <2>4, <2>5, <2>6, <2>7, <2>8, <2>9, <2>10 DEF Next, Run, User
<1>3. IInv /\ HiddenFlagged /\ ChangeFlagged /\ [Next]_vars => ChangeFlagged'
  <2> SUFFICES ASSUME IInv, HiddenFlagged, ChangeFlagged, [Next]_vars
               PROVE  ChangeFlagged'
    OBVIOUS
  <2> USE DEF IInv, FlagTypes, ChangeFlagged, DrawSteps, Goto, flags, tabs
  <2>1. CASE ShellTimer \/ KandinskyTimer
    BY <2>1 DEF ShellTimer, KandinskyTimer
  <2>2. CASE Program
    BY <2>2 DEF Program, stdouterr_write, Draw, Compute, GraphicsCall, ReadInput, ProgramEnd
  <2>3. CASE pe_enter_graphics_mode
    BY <2>3 DEF pe_enter_graphics_mode
  <2>4. CASE ModuleInit \/ ModuleDupdate
    BY <2>4 DEF ModuleInit, ModuleDupdate
  <2>5. CASE HookShell \/ HookRefresh \/ RefreshUpdate \/ RefreshFlag
    BY <2>5 DEF HookShell, HookRefresh, RefreshUpdate, RefreshFlag
  <2>6. CASE DrawClear \/ DrawRender \/ DrawFiles \/ DrawFlag \/ DrawLate
    BY <2>6 DEF DrawClear, DrawRender, DrawFiles, DrawFlag, DrawLate
  <2>7. CASE DrawUpdate
    <3>1. CASE visible
      <4>1. vram = <<"shell", text>>
        BY <2>7, <3>1 DEF DrawUpdate, FrameReturns
      <4>2. shown' = text /\ text' = text
        BY <2>7, <3>1, <4>1 DEF DrawUpdate
      <4> QED BY <4>2
    <3>2. CASE ~visible
      BY <2>7, <3>2 DEF DrawUpdate, HiddenFlagged
    <3> QED BY <3>1, <3>2
  <2>8. CASE Paint \/ User
    BY <2>8 DEF Paint, User, SceneChanged, ShowTab, KeyEdit, KeyMove, KeyExe, RunFile
  <2>9. CASE UNCHANGED vars
    BY <2>9 DEF vars
  <2> QED BY <2>1, <2>2, <2>3, <2>4, <2>5, <2>6, <2>7, <2>8, <2>9 DEF Next, Run
<1> QED BY <1>1, <1>2, <1>3, Invariance, PTL DEF Spec
==============================================================================
