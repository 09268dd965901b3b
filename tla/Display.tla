------------------------------- MODULE Display -------------------------------
(***************************************************************************)
(* Who draws on the screen, and when: the asynchronous refresh of the      *)
(* shell, the switch to graphics mode and the refresh timer of the         *)
(* kandinsky module.                                                       *)
(*                                                                         *)
(* One thread (pc) runs the program and the user interface, a memory       *)
(* access per step; two timer interrupts run between any two of its steps. *)
(* Drawings are numbered: text is the state of the console, vram and       *)
(* screen tell who drew last and which drawing.                            *)
(***************************************************************************)
EXTENDS Integers

CONSTANT MaxDrawings    \* bound on the console changes and on the drawings

ASSUME DisplayAssumption == MaxDrawings \in Nat

VARIABLES
    render_needed,  \* console_t.render_needed
    update,         \* PE.shell->widget.update
    refresh,        \* is_refreshed_required
    timer,          \* whether the timer of kandinsky runs
    text,           \* number of changes to the console
    drawings,       \* number of drawings of the program
    vram, screen,   \* <<who, number>>
    shown,          \* console change that the shell last showed
    graphics,       \* the program has the screen since its last graphics call
    early,          \* JustUI clears widget.update before it renders, or after
    visible,        \* the tab of the shell is shown, else the file tab
    bound,          \* pe_handle_event() is called with shell_bound: input()
    scene_update,   \* PE.scene->widget.update, or that of a widget but the shell
    pc,             \* step of the main thread
    after           \* what the running call goes on with

flags == <<render_needed, update, refresh>>
tabs == <<visible, bound, scene_update>>
vars == <<render_needed, update, refresh, timer, text, drawings, vram, screen,
          shown, graphics, early, visible, bound, scene_update, pc, after>>

DrawSteps == {"clear", "render", "flag", "late", "dupdate_shell"}
PCs == DrawSteps \cup {"run", "hook1", "hook2", "refresh1", "refresh2",
                       "graphics1", "graphics2", "init", "dupdate", "input"}
Painting == ({"none", "shell", "files", "program"} \X Nat)

(* main() prints a prompt, then shows the file tab. *)
Init ==
    /\ render_needed = TRUE
    /\ update = FALSE
    /\ refresh = FALSE
    /\ timer = FALSE
    /\ text = 0
    /\ drawings = 0
    /\ vram = <<"none", 0>>
    /\ screen = <<"none", 0>>
    /\ shown = -1
    /\ graphics = FALSE
    /\ early \in BOOLEAN
    /\ visible = FALSE
    /\ bound = FALSE
    /\ scene_update = TRUE
    /\ pc = "input"
    /\ after = "none"

Goto(l) == pc' = l
Changed == text < MaxDrawings /\ text' = text + 1

-----------------------------------------------------------------------------
(* Interrupts *)

(* widget_shell_timer_handler(), ten times a second *)
ShellTimer ==
    /\ render_needed
    /\ update' = TRUE
    /\ UNCHANGED <<render_needed, refresh, timer, text, drawings, vram, screen,
                   shown, graphics, pc, after, early, tabs>>

(* callback() of kandinsky *)
KandinskyTimer ==
    /\ timer
    /\ refresh' = TRUE
    /\ UNCHANGED <<render_needed, update, timer, text, drawings, vram, screen,
                   shown, graphics, pc, after, early, tabs>>

-----------------------------------------------------------------------------
(* What the program does between two branches of the VM *)

(* print(): console_write() *)
stdouterr_write ==
    /\ pc = "run" /\ Changed
    /\ render_needed' = TRUE
    /\ graphics' = FALSE
    /\ Goto("hook1")
    /\ UNCHANGED <<update, refresh, timer, drawings, vram, screen, shown,
                   after, early, tabs>>

(* dpixel() and the like: a drawing in the VRAM *)
Draw ==
    /\ pc = "run" /\ drawings < MaxDrawings
    /\ drawings' = drawings + 1
    /\ vram' = <<"program", drawings + 1>>
    /\ Goto("hook1")
    /\ UNCHANGED <<flags, timer, text, screen, shown, graphics, after, early, tabs>>

(* Nothing that matters here, up to the next branch *)
Compute ==
    /\ pc = "run"
    /\ Goto("hook1")
    /\ UNCHANGED <<flags, timer, text, drawings, vram, screen, shown, graphics,
                   after, early, tabs>>

(* gint.dupdate() and casioplot.show_screen(), or the __init__ of gint,    *)
(* casioplot and kandinsky: graphics mode first                            *)
GraphicsCall(what) ==
    /\ pc = "run" /\ (what = "dupdate" \/ drawings < MaxDrawings)
    /\ Goto("graphics1")
    /\ after' = what
    /\ UNCHANGED <<flags, timer, text, drawings, vram, screen, shown, graphics,
                   early, tabs>>

mut_EnterGraphicsSwapped ==
    \/ /\ pc = "graphics1"
       /\ update' = FALSE
       /\ Goto("graphics2")
       /\ UNCHANGED <<render_needed, refresh, timer, text, drawings, vram, screen,
                      shown, graphics, after, early, tabs>>
    \/ /\ pc = "graphics2"
       /\ render_needed' = FALSE
       /\ graphics' = TRUE
       /\ Goto(IF after = "dupdate" THEN "dupdate" ELSE "init")
       /\ UNCHANGED <<update, refresh, timer, text, drawings, vram, screen,
                      shown, after, early, tabs>>

(* pe_enter_graphics_mode(): two stores, and an interrupt may come between *)
pe_enter_graphics_mode ==
    \/ /\ pc = "graphics1"
       /\ render_needed' = FALSE
       /\ Goto("graphics2")
       /\ UNCHANGED <<update, refresh, timer, text, drawings, vram, screen,
                      shown, graphics, after, early, tabs>>
    \/ /\ pc = "graphics2"
       /\ update' = FALSE
       /\ graphics' = TRUE
       /\ Goto(IF after = "dupdate" THEN "dupdate" ELSE "init")
       /\ UNCHANGED <<render_needed, refresh, timer, text, drawings, vram, screen,
                      shown, after, early, tabs>>

(* The rest of the __init__: clear the VRAM; kandinsky also starts its     *)
(* timer, if there is one left                                             *)
ModuleInit ==
    /\ pc = "init"
    /\ drawings' = drawings + 1
    /\ vram' = <<"program", drawings + 1>>
    /\ timer' \in (IF after = "kandinsky" THEN {timer, TRUE} ELSE {timer})
    /\ Goto("hook1")
    /\ after' = "none"
    /\ UNCHANGED <<flags, text, screen, shown, graphics, early, tabs>>

ModuleDupdate ==
    /\ pc = "dupdate"
    /\ screen' = vram
    /\ Goto("hook1")
    /\ after' = "none"
    /\ UNCHANGED <<flags, timer, text, drawings, vram, shown, graphics, early,
                   tabs>>

(* input(): a prompt, then the loop of pe_readline() *)
ReadInput ==
    /\ pc = "run" /\ Changed
    /\ render_needed' = TRUE
    /\ graphics' = FALSE
    /\ bound' = TRUE
    /\ Goto("input")
    /\ UNCHANGED <<update, refresh, timer, drawings, vram, screen, shown, after,
                   early, visible, scene_update>>

(* The end of the program, which stops the timer after a file was run      *)
(* (pe_restore_window_and_timer): a prompt, and back in the main loop      *)
ProgramEnd ==
    /\ pc = "run" /\ Changed
    /\ render_needed' = TRUE
    /\ graphics' = FALSE
    /\ timer' \in {timer, FALSE}
    /\ Goto("input")
    /\ UNCHANGED <<update, refresh, drawings, vram, screen, shown, after,
                   early, tabs>>

-----------------------------------------------------------------------------
(* MICROPY_VM_HOOK_LOOP, at a branch or in getkey() *)

mut_HookSkipsShell ==
    /\ pc = "hook1"
    /\ Goto("hook2")
    /\ UNCHANGED <<flags, timer, text, drawings, vram, screen, shown, graphics,
                   after, early, tabs>>

HookShell ==
    /\ pc = "hook1"
    /\ IF update THEN Goto("clear") /\ after' = "hook2"
                 ELSE Goto("hook2") /\ UNCHANGED after
    /\ UNCHANGED <<flags, timer, text, drawings, vram, screen, shown, graphics,
                   early, tabs>>

HookRefresh ==
    /\ pc = "hook2"
    /\ Goto(IF refresh THEN "refresh1" ELSE "run")
    /\ after' = "none"
    /\ UNCHANGED <<flags, timer, text, drawings, vram, screen, shown, graphics,
                   early, tabs>>

mut_RefreshNoUpdate ==
    /\ pc = "refresh1"
    /\ Goto("refresh2")
    /\ UNCHANGED <<flags, timer, text, drawings, vram, screen, shown, graphics,
                   after, early, tabs>>

(* pe_refresh_graphics(): dupdate(), then the flag *)
RefreshUpdate ==
    /\ pc = "refresh1"
    /\ screen' = vram
    /\ Goto("refresh2")
    /\ UNCHANGED <<flags, timer, text, drawings, vram, shown, graphics, after,
                   early, tabs>>

RefreshFlag ==
    /\ pc = "refresh2"
    /\ refresh' = FALSE
    /\ Goto("run")
    /\ UNCHANGED <<render_needed, update, timer, text, drawings, vram, screen,
                   shown, graphics, after, early, tabs>>

-----------------------------------------------------------------------------
(* pe_draw(). JustUI (external) renders the widgets of the visible tab and *)
(* clears their update flags. For the shell it does so before or after it  *)
(* calls widget_shell_poly_render(); a hidden shell keeps both its flags.  *)

DrawClear ==
    /\ pc = "clear"
    /\ vram' = <<"none", 0>>
    /\ update' = (update /\ ~(early /\ visible))
    /\ scene_update' = FALSE
    /\ Goto("render")
    /\ UNCHANGED <<render_needed, refresh, timer, text, drawings, screen, shown,
                   graphics, after, early, visible, bound>>

DrawRender ==
    /\ pc = "render" /\ visible
    /\ vram' = <<"shell", text>>
    /\ Goto("flag")
    /\ UNCHANGED <<flags, timer, text, drawings, screen, shown, graphics,
                   after, early, tabs>>

(* The file tab, drawn by JustUI *)
DrawFiles ==
    /\ pc = "render" /\ ~visible
    /\ vram' = <<"files", 0>>
    /\ Goto("dupdate_shell")
    /\ UNCHANGED <<flags, timer, text, drawings, screen, shown, graphics,
                   after, early, tabs>>

(* console_clear_render_flag() *)
DrawFlag ==
    /\ pc = "flag"
    /\ render_needed' = FALSE
    /\ Goto("late")
    /\ UNCHANGED <<update, refresh, timer, text, drawings, vram, screen, shown,
                   graphics, after, early, tabs>>

DrawLate ==
    /\ pc = "late"
    /\ update' = (update /\ early)
    /\ Goto("dupdate_shell")
    /\ UNCHANGED <<render_needed, refresh, timer, text, drawings, vram, screen,
                   shown, graphics, after, early, tabs>>

DrawUpdate ==
    /\ pc = "dupdate_shell"
    /\ screen' = vram
    /\ shown' = IF visible THEN vram[2] ELSE shown
    /\ Goto(after)
    /\ after' = "none"
    /\ UNCHANGED <<flags, timer, text, drawings, vram, graphics, early, tabs>>

-----------------------------------------------------------------------------
(* The user interface in jscene_run(): keys go to the visible tab, which   *)
(* has the focus                                                           *)

(* JSCENE_PAINT, when a visible widget wants it *)
Paint ==
    /\ pc = "input" /\ ((update /\ visible) \/ scene_update)
    /\ Goto("clear")
    /\ after' = "input"
    /\ UNCHANGED <<flags, timer, text, drawings, vram, screen, shown, graphics,
                   early, tabs>>

(* WIDGET_SHELL_MOD_CHANGED, or a change of the list of files or the title *)
SceneChanged ==
    /\ pc = "input"
    /\ scene_update' = TRUE
    /\ UNCHANGED <<flags, timer, text, drawings, vram, screen, shown, graphics, pc,
                   after, early, visible, bound>>

(* F1 or F2: jscene_show_and_focus() (external) has the scene painted.     *)
(* They do nothing during input().                                         *)
ShowTab(shell) ==
    /\ pc = "input" /\ ~bound
    /\ visible' = shell
    /\ scene_update' = TRUE
    /\ UNCHANGED <<flags, timer, text, drawings, vram, screen, shown, graphics, pc,
                   after, early, bound>>

(* A key that edits the line: the console asks for a frame *)
KeyEdit ==
    /\ pc = "input" /\ visible /\ Changed
    /\ render_needed' = TRUE
    /\ UNCHANGED <<update, refresh, timer, drawings, vram, screen, shown,
                   graphics, pc, after, early, tabs>>

mut_KeyMoveSilent ==
    /\ pc = "input" /\ visible /\ Changed
    /\ UNCHANGED <<flags, timer, drawings, vram, screen, shown, graphics, pc,
                   after, early, tabs>>

(* A key that moves the cursor or scrolls: the widget is marked directly *)
KeyMove ==
    /\ pc = "input" /\ visible /\ Changed
    /\ update' = TRUE
    /\ UNCHANGED <<render_needed, refresh, timer, drawings, vram, screen,
                   shown, graphics, pc, after, early, tabs>>

(* A file is chosen in the file tab: the shell is shown, the reset of      *)
(* MicroPython writes to the console, and pe_handle_event() draws before   *)
(* it runs the file.                                                       *)
RunFile ==
    /\ pc = "input" /\ ~visible /\ ~bound /\ Changed
    /\ visible' = TRUE
    /\ scene_update' = TRUE
    /\ render_needed' = TRUE
    /\ Goto("clear")
    /\ after' = "run"
    /\ UNCHANGED <<update, refresh, timer, drawings, vram, screen, shown, graphics,
                   early, bound>>

(* EXE: the line is run, or returned by the input() that waits for it *)
KeyExe ==
    /\ pc = "input" /\ visible /\ Changed
    /\ render_needed' = TRUE
    /\ bound' = FALSE
    /\ Goto("run")
    /\ UNCHANGED <<update, refresh, timer, drawings, vram, screen, shown, graphics,
                   after, early, visible, scene_update>>

-----------------------------------------------------------------------------

Program ==
    \/ stdouterr_write \/ Draw \/ Compute \/ ReadInput \/ ProgramEnd
    \/ \E what \in {"dupdate", "module", "kandinsky"} : GraphicsCall(what)

(* Steps of a call or of the VM that has started *)
Run ==
    \/ pe_enter_graphics_mode \/ ModuleInit \/ ModuleDupdate
    \/ HookShell \/ HookRefresh \/ RefreshUpdate \/ RefreshFlag
    \/ DrawClear \/ DrawRender \/ DrawFiles \/ DrawFlag \/ DrawLate \/ DrawUpdate

User ==
    \/ SceneChanged \/ KeyEdit \/ KeyMove \/ KeyExe \/ RunFile
    \/ \E shell \in BOOLEAN : ShowTab(shell)

Next == ShellTimer \/ KandinskyTimer \/ Program \/ Run \/ Paint \/ User

(* The timers tick; the processor runs on, and a program goes from branch  *)
(* to branch; JustUI paints what asks for it. Nothing is assumed of the    *)
(* user, who may leave the shell hidden for ever.                          *)
Fairness ==
    /\ WF_vars(ShellTimer) /\ WF_vars(KandinskyTimer)
    /\ WF_vars(Program) /\ WF_vars(Run) /\ WF_vars(Paint)

Spec == Init /\ [][Next]_vars /\ Fairness

-----------------------------------------------------------------------------

(* Types of the variables. *)
TypeOK ==
    /\ render_needed \in BOOLEAN /\ update \in BOOLEAN /\ refresh \in BOOLEAN
    /\ timer \in BOOLEAN /\ graphics \in BOOLEAN /\ early \in BOOLEAN
    /\ visible \in BOOLEAN /\ bound \in BOOLEAN /\ scene_update \in BOOLEAN
    /\ text \in Nat /\ drawings \in Nat
    /\ vram \in Painting /\ screen \in Painting
    /\ shown \in Nat \cup {-1}
    /\ pc \in PCs
    /\ after \in {"none", "hook2", "input", "run", "dupdate", "module", "kandinsky"}

(* widget_shell.h: once a graphics call has returned, "pending shell       *)
(* redraws are dropped and all screen updates are left to the program      *)
(* until the shell is used again": pe_draw() does not run, whenever the    *)
(* timer interrupt came.                                                   *)
NoShellOverGraphics == graphics => pc \notin DrawSteps

(* No change of the console is forgotten: until it is shown, or dropped by *)
(* a graphics call, some flag or a frame in progress accounts for it.      *)
ChangeFlagged ==
    shown # text =>
        \/ render_needed \/ update
        \/ pc \in DrawSteps
        \/ graphics \/ pc = "graphics2"

(* The console as it is now was shown, and the file tab not since *)
ShellShown == shown = text /\ screen[1] # "files"

(* Whenever the tab of the shell is selected, what was printed or typed,   *)
(* now or before it was hidden, is eventually on the screen, unless the    *)
(* user hides the tab again or the program takes the screen with a         *)
(* graphics call.                                                          *)
TextShown == (visible /\ ~ShellShown) ~> (ShellShown \/ ~visible \/ graphics)

(* What a kandinsky program draws reaches the screen without any call of   *)
(* the program, unless the shell draws over it or the program ends.        *)
KandinskyShown ==
    (timer /\ vram[1] = "program") ~> (screen = vram \/ ~timer \/ vram[1] # "program")
==============================================================================
