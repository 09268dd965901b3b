------------------------------- MODULE Console -------------------------------
(***************************************************************************)
(* The terminal emulator of ports/sh/console.c, driven by its three users: *)
(* the Python program (console_write through stdouterr_write in main.c),   *)
(* the prompts (pe_print_prompt, pe_readline) and the shell widget (keys,  *)
(* rendering: widget_shell_poly_event, widget_shell_poly_render).          *)
(*                                                                         *)
(* All of them run on the only thread, so a call runs to its end before    *)
(* the next one starts; a loop of the code is a pc with one action per     *)
(* iteration. pc is "idle" between calls.                                  *)
(***************************************************************************)
EXTENDS LineBuf, Sums

CONSTANTS
    Outputs,        \* strings that programs print
    Prompts,        \* strings that input() and the shell show
    Keys,           \* characters that can be typed
    Widths,         \* text widths of the view, in columns
    Height,         \* render lines of the view
    MaxAbsolute,    \* bound: no call starts once a line has this number
    MaxScroll       \* bound on the scroll keys pressed between two renders

ASSUME ConsoleAssumption ==
    /\ Outputs \subseteq Seq(Char)
    /\ Prompts \subseteq Seq(Char)
    /\ Keys \subseteq Char \ Controls
    /\ Widths \subseteq Nat \ {0}
    /\ Height \in Nat \ {0}
    /\ MaxAbsolute \in Nat
    /\ MaxScroll \in Nat

VARIABLES
    buf,            \* console_t.lines
    cursor,         \* console_t.cursor
    render_needed,  \* console_t.render_needed
    render_width,   \* console_t.render_width (0 before the first view)
    scroll,         \* widget_shell.scroll, in rows up from the bottom
    mode,           \* who owns the last line: "program", "shell" or "readline"
    pc,             \* loop that is running
    job             \* locals of the calls that are running

view == <<render_width, scroll>>
vars == <<buf, cursor, render_needed, render_width, scroll, mode, pc, job>>

(***************************************************************************)
(* The locals: the string being written (out), the offset in it, the       *)
(* length of the current run of plain characters (line) and how much of it *)
(* is left to write; where a newline returns to (ret); the mode entered    *)
(* once the string is written and locked as a prompt (lock), if any; and   *)
(* the next line to lay out (abs).                                         *)
(***************************************************************************)
NoJob == [out |-> <<>>, offset |-> 0, line |-> 0, left |-> 0,
          ret |-> "idle", lock |-> "none", abs |-> 0]
InputModes == {"shell", "readline"}

Job == [out: Seq(Char), offset: Nat, line: Nat, left: Nat,
        ret: {"idle", "write", "raw"}, lock: {"none"} \cup InputModes, abs: Nat]

PCs == {"idle", "newline", "clean", "write", "raw", "control", "lock", "view"}

last_line == buf.edit

(* console_create() up to its call of console_newline() *)
Init ==
    /\ buf = linebuf_init
    /\ cursor = -1
    /\ render_needed = TRUE
    /\ render_width = 0
    /\ scroll = 0
    /\ mode = "program"
    /\ pc = "newline"
    /\ job = NoJob

-----------------------------------------------------------------------------
(* console_newline() *)

console_newline ==
    /\ pc = "newline"
    /\ buf' = linebuf_newline(buf)
    /\ cursor' = 0
    /\ render_needed' = TRUE
    /\ pc' = "clean"
    /\ UNCHANGED <<view, mode, job>>

(* One line that linebuf_clean_backlog() drops *)
linebuf_clean_backlog ==
    /\ pc = "clean"
    /\ linebuf_over_backlog(buf)
    /\ buf' = linebuf_recycle_oldest_line(buf)
    /\ UNCHANGED <<cursor, render_needed, view, mode, pc, job>>

newline_return ==
    /\ pc = "clean"
    /\ ~linebuf_over_backlog(buf)
    /\ pc' = job.ret
    /\ job' = IF job.ret = "idle" THEN NoJob ELSE job
    /\ UNCHANGED <<buf, cursor, render_needed, view, mode>>

-----------------------------------------------------------------------------
(* console_write() and console_write_raw() *)

(* Where the run of plain characters that starts at offset ends: before    *)
(* the next control character or at the end of the string.                 *)
RunEnd(out, offset) ==
    CHOOSE e \in offset..Len(out) :
        /\ e = Len(out) \/ out[e + 1] \in Controls
        /\ \A j \in offset..(e - 1) : out[j + 1] \notin Controls

(* Where the string is finished or abandoned, the caller goes on: no       *)
(* caller of console_write() looks at its result.                          *)
WriteReturn ==
    /\ pc' = IF job.lock = "none" THEN "idle" ELSE "lock"
    /\ job' = IF job.lock = "none" THEN NoJob ELSE job

(* The head of the loop of console_write() *)
console_write_run ==
    /\ pc = "write"
    /\ job.offset < Len(job.out)
    /\ LET n == RunEnd(job.out, job.offset) - job.offset
       IN  job' = [job EXCEPT !.line = n, !.left = n]
    /\ pc' = "raw"
    /\ UNCHANGED <<buf, cursor, render_needed, view, mode>>

console_write_end ==
    /\ pc = "write"
    /\ job.offset >= Len(job.out)
    /\ WriteReturn
    /\ UNCHANGED <<buf, cursor, render_needed, view, mode>>

RoundSize == Min2(job.left, stredit_capacity(last_line))

(* The characters of a round. The source is the start of the run in every  *)
(* round: console_write_raw() does not advance str.                        *)
RoundText == SubSeq(job.out, job.offset + 1, job.offset + RoundSize)

mut_RoundNoNewline ==
    /\ pc = "raw"
    /\ job.left > 0
    /\ stredit_can_insert(last_line, cursor, RoundSize)
    /\ buf' = [buf EXCEPT !.edit = stredit_insert(last_line, cursor, RoundText)]
    /\ cursor' = cursor + RoundSize
    /\ render_needed' = TRUE
    /\ job' = [job EXCEPT !.left = @ - RoundSize, !.ret = "raw"]
    /\ UNCHANGED <<view, mode, pc>>

(* A round of console_write_raw() *)
console_write_raw_round ==
    /\ pc = "raw"
    /\ job.left > 0
    /\ stredit_can_insert(last_line, cursor, RoundSize)
    /\ buf' = [buf EXCEPT !.edit = stredit_insert(last_line, cursor, RoundText)]
    /\ cursor' = cursor + RoundSize
    /\ render_needed' = TRUE
    /\ pc' = IF RoundSize < job.left THEN "newline" ELSE "raw"
    /\ job' = [job EXCEPT !.left = @ - RoundSize, !.ret = "raw"]
    /\ UNCHANGED <<view, mode>>

(* A round whose stredit_insert() fails, out of bounds or out of memory:   *)
(* the rest of the string is lost.                                         *)
console_write_raw_fail ==
    /\ pc = "raw"
    /\ job.left > 0
    /\ \/ ~stredit_can_insert(last_line, cursor, RoundSize)
       \/ NeedsRealloc(last_line, Len(last_line.text) + RoundSize)
    /\ WriteReturn
    /\ UNCHANGED <<buf, cursor, render_needed, view, mode>>

console_write_raw_return ==
    /\ pc = "raw"
    /\ job.left = 0
    /\ IF job.offset + job.line >= Len(job.out)
       THEN WriteReturn
       ELSE /\ pc' = "control"
            /\ job' = [job EXCEPT !.offset = @ + job.line]
    /\ UNCHANGED <<buf, cursor, render_needed, view, mode>>

write_newline ==
    /\ pc = "control"
    /\ job.out[job.offset + 1] = NL
    /\ pc' = "newline"
    /\ job' = [job EXCEPT !.offset = @ + 1, !.ret = "write"]
    /\ render_needed' = TRUE
    /\ UNCHANGED <<buf, cursor, view, mode>>

write_backspace ==
    /\ pc = "control"
    /\ job.out[job.offset + 1] = BS
    /\ IF cursor > 0
       THEN /\ buf' = [buf EXCEPT !.edit = stredit_delete(last_line, cursor - 1, 1)]
            /\ cursor' = cursor - 1
       ELSE UNCHANGED <<buf, cursor>>
    /\ pc' = "write"
    /\ job' = [job EXCEPT !.offset = @ + 1]
    /\ render_needed' = TRUE
    /\ UNCHANGED <<view, mode>>

At(out, offset, c, d) ==
    offset + 2 <= Len(out) /\ out[offset + 1] = c /\ out[offset + 2] = d

(* ESC [K erases to the end of the line. ESC SOH D and ESC SOH C move the  *)
(* cursor, and their last two bytes are then written as text.              *)
write_escape ==
    /\ pc = "control"
    /\ job.out[job.offset + 1] = ESC
    /\ LET erase == At(job.out, job.offset + 1, "[", "K")
           ed == IF erase
                 THEN stredit_delete(last_line, cursor, Len(last_line.text) - cursor)
                 ELSE last_line
           offset == job.offset + (IF erase THEN 3 ELSE 1)
           back == At(job.out, offset, SOH, "D") /\ cursor > 0
           forth == At(job.out, offset, SOH, "C") /\ cursor < Len(ed.text)
       IN  /\ buf' = [buf EXCEPT !.edit = ed]
           /\ cursor' = IF back THEN cursor - 1
                        ELSE IF forth THEN cursor + 1 ELSE cursor
           /\ job' = [job EXCEPT !.offset = offset]
    /\ pc' = "write"
    /\ render_needed' = TRUE
    /\ UNCHANGED <<view, mode>>

(* console_lock_prefix(), after which the user owns the line *)
console_lock_prefix ==
    /\ pc = "lock"
    /\ buf' = [buf EXCEPT !.edit = stredit_set_prefix(last_line, cursor)]
    /\ mode' = job.lock
    /\ pc' = "idle"
    /\ job' = NoJob
    /\ UNCHANGED <<cursor, render_needed, view>>

-----------------------------------------------------------------------------
(* Calls made by the program and by the application *)

Bounded == linebuf_end(buf) <= MaxAbsolute

StartWrite(out, lock) ==
    /\ pc' = "write"
    /\ job' = [NoJob EXCEPT !.out = out, !.lock = lock]
    /\ UNCHANGED <<buf, cursor, render_needed, view, mode>>

(* stdouterr_write() *)
stdouterr_write(out) ==
    /\ pc = "idle" /\ mode = "program" /\ Bounded
    /\ StartWrite(out, "none")

(* pe_print_prompt() at the end of the program, pe_readline() for input() *)
Prompt(out, m) ==
    /\ pc = "idle" /\ mode = "program" /\ Bounded
    /\ StartWrite(out, m)

(* pe_reset_micropython(): a file is run from the file tab; the messages   *)
(* it writes after the new line are stdouterr_write steps.                 *)
RunFile ==
    /\ pc = "idle" /\ mode = "shell" /\ Bounded
    /\ mode' = "program"
    /\ pc' = "newline"
    /\ UNCHANGED <<buf, cursor, render_needed, view, job>>

(* pe_enter_graphics_mode() *)
EnterGraphics ==
    /\ pc = "idle" /\ mode = "program"
    /\ render_needed' = FALSE
    /\ UNCHANGED <<buf, cursor, view, mode, pc, job>>

-----------------------------------------------------------------------------
(* Keys in the shell widget, while the user owns the last line *)

Typing == pc = "idle" /\ mode \in InputModes

mut_SetCursorNoPrefix(pos) == 0 <= pos /\ pos <= Len(last_line.text)

(* The test of console_set_cursor() *)
console_set_cursor(pos) == last_line.prefix <= pos /\ pos <= Len(last_line.text)

KeyArrow(d) ==
    /\ Typing
    /\ console_set_cursor(cursor + d)
    /\ cursor' = cursor + d
    /\ UNCHANGED <<buf, render_needed, view, mode, pc, job>>

(* console_clear_current_line(), on AC/ON *)
KeyClear ==
    /\ Typing
    /\ LET p == last_line.prefix
       IN  /\ buf' = [buf EXCEPT !.edit = stredit_delete(@, p, Len(@.text) - p)]
           /\ cursor' = p
    /\ render_needed' = TRUE
    /\ UNCHANGED <<view, mode, pc, job>>

(* console_delete_at_cursor(cons, 1), on DEL *)
KeyDelete ==
    /\ Typing
    /\ buf' = [buf EXCEPT !.edit = stredit_delete(@, cursor - 1, 1)]
    /\ cursor' = cursor - stredit_deleted(last_line, cursor - 1, 1)
    /\ render_needed' = TRUE
    /\ UNCHANGED <<view, mode, pc, job>>

(* console_write_raw(cons, &c, 1) *)
KeyChar(c) ==
    /\ Typing /\ Bounded
    /\ pc' = "raw"
    /\ job' = [NoJob EXCEPT !.out = <<c>>, !.line = 1, !.left = 1]
    /\ UNCHANGED <<buf, cursor, render_needed, view, mode>>

(* EXE: the line is copied for the shell or input(), and a new one started *)
KeyExe ==
    /\ Typing /\ Bounded
    /\ mode' = "program"
    /\ pc' = "newline"
    /\ UNCHANGED <<buf, cursor, render_needed, view, job>>

KeyScroll(d) ==
    /\ Typing
    /\ scroll + d \in (-MaxScroll)..MaxScroll
    /\ scroll' = scroll + d
    /\ UNCHANGED <<buf, cursor, render_needed, render_width, mode, pc, job>>

-----------------------------------------------------------------------------
(* widget_shell_poly_render() *)

(* Whether the lines already laid out can be left alone *)
lazy_view(w) == render_width = w

(* console_compute_view(), up to the loop of linebuf_update_render() *)
Render(w) ==
    /\ pc = "idle"
    /\ pc' = "view"
    /\ job' = [NoJob EXCEPT !.abs = linebuf_layout_start(buf, lazy_view(w))]
    /\ render_width' = w
    /\ UNCHANGED <<buf, cursor, render_needed, scroll, mode>>

linebuf_update_render ==
    /\ pc = "view"
    /\ job.abs < linebuf_end(buf)
    /\ buf' = linebuf_layout_line(buf, job.abs, render_width)
    /\ job' = [job EXCEPT !.abs = @ + 1]
    /\ UNCHANGED <<cursor, render_needed, view, mode, pc>>

console_clamp_scrollpos(pos) ==
    IF buf.total_rendered < Height THEN 0
    ELSE Max2(0, Min2(pos, buf.total_rendered - Height))

(* The layout is complete: console_clamp_scrollpos(), console_render()     *)
(* (see ConsoleRender) and console_clear_render_flag().                    *)
render_return ==
    /\ pc = "view"
    /\ job.abs >= linebuf_end(buf)
    /\ buf' = linebuf_layout_end(buf)
    /\ scroll' = console_clamp_scrollpos(scroll)
    /\ render_needed' = FALSE
    /\ pc' = "idle"
    /\ job' = NoJob
    /\ UNCHANGED <<cursor, render_width, mode>>

-----------------------------------------------------------------------------

(* The iterations of the loops; they run once a call has started *)
LoopStep ==
    \/ console_newline \/ linebuf_clean_backlog \/ newline_return
    \/ console_write_run \/ console_write_end
    \/ console_write_raw_round \/ console_write_raw_fail \/ console_write_raw_return
    \/ write_newline \/ write_backspace \/ write_escape
    \/ console_lock_prefix
    \/ linebuf_update_render \/ render_return

Call ==
    \/ \E out \in Outputs : stdouterr_write(out)
    \/ \E out \in Prompts, m \in InputModes : Prompt(out, m)
    \/ RunFile
    \/ EnterGraphics
    \/ \E d \in {-1, 1} : KeyArrow(d)
    \/ KeyClear
    \/ KeyDelete
    \/ \E c \in Keys : KeyChar(c)
    \/ KeyExe
    \/ \E d \in {-1, 1} : KeyScroll(d)
    \/ \E w \in Widths : Render(w)

Next == LoopStep \/ Call

(* A call that has started runs on: the processor executes the loop. No    *)
(* fairness for the user or the program.                                   *)
Spec == Init /\ [][Next]_vars /\ WF_vars(LoopStep)

-----------------------------------------------------------------------------
(***************************************************************************)
(* Properties                                                              *)
(***************************************************************************)

(* Every variable keeps the type of its C counterpart. *)
TypeOK ==
    /\ buf \in LineBuffer
    /\ cursor \in Int
    /\ render_needed \in BOOLEAN
    /\ render_width \in Nat
    /\ scroll \in Int
    /\ mode \in {"program"} \cup InputModes
    /\ pc \in PCs
    /\ job \in Job

(* The slots of the lines before the last one *)
FrozenSlots == {linebuf_nth_to_index(buf, nth) : nth \in 0..(buf.size - 2)}

(* Who owns each block, whatever rotation the ring is in: the frozen lines *)
(* are exactly the live pointers of the array (no line is lost without     *)
(* free(), and none of the dangling pointers that recycling leaves behind  *)
(* is reachable); the last line has a NULL slot, as the assertion of       *)
(* linebuf_newline() requires, and its block is the editor's.              *)
RingOwnership ==
    /\ {i \in Slots : buf.lines[i].ptr = "live"} = FrozenSlots
    /\ buf.size > 0 =>
         /\ buf.lines[linebuf_nth_to_index(buf, buf.size - 1)].ptr = "null"
         /\ buf.edit.raw = "live"
    /\ buf.size = 0 => pc = "newline"

(* The cursor stays in the editable part of the last line, through every   *)
(* mixture of keys, escapes, backspaces and splits; and no line that a     *)
(* program writes to has a locked prefix, so that the backspace of         *)
(* console_write(), which moves the cursor even when stredit_delete()      *)
(* refuses, never leaves it in the prompt.                                 *)
CursorInEditable ==
    /\ buf.size > 0 =>
         /\ buf.edit.prefix <= cursor
         /\ cursor <= Len(buf.edit.text)
         /\ Len(buf.edit.text) <= MaxLine
    /\ mode = "program" /\ pc # "newline" => buf.edit.prefix = 0

(* The heap block of the editor has room for the header, the text and the  *)
(* NUL (stredit.h: "always >= size+1").                                    *)
BlockLargeEnough ==
    buf.edit.raw = "live" => buf.edit.alloc_size >= Reserved + Len(buf.edit.text) + 1

(* The rows and the lengths of the stored lines *)
LineRows(b) == [n \in 0..(b.size - 1) |-> linebuf_get_nth_line(b, n).rows]
LineSizes(b) == [n \in 0..(b.size - 1) |-> Len(linebuf_get_nth_line(b, n).text)]

(* The running total of render rows, on which scrolling depends, is the    *)
(* sum over the stored lines, though rows are counted at rendering,        *)
(* carried into the frozen block by a newline and discounted at recycling. *)
RowAccounting == buf.total_rendered = SumTo(LineRows(buf), buf.size)

(* The lines below this number are laid out for the current width *)
LaidOutBefore == IF pc = "view" THEN job.abs ELSE buf.absolute_rendered + 1

(* Lazy layout skips no line that has changed: whatever was written,       *)
(* edited or recycled since the last frame, the lines it leaves alone have *)
(* the row count of their present text and width; the last line is never   *)
(* among them; and so all lines are fresh when console_render() reads them.*)
LayoutFresh ==
    /\ \A abs \in buf.absolute..(linebuf_end(buf) - 1) :
         abs < LaidOutBefore =>
            linebuf_get_line(buf, abs).rows = Rows(linebuf_get_line(buf, abs).text, render_width)
    /\ buf.size > 0 => buf.absolute_rendered < linebuf_end(buf) - 1
    /\ pc = "view" => job.abs >= buf.absolute

(* Once a newline has been cleaned up after, the frozen text is within the *)
(* backlog, though it is measured by a running total that newlines, the    *)
(* recycling of a full ring and the cleaning itself update; and yet the    *)
(* line just ended is still there (the reason why console_create() raises  *)
(* the backlog to the length of a line).                                   *)
BacklogBound ==
    pc \notin {"newline", "clean"} =>
        /\ SumTo(LineSizes(buf), buf.size - 1) <= Backlog
        /\ Capacity > 1 /\ linebuf_end(buf) > 2 => buf.size > 1

SamePrompt(old, new) ==
    /\ new.prefix = old.prefix
    /\ Len(new.text) >= old.prefix
    /\ SubSeq(new.text, 1, old.prefix) = SubSeq(old.text, 1, old.prefix)

(* What the user does never changes the prompt: while the user edits a     *)
(* line, its locked prefix keeps its length and its characters. (A line    *)
(* filled up by typing is split, and the new one has no prompt.)           *)
PromptKept ==
    [][(mode \in InputModes /\ mode' = mode /\ linebuf_end(buf)' = linebuf_end(buf))
        => SamePrompt(buf.edit, buf.edit')]_vars

(* Every call returns: splitting, cleaning and layout terminate, for lines *)
(* full or not and for a ring of any size.                                 *)
CallsReturn == pc # "idle" ~> pc = "idle"

-----------------------------------------------------------------------------
(* What the console promises: a bounded scrollback whose history is only   *)
(* extended at the end and dropped from the front.                         *)
Abstract == INSTANCE Scrollback WITH
    first <- buf.absolute,
    hist <- [n \in 1..(buf.size - 1) |-> linebuf_get_nth_line(buf, n - 1).text],
    tail <- buf.edit.text

(* The ring implements the scrollback. *)
RefinesScrollback == Abstract!Spec
==============================================================================
