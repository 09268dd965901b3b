---------------------------- MODULE ConsoleRender ----------------------------
(***************************************************************************)
(* console_render() and console_fline_render() of ports/sh/console.c: the  *)
(* scan that finds, from the end of the console, the first line in view,   *)
(* and the loop that draws the visible rows of each line. The screen is    *)
(* the sequence of rows drawn, each one dy below the one before.           *)
(*                                                                         *)
(* A line is its length in characters; a character is a column wide. The   *)
(* view is what console_compute_view() and console_clamp_scrollpos() leave:*)
(* every line laid out, the scroll position within the scrollable range    *)
(* (Console!LayoutFresh and Console!RowAccounting).                        *)
(***************************************************************************)
EXTENDS Integers, Sequences, Sums

CONSTANTS
    Lengths,        \* lengths of lines
    MaxLines,       \* bound on the number of lines in the console
    RenderWidths,   \* text widths, in columns
    Heights         \* values of render_lines

ASSUME RenderAssumption ==
    /\ Lengths \subseteq Nat
    /\ MaxLines \in Nat \ {0}
    /\ RenderWidths \subseteq Nat \ {0}
    /\ Heights \subseteq Nat \ {0}

VARIABLES
    lines,          \* length of each line
    width, height,  \* render_width, render_lines
    pos,            \* scroll position, rows up from the bottom
    caret,          \* cursor in the last line
    phase,          \* "scan", "draw" or "done"
    i,              \* line reached, from 1 on (the C numbering is absolute)
    line_y,         \* row of the screen where line i starts
    screen,         \* rows drawn: <<line, row of the line>>
    marks           \* where a cursor is drawn: <<row of the screen, column>>

input == <<lines, width, height, pos, caret>>
render_vars == <<lines, width, height, pos, caret, phase, i, line_y, screen, marks>>

Least(a, b) == IF a < b THEN a ELSE b

(* console_fline_update_render_lines(): at least one row *)
render_lines(n) == IF n = 0 THEN 1 ELSE (n + width - 1) \div width

(* Iterations of the drawing loop of console_fline_render() *)
drawn_lines(n) == (n + width - 1) \div width

(* Rows of the layout above line k; those of all lines are total_rendered *)
RowsAbove(k) == SumTo([n \in 0..(Len(lines) - 1) |-> render_lines(lines[n + 1])], k - 1)
TotalRows == RowsAbove(Len(lines) + 1)

(* console_clamp_scrollpos() leaves these positions *)
ScrollRange(total, h) == IF total < h THEN {0} ELSE 0..(total - h)

RenderInit ==
    /\ lines \in UNION {[1..n -> Lengths] : n \in 1..MaxLines}
    /\ width \in RenderWidths
    /\ height \in Heights
    /\ pos \in ScrollRange(TotalRows, height)
    /\ caret \in 0..lines[Len(lines)]
    /\ phase = "scan"
    /\ i = Len(lines) + 1
    /\ line_y = height + pos
    /\ screen = <<>>
    /\ marks = {}

(* The first loop: one line up *)
ScanUp ==
    /\ phase = "scan"
    /\ i > 1 /\ line_y > 0
    /\ i' = i - 1
    /\ line_y' = line_y - render_lines(lines[i - 1])
    /\ UNCHANGED <<input, phase, screen, marks>>

(* Too little content to fill the view is shown from the top *)
ScanEnd ==
    /\ phase = "scan"
    /\ ~(i > 1 /\ line_y > 0)
    /\ phase' = "draw"
    /\ line_y' = Least(line_y, pos)
    /\ UNCHANGED <<input, i, screen, marks>>

mut_ShownRows == {r \in 0..(drawn_lines(lines[i]) - 1) : -line_y <= r /\ r < height}

(* Rows of line i that console_fline_render() draws *)
ShownRows == {r \in 0..(drawn_lines(lines[i]) - 1) : -line_y <= r /\ r < height - line_y}

mut_CursorColumns(r) ==
    LET from == r * width
        to == Least(from + width, lines[i])
    IN  {c \in 0..width : caret = from + c /\ caret < to}

(* Columns of row r of line i where the cursor is drawn *)
CursorColumns(r) ==
    LET from == r * width
        to == Least(from + width, lines[i])
    IN  {c \in 0..width : caret = from + c /\ caret <= to}

(* The second loop: console_fline_render() on line i, with the cursor on   *)
(* the last line.                                                          *)
DrawLine ==
    /\ phase = "draw"
    /\ i <= Len(lines) /\ line_y < height
    /\ LET first == IF line_y < 0 THEN -line_y ELSE 0
           rows == [k \in {r - first + 1 : r \in ShownRows} |-> <<i, first + k - 1>>]
           row(r) == Len(screen) + r - first
       IN  /\ screen' = screen \o rows
           /\ marks' =
                IF i < Len(lines) THEN marks
                ELSE IF lines[i] = 0 THEN marks \cup {<<Len(screen), 0>>}
                ELSE marks \cup UNION {{<<row(r), c>> : c \in CursorColumns(r)} : r \in ShownRows}
    /\ line_y' = line_y + render_lines(lines[i])
    /\ i' = i + 1
    /\ UNCHANGED <<input, phase>>

DrawEnd ==
    /\ phase = "draw"
    /\ ~(i <= Len(lines) /\ line_y < height)
    /\ phase' = "done"
    /\ UNCHANGED <<input, i, line_y, screen, marks>>

RenderNext == ScanUp \/ ScanEnd \/ DrawLine \/ DrawEnd

RenderSpec == RenderInit /\ [][RenderNext]_render_vars

-----------------------------------------------------------------------------

(* The line that row p of the layout belongs to *)
LineOfRow(p) == CHOOSE k \in 1..Len(lines) : RowsAbove(k) < p /\ p <= RowsAbove(k + 1)

(* All the rows of the console, top to bottom *)
AllRows == [p \in 1..TotalRows |-> <<LineOfRow(p), p - 1 - RowsAbove(LineOfRow(p))>>]

(* The view: height rows, pos rows up from the bottom, or all of them *)
Window ==
    IF TotalRows < height THEN AllRows
    ELSE SubSeq(AllRows, TotalRows - height - pos + 1, TotalRows - pos)

(* The frame shows the scroll window: the scan from the end of the console *)
(* and the row limits given to each line add up to the rows that a layout  *)
(* of the whole console puts there, in their place.                        *)
WindowDrawn == phase = "done" => screen = Window

(* A cursor in the view is drawn, and only at its place in the text. *)
CursorDrawn ==
    phase = "done" =>
        /\ \A m \in marks :
             /\ m[1] + 1 <= Len(screen) /\ screen[m[1] + 1][1] = Len(lines)
             /\ screen[m[1] + 1][2] * width + m[2] = caret
        /\ (marks = {}) =>
             ~\E k \in 1..Len(screen) :
                /\ screen[k][1] = Len(lines)
                /\ caret \in (screen[k][2] * width)..((screen[k][2] + 1) * width)

(* Every row that is drawn is where the layout of the console, as counted  *)
(* in render_lines, puts it.                                               *)
RowsInPlace == phase = "done" => \A k \in 1..Len(screen) : screen[k] = Window[k]
==============================================================================
