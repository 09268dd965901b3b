------------------------------- MODULE LineBuf -------------------------------
(***************************************************************************)
(* The rotating line storage of ports/sh/console.c (linebuf_t): an array   *)
(* of Capacity pointers to frozen lines, used as a ring, whose last line   *)
(* is in the editor. A buffer is a record with the fields of linebuf_t.    *)
(*                                                                         *)
(* A slot of the array is [ptr, text, rows]: the state of the pointer it   *)
(* holds ("null", "live", or "freed" once its line is recycled: the array  *)
(* keeps the dangling pointer), and the line it points at.                 *)
(***************************************************************************)
EXTENDS StrEdit

CONSTANTS
    Capacity,   \* maximum_line_count
    Backlog     \* backlog_size

ASSUME LineBufAssumption ==
    /\ Capacity \in Nat \ {0}
    /\ Backlog \in Nat
    /\ Backlog >= MaxLine       \* console_create() raises it to this

Slots == 0..(Capacity - 1)
Fline == [ptr: PtrState, text: Seq(Char), rows: Nat]
NullSlot == [ptr |-> "null", text |-> <<>>, rows |-> 0]
FreedSlot == [ptr |-> "freed", text |-> <<>>, rows |-> 0]

LineBuffer ==
    [lines: [Slots -> Fline], edit: Editor, start: Slots, size: 0..Capacity,
     absolute: Nat, total_rendered: Int, total_size_except_last: Int,
     absolute_rendered: Nat]

linebuf_init ==
    [lines |-> [i \in Slots |-> NullSlot], edit |-> stredit_cleared,
     start |-> 0, size |-> 0, absolute |-> 1, total_rendered |-> 0,
     total_size_except_last |-> 0, absolute_rendered |-> 0]

linebuf_nth_to_index(b, nth) == (b.start + nth) % Capacity

linebuf_end(b) == b.absolute + b.size

(* The nth line, 0 <= nth < b.size; the last one is the editor's *)
linebuf_get_nth_line(b, nth) ==
    IF nth = b.size - 1
    THEN [ptr |-> b.edit.raw, text |-> b.edit.text, rows |-> b.edit.rows]
    ELSE b.lines[linebuf_nth_to_index(b, nth)]

linebuf_get_line(b, abs) == linebuf_get_nth_line(b, abs - b.absolute)

mut_RecycleNoWrap(b) ==
    LET FL == linebuf_get_nth_line(b, 0)
    IN  [b EXCEPT
          !.total_rendered = @ - FL.rows,
          !.total_size_except_last = IF b.size = 1 THEN @ ELSE @ - Len(FL.text),
          !.lines = IF b.size = 1 THEN @ ELSE [@ EXCEPT ![b.start] = FreedSlot],
          !.edit = IF b.size = 1 THEN [@ EXCEPT !.raw = "freed"] ELSE @,
          !.start = @ + 1, !.size = @ - 1, !.absolute = @ + 1]

mut_RecycleLeaks(b) ==
    LET FL == linebuf_get_nth_line(b, 0)
    IN  [b EXCEPT
          !.total_rendered = @ - FL.rows,
          !.total_size_except_last = IF b.size = 1 THEN @ ELSE @ - Len(FL.text),
          !.start = (@ + 1) % Capacity, !.size = @ - 1, !.absolute = @ + 1]

mut_RecycleKeepsRows(b) ==
    LET FL == linebuf_get_nth_line(b, 0)
    IN  [b EXCEPT
          !.total_size_except_last = IF b.size = 1 THEN @ ELSE @ - Len(FL.text),
          !.lines = IF b.size = 1 THEN @ ELSE [@ EXCEPT ![b.start] = FreedSlot],
          !.edit = IF b.size = 1 THEN [@ EXCEPT !.raw = "freed"] ELSE @,
          !.start = (@ + 1) % Capacity, !.size = @ - 1, !.absolute = @ + 1]

(* linebuf_recycle_oldest_lines(buf, 1): free the oldest line, which is    *)
(* the editor's block when it is also the last one.                        *)
linebuf_recycle_oldest_line(b) ==
    LET FL == linebuf_get_nth_line(b, 0)
    IN  [b EXCEPT
          !.total_rendered = @ - FL.rows,
          !.total_size_except_last = IF b.size = 1 THEN @ ELSE @ - Len(FL.text),
          !.lines = IF b.size = 1 THEN @ ELSE [@ EXCEPT ![b.start] = FreedSlot],
          !.edit = IF b.size = 1 THEN [@ EXCEPT !.raw = "freed"] ELSE @,
          !.start = (@ + 1) % Capacity, !.size = @ - 1, !.absolute = @ + 1]

mut_FreezeUncounted(b) ==
    [b EXCEPT
      !.lines = [@ EXCEPT ![linebuf_nth_to_index(b, b.size - 1)] =
          [ptr |-> b.edit.raw, text |-> b.edit.text, rows |-> b.edit.rows]],
      !.edit = stredit_cleared]

(* Freeze the last line: its block moves from the editor to the array *)
linebuf_freeze_last(b) ==
    [b EXCEPT
      !.total_size_except_last = @ + Len(b.edit.text),
      !.lines = [@ EXCEPT ![linebuf_nth_to_index(b, b.size - 1)] =
          [ptr |-> b.edit.raw, text |-> b.edit.text, rows |-> b.edit.rows]],
      !.edit = stredit_cleared]

(* Append an empty line, with a NULL slot and a fresh editor. The failure  *)
(* of stredit_init() is ignored by the code and not modelled.              *)
linebuf_append_empty(b) ==
    [b EXCEPT !.size = @ + 1,
              !.lines = [@ EXCEPT ![linebuf_nth_to_index(b, b.size)] = NullSlot],
              !.edit = stredit_init]

linebuf_make_space(b) ==
    IF b.size - Capacity + 1 > 0 THEN linebuf_recycle_oldest_line(b) ELSE b

linebuf_newline(b) ==
    LET r == linebuf_make_space(b)
        f == IF r.size > 0 THEN linebuf_freeze_last(r) ELSE r
    IN  linebuf_append_empty(f)

mut_OverBacklogEarly(b) ==
    b.size > 1 /\ b.total_size_except_last + Len(b.edit.text) >= Backlog

(* The loop test of linebuf_clean_backlog(). The code counts the lines to  *)
(* remove, subtracting their sizes from n, and then recycles them; as n is *)
(* the total that recycling leaves, one recycled line per iteration is the *)
(* same.                                                                   *)
linebuf_over_backlog(b) ==
    /\ b.size > 1
    /\ b.total_size_except_last + Len(b.edit.text) > Backlog

(* Render rows of a text w columns wide: drsize() returns the end of what  *)
(* fits in a row, and the do-while loop counts one row for an empty text.  *)
Rows(text, w) == IF text = <<>> THEN 1 ELSE (Len(text) + w - 1) \div w

(* One iteration of linebuf_update_render(), for the line numbered abs *)
linebuf_layout_line(b, abs, w) ==
    LET FL == linebuf_get_line(b, abs)
        rows == Rows(FL.text, w)
        total == b.total_rendered - FL.rows + rows
    IN  IF abs = linebuf_end(b) - 1
        THEN [b EXCEPT !.edit = [@ EXCEPT !.rows = rows], !.total_rendered = total]
        ELSE [b EXCEPT !.lines = [@ EXCEPT ![linebuf_nth_to_index(b, abs - b.absolute)] =
                                     [FL EXCEPT !.rows = rows]],
                       !.total_rendered = total]

(* The first line that linebuf_update_render() lays out *)
linebuf_layout_start(b, lazy) ==
    IF lazy THEN Max2(b.absolute, b.absolute_rendered + 1) ELSE b.absolute

mut_LayoutEndCountsLast(b) ==
    [b EXCEPT !.absolute_rendered = Max2(@, linebuf_end(b) - 1)]

(* The last assignment of linebuf_update_render(): the last line can still *)
(* be edited and does not count as rendered.                               *)
linebuf_layout_end(b) ==
    [b EXCEPT !.absolute_rendered = Max2(@, linebuf_end(b) - 2)]
==============================================================================
