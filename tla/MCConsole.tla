------------------------------ MODULE MCConsole ------------------------------
(* Instances of Console for TLC. *)
EXTENDS Console, SequencesExt

(* ConsoleRing.cfg: blank lines, short lines, lines that must be split *)
RingOutputs == { <<NL>>, <<"a">>, <<"a", NL>>, <<"b", "a", "b", "a">> }
RingPrompts == {<<"a">>}

(* ConsoleEdit.cfg: backspaces, erasing, cursor escapes and prompts *)
EditOutputs == {
    <<"a", "b", "a">>,
    <<BS, ESC, SOH, "D">>,
    <<"a", ESC, SOH, "C", BS, ESC, "[", "K">> }
EditPrompts == {<<>>, <<"a">>, <<"b", BS, "a", "b">>}

(* ConsoleSplit.cfg: nobody types or moves the cursor, nothing is dropped, *)
(* so that whatever is written goes to the end of the text.                *)
SplitOutputs == {<<"a", "b">>, <<"a", "a", "b">>, <<"b", "a", "b", "a", "a">>}

Text == FlattenSeq([n \in 1..buf.size |-> linebuf_get_nth_line(buf, n - 1).text])

(* console.h: a line longer than PE_CONSOLE_LINE_MAX_LENGTH gets split. A  *)
(* run of plain characters that console_write_raw() has written without a  *)
(* failure is, over the line breaks that splitting adds, the end of the    *)
(* text of the console.                                                    *)
WrittenInOrder ==
    pc = "raw" /\ job.left = 0 =>
        LET run == SubSeq(job.out, job.offset + 1, job.offset + job.line)
        IN  IsSuffix(run, Text)
==============================================================================
