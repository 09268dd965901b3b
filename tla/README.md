# PythonExtra: TLA+ models of the SH port

PythonExtra is MicroPython for CASIO calculators. Nearly all of the repository
is upstream MicroPython and vendored libraries; the program's own logic is the
port in `ports/sh`: a shell with a terminal emulator, an event loop that runs
Python code and files, graphics modules that share the screen with the shell,
and NumWorks-compatible modules that take hardware timers and shrink the
drawing window. This project models that port, and of the interpreter that it
builds the parts with intricate state: the heap and its garbage collector, as
this port configures them (several areas, a threshold, no finalisers), and the
hash tables of dicts and sets.

The calculator has one thread and no operating system in the way, but three
things run between its steps: the keyboard interrupt (AC/ON), the refresh timer
of the shell and the refresh timer of the `kandinsky` module.

## 1. Inventory

| Component (source) | State | Operations | What makes it correct |
|---|---|---|---|
| String editor (`stredit.c`) | heap block, its size, text length, locked prefix | init, freeze, reset, alloc, set_prefix, insert, delete | text and NUL fit in the block; prefix never edited |
| Line buffer (`console.c`, `linebuf_*`) | array of line pointers used as a ring, editor of the last line, start, size, absolute number of the first line, two running totals, mark of lazy layout | newline, recycle oldest, clean backlog, update render | every line owned once and freed once; totals equal sums; no stale layout; bounded, oldest lines go first |
| Console (`console.c`, `console_*`) | line buffer, cursor, render_needed, width | write (text, newline, backspace, two escape sequences), newline, lock prefix, clear line, delete, set cursor, get line, compute view, clamp scroll, render | cursor in the editable part; prompt protected; text in order; calls return |
| Shell widget (`widget_shell.c`) | console, scroll, refresh timer | key events, layout, render, timer | changes are drawn; keys do what the console allows |
| SHIFT and ALPHA (`widget_shell.c`, `main.c`) | a state of six for each modifier | press, release, other key, modifier icon | a tap locks, a combination does not; the icon agrees with the state |
| Screen (`main.c`, `modgint.c`, `modcasioplot.c`) | render_needed, widget.update, kandinsky's flag, VRAM and screen | pe_draw, pe_refresh, enter graphics mode, the VM's drawing hook, dupdate | the shell does not draw over a graphics program; nothing printed is forgotten |
| Session (`main.c`, `pyexec.c`) | mp_interrupt_char, pending exception, event queue | run a line or a file, input(), getkey(), pollevent(), AC/ON | interrupts reach their program and only it; keys for a program never reach the shell |
| Timers and window (`numworks/*.c`, `main.c`) | owner of each timer, timer_altered[], is_timered, is_dwindowed, window | import time, import kandinsky, wide-screen functions, restoration after a file | shell's timer survives; everything is given back |
| getkey() (`modgint.c`) | time left, timer of the round, key event transformation | call, round, event, timeout, return | waits as long as asked; a timer per round, given back; transformation restored |
| File objects (`fileio/`) | descriptor table, descriptor of each object | open (name or number), read, write, seek, close, loss, reset | an object only reaches the file it opened; print() reaches the console |
| Marking (`py/gc.c`) | mark bits, bounded mark stack, overflow flag | roots, subtree, rescan, sweep | nothing in use is freed, no garbage is kept, the rescans end |
| Heap (`py/gc.c`, `modgc.c`) | allocation table and hints of each area, lock depth, automatic collection | alloc, free, realloc, collect, sweep_all, lock, enable | objects are intact; an allocation fails only when there is no room |
| Dicts and sets (`py/map.c`, `objdict.c`, `objset.c`) | slots, alloc, used, all_keys_are_qstrs | store, setdefault, get, pop, popitem, toggle, clear, rehash | a finite function from keys to values |
| Images, fonts (`objgintimage.c`, `objgintfont.c`) | buffers and format | construction, validation, subimage | not modelled yet |
| ion, keymap (`numworks/ion.c`, `keymap.c`) | none (tables) | lookup | not modelled (pure tables) |
| Debugging aids, HAL | none that others depend on | forwarders | not modelled |

Interactions. Python's output reaches `console_write()` through
`stdouterr_write()`. Keys reach the shell widget through JustUI events, edit the
last line and, on EXE, `pe_handle_event()` runs the line with
`pyexec_repl_execute()` and prints the next prompt. While Python runs, the VM
calls `pe_draw()` or the graphics refresh from its hook at branches; `input()`
runs a second event loop inside the program (`pe_readline()`). Graphics modules
call `pe_enter_graphics_mode()` and then own the screen until the shell is used
again. The shell's and kandinsky's timers only set flags, which the main thread
polls and clears.

The hard behaviours, listed with their lines under `hazards` in `PROJECT.json`:
interrupts between two stores or between a test and a clear; the ring at its
limits and over many rotations; running totals and lazy layout that go stale;
a long run of output split over several lines; a realloc that fails halfway; a
full event queue; timers that run out; state that survives the program that
made it; a mark stack that overflows again while the overflow is dealt with;
search hints that hide free memory; deleted slots that cut a probe sequence.

## 2. Modules

    StrEdit <- LineBuf <-+
                   Sums <-+- Console <- MCConsole       runs ring, edit, split
                              ^  +-- refines --> Scrollback
                        ConsoleProofs
          Sums <- ConsoleRender                         runs render, blank
    Display  <- DisplayProofs                           run display
    Session  <- SessionProofs                           run session
    Modifiers <- ModifiersProofs                        run keys
    Timers <- GetKey <-+
               FdFile <-+- Program <- MCProgram         run program
                              ^
                        TimersProofs
    GcMark <- MCGcMark, GcMarkProofs                    run mark
    GcHeap <- MCGcHeap, GcHeapProofs                    run heap
    MpMap  <- MCMpMap, MpMapProofs                      run map
      +-- refines --> Dict

(`A <- B`: B extends A.) `Console` composes the editor, the ring, the output of
programs, the prompts and the keys of the shell widget. `Program` composes what
a Python program holds of the system.

**StrEdit** has one operator per function of `stredit.c`, on a record with the
fields of `stredit_t`. The text keeps its characters; the block keeps its size
and whether its pointer is NULL, live or freed. A failing `realloc` is a choice
of the caller.

**LineBuf** has the functions of `linebuf_t` as operators on a record with its
fields. A slot of the array keeps the state of its pointer: recycling frees the
line and leaves the dangling pointer in the array, as the code does.
`linebuf_nth_to_index` is the modular arithmetic of the code.

**Sums** has the sum of the values of a function on an interval, with which the
running totals of the console, the size of the scrollback and the layout of a
frame are stated.

**Console** has one action per call of a user of the console and one per
iteration of each loop (`pc`): `console_newline`, `linebuf_clean_backlog`,
`console_write_run` (the scan for a control character), `console_write_raw_round`
and `console_write_raw_fail` (a chunk, or a realloc that fails), `write_newline`,
`write_backspace`, `write_escape` (`ESC [ K` erases to the end of the line;
`ESC SOH D` and `ESC SOH C` move the cursor), `console_lock_prefix`, `linebuf_update_render`, `render_return`.
Calls are `stdouterr_write`, `Prompt` (`pe_print_prompt` and the start of
`pe_readline`), `RunFile`, `EnterGraphics` (it clears render_needed) and the keys
and rendering of the widget. `mode` says who owns the last line.

**Scrollback** is the abstract specification: a sequence of finished lines,
numbered, extended at the end and dropped from the front, and an editable last
line. `RefinesScrollback` maps it to the ring.

**ConsoleRender** models `console_render()` and `console_fline_render()`: the scan
backwards to the first visible line, then the rows of each line, and where the
cursor is drawn. Its inputs are all consoles within the bounds, already laid out
with a clamped scroll position, which is what `Console` shows of the state in
which it is called. The reference is the window of the whole layout.

**Display** has a step of the main thread for each access to a shared flag, and
the two timer interrupts as actions enabled between any two of them. Drawings are
numbered, so that what is on the screen can be compared with what was printed.
The program starts on the file tab (`visible` is false): F1 and F2 choose the tab,
except during `input()` (`bound`, the `shell_bound` of `pe_handle_event()`), and
running a file shows the shell. Keys reach the visible tab only, and a frame
draws it only: while the shell is hidden no frame clears its flags.
JustUI is external; that `jscene_show_and_focus()` has the scene painted
(`scene_update`) is taken from how `main.c` relies on it. Whether it clears `widget.update` before or after it calls
the render function is not visible in this repository, so both are initial
states (`early`).

**Session** has a step for each access to what the keyboard interrupt touches.
A key records whom it was pressed for: the program from its compilation to its
end, the user interface otherwise, the reset before a file is run included, since
a file whose import line cannot be allocated is not run. The event queue is external: the keyboard
driver drops events when it is full.

**Timers** has the owner of every hardware timer. gint is external:
`timer_configure()` gives out some free timer of the kind asked for, or fails.

**GetKey** is `getkey_opt_internal()`: the rounds, each with a timer from `Timers`,
the event or the flag that ends a round, the time that is left and the event
transformation, which is saved and restored. A round whose timer could not be
configured ends only with a key. `waited` is the time that has really passed.

**FdFile** is `fileio/file.c` over an external descriptor table. `open()` gives out
any free descriptor, so that every reuse happens. `numbered` records that a
program went behind the objects' back, with `open(number)` or by closing a
standard stream; from then on nothing is claimed about files.

**Program** interleaves the three under one Python thread: imports and windows,
one `getkey()` at a time, file operations. A file starts with the reset of
MicroPython, a line does not. `ProgramImplementsTimers` shows that the
composition implements `Timers`.

**GcMark** has a step for every word that the collector looks at: the roots, the
words of an object, the stack, the rescan after an overflow. An object is named
by its rank in the order of the scan; a word that is no address of a head block
is 0, whatever else it is. Reachability appears only in the properties, as closed
sets of objects.

**GcHeap** has the allocation table with the four kinds of block and an action
per function. The loops over the table are sets and intervals: a run of free
blocks from the hint on, the chain of an object, the sweep up to the last used
block. `live` is what the program can reach and the size it asked for; marking is
one step (`GcMark` shows that this is what it does). Early collections, which the
program chooses with `gc.threshold()`, are a choice. `gc_realloc()` keeps the old
object alive while it allocates: it is on the C stack.

**MpMap** has the table of `map.c`, for a dict or a set, and the operations of
`objdict.c` and `objset.c` on it. The probe sequence is the set of steps at which a
search ends and the set at which a key may be put. A failing `m_new0()` is a
choice whenever the table must grow; the code makes it before or after it sets
`alloc` and `used`, for a dict or for a set. A table with fewer slots than `alloc` says
is broken (`Broken`): what then follows is undefined, and only `clear()` is followed.
Equality of keys is an equivalence, which leaves out NaN (a dict finds it by its
pointer, a set does not find it at all, `map.c:278` and `383`), and a string only
equals a string, which leaves out classes of the program whose `__eq__` and
`__hash__` say otherwise (a dict of qstrs does not look for them,
`map.c:184-187`).

**Dict** is the abstract specification: a finite function, the answer of the last
operation, and whether the contents are lost. A dict is never lost, and running
out of memory when a key is added leaves it as it was; a set may be lost by that,
until it is cleared, and by nothing else.

**Modifiers** has the transitions of SHIFT and ALPHA as operators on the six
states of the code, and an action for each event that the shell widget handles:
a modifier, a key that uses the modifiers, and the arrows that scroll, which
return before `widget_shell_use_mods()`. The events that never reach the widget
are actions too: those read by a program, dropped by `clearevents()` or given to
the file tab. The event queue is external; a driver with a full queue notices
nothing. `seen`, `lock`, `used` and `missed` are history variables: what a user
who watches the delivered events would count, and for which modifiers an event
was lost. After a loss the count starts again at the next release.

## 3. Runs

| Run | Instance | Shows |
|---|---|---|
| ring | Capacity 3, MaxLine 3, Backlog 4, widths 1 and 2, height 2, lines numbered up to 5 | ownership of blocks (`RingOwnership`), the running totals (`RowAccounting`, `BacklogBound`), `LayoutFresh`, `RefinesScrollback`, and that every call ends (`CallsReturn`) |
| edit | MaxLine 4, Capacity 2, Prealloc 1, Grow 2 | `CursorInEditable`, `BlockLargeEnough`, `PromptKept`, with programs, prompts, keys and failing reallocs mixed |
| render | lengths 1, 2, 3, 5; up to 4 lines; widths 1..3; heights 1, 3, 4 | every frame is the scroll window of the layout, and the cursor is where it belongs (`WindowDrawn`, `CursorDrawn`) |
| display | 4 console changes and 4 drawings | `NoShellOverGraphics`, `ChangeFlagged`, and that drawings, and text while the tab of the shell is selected, are eventually shown (`TextShown`, `KandinskyShown`) |
| session | queue of 2, 5 key presses | `NoStaleInterrupt`, `CallInterruptible`, `ReadlineNotInterrupted`, `NoTypeAhead`, `InterruptHandled` |
| keys | queue of 2 | `ModifiersCount`, `IconFollows` |
| program | 2 TMU and 2 ETMU timers, rounds of 2 ms, timeouts -1 to 3, 4 descriptors, 2 names, 2 objects | `ShellTimerRuns`, `FileGivesBack`, `RoundHasTimer`, `GetkeyWaits`, `GetkeyEnds`, `AccessesOwnFile` |
| mark | 6 objects of up to 2 words, mark stack of 1 | `NothingInUseFreed`, `NoGarbageKept`, `CollectionEnds` |
| heap | areas of 2 and 4 blocks, 2 blocks to a table byte, requests of 1 to 3 blocks | `ObjectsIntact`, `HintsSound`, `FailsOnlyWhenFull`, `FailsAfterCollecting`, `CollectionReclaims` |
| map | 5 objects of 4 classes, 2 values, tables of 0, 1, 2, 3 and 7 slots | `EveryKeyFound`, `UsedCounts`, `RefinesDict` |
| split, blank | see findings | a counterexample each |

Why the bounds are enough. A ring of three with line numbers up to five rotates
more than once through every start index and has first, middle and last lines;
a backlog of four with lines of three is exceeded by one line, by two and by a
blank one; strings of four in lines of three are split; lines of three and
widths of one and two give one, two and three rows. `MaxAbsolute` only stops new
calls: the calls under way finish. Editing is separated (`edit`) because it needs
longer lines and short blocks that grow several times, not more lines. A queue of
two can be empty, partly full and full, and five presses are enough to fill it,
interrupt, and do it again in the next program. In `keys` a queue of two holds
EXE and a release together, which is how a program starts with an event it will
lose; the number of presses is not bounded. In `display`, four changes let a file
start, print and end, and a line be typed after it, with changes of the tab,
which are not counted, anywhere in between. A ring of one line, where the line
recycled is the one edited, is left to the proofs, which hold for every capacity
from one on. In `program`, two TMU timers can
both be taken, by the shell or by modules, so that imports go on without one; the
proof covers the real numbers (three and six). Two ETMU timers are the fewest with which
a round always has one, and the shell may hold the other. Timeouts are shorter
than a round, one round, and one and a half. Four descriptors leave one beside
the standard streams, so that it is reused at once. In `mark`, six objects with
two that point to two others make the stack overflow at the roots and again in a
rescan, at objects before and after its position. In `heap`, two blocks to a byte
keep the rounding of the hints, areas of different sizes keep the order of
areas, and six blocks have room for gaps of every kind that requests of three can
meet; the lock counter wraps at 2. In `map`, keys collide at the start and around
the end of the largest table, and one string is present as a qstr and as a str.
`MaxAlloc` stops growth beyond seven slots, which is then a MemoryError.
Deadlock is not checked where the system may stop: `ConsoleRender`
ends with its frame, `Session` at the bound on key presses, `GcMark` with its
collection.

Fairness. `Console`: weak fairness of the loop steps, since a call that has
started is executed; none for users and programs. `Display`: weak fairness of the
timers, of the running thread and of JustUI's painting, and of the program (it
goes on from branch to branch); none for the user, who may never select the tab
of the shell: `TextShown` is about what happens while it is selected. `Session`: weak fairness of
the main thread's own steps and strong fairness of `Branch`: a program that loops
for ever, over `getkey()` or `input()` too, passes a branch of the VM in every
round. The user need not press a key, `getkey()` need not time out and the
program need not end. `Program`: weak fairness of the steps inside `getkey()`: the
processor runs on and a timer that was started sets its flag; a round without a
timer has no such step, and the key that would end it is not assumed. `GcMark`: weak fairness of the collector, which nothing
interrupts.

## 4. Findings

- `split`: `console_write_raw()` does not advance its string between rounds, so
  a run that is longer than the room in the line repeats its start and loses its
  end. `console.h` says that lines "get split".
- `blank`: an empty line counts as one row (do-while) and is drawn in none
  (while): what follows it is drawn a row too high.

Also seen, and not checked by a run of their own:

- `time.__init__` starts a new timer at each import (`numworks/time.c:49`), so that
  after a second import the monotonic clock runs at twice its speed;
  `py/objmodule.c:213-215` asks modules to handle repeated initialisation.
- `CGEXT_Is_Wide_Screen_Enabled()` (`numworks/modkandinsky.c:292`) returns the opposite
  of what `docs/sh/NWcompat_modules_en.md:45` says.
- SHIFT or ALPHA released while a program runs stays instant in the shell
  afterwards, since the release is read by the program or dropped by
  `clearevents()` (`main.c:160`). `widget_shell.h:93-94` says of the instant mode that
  it "is the case when either SHIFT or ALPHA is pressed". `ModifiersCount` holds
  again from the next release on.
- `getkey_opt()` with a timeout of 0 returns an event that was never set
  (`GetkeyWaits` says that no other call does), and `getkey()` does not look at a
  pending interrupt, so that AC/ON takes effect only when another key is pressed
  or its timeout passes (`InterruptHandled` says so).
- Files left open, `sys.stdout.close()`, `micropython.heap_lock()` and `gc.disable()`
  outlive the reset of MicroPython: nothing in `pe_reset_micropython()` undoes them.
- `mp_set_rehash()` sets `alloc` before it allocates, unlike `mp_map_rehash()`: a set
  that could not grow is unusable until it is cleared (`Dict` allows it for sets
only). `dict_popitem()` loses the
  item if the tuple cannot be allocated.
- `render_lines` is 8 bits wide and `size` 16, but lines of 1024 characters overflow
  neither at the widths of the two calculators.

## 5. Proofs

All theorems hold for every value of the constants under the named assumptions
of the modules: `StrEditAssumption` and `LineBufAssumption` (sizes positive, the
backlog at least a line, as `console_create()` ensures), `ConsoleAssumption`
(strings are strings, typed characters are plain), `SessionAssumption`,
`DisplayAssumption`, `TimersAssumption` (disjoint finite sets of timers),
`ModifiersAssumption` (the queue holds an event), `GetKeyAssumption` (at least two
ETMU timers, a round of at least 1 ms), `FdFileAssumption` (the three standard
descriptors exist), `GcMarkAssumption` and `GcHeapAssumption` (sizes positive; the
mark stack may even have size 0), `MpMapAssumption` (equal keys have equal hashes;
of two different objects that are equal, at most one is a qstr, and a string only
equals a string, as for all built-in types).

**ConsoleProofs**, first part: the lemmas about the operators. Insertion and deletion
keep the text in the block and the prefix in place, `linebuf_nth_to_index` is
injective on the ring, `linebuf_newline` and `linebuf_recycle_oldest_line` keep
`RingOK`, and `SameLines` says which lines, by absolute number, an operation leaves
as they are: absolute numbers do not move when the ring turns. Sums are
recursive functions; that the partial sums exist and are unique, and how a sum
changes with its first, its last or one of its terms, is proved by taking the
least number for which the statement fails.

Second part. `TypeCorrect`, `RingOwned`, `CursorKept` and `BlockFits` follow from one
inductive invariant,

    IInv == Types /\ BufferOK /\ CursorInEditable /\ JobOK

`RingOwnership` is a statement about the set of live slots, which is not what a
step can be followed through; `RingOK` states it per position (live exactly
below the last line, NULL at the last), so that advancing `start` shifts
positions. `CursorInEditable` alone is not inductive: a round of a write needs
`JobOK`, that the chunk is inside the string, and a split needs to know who owns
the line. `BlockLargeEnough` needs the stronger `RoomForText` on the editor.

The other results share a classification of the steps by what they do to the
buffer (`BufferStep`): a newline, the cleaning of the backlog, an edit of the last
line, a step of the layout, or nothing. `PromptIsKept` is read off it: every edit
keeps the prompt except `console_lock_prefix`, which is a step of the program.
`LayoutIsFresh` is from `LayoutInv`, where the lines laid out are those below an absolute
number, so that recycling shortens the range and a newline does not reach it.
`RowsAccounted` is from `TotalsRight`: both running totals are the sums over the lines
stored. `BacklogKept` needs both totals and `BacklogInv`: while the cleaning
runs the new line is empty, so that a backlog of at least a line is met before
the line just ended would be dropped. `ConsoleImplementsScrollback` maps the ring to
the sequence of its frozen texts (`Hist`): recycling is `Tail`, a newline is `Append`,
the sums of the two sides agree (`HistSize`), and every other step leaves the view
alone (`SameView`) or is an `Edit`.

Third part: `FrameIsWindow` and `CursorInPlace`, about `ConsoleRender` with
any lines that are not blank (`NoBlankLines`; the run `blank` shows what becomes of
blank ones). Both loops work with one number, `line_y`: the scan keeps its distance from
the bottom of the view, the drawing its distance from the top, and the two agree
when the scan ends, in a short console because it is moved up (`FrameInv`). The rows
drawn are then the rows of the layout between the top of the view and `line_y`,
which needs the rows above each line to grow from line to line, so that a row
belongs to one line (`RowOfLine`). Until the last line is drawn there is neither a
cursor nor a row of that line (`CaretInv`).

**SessionProofs**: `IInv` gives the value of `mp_interrupt_char` at each pc, that
`saved` holds CTRL-C while `input()` runs, and that nothing is pending
before the program and after its handler. From it follow `StaleInterruptFree`,
`AlwaysInterruptible`, `ReadlineSafe` and `TypeAheadFree`, for any queue size and
number of keys.

**DisplayProofs**: `ScreenLeftToProgram` needs that both flags are clear when the
program has the screen (`ScreenOwned`) and that each frame returns where it was
asked for (`FrameReturns`): the order of the two stores in
`pe_enter_graphics_mode()` is what makes it inductive. `NoChangeForgotten` is
`ChangeFlagged`; it needs that a change under a hidden shell is in its flags
(`HiddenFlagged`), since a frame of the file tab does not account for it.

**TimersProofs**: the marks of `timer_altered[]`, which are never cleared, cover the timers
of the modules (`MarksCover`) and never the shell's; with the value of the window
implied by the flags (`WindowKnown`) this gives `ShellTimerSurvives` and
`FileGivesAllBack`. `ProgramImplementsTimers` carries both over to the composition
(`ProgramGivesBack`): every step of it is a step of `Timers` or leaves them alone.
`GetkeyWaitsAsAsked` rests on the sum of the time waited and the time left
(`CallInv`), and shows that the event transformation is restored (`TransformRestored`); `RoundsHaveTimers` on the fact that the modules only take TMU timers,
so that of two ETMU timers the shell leaves one (`RoundInv`); `FilesAreOwn` on no two
open objects having one descriptor (`FileInv`), which is why closing sets it to -1.

**GcMarkProofs**: `MarkingSafe` and `MarkingExact` for every heap, all roots and every
stack size. The invariant is the frontier: a marked object has all its children
marked, or an overflow is noted, or it is on the stack, or in hand with its
words passed so far done, or the rescan has not come to it (`Frontier`). An object
marked behind the rescan is not ahead of it, and must then be on the stack or
have noted an overflow. `Sound` bounds the marks by every closed set that
contains the roots.

**GcHeapProofs**: `HintsAreSound` and `FailureMeansFull`. The invariant is stated on the
heap as a value (`IsHeap`, `Hinted`), so that it passes through the two searches and
the collection of one allocation: a search in vain for one block proves that
its areas are full, whatever hint it then stores, and one for more blocks leaves
the hints alone.

`ObjectsStayIntact`, `FailureMeansCollected` and `CollectionsReclaim` are from a second
invariant, `CInv`. `ObjectsIntact` is not inductive: the sweep frees the tails that
follow a freed head, and stops at the last used block, so a tail without a head
or a block in use beyond that bound would be freed or kept wrongly. `Chained`
excludes both, `Intact` says that each object is exactly a chain, whose end the
neighbours do not extend, and `Clean` that nothing else is in use after a
collection; a shrinking realloc or a free leaves chains because it cuts at the
end of one.

**MpMapProofs**: `KeysAreFound`, `LengthIsRight` and `MapImplementsDict`, for every hash
function, every set of keys and values and every list of sizes
(`MpMapAssumption`). The invariant `GoodTable` is that no two slots have equal
keys (`Unique`), that the flag is right (`QstrsOnly`), that in the probe sequence of
a stored key no slot before its own was never used (`Reachable`), and that `used`
counts the keys (`Counted`). `Reachable` is what `EveryKeyFound` does not say about the
slots in between, and why a deleted slot may become NULL only if the next one
is. That the probe sequence visits every slot once is arithmetic of remainders
(`Probes`). The rehash is a recursive function over the slots of the old table; its
partial tables exist and hold the keys below (`Moved`), again by the least
slot for which they would not. The operations are then three effects on the
meaning of a table: a key set, a key dropped, or nothing (`Sets`, `Drops`, `Fails`), each a
step of `Dict`. The table of a dict is never `Broken`, which the refinement and
`UsedCounts` say; of a set whose growth failed it is only shown that it was lost in
that way.

**ModifiersProofs**: `CountKept` is `ModifiersCount` for any queue. The invariant
adds `UsedKnown`, that a modifier held is in a state "used" exactly when another
key came since: `ModifiersCount` alone does not say which releases change the lock.
`IconIsCurrent` is by the kinds of step (`Announced`): a change of the modifiers asks for a repaint,
and only a paint takes the request back.

Only model-checked: the liveness properties (`CallsReturn`, `TextShown`,
`KandinskyShown`, `InterruptHandled`, `GetkeyEnds`, `CollectionEnds`), which TLAPS does not
prove.

## 6. Not modelled

`linebuf_deinit()` and `console_destroy()` are never reached; the failure of
`stredit_init()` ends in a NULL dereference and not in a state of the program;
pixels, colours, fonts and the geometry of the scrollbar are layout. Images and
fonts are bopti data over Python buffers, checked once when they are made. The
value of `time.monotonic()` is not modelled, nor are the key queries of `ion`, which is
a table. Of MicroPython, the compiler, the VM, the remaining types and the
libraries are outside, as are ordered and fixed hash tables, iteration over a
table that changes, and the bulk operations of sets, which are loops over the
modelled ones; finalisers are not built into this port. The other ports are
not part of this program. gint, JustUI and the C library are external: the event
queue, `timer_configure()`, `widget.update` and the descriptor table are modelled from
how the port uses them.

## 7. Plan

Done: the console (editor, ring, writing, editing, layout, rendering) with its
abstract scrollback; the screen; the session; modifiers; what a program holds
(timers, window, getkey(), files); the collector and the heap; hash tables with
their abstract dict.

Next, in this order:

1. `GcMark` as an implementation of the one step `MarkLive` of `GcHeap`.
2. Composition of `Session` with `Display`: the drawing hook in `getkey()` and in
   the nested event loop of `input()`.
3. Iteration over a dict that changes, and the scheduler queue of `py/scheduler.c`.
