# ChipOS in TLA+

A verification of ChipOS, the RISC-V kernel in this repository: its in-memory
filesystem, the shell with its prompt, history and file commands, the code
editor, the highlighters and the kernel heap. TLC checks small instances; TLAPS
proves every invariant and action property of the passing runs, and both
refinements, for every value of the constants.

## The system

ChipOS is one thread. `kernel_main` initialises the heap, the filesystem and
the shell in that order and hands control to `shell_run`, which never returns.
No interrupt handler runs, input is polled, nothing is persistent: what one call
leaves in a global structure is what the next one finds. So the hard behaviour
is not interleaving but long sequences of legal calls over shared tables whose
indices, offsets and cached values must stay consistent.

| Component | State | Operations | Hard part |
|---|---|---|---|
| Filesystem, `kernel/fs/fs.c` | `fs`: a table of entries, their number, the current directory and its cached path, one data array with a high-water mark | 9 calls that change it, lookups, reads, two ways to work out a path | an entry's id is its position, and removal moves the last entry into the hole; a file's place is fixed when it is created; the path is cached |
| Shell file commands, `kernel/shell/shell.c` | the text of a running `edit` | `cd mkdir rmdir rm touch cp mv code edit` | commands are several filesystem calls, any of which may fail |
| Code editor, `kernel/editor/editor.c` | `editor`: lines, cursor, window, mode, `modified` | load, save, the start menu, about twenty keys and commands | limits of line, text and save buffer; when text may be dropped |
| Heap, `kernel/memory/memory.c` | a list of headers inside the heap, counters | `kmalloc`, `kfree` | splitting, merging, double frees, unsigned counters |
| Prompt line and history, `shell.c`, `drivers/console.c` | the buffer of `shell_run`, a ring of 20 commands, what the terminal shows | one key at a time: characters, backspace, arrows, Enter; `parse_command`; the lines `edit` reads | one buffer is typed into, recalled into, cut up by the parser and never cleared; indices into the ring; two readers share the keyboard |
| Showing and searching files, `shell.c` | the line being put together | the loops of `cat`, `edit`, `grep`, `syntax`; `display_line_with_highlighting` | four loops of their own with four ends |
| Highlighting in the editor, `editor.c` | position in the line | three loops that print a line with markers | arrays shorter than the line; strings, escapes and comments left open |
| Calculator, `compile`, `run`, `find`, help, string library, boot | none that outlives a call | – | not modelled, or through their effects only |

The shell and the editor call the filesystem; the prompt prints the cached
path; nobody but `kernel.c`'s start-up test uses the heap.

What makes each part correct:

* filesystem – the entries in use form one tree under the root and the current
  directory is in it; the cached path is the real one; an accepted write can be
  read back; a failed call changes nothing; files do not share bytes;
* shell – a command that fails half-way loses nothing, and no file becomes too
  long for the commands that read one byte less than a file may hold;
* editor – the cursor stays in the text, saving stays in its buffer, and `:q`
  drops a change only when the user says so;
* prompt – what the screen shows, as long as the shell can know, is what will be
  executed, the arrows show the
  commands as they were typed, and no copy leaves an array;
* highlighting and showing files – nothing of the text is lost or doubled, what
  is opened is closed, and every loop ends;
* heap – the blocks tile the heap, a region in use is not touched, free
  neighbours are merged, the counters agree with the list.

`PROJECT.json` lists the hazards line by line with the properties for each.

## The modules

| Module | Models | Kind |
|---|---|---|
| `FileSystem` | `fs.c`, `fs.h` | every call as an operator on the record `fs` and an action |
| `FileSystemInvariants` | – | properties, and the restricted callers they hold for |
| `AbstractFileSystem` | – | the promise: a tree of named files, a current directory |
| `FileSystemTree` | – | `FileSystem` implements `AbstractFileSystem` |
| `FileSystemProofs` | – | theorems about the table (types, allocator), the tree and the cached path, the bytes (extents, reading back, failed moves) |
| `FileRefinementProofs` | – | the theorem that `FileSystem` implements `AbstractFileSystem` |
| `Shell` | `cmd_*` of `shell.c` | composes `FileSystem` with the dialogue of `edit` |
| `Editor` | `editor.c` | a session, key by key |
| `CommandLine` | `console_gets_with_history`, `parse_command`, `shell_run` (`shell.c`), `console_gets` (`console.c`) | the dialogue at the keyboard, key by key |
| `Highlighter` | `editor_highlight_c`, `_verilog`, `_riscv`, `extract_word` (`editor.c`) | the three loops, turn by turn |
| `FileViewer` | `display_line_with_highlighting`, `cmd_cat`, `cmd_edit`, `cmd_grep`, `cmd_syntax` (`shell.c`) | the four loops, byte by byte |
| `Display` | – | composes the two: whatever is shown, and that it ends |
| `DisplayProofs` | – | theorems about `Display` |
| `Texts` | – | what a reader makes of a text: a text with some characters left out |
| `Heap` | `memory.c` | the header list and the counters |
| `AbstractHeap` | – | the promise: regions as long as asked for, that do not overlap, kept until freed |
| `HeapAllocator` | – | `Heap` implements `AbstractHeap`, call by call |
| `HeapProofs` | – | theorems about `Heap` |
| `CommandLineProofs` | – | theorems about `CommandLine` |
| `EditorProofs` | – | theorems about `Editor` |
| `ShellProofs` | – | theorems about `Shell`, from those about the filesystem's operators |
| `Ranges` | – | lemmas on ranges of naturals, least members, recursion and remainders the proofs share |
| `MC*` | – | instances for TLC, with one `.cfg` per run |

**FileSystem.** The C global is one record, and each function is a pair of
operators on it: `CreateResult` is what `fs_create_file` returns, `CreateFile`
the record it leaves. Functions that call others (`fs_write_file` creating a
file, `fs_move_file` cleaning up) apply the others' operators in the order of
the calls, so the shell's commands can be composed the same way. Names are
model values with a length and a `strtok` decomposition, since the code only
compares, measures and splits them. The high-level rule "first match wins" of
`find_file_in_dir` is `Min`. Free slots keep their old content, as in the code:
the walk to the root may read them. Where the C code leaves an array (`strncpy`
of a long name, `memcpy` past the data area, `strcat` past the path) the ghost
field `fault` says so and nothing is enabled afterwards: the language gives no
meaning to what would follow. Time stamps and permissions are stored, never
read, and left out.

**Shell.** A command at the prompt is one step, because nothing runs between
its calls; `edit` is several steps, one per line typed. `cmd_code` is a whole
editor session as the filesystem sees it, a write of some text.

**Editor.** One step is one key (or one colon command, typed in full). `file` is
what `fs_read_file` gives; `refused` says that `fs_write_file` will fail for this
file (it is a directory, or new with a full table), which no key can change.

**CommandLine.** One step is one key, for whoever reads: the shell, or
`console_gets` in the test at boot and in `edit`. `buffer` is the array of
`shell_run`, and nobody clears it: it starts with whatever the stack held, a
backspace leaves its character behind, Enter terminates the line and
`parse_command` then cuts it up with NULs. So `Text(buffer)`, which ends at the
first NUL, and the `pos` characters typed are different things, as in the code,
where Up copies the former. `mode` says who reads; `overrun` is the state after
a copy that found no NUL in the array. The terminal is one line of cells with a
cursor. `user` is a ghost: the lines entered, how far back the arrows have
gone, the line left for the history. An escape sequence other than the arrows
swallows two keys and changes nothing, so it is no step; in `console_gets` ESC
is ignored and the two characters behind it are ordinary keys. Every other byte,
a tab, a NUL or another control byte included, is stored and echoed by the shell
as it comes (`key_char`). What such an echo does to the screen depends on the
terminal, as does a text that reaches the end of the row (`COLUMNS`), while the
shell counts a column for every byte. The model does not guess: `terminal.told`
is then FALSE until the next prompt. A line with a NUL typed into it ends there,
for the parser and for the history (`Typed`).

**Highlighter, FileViewer, Display.** What is printed is a sequence of
characters and markers. A turn of an outer loop is a step; an inner loop (the
rest of a comment, a word, a number) is one step with its limits. Keyword tables
are sets of words; line numbers, indentation and headings are left out.
`Display` picks one line and language, or one file and command, and lets the
one processor work on it.

**Heap.** A pointer is a distance from `heap_memory`, and the headers are a
function from the addresses of the blocks in the list; `size_t` counters wrap
at `WORD`. `merge_free_blocks` is the loop run turn by turn, `HEAP_SIZE` turns
being enough because each removes a header or passes one.
`ImplementsAllocator` says more than that some request could explain
the step: `kmalloc(size)` that returns a block is `Allocate` of that size at that
pointer, `kfree` of a block in use is `Free` of its pointer, and any other call
leaves the regions alone (`kmalloc_served`, `kfree_served`). Only the request
whose own rounding exceeds `size_t` (`Wraps`) may get less than it asked for.

A definition marked *Variant* is not part of any specification: it is a slip
the definition after it avoids (a guard dropped, a reference not followed), and
replacing the one by the other must make TLC find a property violated.
`PROJECT.json` pairs each property with such a variant.

## The runs

| Run | Instance | Shows |
|---|---|---|
| `calls` | 3 entries of 1 byte, names `/`, `a` and one with no room for its terminator, paths of 4 bytes | every call in every state, including those that end in a fault: types, high-water mark, reading back, failed moves |
| `tree` | 5 entries, names `/`, `a`, `b`, walks of 3 levels | the documented calls keep one tree and a right cached path |
| `refine` | 4 entries of 2 bytes, writes of 1 and of 3 (clipped) bytes | with room for its writes the table implements the tree of names, and files share no byte |
| `heap` | 22 units, headers of 1, blocks of at least 2, counters modulo 32 | tiling, merging, counters, the part of the abstract allocator each call does |
| `editor` | 4 lines of 3 characters, save buffer of 8, window of 2, five files, one of more lines than are kept | cursor, unsaved changes, save buffer, reloading |
| `shell` | 3 entries of 4 bytes | files stay readable whole, `edit` appends, `mv` delivers while the entries form a tree |
| `prompt` | 5 entries, names `/`, `a`, `b`, no data | the prompt is right, even after `rm` of directories, while the root is kept |
| `line` | buffer of 4 cells with any content, ring of 2, 3 commands, lines of `edit` of 2 characters, keys for a letter, a blank and a NUL, a row of 3 cells | the line on the screen, what the arrows show, the buffer's last byte |
| `display` | all lines of up to 5 characters in three languages; all files of 4 to 6 bytes for four commands | nothing lost, markers pair, keywords and strings are bounded right, lines keep their numbers, every loop ends |
| `edit_ends`, `saved`, `view_only` | as above | disagreements, see below |

*Bounds.* Constants that bound arrays in the code are small here so that the
limit is reached within a few calls: a full table, a full data area, a full
line, text and save buffer all occur. Two names in directories of each other
give every shape of tree the renumbering distinguishes with five entries (a
moved entry that is the current directory, its parent, a sibling, a child of
the removed one); three entries are enough where only the data matters, as the
two files can be removed and made again in any order. The depth bound of `tree`
is one less than its deepest directory, so the cut path occurs too. In `heap`
five blocks fit, requests round up, leave rests too small to split, take the
whole heap and wrap. Every chain of headers that three live blocks and the gaps
around them can form is reached. In `line` the third command wraps the ring,
the line of three characters fills the buffer, the third word of a line has no
place in `args`, and the lines `x x`, `xx` and `x` stand for `edit` with a name,
`panic` and everything else; a recalled line of three characters reaches the end
of the row. NUL stands for every byte that does not show as one cell, being the
one that also ends the text. A tab differs from it only in what the parser does
with it, which is what it does with a blank, so no key of the run sends one; the
proofs cover it. In `display` words, numbers and lines reach the end
of their arrays (2, 2 and 3 instead of 63, 31 and 255) and go past it.

*Reductions.* The names `a` and `b` are interchangeable, so they form a symmetry
set in runs without liveness. `VIEW` drops what cannot matter: a slot beyond
`file_count` that no walk can reach and a byte that belongs to no entry are
overwritten before they are read.

*Deadlock* is checked except where the system really stops: in `calls` and
`shell` after a fault; in `line` (and `edit_ends`) after `panic` or an overrun,
and when the bound on commands is reached; in `display` when everything is
shown.

*Fairness and liveness.* Commands and keys come when the user likes, so nothing
is promised about them and no action that takes one is fair. In `Display`
nobody but the program takes steps and nothing takes the processor away from
it: `WF_vars(Next)` says that it goes on executing, and under it `Terminates`
says that every loop over a line or a file ends. The loops inside a filesystem
call are bounded in the model as in the code; termination of the walks to the
root is the safety property `NoCycles` together with the bound on the walk.

### What holds, and for whom

* Whatever is called in whatever state (`Next`): types and indices, the
  high-water mark, reading back, failed moves.
* For the calls README documents, where `rm` is not given a directory
  (`DocumentedNext`): the tree, and what rests on it: `mv` delivers its file.
* For every command but `rm /` at the root (`RootKeptSpec`): the prompt.
* For writes that stay within what the allocator left them (`InPlaceNext`):
  disjoint files and the abstract tree. `HasRoom` says exactly which writes
  these are: the last file in the data area may grow, any file may shrink.
* Whatever bytes the keys send: the history and the terminator. The screen
  (`EchoMatches`) until a byte is echoed that does not show as one cell, or a
  line reaches the end of the row: a tab moves the cursor by several columns and
  `pos` by one, so what the shell then prints over the line is in the wrong
  place until the next prompt. The
  line left for the history comes back, but only as the beginning of the line
  (`DraftComesBack`): what an earlier, longer line left in the array may follow.
* For files without words longer than the array of `display_line_...`: the text
  on the screen is the text in the file (`FileIsShown`), without the end of lines
  longer than the array and, by `cat`, without empty lines.

### Disagreements found

| Run | Code | Says otherwise |
|---|---|---|
| `edit_ends` | `console_gets` takes a line of 255 characters without an Enter, so the Enter typed behind it is an empty line and ends `edit` (`console.c` 87, `shell.c` 1073) | "empty line - finish editing" (`shell.c` 1074) |
| `saved` | the last line is saved without `\n` and loaded only with one (`editor.c` 481, 454) | "File saved successfully." |
| `view_only` | `choice` is shadowed, `read_only` never true (`editor.c` 614, 633, 694) | menu: "View only (read-only mode)" |

Also met and modelled, without a run of their own:

* `mv f f` copies `f` onto itself and deletes it (`MvDelivers` leaves it out);
* `rm` removes directories and leaves what they held in the table (the README's
  `rm <file>` is the caller of `DocumentedNext`); another directory renumbered
  into the freed slot adopts it and can hold two entries of one name;
* `rm /` at the root finds the root in itself and puts the last entry in its
  place (`fs.c` 381, 396);
* a file that outgrows the gap to its successor overwrites it (`HasRoom`);
* `next_file_id` is never lowered: after 252 `mkdir`s none succeeds;
* `fs_getcwd` and the prompt cut paths deeper than 32;
* coming down from the history does not always "restore original" (`shell.c`
  1450), see above, and the "clear line" of the arrows (1436, 1446) only moves
  the cursor, so the end of a longer line stays on the screen;
* `exit` and `quit` print Goodbye and return to the prompt;
* a new line below the window does not scroll it although the help page says the
  view follows; the next move down does (`DownShowsCursor`);
* a number in front of a word ends before it: `1else` shows a keyword, and so
  does a word too long for `extract_word` when its last piece spells one:
  `KeywordsStandAlone` allows both, right behind the number or right behind a
  full piece of the same word, and nothing else inside a word;
* `editor_save_file` leaves out the lines that no longer fit its buffer and says
  that the file was saved (`editor.c` 478, 491): `QuitLosesNothing` compares the
  file with what was saved, so this loss is not one it speaks of;
* `fs_resolve_path` of a path of 255 characters or more overruns its copy
  (`fs.c` 528, `strncpy` of `string.c`): `PathResolves` leaves such paths out;
* `grep` and `syntax` look at one empty line behind a last newline, `cat` leaves
  out empty lines, words of more than 63 characters are shown cut, and a block
  comment in the editor ends with its line.

## The proofs

TLAPS proves for every value of the constants that meets the named assumptions
(sizes are natural numbers, `WORD` exceeds the heap, names have lengths and
components, data are byte sequences; a blank shows as one cell, a tab and a NUL
do not; letters
are neither digits nor signs, a marker or a colour is not a character, what a
command reads from a file holds no NUL because it was written as a string, and
a newline is not part of a word):

* `FileSystemProofs`: `Spec => []TypeOK` and `Spec => []AllocatorIsAhead`. The
  inductive invariant `TableOK` joins the types to "no extent reaches past
  `data_usage`" and "`data_usage` is inside the array until a fault". Types alone
  are not inductive: that a read yields bytes needs its extent inside
  `data_storage`, and that in turn needs the mark, which only `fs_write_file`
  raises. One lemma per call shows that it keeps `TableOK`; calls made of
  others cite theirs. The walk to the root is a recursive function, and
  `RangeInduction` (in `Ranges`) takes the place of an induction theorem.
* There too: `DocSpec => []TreeIsSound`, `DocSpec => []PathIsFresh` and
  `DocSpec => []PathResolves`. The invariant is `TableOK` with `Sound`: the tree,
  and the cached path equal to the one rebuilt. Nothing but name, type and
  parent of the entries in use matters to it, so a lemma first says what each
  call does to those: nothing (`SameTree`), one entry more (`Grown`), one entry
  less and the last one in its place (`Removed`), or the current directory
  elsewhere (`Gone`). Four lemmas say that these keep the tree and four the path.
  The hard ones are `RemovedTree`, where a set of entries closed under
  `parent_id` after the removal is carried back through the renumbering to one
  before it, and `RemovedPath`, where the walk to the root is carried along it
  (`CarriedPath`); both use that what is removed is nobody's parent.
  `PathLeadsBack` shows that walking down the names of the path retraces the
  walk up, because a directory holds a name once.
* There too, on the bytes: `InPlaceSpec => []FilesAreDisjoint`, by the same reduction to
  extents (`Widened`, `Rewritten`, `Narrowed`) and the invariant `DataOK` with
  `TableOK`. `Spec => ReadBack` and `Spec => FailedMoveChangesNothing` hold in
  every state of any caller: the first because a write and the read after it
  find the same entry, the second because the entry a move created is the last
  one, so taking it back moves no other.
* `FileRefinementProofs`: `TreeSpec => ImplementsTree`. The mapping names each
  entry by the names on the way up to it (`PathsOf`, a recursive function over
  the entries in use). That such a naming exists is part of the invariant
  (`Named`), since ids are in no order of depth once a removal has renumbered
  them: each operator is given the naming it leaves. In a tree there is one
  naming only and no two entries share a path (`NamingUnique`,
  `NamingInjective`), by induction from the root, which `NoCycles` gives
  (`TreeInduction`). So `Grown` puts a path (`GrownImage`), `Removed` drops one
  however the table is renumbered (`RemovedImage`), `Gone` keeps the tree and
  storing data puts a node at one path, because the extents are apart. From there
  every call is a step of the abstract tree or a stutter; a call that stops at a
  fault on the way, after creating its destination, is a `Create`. Assumed
  besides (`InitDirsFit`): the table holds more than three entries and the names
  of `fs_init`'s directories are legal, as they are in `fs.h`.
* `ShellProofs`: `ShellSpec => []NothingIsCut`, `ShellSpec => EditOnlyAppends` and
  `ShellSpec => MvDelivers`, and `RootKeptSpec => []PromptIsRight`. The invariant is `TableOK` with "every file and the
  text of `edit` leave room for a terminator": each command's calls keep it
  because copies are no longer than their sources. Besides, while `edit` runs
  its text begins with what the file holds (`Opened`), and a write makes them
  equal (`TextWritten`, from `WrittenReadsBack`). `MvDelivers` follows the file
  through the write, which moves no other entry (`WriteFileElsewhere`), and
  through the renumbering of the removal (`RemovedFile`), where the tree says
  that nobody's parent is the file removed and no name is held twice.
  `PromptIsRight` has no tree to rest on, since `rm` of full directories breaks
  it. What stays whole is the chain above the current directory (`Climb`): its
  entries have heights above the root, none higher than the current directory,
  while whatever `rm` removes is a child of that directory and would be higher
  (`OnlyRootIsAbove`). So the chain, renumbered, survives, and the walk up it
  meets neither an orphan nor a cycle.
* `HeapProofs`: `Spec => []TypeOK`, `Spec => []Tiled`,
  `Spec => []FailsOnlyWhenFull` and `Spec => ImplementsAllocator`. The invariant
  is types, tiling and `NoFreePair`: each block ends where its successor starts,
  no other block starts inside it, and no two free blocks are neighbours.
  Splitting and one turn of merging keep it and the set of blocks in use;
  a turn that merges lowers the number of headers, none is lost, and `Iterates`
  carries a turn to the whole loop. Under the mapping "regions are the data of
  the blocks in use", `kmalloc(size)` is `Allocate` of that size at the pointer
  it returns, `kfree` is `Free` of its pointer, and a call that gives up or is
  ignored changes no region: the refinement is proved for each call's own
  argument. `TurnPasses` shows that a turn leaves no
  free pair behind it and comes a byte further at least, so `HEAP_SIZE` turns are
  the whole loop. A gap begins in some free block, which then fills it up to the
  block in use behind (`GapFits`), and the walk of `find_free_block` comes by
  every block (`WalkReaches`).
  `Spec => []StatsAgree` takes the counters along. `UsedBytes` is a set of
  addresses, so no sum over the list is needed: blocks do not overlap, hence one
  block more in use adds just its bytes. `free_memory` wraps; that adding and
  subtracting modulo `WORD` still gives the rest of the heap is `WrapsOnce`. With
  nothing in use the list is one free block, because two would be neighbours.
* `CommandLineProofs`: all five properties of `line`, among them
  `Spec => []EchoMatches`, `Spec => RecallsInOrder` and
  `Spec => DraftComesBack`, for every size of the buffer and of the ring. None is
  inductive alone. What Up saves begins with what was typed, up to a NUL in it,
  although it may end later (`TypedIs`, `TypedIsPrefix`), and Enter puts just that
  into the ring (`EnteredIs`). `LineInv` says that the screen, unless it is
  `Untold`, agrees with the buffer up to the cursor (`ScreenIs`), and that `current_history` is the place of the entry
  the arrows have reached and every place of the ring holds the command entered
  that many lines ago. `RingStep`, `RingApart` and `RingWalk` (in `Ranges`) are
  the arithmetic of a ring the count of commands runs around: the next entry
  takes the oldest one's place and no other's, and one step of an arrow is one
  command.
* `EditorProofs`: `Spec => []` of `TypeOK`, `CursorInText`, `QuitLosesNothing`
  and `SaveFits`, and `Spec => DownShowsCursor`. The first three are inductive
  together: the cursor's place makes the edits stay in their line, and the line
  lengths make the cursor's place right. `Stroke` says what one key may make of
  the editor (a sound state, no change of the text unnoticed, no cursor lost),
  each operator has its lemma, and `o` and appending join two. Loading and
  saving are recursive functions over the bytes and the lines; `Recursion` and
  `StaysIn` (in `Ranges`) give their existence and what they stay in.
  `Spec => []ReloadKeepsText` runs one after the other. Saving puts line k at
  byte b[k], the bytes of the lines before it with their newlines (`LaidOn`,
  `SavedWhole`), and loading, byte by byte, has the lines before b[k] complete and
  a prefix of line k in hand (`Reading`, `ReadingOn`); no character is a newline,
  so lines end where they ended.
* `DisplayProofs`: everything the runs check of `Display` but that it ends.
  `WithoutConcat` says that leaving characters out goes through concatenation,
  and the rest is built on it.
  - Editor: `Spec => []AllShown` and `Spec => []MarkersPair` are inductive together.
    `Turns` says what a turn of any of the three loops can be: text that is
    opened and closed, text that stays open to the end of the line, or text that
    passes; `Growth` what that adds to characters and to markers.
  - `Spec => []KeywordsStandAlone`. Its invariant explains each `[K]` printed by a
    place of the line and the length of what follows it (`KeysOK`), and says
    what is before `i` (`Before`): the line begins, or a character that is no letter, or a number just closed, or a
    word too long for `extract_word`, of which `i` is the next piece. `WordKeys`
    and `BeforeStep` go through the turns.
  - `Spec => []StringsEndRight`. Which backslash takes the next character is a
    recursive function of the text; `TakingIsOdd` ties it to the code's count of
    the backslashes before a quote, so that `QuotesOfString` finds two quotes that
    count in a closed string and one in an open one. At most the last `[S]` is
    open, and then the line is shown (`StringInv`).
  - Shell: `Spec => []FileIsShown` and `Spec => []MatchesAreNumbered`. The loop
    invariant is `Reading`: a line began behind byte s, holds no newline up to
    `offset`, and the array holds its first bytes, as many as it has room for. Of
    cat and edit it says besides that the output without colours is what is to be
    shown of the first s bytes (`ShowsLines`); `KeptLine` adds the line in
    hand, and `LineShown` says that `display_line_with_highlighting` adds
    nothing but colours to it, with `ScannedStep` for its loop over words: that
    is where a word too long would lose its end. Of grep it says that the output
    is the matches in the lines that begin no later than s, that `line_number` is
    the number of the line behind s, and that the numbers in the output are
    smaller and grow (`FindsLines`); `LineIs` shows that what is compared is
    what the array holds of the whole line.

Only model-checked: `Terminates`, which is liveness under fairness and so out of
the prover's reach. Where a property speaks of a recursive function of the whole
input (`Without`, `Quotes`, loading and saving), its value for every input is
an induction over data; the proofs do it as an induction over the positions of
one input, with `RangeInduction` and `Recursion` in place of a theorem about all
sequences.

## Not modelled

* Help texts, the calculator, `find`, `compile`, `run`, `syntax` for C and
  Verilog, `ls`, `pwd`, `mem`: each prints what it computes from its arguments
  or from a read, and leaves no state.
* The UART below the console: a key is there when a step takes it.
* The string library, other than through its effects (`strlen`, `strcpy` and
  `strstr` are operators, `strncpy` a fault of `FileSystem`). `itoa` only serves
  output.
* Boot code; the stack, although its 4096 bytes are no more than one local
  buffer of `cat`, `cp` or the editor. The allocator test in `kernel_main` makes
  calls that are among those of `Heap`.
* Keys that only dismiss a message, and a file name that holds a space, which
  `parse_command` splits, never reach the modelled code.

## Plan

Done: the filesystem, its two abstractions and the proofs of its table, its tree,
its data and its refinement; the heap with its refinement proved; the shell's file commands;
the editor; the keyboard's line readers with the history; the highlighters and
the commands that show files; the proofs of all their invariants and action
properties.

Left: `Terminates` is checked and not proved; what `cat` and `edit` show of words
longer than their array has no property, since they are shown cut.
