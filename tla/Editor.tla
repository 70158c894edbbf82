------------------------------- MODULE Editor -------------------------------
(***************************************************************************)
(* The text editor of ChipOS (kernel/editor/editor.c): a buffer of lines   *)
(* with a cursor and a window, two modes, one key at a time, and the file  *)
(* it is loaded from and saved to.                                         *)
(*                                                                         *)
(* `editor' is the C global of that name with the variables of             *)
(* editor_start that outlive a key; `file' is what fs_read_file gives for  *)
(* the file's name and fs_write_file replaces.  Between two sessions the   *)
(* editor state is dead: editor_start clears it.  Lines and columns count  *)
(* from 0 as in the code, so line n is lines[n + 1].  Messages, the menu's *)
(* wording, the status line and syntax colours are left out, and with them *)
(* the keys that only dismiss a message.                                   *)
(* Definitions marked Variant are slips the next definition avoids.        *)
(***************************************************************************)
EXTENDS Integers, Sequences, SequencesExt

CONSTANTS
  MAX_LINES, MAX_LINE_LENGTH,   \* the lines of the buffer, with terminator
  BUFFER_SIZE,                  \* the local buffer of load and save
  view_height,                  \* lines of the window
  Chars,                        \* printable characters
  NL,                           \* '\n'
  Missing,                      \* the file cannot be read
  Files                         \* the files sessions may start from

ASSUME EditorAssumption ==
  /\ MAX_LINES \in Nat /\ MAX_LINES > 1
  /\ MAX_LINE_LENGTH \in Nat \ {0}
  /\ BUFFER_SIZE \in Nat \ {0}
  /\ view_height \in Nat \ {0}
  /\ NL \notin Chars
  /\ Files \subseteq Seq(Chars \cup {NL}) \cup {Missing}
  /\ Missing \notin Seq(Chars \cup {NL})

VARIABLES
  editor,
  file,
  refused   \* fs_write_file fails: a directory, or no entry left for a new file

vars == <<editor, file, refused>>

MenuKeys == {"1", "2", "3", "4", "other"}

Line == {l \in Seq(Chars) : Len(l) < MAX_LINE_LENGTH}

editor_state_t ==
  [running : BOOLEAN, choice : MenuKeys, lines : Seq(Line),
   cursor_line : Nat, cursor_col : Nat, view_start_line : Nat,
   modified : BOOLEAN, insert_mode : BOOLEAN]

NoText == << <<>> >>
Text(e) == e.lines[e.cursor_line + 1]
LastLine(e) == Len(e.lines) - 1
Least(m, n) == IF m < n THEN m ELSE n

-----------------------------------------------------------------------------
(* Loading and saving. *)

\* Variant: the next line goes on where this one stopped.
LoadByteOn(m, byte) ==
  IF Len(m.done) >= MAX_LINES THEN m
  ELSE IF byte = NL THEN [m EXCEPT !.done = Append(@, m.line)]
  ELSE IF Len(m.line) < MAX_LINE_LENGTH - 1 THEN [m EXCEPT !.line = Append(@, byte)]
  ELSE m

\* A line is stored when its '\n' is met; what exceeds a line is dropped.
LoadByte(m, byte) ==
  IF Len(m.done) >= MAX_LINES THEN m
  ELSE IF byte = NL THEN [done |-> Append(m.done, m.line), line |-> <<>>]
  ELSE IF Len(m.line) < MAX_LINE_LENGTH - 1 THEN [m EXCEPT !.line = Append(@, byte)]
  ELSE m

editor_load_file(bytes) ==
  LET size == Least(Len(bytes), BUFFER_SIZE - 1)
      m[k \in 0 .. size] ==
        IF k = 0 THEN [done |-> <<>>, line |-> <<>>] ELSE LoadByte(m[k - 1], bytes[k])
  IN IF m[size].done = <<>> THEN NoText ELSE m[size].done

\* Variant: no byte is kept for the '\n'.
SaveLineTight(buffer, line, last) ==
  IF Len(buffer) >= BUFFER_SIZE - 1 \/ Len(buffer) + Len(line) >= BUFFER_SIZE THEN buffer
  ELSE buffer \o line \o (IF last THEN <<>> ELSE <<NL>>)

\* A line the buffer has no room for is passed over.
SaveLine(buffer, line, last) ==
  IF Len(buffer) >= BUFFER_SIZE - 1 \/ Len(buffer) + Len(line) + 1 >= BUFFER_SIZE
  THEN buffer
  ELSE buffer \o line \o (IF last THEN <<>> ELSE <<NL>>)

\* The bytes editor_save_file writes.
SavedText(lines) ==
  LET buffer[k \in 0 .. Len(lines)] ==
        IF k = 0 THEN <<>> ELSE SaveLine(buffer[k - 1], lines[k], k = Len(lines))
  IN buffer[Len(lines)]

-----------------------------------------------------------------------------
(* The cursor.  Only up and down move the window. *)

\* Variant: the column is kept.
UpSlanted(e) ==
  LET line == e.cursor_line - 1
  IN IF e.cursor_line = 0 THEN e
     ELSE [e EXCEPT !.cursor_line = line,
                    !.view_start_line = Least(@, line)]

Up(e) ==
  LET line == e.cursor_line - 1
  IN IF e.cursor_line = 0 THEN e
     ELSE [e EXCEPT !.cursor_line = line,
                    !.cursor_col = Least(@, Len(e.lines[line + 1])),
                    !.view_start_line = Least(@, line)]

\* Variant: the window moves one line late.
DownLate(e) ==
  LET line == e.cursor_line + 1
  IN IF e.cursor_line = LastLine(e) THEN e
     ELSE [e EXCEPT !.cursor_line = line,
                    !.cursor_col = Least(@, Len(e.lines[line + 1])),
                    !.view_start_line = IF line > @ + view_height
                                        THEN line - view_height ELSE @]

Down(e) ==
  LET line == e.cursor_line + 1
  IN IF e.cursor_line = LastLine(e) THEN e
     ELSE [e EXCEPT !.cursor_line = line,
                    !.cursor_col = Least(@, Len(e.lines[line + 1])),
                    !.view_start_line = IF line >= @ + view_height
                                        THEN line - view_height + 1 ELSE @]

Right(e) == IF e.cursor_col < Len(Text(e)) THEN [e EXCEPT !.cursor_col = @ + 1] ELSE e
Left(e) == IF e.cursor_col > 0 THEN [e EXCEPT !.cursor_col = @ - 1] ELSE e
LineEnd(e) == [e EXCEPT !.cursor_col = Len(Text(e))]

-----------------------------------------------------------------------------
(* Changing the text. *)

\* Variant: no byte is kept for the terminator.
insert_char_tight(e, c) ==
  IF Len(Text(e)) >= MAX_LINE_LENGTH THEN e
  ELSE [e EXCEPT !.lines[e.cursor_line + 1] = InsertAt(@, e.cursor_col + 1, c),
                 !.cursor_col = @ + 1,
                 !.modified = TRUE]

editor_insert_char(e, c) ==
  IF Len(Text(e)) >= MAX_LINE_LENGTH - 1 THEN e
  ELSE [e EXCEPT !.lines[e.cursor_line + 1] = InsertAt(@, e.cursor_col + 1, c),
                 !.cursor_col = @ + 1,
                 !.modified = TRUE]

editor_delete_char(e) ==
  IF e.cursor_col = 0 THEN e
  ELSE [e EXCEPT !.lines[e.cursor_line + 1] = RemoveAt(@, e.cursor_col),
                 !.cursor_col = @ - 1,
                 !.modified = TRUE]

\* Variant: the text changes unnoticed.
DeleteUnderQuietly(e) ==
  IF e.cursor_col >= Len(Text(e)) THEN e
  ELSE [e EXCEPT !.lines[e.cursor_line + 1] = RemoveAt(@, e.cursor_col + 1)]

DeleteUnder(e) ==
  IF e.cursor_col >= Len(Text(e)) THEN e
  ELSE [e EXCEPT !.lines[e.cursor_line + 1] = RemoveAt(@, e.cursor_col + 1),
                 !.modified = TRUE]

editor_new_line(e) ==
  LET before == SubSeq(Text(e), 1, e.cursor_col)
      after == SubSeq(Text(e), e.cursor_col + 1, Len(Text(e)))
  IN IF Len(e.lines) >= MAX_LINES - 1 THEN e
     ELSE [e EXCEPT !.lines = InsertAt([@ EXCEPT ![e.cursor_line + 1] = before],
                                       e.cursor_line + 2, after),
                    !.cursor_line = @ + 1,
                    !.cursor_col = 0,
                    !.modified = TRUE]

-----------------------------------------------------------------------------
(* A session: the menu, then keys until the editor closes. *)

Cleared(choice) ==
  [running |-> TRUE, choice |-> choice, lines |-> NoText,
   cursor_line |-> 0, cursor_col |-> 0, view_start_line |-> 0,
   modified |-> FALSE, insert_mode |-> FALSE]

Loaded(choice) == [Cleared(choice) EXCEPT !.lines = editor_load_file(file)]

AtTheEnd(e) == LineEnd([e EXCEPT !.cursor_line = LastLine(e)])

ForAppending(e) ==
  [(IF Text(AtTheEnd(e)) # <<>> THEN editor_new_line(AtTheEnd(e)) ELSE AtTheEnd(e))
   EXCEPT !.insert_mode = TRUE]

\* Choice 4 loads the file as choice 1 does: read_only is never true.
Started(choice) ==
  IF file = Missing THEN Cleared("1")
  ELSE IF choice = "2" THEN ForAppending(Loaded(choice))
  ELSE IF choice = "3" THEN [Cleared(choice) EXCEPT !.modified = TRUE]
  ELSE Loaded(choice)

Closed == [Cleared("1") EXCEPT !.running = FALSE]

Init ==
  /\ editor = Closed
  /\ file \in Files
  /\ refused \in BOOLEAN
  /\ file # Missing => ~refused

editor_start(choice) ==
  /\ ~editor.running
  /\ editor' = Started(choice)
  /\ UNCHANGED <<file, refused>>

Becomes(e) == editor' = e /\ UNCHANGED <<file, refused>>

Keys == editor.running
InsertKeys == editor.running /\ editor.insert_mode
CommandKeys == editor.running /\ ~editor.insert_mode

\* Arrow keys work in both modes; any other escape sequence ends inserting.
ArrowKey ==
  Keys /\ \E e \in {Up(editor), Down(editor), Right(editor), Left(editor)} : Becomes(e)
EscapeKey == Keys /\ Becomes([editor EXCEPT !.insert_mode = FALSE])

EnterKey == InsertKeys /\ Becomes(editor_new_line(editor))
BackspaceKey == InsertKeys /\ Becomes(editor_delete_char(editor))
CharKey == InsertKeys /\ \E c \in Chars : Becomes(editor_insert_char(editor, c))

InsertKey ==   \* i; a and A go to the end of the line first; o opens a line
  CommandKeys /\ \E e \in {editor, LineEnd(editor), editor_new_line(LineEnd(editor))} :
                   Becomes([e EXCEPT !.insert_mode = TRUE])
MoveKey ==     \* j, k, h, l
  CommandKeys /\ \E e \in {Up(editor), Down(editor), Right(editor), Left(editor)} : Becomes(e)
DeleteKey ==   \* x
  CommandKeys /\ Becomes(DeleteUnder(editor))

\* :w
WriteCommand ==
  /\ CommandKeys
  /\ UNCHANGED refused
  /\ IF refused THEN UNCHANGED <<editor, file>>
     ELSE file' = SavedText(editor.lines) /\ editor' = [editor EXCEPT !.modified = FALSE]

\* :q, refused while there are changes, and :q!
QuitCommand ==
  CommandKeys /\ Becomes(IF editor.modified THEN editor ELSE Closed)
AbandonCommand ==
  CommandKeys /\ Becomes(Closed)

\* :wq
WriteQuitCommand ==
  /\ CommandKeys
  /\ UNCHANGED refused
  /\ IF refused THEN UNCHANGED <<editor, file>>
     ELSE file' = SavedText(editor.lines) /\ editor' = Closed

Next ==
  \/ \E choice \in MenuKeys : editor_start(choice)
  \/ ArrowKey \/ EscapeKey
  \/ EnterKey \/ BackspaceKey \/ CharKey
  \/ InsertKey \/ MoveKey \/ DeleteKey
  \/ WriteCommand \/ QuitCommand \/ AbandonCommand \/ WriteQuitCommand

Spec == Init /\ [][Next]_vars

-----------------------------------------------------------------------------
(* Properties. *)

(* The editor state and the file keep their types, every line with room for
   its terminator. *)
TypeOK ==
  /\ editor \in editor_state_t
  /\ file = Missing \/ file \in Seq(Chars \cup {NL})
  /\ refused \in BOOLEAN

(* The cursor stands on a line of the buffer, at one of its characters or at
   its end, and the window starts at or above it: insert, delete and split
   touch no byte outside the line, and no key makes the window start below the
   text.  The buffer always keeps a line. *)
CursorInText ==
  /\ editor.cursor_line \in 0 .. LastLine(editor)
  /\ LastLine(editor) < MAX_LINES
  /\ editor.cursor_col <= Len(Text(editor))
  /\ editor.view_start_line <= editor.cursor_line

(* While `modified' is off, which lets :q close the editor without a word, the
   buffer is what the file holds: as loaded from it or as saved to it. *)
QuitLosesNothing ==
  editor.running /\ ~editor.modified
  => \/ editor.lines = IF file = Missing THEN NoText ELSE editor_load_file(file)
     \/ file = SavedText(editor.lines)

(* Saving stays inside its buffer, whose last byte is for the terminator. *)
SaveFits == Len(SavedText(editor.lines)) < BUFFER_SIZE

\* What the lines take with an '\n' behind each.
Bytes(lines) ==
  LET bytes[k \in 0 .. Len(lines)] ==
        IF k = 0 THEN 0 ELSE bytes[k - 1] + Len(lines[k]) + 1
  IN bytes[Len(lines)]

(* A text that fits is loaded again as it was saved, but for its last line,
   which is saved without '\n' and loaded only with one: a text that ends in
   an empty line loses nothing else. *)
ReloadKeepsText ==
  LET again == editor_load_file(SavedText(editor.lines))
  IN Bytes(editor.lines) < BUFFER_SIZE
     => again = IF Len(editor.lines) = 1 THEN NoText ELSE Front(editor.lines)

(* New lines, which leave the window where it is, may push the cursor out of
   it, but the next move down brings the cursor back, from wherever it is, and
   no key that leaves the text alone takes it further away. *)
DownShowsCursor ==
  [][editor.running /\ editor'.lines = editor.lines =>
       LET Below(e) == e.cursor_line >= e.view_start_line + view_height
       IN /\ editor'.cursor_line > editor.cursor_line => ~Below(editor')
          /\ Below(editor') => Below(editor)]_vars

(* The menu: `4. View only (read-only mode)'. *)
ViewOnlyKeepsFile ==
  [][editor.running /\ editor.choice = "4" => file' = file]_vars

(* The message `File saved successfully.': once saved, the text is what the
   next session loads. *)
SavedIsLoaded ==
  editor.running /\ ~editor.modified /\ file # Missing
  => editor_load_file(file) = editor.lines

=============================================================================
