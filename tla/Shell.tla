-------------------------------- MODULE Shell --------------------------------
(***************************************************************************)
(* The commands of the shell (kernel/shell/shell.c) that change files, on  *)
(* top of the filesystem: each is one or more calls of fs.c, the copies    *)
(* between them going through a buffer on the stack.  `edit' is a dialogue *)
(* of its own, one line at a time, and nothing else runs until it ends.    *)
(* Commands without arguments and names with spaces never get this far.    *)
(* Definitions marked Variant are slips the next definition avoids.        *)
(***************************************************************************)
EXTENDS FileSystemInvariants, SequencesExt

CONSTANTS
  Newline,   \* the byte '\n'
  Lines,     \* the lines typed at the prompt of `edit', commands left out
  Texts      \* what the code editor saves

ASSUME ShellAssumption ==
  /\ Newline \in Bytes
  /\ Lines \subseteq Seq(Bytes)
  /\ \A text \in Texts : text \in Seq(Bytes) /\ Len(text) < MAX_FILE_SIZE

VARIABLE edit   \* cmd_edit: is it running, on what file, with what text

shell_vars == <<fs, edit>>

NotEditing == [active |-> FALSE, filename |-> EmptyName, file_buffer |-> <<>>]

-----------------------------------------------------------------------------
(* Commands of several calls. *)

\* A directory cannot be read either, so touch goes on to write to it.
Touched(s, name) ==
  IF ReadResult(s, name, 1) >= 0 THEN s ELSE WriteFile(s, name, <<>>)

\* Variant: a source that cannot be copied is removed all the same.
MovedByShellAnyway(s, src, dest) ==
  LET written == CopyFile(s, src, dest)
  IN IF ReadResult(s, src, MAX_FILE_SIZE) < 0 \/ Faulty(written) THEN written
     ELSE DeleteFile(written, src)

\* mv copies, over what is there, and deletes the source.
MovedByShell(s, src, dest) ==
  LET written == CopyFile(s, src, dest)
  IN IF CopyResult(s, src, dest) # FS_SUCCESS \/ Faulty(written) THEN written
     ELSE DeleteFile(written, src)

\* Variant: the text of a file that is there already is not read.
EditBufferEmpty(s, name) == <<>>

\* The text edit starts from, one byte short of what a file may hold.
EditBuffer(s, name) ==
  IF ReadResult(s, name, MAX_FILE_SIZE - 1) > 0
  THEN ReadBuffer(s, name, MAX_FILE_SIZE - 1) ELSE <<>>

\* Variant: no room is kept for the terminator.
WithLineTight(text, line) ==
  IF Len(text) + Len(line) + 1 <= MAX_FILE_SIZE THEN text \o line \o <<Newline>> ELSE text

\* A line the buffer has no room for is dropped with a warning.
WithLine(text, line) ==
  IF Len(text) + Len(line) + 1 < MAX_FILE_SIZE THEN text \o line \o <<Newline>> ELSE text

-----------------------------------------------------------------------------
AtPrompt == Running /\ ~edit.active
Editing == Running /\ edit.active

cmd_cd(name) == AtPrompt /\ fs_change_directory(name) /\ UNCHANGED edit
cmd_mkdir(name) == AtPrompt /\ fs_make_directory(name) /\ UNCHANGED edit
cmd_rmdir(name) == AtPrompt /\ fs_remove_directory(name) /\ UNCHANGED edit
cmd_rm(name) == AtPrompt /\ fs_delete_file(name) /\ UNCHANGED edit
cmd_touch(name) == AtPrompt /\ fs' = Touched(fs, name) /\ UNCHANGED edit
cmd_cp(src, dest) == AtPrompt /\ fs' = CopyFile(fs, src, dest) /\ UNCHANGED edit
cmd_mv(src, dest) == AtPrompt /\ fs' = MovedByShell(fs, src, dest) /\ UNCHANGED edit

\* A session of the code editor: Editor.tla says what it saves.
cmd_code(name, text) == AtPrompt /\ fs_write_file(name, text) /\ UNCHANGED edit

cmd_edit(name) ==
  /\ AtPrompt
  /\ edit' = [active |-> TRUE, filename |-> name, file_buffer |-> EditBuffer(fs, name)]
  /\ UNCHANGED fs

edit_line(line) ==
  Editing /\ edit' = [edit EXCEPT !.file_buffer = WithLine(@, line)] /\ UNCHANGED fs

\* :w
edit_write == Editing /\ fs_write_file(edit.filename, edit.file_buffer) /\ UNCHANGED edit

\* :q
edit_quit == Editing /\ edit' = NotEditing /\ UNCHANGED fs

\* :wq or an empty line
edit_finish ==
  Editing /\ fs_write_file(edit.filename, edit.file_buffer) /\ edit' = NotEditing

ShellInit == Init /\ edit = NotEditing

ShellNext ==
  \/ \E n \in Names \cup {Dot, DotDot} : cmd_cd(n)
  \/ \E n \in Names : cmd_mkdir(n) \/ cmd_rmdir(n) \/ cmd_rm(n) \/ cmd_touch(n)
  \/ \E src, dest \in Names : cmd_cp(src, dest) \/ cmd_mv(src, dest)
  \/ \E n \in Names, t \in Texts : cmd_code(n, t)
  \/ \E n \in Names : cmd_edit(n)
  \/ \E l \in Lines : edit_line(l)
  \/ edit_write \/ edit_quit \/ edit_finish

ShellSpec == ShellInit /\ [][ShellNext]_shell_vars

\* Sessions in which nobody types `rm /' at the root: find_file_in_dir finds the
\* root in itself, and fs_delete_file puts the last entry in its place.
RootKeptSpec == ShellInit /\ [][ShellNext /\ RootOK(fs')]_shell_vars

-----------------------------------------------------------------------------
(* Properties. *)

(* No file the shell makes has the full MAX_FILE_SIZE bytes: cat, edit and the
   code editor, which all read one byte less, read whole files, and the text
   of a running edit leaves them room for the terminator. *)
NothingIsCut ==
  /\ \A i \in Live(fs) : fs.files[i].size < MAX_FILE_SIZE
  /\ Len(edit.file_buffer) < MAX_FILE_SIZE

Content(s, name) == ReadBuffer(s, name, MAX_FILE_SIZE)
IsRegular(s, name) == ReadResult(s, name, MAX_FILE_SIZE) >= 0

(* What edit saves starts with what the file held before, whether the session
   writes once or several times. *)
EditOnlyAppends ==
  [][edit.active /\ fs' # fs /\ ~Faulty(fs') /\ IsRegular(fs, edit.filename)
     => IsPrefix(Content(fs, edit.filename), Content(fs', edit.filename))]_shell_vars

(* mv of a file to another name moves its content there and leaves no source,
   or, when it fails, keeps the source as it was, while the entries form a tree:
   rm of directories can leave one directory with two entries of a name. *)
MvDelivers ==
  [][\A src, dest \in Names :
       /\ cmd_mv(src, dest)
       /\ TreeOK(fs) /\ src # dest /\ IsRegular(fs, src) /\ ~Faulty(fs')
       => \/ /\ ~Exists(fs', src)
             /\ IsRegular(fs', dest) /\ Content(fs', dest) = Content(fs, src)
          \/ SameFiles(fs, fs')]_shell_vars

(* The prompt shows where the shell is even though rm removes directories that
   are not empty: the walk up from the current directory never crosses what rm
   left behind. *)
PromptIsRight == CurrentDirOK(fs) /\ PathIsFresh

=============================================================================
