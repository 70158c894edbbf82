----------------------------- MODULE ShellProofs -----------------------------
(***************************************************************************)
(* Proofs about Shell.tla, for every table, size and text: no file the     *)
(* shell makes is too long to be read whole, edit only appends, mv         *)
(* delivers, and the prompt is right while the root is kept.  The lemmas   *)
(* about the filesystem's operators do most of the work.                   *)
(***************************************************************************)
EXTENDS Shell, FileSystemProofs

-----------------------------------------------------------------------------
(* Sizes. *)

\* Every file leaves room for a terminator.
Small(s) == \A i \in Live(s) : s.files[i].size < MAX_FILE_SIZE

LEMMA CreatedSmall ==
  ASSUME NEW s, TableOK(s), Small(s), NEW name, NEW type
  PROVE  Small(CreateFile(s, name, type))
<1>1. CASE CreateResult(s, name) = FS_SUCCESS
  <2>1. s \in filesystem_t /\ s.file_count < MAX_FILES
    BY <1>1, CreateSucceeds DEF TableOK
  <2> PICK t : t = Created(s, name, type)
    OBVIOUS
  <2>2. /\ t.files[s.file_count] =
             [name |-> name, type |-> type, size |-> 0,
              parent_id |-> s.current_dir, data_offset |-> s.data_usage]
        /\ \A i \in FileIds \ {s.file_count} : t.files[i] = s.files[i]
        /\ Live(t) = Live(s) \cup {s.file_count}
    BY <2>1, CreatedFields
  <2>3. Small(t)
    BY <2>1, <2>2, LiveInTable, SizesAssumption DEF Small
  <2>4. QED
    BY <1>1, <2>3 DEF CreateFile
<1>2. CASE CreateResult(s, name) # FS_SUCCESS
  BY <1>2 DEF CreateFile
<1>3. QED
  BY <1>1, <1>2

LEMMA StoredSmall ==
  ASSUME NEW s, TableOK(s), Small(s), NEW i \in Live(s), NEW data, Len(data) < MAX_FILE_SIZE
  PROVE  Small(Stored(s, i, data))
<1> DEFINE t == Stored(s, i, data)
<1>1. Rewritten(s, t, i, Len(data))
  BY StoredRewritten DEF TableOK
<1> HIDE DEF t
<1>2. QED
  BY <1>1 DEF Small, Rewritten, Live, t

LEMMA SwapOutSmall ==
  ASSUME NEW s, TableOK(s), Small(s), NEW id \in Live(s)
  PROVE  Small(SwapOut(s, id))
<1> DEFINE t == SwapOut(s, id)
<1>1. s \in filesystem_t /\ Narrowed(s, t, id)
  BY SwapOutNarrowed DEF TableOK
<1> HIDE DEF t
<1>2. \A i \in Live(t) : From(s, id, i) \in Live(s)
  BY <1>1, Renumbering DEF Narrowed
<1>3. QED
  BY <1>1, <1>2 DEF Small, Narrowed, SameExtent, t

LEMMA DeleteFileSmall ==
  ASSUME NEW s, TableOK(s), Small(s), NEW name
  PROVE  Small(DeleteFile(s, name)) /\ Small(RemoveDirectory(s, name))
<1>1. ASSUME Exists(s, name) PROVE Small(SwapOut(s, Lookup(s, name)))
  BY <1>1, LookupInTable, SwapOutSmall DEF TableOK
<1>2. RemoveDirectoryResult(s, name) = FS_SUCCESS => Exists(s, name)
  BY DEF RemoveDirectoryResult, FS_SUCCESS, FS_ERROR_NOT_FOUND
<1>3. QED
  BY <1>1, <1>2 DEF DeleteFile, RemoveDirectory

\* The entry fs_write_file writes to, found or created.
LEMMA WriteTarget ==
  ASSUME NEW s, TableOK(s), NEW name \in EntryNames, NEW data,
         WriteResult(s, name) = FS_SUCCESS,
         NEW u, u = IF Exists(s, name) THEN s ELSE CreateFile(s, name, FILE_TYPE_REGULAR),
         ~Faulty(u)
  PROVE  /\ TableOK(u) /\ u \in filesystem_t
         /\ Exists(u, name) /\ Lookup(u, name) \in Live(u) /\ Lookup(u, name) \in FileIds
         /\ WriteFile(s, name, data) = Stored(u, Lookup(u, name), Clip(data, MAX_FILE_SIZE))
         /\ SameTree(u, WriteFile(s, name, data))
<1>1. TableOK(u) /\ u \in filesystem_t
  BY CreateFileTable DEF FileTypes, TableOK
<1>2. Exists(u, name)
  <2>1. CASE Exists(s, name)
    BY <2>1
  <2>2. CASE ~Exists(s, name)
    <3>1. CreateResult(s, name) = FS_SUCCESS
      BY <2>2 DEF WriteResult, FS_SUCCESS, FS_ERROR_NO_SPACE
    <3>2. u = Created(s, name, FILE_TYPE_REGULAR) /\ s.file_count < MAX_FILES
      BY <2>2, <3>1, CreateSucceeds DEF CreateFile, TableOK
    <3>3. QED
      BY <3>2, CreatedExists DEF FileTypes
  <2>3. QED
    BY <2>1, <2>2
<1>3. Lookup(u, name) \in Live(u) /\ Lookup(u, name) \in FileIds
  BY <1>1, <1>2, LookupInTable
<1>4. WriteFile(s, name, data) = Stored(u, Lookup(u, name), Clip(data, MAX_FILE_SIZE))
  BY DEF WriteFile
<1>5. QED
  BY <1>1, <1>2, <1>3, <1>4, StoredSame

\* A write that does not succeed, or stops at a fault, has stored nothing.
LEMMA WriteStops ==
  ASSUME NEW s, NEW name, NEW data,
         NEW u, u = IF Exists(s, name) THEN s ELSE CreateFile(s, name, FILE_TYPE_REGULAR),
         WriteResult(s, name) # FS_SUCCESS \/ Faulty(u)
  PROVE  /\ WriteFile(s, name, data) = u
         /\ WriteResult(s, name) # FS_SUCCESS => u = s
<1>1. WriteFile(s, name, data) = u
  BY DEF WriteFile
<1>2. ASSUME WriteResult(s, name) # FS_SUCCESS PROVE u = s
  <2>1. Exists(s, name) \/ CreateResult(s, name) # FS_SUCCESS
    BY <1>2 DEF WriteResult
  <2>2. QED
    BY <2>1 DEF CreateFile
<1>3. QED
  BY <1>1, <1>2

LEMMA WriteFileSmall ==
  ASSUME NEW s, TableOK(s), Small(s), NEW name \in EntryNames,
         NEW data \in Seq(Bytes), Len(data) < MAX_FILE_SIZE
  PROVE  Small(WriteFile(s, name, data))
<1> DEFINE u == IF Exists(s, name) THEN s ELSE CreateFile(s, name, FILE_TYPE_REGULAR)
<1>1. Small(u)
  BY CreatedSmall
<1>2. CASE WriteResult(s, name) # FS_SUCCESS \/ Faulty(u)
  BY <1>1, <1>2, WriteStops
<1>3. CASE WriteResult(s, name) = FS_SUCCESS /\ ~Faulty(u)
  <2>1. /\ TableOK(u) /\ Lookup(u, name) \in Live(u)
        /\ WriteFile(s, name, data) = Stored(u, Lookup(u, name), Clip(data, MAX_FILE_SIZE))
    BY <1>3, WriteTarget
  <2>2. Len(Clip(data, MAX_FILE_SIZE)) < MAX_FILE_SIZE
    BY ClipWhole, SizesAssumption
  <2> HIDE DEF u
  <2>3. QED
    BY <1>1, <2>1, <2>2, StoredSmall
<1>4. QED
  BY <1>2, <1>3

LEMMA MakeDirectorySmall ==
  ASSUME NEW s, TableOK(s), Small(s), NEW name
  PROVE  Small(MakeDirectory(s, name))
<1> DEFINE t == MakeDirectory(s, name)
<1>1. CASE MakeDirectoryResult(s, name) = FS_SUCCESS
  <2>1. /\ s \in filesystem_t /\ Grown(s, t, name)
        /\ t.files[s.file_count].size = 0
        /\ \A i \in Live(s) : t.files[i] = s.files[i]
    BY <1>1, MadeGrown DEF TableOK
  <2> HIDE DEF t
  <2>2. Live(t) = Live(s) \cup {s.file_count}
    BY <2>1, LiveInTable DEF Live, Grown
  <2>3. QED
    BY <2>1, <2>2, SizesAssumption DEF Small, t
<1>2. CASE MakeDirectoryResult(s, name) # FS_SUCCESS
  BY <1>2 DEF MakeDirectory
<1>3. QED
  BY <1>1, <1>2

LEMMA ChangeDirectorySmall ==
  ASSUME NEW s, TableOK(s), Small(s), NEW path
  PROVE  Small(ChangeDirectory(s, path))
<1>1. ASSUME NEW d PROVE Small(Rebuilt([s EXCEPT !.current_dir = d]))
  <2> DEFINE t == Rebuilt([s EXCEPT !.current_dir = d])
  <2>1. t.files = s.files /\ t.file_count = s.file_count
    BY DEF Rebuilt, TableOK, filesystem_t
  <2> HIDE DEF t
  <2>2. QED
    BY <2>1 DEF Small, Live, t
<1>2. QED
  BY <1>1 DEF ChangeDirectory

\* What a file of this size reads as is the whole of it.
LEMMA ReadWhole ==
  ASSUME NEW s, TableOK(s), Small(s), ~Faulty(s), NEW name, IsRegular(s, name)
  PROVE  /\ Exists(s, name) /\ Lookup(s, name) \in Live(s)
         /\ s.files[Lookup(s, name)].type = FILE_TYPE_REGULAR
         /\ Content(s, name) \in Seq(Bytes) /\ Len(Content(s, name)) < MAX_FILE_SIZE
         /\ ReadBuffer(s, name, MAX_FILE_SIZE - 1) = Content(s, name)
         /\ ReadResult(s, name, MAX_FILE_SIZE - 1) = Len(Content(s, name))
<1> DEFINE i == Lookup(s, name)
           bytes == FileBytes(s, i)
<1>1. Exists(s, name) /\ s.files[i].type = FILE_TYPE_REGULAR
  BY DEF IsRegular, ReadResult, FS_ERROR_INVALID_PATH
<1>2. i \in Live(s)
  BY <1>1, LookupInTable DEF TableOK
<1>3. bytes \in Seq(Bytes) /\ Len(bytes) = s.files[i].size
  BY <1>2, FileBytesType
<1>4. Len(bytes) <= MAX_FILE_SIZE - 1 /\ Len(bytes) < MAX_FILE_SIZE /\ MAX_FILE_SIZE - 1 \in Nat
      /\ MAX_FILE_SIZE \in Nat
  BY <1>2, <1>3, SizesAssumption DEF Small
<1> HIDE DEF bytes
<1>5. Clip(bytes, MAX_FILE_SIZE) = bytes /\ Clip(bytes, MAX_FILE_SIZE - 1) = bytes
  BY <1>3, <1>4, ClipWhole
<1>6. QED
  BY <1>1, <1>2, <1>3, <1>4, <1>5 DEF Content, ReadBuffer, ReadResult, bytes

LEMMA CopyFileSmall ==
  ASSUME NEW s, TableOK(s), Small(s), ~Faulty(s), NEW src, NEW dest \in EntryNames
  PROVE  Small(CopyFile(s, src, dest))
<1>1. CASE ReadResult(s, src, MAX_FILE_SIZE) < 0
  BY <1>1 DEF CopyFile
<1>2. CASE ~(ReadResult(s, src, MAX_FILE_SIZE) < 0)
  <2>1. Exists(s, src)
    BY <1>2 DEF ReadResult, FS_ERROR_INVALID_PATH
  <2>2. Lookup(s, src) \in Live(s)
    BY <2>1, LookupInTable DEF TableOK
  <2>3. /\ ReadBuffer(s, src, MAX_FILE_SIZE) \in Seq(Bytes)
        /\ Len(ReadBuffer(s, src, MAX_FILE_SIZE)) <= s.files[Lookup(s, src)].size
    BY <2>1, ReadBufferType, SizesAssumption
  <2>4. s.files[Lookup(s, src)].size \in Nat /\ s.files[Lookup(s, src)].size < MAX_FILE_SIZE
    BY <2>2, Extents DEF Small
  <2>5. Len(ReadBuffer(s, src, MAX_FILE_SIZE)) < MAX_FILE_SIZE
    BY <2>3, <2>4, SizesAssumption
  <2>6. QED
    BY <1>2, <2>3, <2>5, WriteFileSmall DEF CopyFile
<1>3. QED
  BY <1>1, <1>2

\* mv copies and removes.
LEMMA MovedByShellKeeps ==
  ASSUME NEW s, TableOK(s), Small(s), ~Faulty(s), NEW src, NEW dest \in EntryNames
  PROVE  TableOK(MovedByShell(s, src, dest)) /\ Small(MovedByShell(s, src, dest))
<1>1. TableOK(CopyFile(s, src, dest)) /\ Small(CopyFile(s, src, dest))
  BY CopyFileTable, CopyFileSmall
<1>2. TableOK(DeleteFile(CopyFile(s, src, dest), src))
      /\ Small(DeleteFile(CopyFile(s, src, dest), src))
  BY <1>1, DeleteFileTable, DeleteFileSmall
<1>3. QED
  BY <1>1, <1>2 DEF MovedByShell

LEMMA TouchedKeeps ==
  ASSUME NEW s, TableOK(s), Small(s), NEW name \in EntryNames
  PROVE  TableOK(Touched(s, name)) /\ Small(Touched(s, name))
<1>1. <<>> \in Seq(Bytes) /\ Len(<<>>) < MAX_FILE_SIZE
  BY SizesAssumption
<1>2. QED
  BY <1>1, WriteFileTable, WriteFileSmall DEF Touched

-----------------------------------------------------------------------------
(* The invariant of the shell. *)

TextOK ==
  /\ edit \in [active : BOOLEAN, filename : EntryNames, file_buffer : Seq(Bytes)]
  /\ Len(edit.file_buffer) < MAX_FILE_SIZE

ShellOK == TableOK(fs) /\ Small(fs) /\ TextOK

LEMMA RootOnlySmall == Small(RootOnly)
<1>1. Live(RootOnly) = {ROOT_DIR} /\ ROOT_DIR \in FileIds
  BY SizesAssumption DEF RootOnly, Live, ROOT_DIR, FileIds
<1>2. RootOnly.files[ROOT_DIR].size = 0
  BY <1>1 DEF RootOnly, EmptyEntry
<1>3. QED
  BY <1>1, <1>2, SizesAssumption DEF Small

\* What edit starts from: what the file holds, or nothing.
LEMMA EditBufferHolds ==
  ASSUME NEW s, TableOK(s), Small(s), ~Faulty(s), NEW name
  PROVE  /\ EditBuffer(s, name) \in Seq(Bytes) /\ Len(EditBuffer(s, name)) < MAX_FILE_SIZE
         /\ IsRegular(s, name) => EditBuffer(s, name) = Content(s, name)
<1>1. CASE IsRegular(s, name)
  <2>1. /\ Content(s, name) \in Seq(Bytes) /\ Len(Content(s, name)) < MAX_FILE_SIZE
        /\ ReadBuffer(s, name, MAX_FILE_SIZE - 1) = Content(s, name)
        /\ ReadResult(s, name, MAX_FILE_SIZE - 1) = Len(Content(s, name))
    BY <1>1, ReadWhole
  <2>2. ~(Len(Content(s, name)) > 0) => Content(s, name) = <<>>
    BY <2>1
  <2>3. EditBuffer(s, name) = Content(s, name)
    BY <2>1, <2>2 DEF EditBuffer
  <2>4. QED
    BY <2>1, <2>3
<1>2. CASE ~IsRegular(s, name)
  <2>1. ~Exists(s, name) \/ s.files[Lookup(s, name)].type # FILE_TYPE_REGULAR
    <3>1. SUFFICES ASSUME Exists(s, name), s.files[Lookup(s, name)].type = FILE_TYPE_REGULAR
                   PROVE  IsRegular(s, name)
      BY <1>2
    <3>2. FileBytes(s, Lookup(s, name)) \in Seq(Bytes)
      BY <3>1, LookupInTable, FileBytesType DEF TableOK
    <3>3. Len(Clip(FileBytes(s, Lookup(s, name)), MAX_FILE_SIZE)) \in Nat
      BY <3>2, ClipType, SizesAssumption
    <3>4. QED
      BY <3>1, <3>3 DEF IsRegular, ReadResult
  <2>2. EditBuffer(s, name) = <<>>
    BY <2>1 DEF EditBuffer, ReadResult, FS_ERROR_INVALID_PATH
  <2>3. QED
    BY <1>2, <2>2, SizesAssumption
<1>3. QED
  BY <1>1, <1>2

\* A line is appended whole or dropped.
LEMMA WithLineHolds ==
  ASSUME NEW text \in Seq(Bytes), Len(text) < MAX_FILE_SIZE, NEW line \in Seq(Bytes)
  PROVE  /\ WithLine(text, line) \in Seq(Bytes) /\ Len(WithLine(text, line)) < MAX_FILE_SIZE
         /\ \A p \in Seq(Bytes) : IsPrefix(p, text) => IsPrefix(p, WithLine(text, line))
<1>1. CASE Len(text) + Len(line) + 1 < MAX_FILE_SIZE
  <2>1. WithLine(text, line) = text \o line \o <<Newline>>
    BY <1>1 DEF WithLine
  <2>2. WithLine(text, line) \in Seq(Bytes)
        /\ Len(WithLine(text, line)) = Len(text) + Len(line) + 1
    BY <2>1, ShellAssumption
  <2>3. ASSUME NEW p \in Seq(Bytes), IsPrefix(p, text) PROVE IsPrefix(p, WithLine(text, line))
    <3>1. Len(p) <= Len(text) /\ SubSeq(p, 1, Len(p)) = SubSeq(text, 1, Len(p))
      BY <2>3 DEF IsPrefix
    <3>2. \A k \in 1 .. Len(p) : WithLine(text, line)[k] = text[k]
      BY <2>1, <3>1, ShellAssumption
    <3>3. SubSeq(WithLine(text, line), 1, Len(p)) = SubSeq(text, 1, Len(p))
      BY <2>2, <3>1, <3>2
    <3>4. QED
      BY <2>2, <3>1, <3>3 DEF IsPrefix
  <2>4. QED
    BY <1>1, <2>2, <2>3
<1>2. CASE ~(Len(text) + Len(line) + 1 < MAX_FILE_SIZE)
  BY <1>2 DEF WithLine
<1>3. QED
  BY <1>1, <1>2

LEMMA ShellInitOK == ShellInit => ShellOK
<1>1. TableOK(fs_init) /\ Small(fs_init)
  BY RootOnlyTable, RootOnlySmall, MakeDirectoryTable, MakeDirectorySmall, InitDirsAssumption
     DEF fs_init
<1>2. edit = NotEditing => TextOK
  BY SizesAssumption DEF NotEditing, TextOK, EntryNames
<1>3. QED
  BY <1>1, <1>2 DEF ShellInit, Init, ShellOK

LEMMA ShellNextOK ==
  ASSUME ShellOK, [ShellNext]_shell_vars
  PROVE  ShellOK'
<1> USE DEF AtPrompt, Editing, Running
<1>1. TableOK(fs) /\ Small(fs) /\ TextOK /\ Names \subseteq EntryNames
  BY DEF ShellOK, EntryNames
<1>2. SUFFICES TableOK(fs') /\ Small(fs') /\ TextOK'
  BY DEF ShellOK, TableOK, Small, filesystem_t, ExtentsWithinUsage, UsageWithinCapacity,
         Faulty, Live, End
<1>3. UNCHANGED edit => TextOK'
  BY <1>1 DEF TextOK
<1>4. ASSUME NEW n, cmd_cd(n) PROVE TableOK(fs') /\ Small(fs') /\ UNCHANGED edit
  BY <1>1, <1>4, ChangeDirectoryTable, ChangeDirectorySmall DEF cmd_cd, fs_change_directory
<1>5. ASSUME NEW n \in Names, cmd_mkdir(n) PROVE TableOK(fs') /\ Small(fs') /\ UNCHANGED edit
  BY <1>1, <1>5, MakeDirectoryTable, MakeDirectorySmall DEF cmd_mkdir, fs_make_directory
<1>6. ASSUME NEW n \in Names, cmd_rmdir(n) \/ cmd_rm(n)
      PROVE  TableOK(fs') /\ Small(fs') /\ UNCHANGED edit
  BY <1>1, <1>6, DeleteFileTable, DeleteFileSmall
     DEF cmd_rmdir, cmd_rm, fs_remove_directory, fs_delete_file
<1>7. ASSUME NEW n \in Names, cmd_touch(n) PROVE TableOK(fs') /\ Small(fs') /\ UNCHANGED edit
  BY <1>1, <1>7, TouchedKeeps DEF cmd_touch
<1>8. ASSUME NEW src \in Names, NEW dest \in Names, cmd_cp(src, dest)
      PROVE  TableOK(fs') /\ Small(fs') /\ UNCHANGED edit
  BY <1>1, <1>8, CopyFileTable, CopyFileSmall DEF cmd_cp
<1>9. ASSUME NEW src \in Names, NEW dest \in Names, cmd_mv(src, dest)
      PROVE  TableOK(fs') /\ Small(fs') /\ UNCHANGED edit
  BY <1>1, <1>9, MovedByShellKeeps DEF cmd_mv
<1>10. ASSUME NEW n \in Names, NEW t \in Texts, cmd_code(n, t)
       PROVE  TableOK(fs') /\ Small(fs') /\ UNCHANGED edit
  BY <1>1, <1>10, WriteFileTable, WriteFileSmall, ShellAssumption DEF cmd_code, fs_write_file
<1>11. ASSUME NEW n \in Names, cmd_edit(n) PROVE UNCHANGED fs /\ TextOK'
  BY <1>1, <1>11, EditBufferHolds DEF cmd_edit, TextOK
<1>12. ASSUME NEW l \in Lines, edit_line(l) PROVE UNCHANGED fs /\ TextOK'
  <2>1. edit.file_buffer \in Seq(Bytes) /\ Len(edit.file_buffer) < MAX_FILE_SIZE
        /\ l \in Seq(Bytes)
    BY <1>1, ShellAssumption DEF TextOK
  <2>2. QED
    BY <1>1, <1>12, <2>1, WithLineHolds DEF edit_line, TextOK
<1>13. ASSUME fs_write_file(edit.filename, edit.file_buffer) PROVE TableOK(fs') /\ Small(fs')
  <2>1. /\ edit.filename \in EntryNames /\ edit.file_buffer \in Seq(Bytes)
        /\ Len(edit.file_buffer) < MAX_FILE_SIZE
    BY <1>1 DEF TextOK
  <2>2. QED
    BY <1>1, <1>13, <2>1, WriteFileTable, WriteFileSmall DEF fs_write_file
<1>14. edit' = NotEditing => TextOK'
  BY SizesAssumption DEF NotEditing, TextOK, EntryNames
<1>15. CASE edit_write \/ edit_quit \/ edit_finish
  BY <1>1, <1>3, <1>13, <1>14, <1>15 DEF edit_write, edit_quit, edit_finish
<1>16. CASE UNCHANGED shell_vars
  BY <1>1, <1>3, <1>16 DEF shell_vars
<1>17. QED
  BY <1>1, <1>3, <1>4, <1>5, <1>6, <1>7, <1>8, <1>9, <1>10, <1>11, <1>12, <1>15, <1>16
     DEF ShellNext

\* The inductive invariant of the shell: the table, sizes that leave room for a
\* terminator, and a text of edit that does.
THEOREM ShellInvariant == ShellSpec => []ShellOK
BY ShellInitOK, ShellNextOK, PTL DEF ShellSpec

\* Every file the shell makes can be read whole by cat, edit and the editor.
THEOREM NothingCut == ShellSpec => []NothingIsCut
<1>1. ShellOK => NothingIsCut
  BY DEF ShellOK, Small, TextOK, NothingIsCut
<1>2. QED
  BY <1>1, ShellInvariant, PTL

-----------------------------------------------------------------------------
(* edit only appends. *)

\* While edit runs, its text starts with what the file holds.
Opened ==
  edit.active /\ ~Faulty(fs) /\ IsRegular(fs, edit.filename)
  => IsPrefix(Content(fs, edit.filename), edit.file_buffer)

AppendsStep ==
  edit.active /\ fs' # fs /\ ~Faulty(fs') /\ IsRegular(fs, edit.filename)
  => IsPrefix(Content(fs, edit.filename), Content(fs', edit.filename))

LEMMA PrefixOfItself ==
  ASSUME NEW p \in Seq(Bytes)
  PROVE  IsPrefix(p, p)
BY DEF IsPrefix

\* The text of edit, once written, is what the file holds.
LEMMA TextWritten ==
  ASSUME NEW s, TableOK(s), ~Faulty(s), NEW name \in EntryNames,
         NEW data \in Seq(Bytes), Len(data) < MAX_FILE_SIZE,
         NEW t, t = WriteFile(s, name, data), ~Faulty(t), t # s
  PROVE  Content(t, name) = data
<1>1. CASE WriteResult(s, name) = FS_SUCCESS
  <2>1. Content(t, name) = Clip(data, MAX_FILE_SIZE)
    BY <1>1, WrittenReadsBack DEF Content
  <2>2. QED
    BY <2>1, ClipWhole, SizesAssumption
<1>2. CASE WriteResult(s, name) # FS_SUCCESS
  BY <1>2, WriteStops
<1>3. QED
  BY <1>1, <1>2

LEMMA AppendsNext ==
  ASSUME ShellOK, Opened, [ShellNext]_shell_vars
  PROVE  Opened' /\ (AppendsStep \/ UNCHANGED shell_vars)
<1> USE DEF AtPrompt, Editing, Running
<1>1. /\ TableOK(fs) /\ Small(fs)
      /\ edit \in [active : BOOLEAN, filename : EntryNames, file_buffer : Seq(Bytes)]
      /\ edit.filename \in EntryNames /\ edit.file_buffer \in Seq(Bytes)
      /\ Len(edit.file_buffer) < MAX_FILE_SIZE
  BY DEF ShellOK, TextOK
<1>2. ASSUME ~edit.active, UNCHANGED edit PROVE Opened' /\ AppendsStep
  BY <1>2 DEF Opened, AppendsStep
<1>3. ASSUME NEW n \in Names, cmd_edit(n) PROVE Opened' /\ AppendsStep
  <2>1. edit'.filename = n /\ edit'.file_buffer = EditBuffer(fs, n) /\ fs' = fs /\ ~Faulty(fs)
    BY <1>3 DEF cmd_edit
  <2>2. IsRegular(fs, n) =>
          EditBuffer(fs, n) = Content(fs, n) /\ EditBuffer(fs, n) \in Seq(Bytes)
    BY <1>1, <2>1, EditBufferHolds
  <2>3. QED
    BY <2>1, <2>2, PrefixOfItself DEF Opened, AppendsStep
<1>4. ASSUME NEW l \in Lines, edit_line(l) PROVE Opened' /\ AppendsStep
  <2>1. /\ fs' = fs /\ ~Faulty(fs) /\ edit.active
        /\ edit'.filename = edit.filename
        /\ edit'.file_buffer = WithLine(edit.file_buffer, l)
    BY <1>1, <1>4 DEF edit_line
  <2>2. SUFFICES ASSUME IsRegular(fs, edit.filename)
                 PROVE  IsPrefix(Content(fs, edit.filename), WithLine(edit.file_buffer, l))
    BY <2>1 DEF Opened, AppendsStep
  <2>3. Content(fs, edit.filename) \in Seq(Bytes)
    BY <1>1, <2>1, <2>2, ReadWhole
  <2>4. QED
    BY <1>1, <2>1, <2>2, <2>3, WithLineHolds, ShellAssumption DEF Opened
<1>5. ASSUME edit.active, fs_write_file(edit.filename, edit.file_buffer)
      PROVE  AppendsStep
             /\ (~Faulty(fs') /\ IsRegular(fs', edit.filename)
                 => IsPrefix(Content(fs', edit.filename), edit.file_buffer))
  <2>1. ~Faulty(fs) /\ fs' = WriteFile(fs, edit.filename, edit.file_buffer)
    BY <1>5 DEF fs_write_file
  <2>2. CASE Faulty(fs') \/ fs' = fs
    BY <1>5, <2>1, <2>2 DEF AppendsStep, Opened
  <2>3. CASE ~Faulty(fs') /\ fs' # fs
    <3>1. Content(fs', edit.filename) = edit.file_buffer
      BY <1>1, <2>1, <2>3, TextWritten
    <3>2. QED
      BY <1>1, <1>5, <2>1, <3>1, PrefixOfItself DEF AppendsStep, Opened
  <2>4. QED
    BY <2>2, <2>3
<1>6. CASE edit_write
  <2>1. edit.active /\ fs_write_file(edit.filename, edit.file_buffer) /\ edit' = edit
    BY <1>6 DEF edit_write
  <2>2. QED
    BY <1>5, <2>1 DEF Opened
<1>7. CASE edit_quit
  BY <1>7 DEF edit_quit, NotEditing, Opened, AppendsStep
<1>8. CASE edit_finish
  <2>1. edit.active /\ fs_write_file(edit.filename, edit.file_buffer) /\ edit' = NotEditing
    BY <1>8 DEF edit_finish
  <2>2. QED
    BY <1>5, <2>1 DEF Opened, NotEditing
<1>9. CASE UNCHANGED shell_vars
  BY <1>9 DEF shell_vars, Opened, Content, IsRegular, Faulty
<1>10. QED
  BY <1>2, <1>3, <1>4, <1>6, <1>7, <1>8, <1>9
     DEF ShellNext, cmd_cd, cmd_mkdir, cmd_rmdir, cmd_rm, cmd_touch, cmd_cp, cmd_mv, cmd_code

\* What edit saves starts with what the file held, however often it saves.
THEOREM EditAppends == ShellSpec => EditOnlyAppends
<1>1. ShellInit => Opened
  BY DEF ShellInit, NotEditing, Opened
<1>2. ShellOK /\ Opened /\ [ShellNext]_shell_vars => Opened' /\ [AppendsStep]_shell_vars
  BY AppendsNext
<1>3. QED
  BY <1>1, <1>2, ShellInvariant, PTL DEF ShellSpec, EditOnlyAppends, AppendsStep

-----------------------------------------------------------------------------
(* mv delivers. *)

LEMMA WriteFileTreeOK ==
  ASSUME NEW s, TableOK(s), TreeOK(s), NEW name \in EntryNames, NEW data
  PROVE  TreeOK(WriteFile(s, name, data))
<1> PICK u : u = IF Exists(s, name) THEN s ELSE CreateFile(s, name, FILE_TYPE_REGULAR)
  OBVIOUS
<1>1. TreeOK(u)
  <2>1. CASE ~Exists(s, name) /\ CreateResult(s, name) = FS_SUCCESS
    <3>1. s \in filesystem_t /\ s.file_count < MAX_FILES
      BY <2>1, CreateSucceeds DEF TableOK
    <3>2. u = Created(s, name, FILE_TYPE_REGULAR)
      BY <2>1 DEF CreateFile
    <3>3. QED
      BY <2>1, <3>1, <3>2, CreatedGrown, GrownTree
  <2>2. CASE Exists(s, name) \/ CreateResult(s, name) # FS_SUCCESS
    BY <2>2 DEF CreateFile
  <2>3. QED
    BY <2>1, <2>2
<1>2. CASE WriteResult(s, name) # FS_SUCCESS \/ Faulty(u)
  BY <1>1, <1>2, WriteStops
<1>3. CASE WriteResult(s, name) = FS_SUCCESS /\ ~Faulty(u)
  BY <1>1, <1>3, WriteTarget, SameTreeKeeps
<1>4. QED
  BY <1>2, <1>3

\* Writing to one name leaves every other entry where it is found, and of its
\* type.
LEMMA WriteFileElsewhere ==
  ASSUME NEW s, TableOK(s), NEW name \in EntryNames, NEW data,
         NEW other, Exists(s, other),
         NEW t, t = WriteFile(s, name, data)
  PROVE  /\ Lookup(t, other) = Lookup(s, other)
         /\ t.files[Lookup(s, other)].type = s.files[Lookup(s, other)].type
         /\ t.current_dir = s.current_dir
<1> DEFINE j == Lookup(s, other)
<1> PICK u : u = IF Exists(s, name) THEN s ELSE CreateFile(s, name, FILE_TYPE_REGULAR)
  OBVIOUS
<1>1. s \in filesystem_t /\ j \in Live(s)
  BY LookupInTable DEF TableOK
<1>2. /\ Lookup(u, other) = j /\ j \in Live(u)
      /\ u.files[j].type = s.files[j].type /\ u.current_dir = s.current_dir
  <2>1. CASE ~Exists(s, name) /\ CreateResult(s, name) = FS_SUCCESS
    <3>1. s.file_count < MAX_FILES /\ u = Created(s, name, FILE_TYPE_REGULAR)
      BY <1>1, <2>1, CreateSucceeds DEF CreateFile
    <3>2. Grown(s, u, name)
      BY <1>1, <3>1, CreatedGrown
    <3>3. Lookup(u, other) = j
      BY <1>1, <2>1, <3>1, CreatedLookup
    <3>4. j \in Live(u)
      BY <1>1, <3>2, LiveInTable DEF Grown, Live
    <3>5. QED
      BY <1>1, <3>2, <3>3, <3>4 DEF Grown, SameNode
  <2>2. CASE Exists(s, name) \/ CreateResult(s, name) # FS_SUCCESS
    BY <1>1, <2>2 DEF CreateFile
  <2>3. QED
    BY <2>1, <2>2
<1>3. CASE WriteResult(s, name) # FS_SUCCESS \/ Faulty(u)
  BY <1>2, <1>3, WriteStops
<1>4. CASE WriteResult(s, name) = FS_SUCCESS /\ ~Faulty(u)
  <2>1. u \in filesystem_t /\ SameTree(u, t)
    BY <1>4, WriteTarget
  <2>2. Lookup(t, other) = Lookup(u, other)
    BY <2>1, SameLookup
  <2>3. QED
    BY <1>2, <2>1, <2>2 DEF SameTree, SameNode
<1>5. QED
  BY <1>3, <1>4

\* Removing a file from a tree: its name is gone, and another file of the
\* directory is found under its name with its bytes.
LEMMA RemovedFile ==
  ASSUME NEW s, TableOK(s), ~Faulty(s), TreeOK(s), NEW name, Exists(s, name),
         s.files[Lookup(s, name)].type = FILE_TYPE_REGULAR,
         NEW other, other # name, IsRegular(s, other),
         NEW t, t = DeleteFile(s, name)
  PROVE  /\ ~Exists(t, name)
         /\ IsRegular(t, other) /\ Content(t, other) = Content(s, other)
<1> PICK j : j = Lookup(s, name)
  OBVIOUS
<1> PICK o : o = Lookup(s, other)
  OBVIOUS
<1>1. /\ s \in filesystem_t /\ j \in Live(s)
      /\ s.files[j].parent_id = s.current_dir /\ s.files[j].name = name
  BY LookupInTable DEF TableOK
<1>2. Exists(s, other) /\ s.files[o].type = FILE_TYPE_REGULAR
  BY DEF IsRegular, ReadResult, FS_ERROR_INVALID_PATH
<1>3. o \in Live(s) /\ s.files[o].parent_id = s.current_dir /\ s.files[o].name = other
  BY <1>1, <1>2, LookupInTable
<1>4. o # j
  BY <1>1, <1>3
<1>5. t = SwapOut(s, j)
  BY DEF DeleteFile
<1>6. Removed(s, t, j) /\ Narrowed(s, t, j) /\ t.data_storage = s.data_storage
  <2>1. t.data_storage = s.data_storage
    BY <1>1, <1>5 DEF SwapOut, filesystem_t
  <2>2. QED
    BY <1>1, <1>5, <2>1, SwapOutRemoved, SwapOutNarrowed
<1>7. TableOK(t) /\ t \in filesystem_t
  BY <1>1, <1>5, SwapOutTable DEF TableOK
<1>8. s.files[j].type # FILE_TYPE_DIRECTORY
  BY DEF FILE_TYPE_REGULAR, FILE_TYPE_DIRECTORY
<1>9. /\ ~HasChildren(s, j) /\ s.current_dir # j
      /\ \A i \in Live(s) : s.files[i].parent_id # j
  BY <1>8 DEF HasChildren, TreeOK, ParentsAreDirectories, CurrentDirOK
<1>10. TreeOK(t)
  BY <1>1, <1>6, <1>9, RemovedTree
<1>11. /\ \A i \in Live(t) : /\ From(s, j, i) \in Live(s) \ {j}
                               /\ Follow(s, j, From(s, j, i)) = i
       /\ \A k \in Live(s) \ {j} : /\ Follow(s, j, k) \in Live(t)
                                     /\ From(s, j, Follow(s, j, k)) = k
  BY <1>1, <1>6, Renumbering DEF Removed
<1>12. ~Exists(t, name)
  <2>1. SUFFICES ASSUME NEW i \in Live(t), t.files[i].parent_id = t.current_dir,
                        t.files[i].name = name
                 PROVE  FALSE
    BY <1>7, LookupInTable
  <2> PICK f : f = From(s, j, i)
    OBVIOUS
  <2>2. f \in Live(s) /\ f # j /\ s.files[f].name = name
        /\ t.files[i].parent_id = Follow(s, j, s.files[f].parent_id)
    BY <1>6, <1>11, <2>1 DEF Removed
  <2>3. Follow(s, j, s.files[f].parent_id) = Follow(s, j, s.current_dir)
    BY <1>6, <2>1, <2>2 DEF Removed
  <2>4. s.files[f].parent_id = s.current_dir
    BY <1>9, <2>2, <2>3 DEF Follow
  <2>5. QED
    BY <1>1, <2>2, <2>4 DEF TreeOK, UniqueNames
<1> PICK d : d = Follow(s, j, o)
  OBVIOUS
<1>13. d \in Live(t) /\ From(s, j, d) = o
  BY <1>3, <1>4, <1>11
<1>14. /\ t.files[d].name = other /\ t.files[d].type = FILE_TYPE_REGULAR
       /\ t.files[d].parent_id = t.current_dir
  BY <1>2, <1>3, <1>6, <1>13 DEF Removed
<1>15. Lookup(t, other) = d
  BY <1>7, <1>10, <1>13, <1>14, FoundAgain DEF Lookup
<1>16. FileBytes(t, d) = FileBytes(s, o)
  BY <1>6, <1>13 DEF Narrowed, SameExtent, FileBytes
<1>17. Exists(t, other)
  BY <1>13, <1>15, <1>7, LiveInTable DEF Exists, NotFound
<1>18. QED
  BY <1>2, <1>12, <1>14, <1>15, <1>16, <1>17 DEF IsRegular, Content, ReadResult, ReadBuffer

LEMMA MovedByShellDelivers ==
  ASSUME NEW s, TableOK(s), ~Faulty(s), TreeOK(s),
         NEW src \in EntryNames, NEW dest \in EntryNames, src # dest, IsRegular(s, src),
         NEW t, t = MovedByShell(s, src, dest), ~Faulty(t)
  PROVE  \/ /\ ~Exists(t, src)
            /\ IsRegular(t, dest) /\ Content(t, dest) = Content(s, src)
         \/ SameFiles(s, t)
<1> PICK data : data = ReadBuffer(s, src, MAX_FILE_SIZE)
  OBVIOUS
<1> PICK w : w = WriteFile(s, dest, data)
  OBVIOUS
<1>1. /\ ~(ReadResult(s, src, MAX_FILE_SIZE) < 0) /\ Exists(s, src)
      /\ s.files[Lookup(s, src)].type = FILE_TYPE_REGULAR
  <2>1. ReadResult(s, src, MAX_FILE_SIZE) >= 0
    BY DEF IsRegular
  <2>2. Exists(s, src) /\ s.files[Lookup(s, src)].type = FILE_TYPE_REGULAR
    BY <2>1 DEF ReadResult, FS_ERROR_INVALID_PATH
  <2>3. FileBytes(s, Lookup(s, src)) \in Seq(Bytes)
    BY <2>2, LookupInTable, FileBytesType DEF TableOK
  <2>4. ReadResult(s, src, MAX_FILE_SIZE) \in Nat
    BY <2>2, <2>3, ClipType, SizesAssumption DEF ReadResult
  <2>5. QED
    BY <2>1, <2>2, <2>4
<1>2. w = CopyFile(s, src, dest)
  BY <1>1 DEF CopyFile
<1>3. data \in Seq(Bytes) /\ Len(data) <= MAX_FILE_SIZE /\ data = Content(s, src)
  BY <1>1, ReadBufferType, SizesAssumption DEF Content
<1>4. CopyResult(s, src, dest) = WriteResult(s, dest)
  BY <1>1 DEF CopyResult
<1>5. CASE WriteResult(s, dest) # FS_SUCCESS
  <2>1. t = s
    BY <1>2, <1>4, <1>5, WriteStops DEF MovedByShell
  <2>2. QED
    BY <2>1 DEF SameFiles
<1>6. CASE WriteResult(s, dest) = FS_SUCCESS
  <2>1. ~Faulty(w) /\ t = DeleteFile(w, src)
    BY <1>2, <1>4, <1>6 DEF MovedByShell
  <2>2. TableOK(w) /\ TreeOK(w)
    BY <1>3, WriteFileTable, WriteFileTreeOK
  <2>3. /\ Lookup(w, src) = Lookup(s, src)
        /\ w.files[Lookup(w, src)].type = FILE_TYPE_REGULAR
    BY <1>1, WriteFileElsewhere
  <2>4. Exists(w, src)
    BY <1>1, <2>3 DEF Exists
  <2>5. /\ ReadResult(w, dest, MAX_FILE_SIZE) = Shown(data)
        /\ ReadBuffer(w, dest, MAX_FILE_SIZE) = Clip(data, MAX_FILE_SIZE)
    BY <1>3, <1>6, <2>1, WrittenReadsBack
  <2>6. Clip(data, MAX_FILE_SIZE) = data
    BY <1>3, ClipWhole, SizesAssumption
  <2>7. IsRegular(w, dest) /\ Content(w, dest) = Content(s, src)
    BY <1>3, <2>5, <2>6 DEF IsRegular, Content, Shown
  <2>8. QED
    BY <2>1, <2>2, <2>3, <2>4, <2>7, RemovedFile
<1>7. QED
  BY <1>5, <1>6

\* mv to another name moves the content and leaves no source, or changes nothing.
THEOREM MvDelivered == ShellSpec => MvDelivers
<1>1. ShellOK =>
        [\A src, dest \in Names :
           /\ cmd_mv(src, dest)
           /\ TreeOK(fs) /\ src # dest /\ IsRegular(fs, src) /\ ~Faulty(fs')
           => \/ /\ ~Exists(fs', src)
                 /\ IsRegular(fs', dest) /\ Content(fs', dest) = Content(fs, src)
              \/ SameFiles(fs, fs')]_shell_vars
  <2> SUFFICES ASSUME ShellOK, NEW src \in Names, NEW dest \in Names, cmd_mv(src, dest),
                      TreeOK(fs), src # dest, IsRegular(fs, src), ~Faulty(fs')
               PROVE  \/ /\ ~Exists(fs', src)
                         /\ IsRegular(fs', dest) /\ Content(fs', dest) = Content(fs, src)
                      \/ SameFiles(fs, fs')
    OBVIOUS
  <2>1. TableOK(fs) /\ ~Faulty(fs) /\ fs' = MovedByShell(fs, src, dest)
        /\ src \in EntryNames /\ dest \in EntryNames
    BY DEF ShellOK, cmd_mv, AtPrompt, Running, EntryNames
  <2>2. QED
    BY <2>1, MovedByShellDelivers
<1>2. QED
  BY <1>1, ShellInvariant, PTL DEF MvDelivers

-----------------------------------------------------------------------------
(* The prompt. *)

\* The entries above the current directory, C, each at its height above the
\* root: directories in use, none of them higher than the current one.  What rm
\* removes is in the current directory, so it is none of these.
Climbs(s, C, h) ==
  /\ C \in SUBSET Live(s) /\ h \in [C -> Nat]
  /\ ROOT_DIR \in C /\ h[ROOT_DIR] = 0 /\ s.current_dir \in C
  /\ \A i \in C : /\ s.files[i].type = FILE_TYPE_DIRECTORY
                  /\ s.files[i].parent_id \in C
                  /\ i # ROOT_DIR => h[s.files[i].parent_id] < h[i]
                  /\ h[i] <= h[s.current_dir]

Climb(s) == \E C, h : Climbs(s, C, h)

PromptOK(s) == RootOK(s) /\ PathOK(s) /\ Climb(s)

\* Whatever is stored or added elsewhere, the way up is the same.
LEMMA KeptPrompt ==
  ASSUME NEW s, PromptOK(s), NEW t,
         Live(s) \subseteq Live(t), s.file_count > 0 => t.file_count > 0,
         t.current_dir = s.current_dir, t.current_path = s.current_path,
         \A i \in Live(s) : SameNode(t.files[i], s.files[i])
  PROVE  PromptOK(t)
<1>1. PICK C, h : Climbs(s, C, h)
  BY DEF PromptOK, Climb
<1>2. \A i \in C : i \in Live(s) /\ SameNode(t.files[i], s.files[i])
  BY <1>1 DEF Climbs
<1>3. RootOK(t)
  BY <1>1, <1>2 DEF PromptOK, RootOK, Climbs, SameNode
<1>4. Climbs(t, C, h)
  BY <1>1, <1>2 DEF Climbs, SameNode
<1>5. RebuiltPath(t) = RebuiltPath(s)
  BY <1>1, <1>2, KeptPath DEF Climbs, SameNode
<1>6. QED
  BY <1>3, <1>4, <1>5 DEF PromptOK, PathOK, Climb

LEMMA GrownPrompt ==
  ASSUME NEW s \in filesystem_t, PromptOK(s), NEW t, NEW name,
         Grown(s, t, name) \/ SameTree(s, t)
  PROVE  PromptOK(t)
<1>1. s.file_count \in Nat
  BY LiveInTable
<1>2. t.file_count = s.file_count \/ t.file_count = s.file_count + 1
  BY DEF Grown, SameTree
<1>3. Live(s) \subseteq Live(t) /\ (s.file_count > 0 => t.file_count > 0)
  BY <1>1, <1>2 DEF Live
<1>4. QED
  BY <1>3, KeptPrompt DEF Grown, SameTree

LEMMA WriteFilePrompt ==
  ASSUME NEW s, TableOK(s), PromptOK(s), NEW name \in EntryNames, NEW data
  PROVE  PromptOK(WriteFile(s, name, data))
<1> PICK u : u = IF Exists(s, name) THEN s ELSE CreateFile(s, name, FILE_TYPE_REGULAR)
  OBVIOUS
<1>1. PromptOK(u)
  <2>1. CASE ~Exists(s, name) /\ CreateResult(s, name) = FS_SUCCESS
    <3>1. s \in filesystem_t /\ s.file_count < MAX_FILES
      BY <2>1, CreateSucceeds DEF TableOK
    <3>2. u = Created(s, name, FILE_TYPE_REGULAR)
      BY <2>1 DEF CreateFile
    <3>3. QED
      BY <3>1, <3>2, CreatedGrown, GrownPrompt
  <2>2. CASE Exists(s, name) \/ CreateResult(s, name) # FS_SUCCESS
    BY <2>2 DEF CreateFile
  <2>3. QED
    BY <2>1, <2>2
<1>2. CASE WriteResult(s, name) # FS_SUCCESS \/ Faulty(u)
  BY <1>1, <1>2, WriteStops
<1>3. CASE WriteResult(s, name) = FS_SUCCESS /\ ~Faulty(u)
  BY <1>1, <1>3, WriteTarget, GrownPrompt
<1>4. QED
  BY <1>2, <1>3

LEMMA MakeDirectoryPrompt ==
  ASSUME NEW s, TableOK(s), PromptOK(s), NEW name
  PROVE  PromptOK(MakeDirectory(s, name))
<1>1. CASE MakeDirectoryResult(s, name) = FS_SUCCESS
  <2>1. s \in filesystem_t /\ Grown(s, MakeDirectory(s, name), name)
    BY <1>1, MadeGrown DEF TableOK
  <2>2. QED
    BY <2>1, GrownPrompt
<1>2. CASE MakeDirectoryResult(s, name) # FS_SUCCESS
  BY <1>2 DEF MakeDirectory
<1>3. QED
  BY <1>1, <1>2

\* An entry of the current directory is above it only where both are the root.
LEMMA OnlyRootIsAbove ==
  ASSUME NEW s, NEW C, NEW h, Climbs(s, C, h),
         NEW i \in C, s.files[i].parent_id = s.current_dir
  PROVE  i = ROOT_DIR
<1>1. h[i] \in Nat /\ h[s.current_dir] \in Nat
  BY DEF Climbs
<1>2. QED
  BY <1>1 DEF Climbs

\* One directory down, or up to any directory above.
LEMMA GonePrompt ==
  ASSUME NEW s, TableOK(s), PromptOK(s), NEW d \in Live(s),
         s.files[d].type = FILE_TYPE_DIRECTORY,
         s.files[d].parent_id = s.current_dir \/ d = s.files[s.current_dir].parent_id,
         NEW t, t = Rebuilt([s EXCEPT !.current_dir = d])
  PROVE  PromptOK(t)
<1>1. s \in filesystem_t /\ d \in FileIds
  BY LiveInTable DEF TableOK
<1>2. Gone(s, t, d) /\ PathOK(t)
  BY <1>1, RebuiltGone, RebuiltIsFresh
<1>3. /\ Live(t) = Live(s) /\ t.current_dir = d
      /\ \A i \in Live(s) : SameNode(t.files[i], s.files[i])
  BY <1>2 DEF Gone, Live
<1>4. PICK C, h : Climbs(s, C, h)
  BY DEF PromptOK, Climb
<1>5. RootOK(t)
  BY <1>2, <1>3, <1>4 DEF PromptOK, RootOK, Gone, SameNode, Climbs
<1>6. Climb(t)
  <2>1. CASE d \in C
    <3> DEFINE D == {i \in C : h[i] <= h[d]}
    <3> DEFINE g == [i \in D |-> h[i]]
    <3>1. D \in SUBSET Live(t) /\ g \in [D -> Nat]
      BY <1>3, <1>4 DEF Climbs
    <3>2. h[d] \in Nat /\ \A i \in C : h[i] \in Nat
      BY <1>4, <2>1 DEF Climbs
    <3>3. ROOT_DIR \in D /\ g[ROOT_DIR] = 0 /\ d \in D
      BY <1>4, <2>1, <3>2 DEF Climbs
    <3>4. ASSUME NEW i \in D
          PROVE  /\ t.files[i].type = FILE_TYPE_DIRECTORY
                 /\ t.files[i].parent_id \in D
                 /\ i # ROOT_DIR => g[t.files[i].parent_id] < g[i]
                 /\ g[i] <= g[d]
      <4> PICK p : p = s.files[i].parent_id
        OBVIOUS
      <4>1. /\ t.files[i].type = FILE_TYPE_DIRECTORY /\ t.files[i].parent_id = p
            /\ p \in C /\ (i # ROOT_DIR => h[p] < h[i]) /\ h[i] <= h[d] /\ i \in C
        BY <1>3, <1>4 DEF SameNode, Climbs
      <4>2. i = ROOT_DIR => p = ROOT_DIR
        BY DEF PromptOK, RootOK
      <4>3. p \in D
        BY <3>2, <3>3, <4>1, <4>2
      <4> HIDE DEF D
      <4>4. QED
        BY <3>3, <4>1, <4>3
    <3> HIDE DEF D, g
    <3>5. Climbs(t, D, g)
      BY <1>3, <3>1, <3>3, <3>4 DEF Climbs
    <3>6. QED
      BY <3>5 DEF Climb
  <2>2. CASE d \notin C
    <3> DEFINE D == C \cup {d}
    <3> DEFINE g == [i \in D |-> IF i = d THEN h[s.current_dir] + 1 ELSE h[i]]
    <3>1. s.current_dir \in C /\ ROOT_DIR \in C /\ \A i \in C : h[i] \in Nat
      BY <1>4 DEF Climbs
    <3>2. D \in SUBSET Live(t) /\ g \in [D -> Nat]
      BY <1>3, <1>4, <3>1 DEF Climbs
    <3>3. s.files[d].parent_id = s.current_dir
      BY <1>4, <2>2 DEF Climbs
    <3>4. /\ g[d] = h[s.current_dir] + 1 /\ d \in D
          /\ \A i \in C : i \in D /\ g[i] = h[i]
      BY <2>2
    <3>5. ASSUME NEW i \in D
          PROVE  /\ t.files[i].type = FILE_TYPE_DIRECTORY
                 /\ t.files[i].parent_id \in D
                 /\ i # ROOT_DIR => g[t.files[i].parent_id] < g[i]
                 /\ g[i] <= g[d]
      <4>1. t.files[i].type = s.files[i].type /\ t.files[i].parent_id = s.files[i].parent_id
        <5> HIDE DEF D
        <5>1. i \in Live(s)
          BY <1>3, <3>2
        <5>2. QED
          BY <1>3, <5>1 DEF SameNode
      <4>2. CASE i = d
        <5> HIDE DEF D, g
        <5>1. QED
          BY <3>1, <3>3, <3>4, <4>1, <4>2
      <4>3. CASE i \in C
        <5>1. /\ s.files[i].type = FILE_TYPE_DIRECTORY /\ s.files[i].parent_id \in C
              /\ i # ROOT_DIR => h[s.files[i].parent_id] < h[i]
              /\ h[i] <= h[s.current_dir]
          BY <1>4, <4>3 DEF Climbs
        <5> HIDE DEF D, g
        <5>2. QED
          BY <3>1, <3>4, <4>1, <4>3, <5>1
      <4>4. QED
        BY <4>2, <4>3
    <3>6. g[ROOT_DIR] = 0
      BY <1>4, <2>2, <3>1, <3>4 DEF Climbs
    <3> HIDE DEF D, g
    <3>7. Climbs(t, D, g)
      BY <1>3, <3>1, <3>2, <3>4, <3>5, <3>6 DEF Climbs
    <3>8. QED
      BY <3>7 DEF Climb
  <2>3. QED
    BY <2>1, <2>2
<1>7. QED
  BY <1>2, <1>5, <1>6 DEF PromptOK

LEMMA ChangeDirectoryPrompt ==
  ASSUME NEW s, TableOK(s), PromptOK(s), NEW path
  PROVE  PromptOK(ChangeDirectory(s, path))
<1>1. CASE ChangeDirectoryResult(s, path) # FS_SUCCESS \/ path = Dot
  BY <1>1 DEF ChangeDirectory
<1>2. CASE path = DotDot /\ path # Dot /\ ChangeDirectoryResult(s, path) = FS_SUCCESS
  <2> PICK d : d = s.files[s.current_dir].parent_id
    OBVIOUS
  <2>1. d \in Live(s) /\ s.files[d].type = FILE_TYPE_DIRECTORY
    BY DEF PromptOK, Climb, Climbs
  <2>2. QED
    BY <1>2, <2>1, GonePrompt DEF ChangeDirectory
<1>3. CASE path \notin {Dot, DotDot} /\ ChangeDirectoryResult(s, path) = FS_SUCCESS
  <2>1. Exists(s, path) /\ s.files[Lookup(s, path)].type = FILE_TYPE_DIRECTORY
    BY <1>3 DEF ChangeDirectoryResult, FS_SUCCESS, FS_ERROR_NOT_FOUND, FS_ERROR_INVALID_PATH,
                FS_ERROR_NOT_DIRECTORY
  <2>2. Lookup(s, path) \in Live(s) /\ s.files[Lookup(s, path)].parent_id = s.current_dir
    BY <2>1, LookupInTable DEF TableOK
  <2>3. QED
    BY <1>3, <2>1, <2>2, GonePrompt DEF ChangeDirectory
<1>4. QED
  BY <1>1, <1>2, <1>3

\* Removing an entry of the current directory, as long as a root remains.
LEMMA SwapOutPrompt ==
  ASSUME NEW s, TableOK(s), PromptOK(s), NEW id \in Live(s),
         s.files[id].parent_id = s.current_dir,
         NEW t, t = SwapOut(s, id), RootOK(t)
  PROVE  PromptOK(t)
<1> DEFINE last == s.file_count - 1
<1>1. s \in filesystem_t /\ Removed(s, t, id)
  BY SwapOutRemoved DEF TableOK
<1>2. PICK C, h : Climbs(s, C, h)
  BY DEF PromptOK, Climb
<1>3. last # ROOT_DIR /\ s.file_count \in Nat /\ ROOT_DIR \in Live(s) /\ ROOT_DIR \in Live(t)
  <2>1. s.file_count \in Nat /\ t.file_count = s.file_count - 1 /\ t.file_count > 0
    BY <1>1, LiveInTable DEF Removed, RootOK
  <2>2. QED
    BY <2>1 DEF Live, ROOT_DIR
<1>4. CASE id \in C
  <2>1. id = ROOT_DIR
    BY <1>2, <1>4, OnlyRootIsAbove
  <2>2. s.current_dir = ROOT_DIR
    BY <2>1 DEF PromptOK, RootOK
  <2>3. t.current_dir = ROOT_DIR
    BY <1>1, <1>3, <2>2 DEF Removed, Follow
  <2>4. /\ t.files[ROOT_DIR].name = RootName /\ s.files[ROOT_DIR].name = RootName
        /\ t.files[ROOT_DIR].type = FILE_TYPE_DIRECTORY
        /\ t.files[ROOT_DIR].parent_id = ROOT_DIR /\ s.files[ROOT_DIR].parent_id = ROOT_DIR
    BY DEF RootOK, PromptOK
  <2>5. RebuiltPath(t) = RebuiltPath(s)
    <3> PICK M : M = {ROOT_DIR}
      OBVIOUS
    <3>1. s.current_dir \in M /\ t.current_dir = s.current_dir
      BY <2>2, <2>3
    <3>2. \A i \in M : /\ s.files[i].parent_id \in M
                       /\ t.files[i].parent_id = s.files[i].parent_id
                       /\ t.files[i].name = s.files[i].name
      BY <2>4
    <3>3. QED
      BY <3>1, <3>2, KeptPath
  <2>6. Climbs(t, {ROOT_DIR}, [i \in {ROOT_DIR} |-> 0])
    BY <1>3, <2>3, <2>4 DEF Climbs
  <2>7. QED
    BY <1>1, <2>5, <2>6 DEF PromptOK, PathOK, Climb, Removed
<1>5. CASE id \notin C
  <2> DEFINE to == [i \in C |-> Follow(s, id, i)]
             D == {to[i] : i \in C}
             g == [x \in D |-> h[From(s, id, x)]]
  <2>1. /\ C \subseteq Live(s) \ {id} /\ ROOT_DIR \in C /\ s.current_dir \in C
        /\ \A i \in C : s.files[i].parent_id \in C /\ h[i] \in Nat
    BY <1>2, <1>5 DEF Climbs
  <2>2. \A i \in C : /\ to[i] = Follow(s, id, i) /\ to[i] \in Live(t)
                     /\ From(s, id, to[i]) = i /\ to[i] \in D
    BY <1>1, <2>1, Renumbering DEF Removed
  <2>3. to[ROOT_DIR] = ROOT_DIR /\ \A i \in C : to[i] = ROOT_DIR <=> i = ROOT_DIR
    <3>1. to[ROOT_DIR] = ROOT_DIR
      BY <1>3, <2>1 DEF Follow
    <3>2. \A i \in C : to[i] = ROOT_DIR => i = ROOT_DIR
      <4> HIDE DEF to
      <4>1. QED
        BY <2>1, <2>2, <3>1
    <3>3. QED
      BY <3>1, <3>2
  <2>4. ASSUME NEW i \in C
        PROVE  /\ t.files[to[i]].name = s.files[i].name
               /\ t.files[to[i]].type = s.files[i].type
               /\ t.files[to[i]].parent_id = to[s.files[i].parent_id]
    <3>1. to[i] \in Live(t) /\ From(s, id, to[i]) = i
      BY <2>2
    <3>2. /\ t.files[to[i]].name = s.files[i].name /\ t.files[to[i]].type = s.files[i].type
          /\ t.files[to[i]].parent_id = Follow(s, id, s.files[i].parent_id)
      BY <1>1, <3>1 DEF Removed
    <3>3. to[s.files[i].parent_id] = Follow(s, id, s.files[i].parent_id)
      BY <2>1, <2>2
    <3>4. QED
      BY <3>2, <3>3
  <2>5. t.current_dir = to[s.current_dir] /\ t.current_path = s.current_path
    BY <1>1, <2>1 DEF Removed
  <2>6. \A i \in C : g[to[i]] = h[i]
    <3> HIDE DEF to, D
    <3>1. QED
      BY <2>2
  <2>7. D \in SUBSET Live(t) /\ g \in [D -> Nat]
    <3>1. ASSUME NEW x \in D PROVE x \in Live(t) /\ h[From(s, id, x)] \in Nat
      <4> PICK i \in C : x = to[i]
        OBVIOUS
      <4>1. QED
        BY <2>1, <2>2
    <3> HIDE DEF to, D
    <3>2. QED
      BY <3>1
  <2>8. ASSUME NEW x \in D
        PROVE  /\ t.files[x].type = FILE_TYPE_DIRECTORY
               /\ t.files[x].parent_id \in D
               /\ x # ROOT_DIR => g[t.files[x].parent_id] < g[x]
               /\ g[x] <= g[t.current_dir]
    <3> PICK i \in C : x = to[i]
      OBVIOUS
    <3>1. /\ s.files[i].type = FILE_TYPE_DIRECTORY /\ s.files[i].parent_id \in C
          /\ (i # ROOT_DIR => h[s.files[i].parent_id] < h[i]) /\ h[i] <= h[s.current_dir]
          /\ s.current_dir \in C
      BY <1>2 DEF Climbs
    <3> HIDE DEF to, D, g
    <3>2. QED
      BY <2>2, <2>3, <2>4, <2>5, <2>6, <3>1
  <2>9. Carries(s, t, C, to)
    <3> HIDE DEF to
    <3>1. QED
      BY <2>1, <2>3, <2>4, <2>5 DEF Carries
  <2>10. h[ROOT_DIR] = 0
    BY <1>2 DEF Climbs
  <2> HIDE DEF to, D, g
  <2>11. Climbs(t, D, g)
    BY <2>1, <2>2, <2>3, <2>5, <2>6, <2>7, <2>8, <2>10 DEF Climbs
  <2>12. RebuiltPath(t) = RebuiltPath(s)
    BY <2>9, CarriedPath
  <2>13. QED
    BY <2>5, <2>11, <2>12 DEF PromptOK, PathOK, Climb
<1>6. QED
  BY <1>4, <1>5

LEMMA RemovalPrompt ==
  ASSUME NEW s, TableOK(s), PromptOK(s), NEW name
  PROVE  /\ RootOK(DeleteFile(s, name)) => PromptOK(DeleteFile(s, name))
         /\ RootOK(RemoveDirectory(s, name)) => PromptOK(RemoveDirectory(s, name))
<1>1. ASSUME Exists(s, name), RootOK(SwapOut(s, Lookup(s, name)))
      PROVE  PromptOK(SwapOut(s, Lookup(s, name)))
  BY <1>1, LookupInTable, SwapOutPrompt DEF TableOK
<1>2. RemoveDirectoryResult(s, name) = FS_SUCCESS => Exists(s, name)
  BY DEF RemoveDirectoryResult, FS_SUCCESS, FS_ERROR_NOT_FOUND
<1>3. QED
  BY <1>1, <1>2 DEF DeleteFile, RemoveDirectory

\* The commands of several calls.
LEMMA CommandPrompt ==
  ASSUME NEW s, TableOK(s), PromptOK(s), ~Faulty(s), NEW src, NEW dest \in EntryNames
  PROVE  /\ PromptOK(Touched(s, dest)) /\ PromptOK(CopyFile(s, src, dest))
         /\ RootOK(MovedByShell(s, src, dest)) => PromptOK(MovedByShell(s, src, dest))
<1>1. PromptOK(CopyFile(s, src, dest)) /\ TableOK(CopyFile(s, src, dest))
  BY CopyFileTable, WriteFilePrompt DEF CopyFile
<1>2. QED
  BY <1>1, WriteFilePrompt, RemovalPrompt DEF Touched, MovedByShell

LEMMA RootOnlyPrompt == PromptOK(RootOnly)
<1>1. RootOK(RootOnly) /\ PathOK(RootOnly)
  BY RootOnlySound DEF Sound, TreeOK
<1>2. Climbs(RootOnly, {ROOT_DIR}, [i \in {ROOT_DIR} |-> 0])
  BY <1>1 DEF Climbs, RootOK, RootOnly, Live, ROOT_DIR
<1>3. QED
  BY <1>1, <1>2 DEF PromptOK, Climb

LEMMA PromptNext ==
  ASSUME ShellOK, PromptOK(fs), [ShellNext /\ RootOK(fs')]_shell_vars
  PROVE  PromptOK(fs')
<1> USE DEF AtPrompt, Editing, Running
<1>1. TableOK(fs) /\ Names \subseteq EntryNames /\ edit.filename \in EntryNames
  BY DEF ShellOK, TextOK, EntryNames
<1>2. CASE UNCHANGED fs
  BY <1>2
<1>3. ASSUME NEW n, cmd_cd(n) PROVE PromptOK(fs')
  BY <1>1, <1>3, ChangeDirectoryPrompt DEF cmd_cd, fs_change_directory
<1>4. ASSUME NEW n, cmd_mkdir(n) PROVE PromptOK(fs')
  BY <1>1, <1>4, MakeDirectoryPrompt DEF cmd_mkdir, fs_make_directory
<1>5. ASSUME NEW n, cmd_rmdir(n) \/ cmd_rm(n), RootOK(fs') PROVE PromptOK(fs')
  BY <1>1, <1>5, RemovalPrompt DEF cmd_rmdir, cmd_rm, fs_remove_directory, fs_delete_file
<1>6. ASSUME NEW n \in Names, cmd_touch(n) PROVE PromptOK(fs')
  BY <1>1, <1>6, CommandPrompt DEF cmd_touch
<1>7. ASSUME NEW src \in Names, NEW dest \in Names, cmd_cp(src, dest) PROVE PromptOK(fs')
  BY <1>1, <1>7, CommandPrompt DEF cmd_cp
<1>8. ASSUME NEW src \in Names, NEW dest \in Names, cmd_mv(src, dest), RootOK(fs')
      PROVE  PromptOK(fs')
  BY <1>1, <1>8, CommandPrompt DEF cmd_mv
<1>9. ASSUME NEW n \in Names, NEW data, fs_write_file(n, data) PROVE PromptOK(fs')
  BY <1>1, <1>9, WriteFilePrompt DEF fs_write_file
<1>10. ASSUME fs_write_file(edit.filename, edit.file_buffer) PROVE PromptOK(fs')
  BY <1>1, <1>10, WriteFilePrompt DEF fs_write_file
<1>11. CASE ShellNext /\ RootOK(fs')
  BY <1>2, <1>3, <1>4, <1>5, <1>6, <1>7, <1>8, <1>9, <1>10, <1>11
     DEF ShellNext, cmd_code, cmd_edit, edit_line, edit_write, edit_quit, edit_finish
<1>12. QED
  BY <1>2, <1>11 DEF shell_vars

\* The chain above the current directory is a part of the table without cycles.
LEMMA PromptShown ==
  ASSUME NEW s, PromptOK(s)
  PROVE  CurrentDirOK(s) /\ s.current_path = Getcwd(s)
<1>1. PICK C, h : Climbs(s, C, h)
  BY DEF PromptOK, Climb
<1>2. ASSUME NEW S \in SUBSET (C \ {ROOT_DIR}), S # {}
      PROVE  \E i \in S : s.files[i].parent_id \notin S
  <2> DEFINE heights == {h[i] : i \in S}
  <2>1. heights \in SUBSET Nat /\ heights # {}
    BY <1>1, <1>2 DEF Climbs
  <2> HIDE DEF heights
  <2>2. Min(heights) \in heights /\ \A k \in heights : Min(heights) <= k
    BY <2>1, MinOfNaturals
  <2> PICK i \in S : h[i] = Min(heights)
    BY <2>2 DEF heights
  <2>3. \A j \in S : h[i] <= h[j]
    BY <2>2 DEF heights
  <2>4. /\ h[s.files[i].parent_id] < h[i] /\ h[i] \in Nat
        /\ h[s.files[i].parent_id] \in Nat
    BY <1>1 DEF Climbs
  <2>5. s.files[i].parent_id \notin S
    BY <2>3, <2>4
  <2>6. QED
    BY <2>5
<1>3. s.current_dir \in C /\ \A i \in C : s.files[i].parent_id \in C
  BY <1>1 DEF Climbs
<1>4. Getcwd(s) = RebuiltPath(s)
  BY <1>2, <1>3, GetcwdAbove
<1>5. QED
  BY <1>1, <1>4 DEF PromptOK, PathOK, CurrentDirOK, Climbs

\* While nobody removes the root, the prompt shows where the shell is, whatever
\* else is removed, full directories included.
THEOREM PromptRight == RootKeptSpec => []PromptIsRight
<1>1. ShellInit => ShellOK /\ PromptOK(fs)
  <2>1. PromptOK(fs_init)
    BY RootOnlyTable, RootOnlyPrompt, MakeDirectoryTable, MakeDirectoryPrompt,
       InitDirsAssumption DEF fs_init
  <2>2. QED
    BY <2>1, ShellInitOK DEF ShellInit, Init
<1>2. ShellOK /\ PromptOK(fs) /\ [ShellNext /\ RootOK(fs')]_shell_vars
      => (ShellOK /\ PromptOK(fs))'
  <2>1. SUFFICES ASSUME ShellOK, PromptOK(fs), [ShellNext /\ RootOK(fs')]_shell_vars
                 PROVE  ShellOK' /\ PromptOK(fs')
    BY DEF PromptOK, RootOK, PathOK, Climb, Climbs, RebuiltPath, Ancestors, NamesUpTo, Live
  <2>2. QED
    BY <2>1, ShellNextOK, PromptNext
<1>3. PromptOK(fs) => PromptIsRight
  BY PromptShown DEF PromptIsRight, PathIsFresh
<1>4. QED
  BY <1>1, <1>2, <1>3, PTL DEF RootKeptSpec

=============================================================================
