------------------------ MODULE FileSystemInvariants ------------------------
(***************************************************************************)
(* What the filesystem of FileSystem.tla promises, and to which callers.   *)
(*                                                                         *)
(* The invariants are predicates of a record s, so that the proofs can     *)
(* apply them to the intermediate records of one call.  Three next-state   *)
(* relations are of interest: Next, every call in every state;             *)
(* DocumentedNext, the calls README.md documents (`rm <file>' is for       *)
(* files, `rmdir' for directories); and InPlaceNext, which moreover writes *)
(* only where the allocator has left room.                                 *)
(***************************************************************************)
EXTENDS FileSystem

IsDirectory(s, name) ==
  Exists(s, name) /\ s.files[Lookup(s, name)].type = FILE_TYPE_DIRECTORY

\* A write of n bytes to name stays inside the data area, and reaches bytes
\* the file does not own yet only past the high-water mark.
HasRoom(s, name, n) ==
  LET offset == IF Exists(s, name) THEN s.files[Lookup(s, name)].data_offset
                ELSE s.data_usage
      owned == IF Exists(s, name) THEN s.files[Lookup(s, name)].size ELSE 0
  IN /\ offset + n <= Capacity
     /\ n <= owned \/ offset + owned = s.data_usage

Shown(data) == Len(Clip(data, MAX_FILE_SIZE))
SizeOf(s, name) == IF Exists(s, name) THEN s.files[Lookup(s, name)].size ELSE 0

TableCalls ==
  \/ \E n \in Names, t \in CreateTypes : fs_create_file(n, t)
  \/ \E n \in Names : fs_touch_file(n)
  \/ \E n \in Names : fs_make_directory(n)
  \/ \E n \in Names : fs_remove_directory(n)
  \/ \E n \in Names : ~IsDirectory(fs, n) /\ fs_delete_file(n)
  \/ \E n \in Names \cup {Dot, DotDot, EmptyName} : fs_change_directory(n)

DocumentedNext ==
  \/ TableCalls
  \/ \E n \in Names, d \in Contents : fs_write_file(n, d)
  \/ \E src, dest \in Names : fs_copy_file(src, dest)
  \/ \E src, dest \in Names : fs_move_file(src, dest)

InPlaceNext ==
  \/ TableCalls
  \/ \E n \in Names, d \in Contents : HasRoom(fs, n, Shown(d)) /\ fs_write_file(n, d)
  \/ \E src, dest \in Names : HasRoom(fs, dest, SizeOf(fs, src)) /\ fs_copy_file(src, dest)
  \/ \E src, dest \in Names : HasRoom(fs, dest, SizeOf(fs, src)) /\ fs_move_file(src, dest)

DocSpec == Init /\ [][DocumentedNext]_fs
InPlaceSpec == Init /\ [][InPlaceNext]_fs

-----------------------------------------------------------------------------
(* Types. *)

(* Every field has its C type and every stored id is an index of the table,
   whatever the calls: fs.files[fs.current_dir] and the parent walks of
   rebuild_current_path never leave the array. *)
TypeOK == fs \in filesystem_t

-----------------------------------------------------------------------------
(* The tree. *)

(* Entry 0 stays the root, its own parent, though fs_delete_file and
   fs_remove_directory move entries about the table. *)
RootOK(s) ==
  /\ s.file_count > 0
  /\ s.files[ROOT_DIR].name = RootName
  /\ s.files[ROOT_DIR].type = FILE_TYPE_DIRECTORY
  /\ s.files[ROOT_DIR].parent_id = ROOT_DIR

(* The parent of every entry in use is a directory in use. *)
ParentsAreDirectories(s) ==
  \A i \in Live(s) :
    LET parent == s.files[i].parent_id
    IN parent \in Live(s) /\ s.files[parent].type = FILE_TYPE_DIRECTORY

(* The shell stands in a directory that is still there. *)
CurrentDirOK(s) ==
  s.current_dir \in Live(s) /\ s.files[s.current_dir].type = FILE_TYPE_DIRECTORY

(* No set of entries other than the root is closed under parent_id: every
   walk of rebuild_current_path and fs_getcwd ends at the root. *)
NoCycles(s) ==
  \A S \in SUBSET (Live(s) \ {ROOT_DIR}) :
    S # {} => \E i \in S : s.files[i].parent_id \notin S

(* A directory holds a name once, so find_file_in_dir has one answer. *)
UniqueNames(s) ==
  \A i, j \in Live(s) :
    /\ s.files[i].parent_id = s.files[j].parent_id
    /\ s.files[i].name = s.files[j].name
    => i = j

TreeOK(s) ==
  /\ RootOK(s)
  /\ ParentsAreDirectories(s)
  /\ CurrentDirOK(s)
  /\ NoCycles(s)
  /\ UniqueNames(s)

(* The entries form one tree under the root, and the current directory is in
   it: no call that README.md documents orphans an entry, links a directory
   under itself or leaves current_dir on a slot another entry has taken. *)
TreeIsSound == TreeOK(fs)

(* The path the prompt shows, cached by fs_change_directory alone, is the one
   fs_getcwd works out again: removing an entry renumbers others, perhaps the
   current directory or one above it, and no removal refreshes the cache. *)
PathIsFresh == fs.current_path = Getcwd(fs)

\* MAX_DEPTH levels are enough for the walk up.
WithinDepth(s) ==
  \E k \in 0 .. MAX_DEPTH : Ancestors(s, s.current_dir)[k] = ROOT_DIR

Whole(name) == Components[name] = <<name>>

(* The cached path, given back to fs_resolve_path, leads to the current
   directory, unless the directory is so deep that the path was cut, a name on
   it holds a `/', which strtok would split, or it fills its array to the last
   byte: strncpy then copies no terminator and runs on behind temp_path. *)
PathResolves ==
  /\ WithinDepth(fs) /\ PathBytes(fs.current_path) < MAX_PATH_LENGTH
  /\ \A k \in 1 .. Len(fs.current_path) : Whole(fs.current_path[k])
  => ResolvePath(fs, ROOT_DIR, fs.current_path) = fs.current_dir

-----------------------------------------------------------------------------
(* The data. *)

End(s, i) == s.files[i].data_offset + s.files[i].size

(* No entry's data reaches past the high-water mark, where the next file
   starts. *)
ExtentsWithinUsage(s) == \A i \in Live(s) : End(s, i) <= s.data_usage

(* No two entries share a byte of the data area. *)
ExtentsDisjoint(s) ==
  \A i, j \in Live(s) :
    i # j /\ s.files[i].size > 0 /\ s.files[j].size > 0
    => End(s, i) <= s.files[j].data_offset \/ End(s, j) <= s.files[i].data_offset

ExtentsInside(s) == \A i \in Live(s) : End(s, i) <= Capacity

(* Until a write has left the data area, no extent does, so neither does the
   memcpy of fs_read_file, which checks nothing. *)
UsageWithinCapacity(s) == Faulty(s) \/ s.data_usage <= Capacity

(* After any sequence of calls the next file starts past everything stored,
   and every stored byte lies in the data area. *)
AllocatorIsAhead == ExtentsWithinUsage(fs) /\ UsageWithinCapacity(fs)

(* Files written where there is room never overlap and never leave the data
   area, whatever was removed, renumbered or rewritten before. *)
FilesAreDisjoint == ExtentsDisjoint(fs) /\ ExtentsInside(fs)

(* What fs_write_file accepts, fs_read_file of the same name gives back, cut
   to MAX_FILE_SIZE, also when the write had to create the file. *)
ReadBack ==
  [][\A n \in Names, d \in Contents :
       /\ fs_write_file(n, d)
       /\ WriteResult(fs, n) = FS_SUCCESS
       /\ ~Faulty(fs')
       => /\ ReadResult(fs', n, MAX_FILE_SIZE) = Shown(d)
          /\ ReadBuffer(fs', n, MAX_FILE_SIZE) = Clip(d, MAX_FILE_SIZE)]_fs

SameFiles(s, t) ==
  /\ t.file_count = s.file_count
  /\ t.current_dir = s.current_dir
  /\ t.current_path = s.current_path
  /\ \A i \in Live(s) : t.files[i] = s.files[i] /\ FileBytes(t, i) = FileBytes(s, i)

(* A move that reports an error has changed nothing: the destination created
   on the way is taken back. *)
FailedMoveChangesNothing ==
  [][\A src, dest \in Names :
       /\ fs_move_file(src, dest)
       /\ MoveResult(fs, src, dest) # FS_SUCCESS
       /\ ~Faulty(fs')
       => SameFiles(fs, fs')]_fs

=============================================================================
