----------------------------- MODULE FileSystem -----------------------------
(***************************************************************************)
(* The in-memory filesystem of ChipOS (kernel/fs/fs.c): one table of       *)
(* entries linked into a tree by parent_id, a current directory with a     *)
(* cached path, and one array of file data with a high-water mark.         *)
(*                                                                         *)
(* The C global `fs' is one record-valued variable.  Every function of     *)
(* fs.c that changes it is a pair of operators on such a record s:         *)
(* FooResult(s, ...) is the value the C function returns and Foo(s, ...)   *)
(* the record it leaves behind; the action fs_foo applies Foo to fs.       *)
(* Time stamps and permissions are stored by the code and never read, so   *)
(* they are left out.                                                      *)
(*                                                                         *)
(* The ghost field fault names the first access outside an array.  C gives *)
(* no meaning to what follows, so no action is enabled after a fault.      *)
(*                                                                         *)
(* A definition marked Variant is not used: it is a slip the definition    *)
(* after it avoids, for which TLC must find a property violated.           *)
(***************************************************************************)
EXTENDS Integers, Sequences, FiniteSets, FiniteSetsExt

CONSTANTS
  MAX_FILES,         \* entries of the table
  MAX_FILE_SIZE,     \* bytes a file may hold
  MAX_FILENAME,      \* bytes of a stored name, terminator included
  MAX_PATH_LENGTH,   \* bytes of the cached path, terminator included
  MAX_DEPTH,         \* levels rebuild_current_path and fs_getcwd walk up
  Names,             \* the strings callers pass as names
  RootName, Dot, DotDot, EmptyName,   \* "/", ".", ".." and ""
  NameLen,           \* strlen of each name
  Components,        \* what strtok(name, "/") yields for each name
  Bytes, Zero,       \* the byte values, and the zero of memset
  Contents,          \* the data callers pass to fs_write_file
  CreateTypes,       \* the types callers pass to fs_create_file
  Home, Bin, Etc     \* the directories fs_init makes

FILE_TYPE_REGULAR == "REGULAR"
FILE_TYPE_DIRECTORY == "DIRECTORY"
FILE_TYPE_DEVICE == "DEVICE"
FileTypes == {FILE_TYPE_REGULAR, FILE_TYPE_DIRECTORY, FILE_TYPE_DEVICE}

ASSUME SizesAssumption ==
  /\ MAX_FILES \in Nat \ {0}
  /\ MAX_FILE_SIZE \in Nat \ {0}
  /\ MAX_FILENAME \in Nat \ {0}
  /\ MAX_PATH_LENGTH \in Nat
  /\ MAX_DEPTH \in Nat \ {0}

ASSUME NamesAssumption ==
  /\ NameLen \in [Names \cup {RootName} -> Nat]
  /\ Components \in [Names \cup {RootName} -> Seq(Names)]
  /\ \A n \in Names : NameLen[n] = 0 <=> n = EmptyName
  /\ Dot # DotDot /\ RootName \notin {Dot, DotDot, EmptyName}

ASSUME DataAssumption ==
  /\ Zero \in Bytes
  /\ Contents \subseteq Seq(Bytes)
  /\ CreateTypes \subseteq FileTypes

\* mkdir refuses a name that is taken, so an instance that gives two of them
\* one name starts with fewer directories.
ASSUME InitDirsAssumption == {Home, Bin, Etc} \subseteq Names \cup {RootName}

FS_SUCCESS == 0
FS_ERROR_NOT_FOUND == -1
FS_ERROR_INVALID_NAME == -2
FS_ERROR_NO_SPACE == -3
FS_ERROR_ALREADY_EXISTS == -4
FS_ERROR_INVALID_PATH == -5
FS_ERROR_NOT_DIRECTORY == -6
FS_ERROR_NOT_EMPTY == -7
FS_ERROR_PERMISSION_DENIED == -8

\* The faults: strncpy given a name with no room for its terminator, memcpy
\* past data_storage, strcat past current_path.
NoFault == "none"
NameOverrun == "name_overrun"
StorageOverrun == "storage_overrun"
PathOverrun == "path_overrun"
Faults == {NoFault, NameOverrun, StorageOverrun, PathOverrun}

FileIds == 0 .. MAX_FILES - 1
ROOT_DIR == 0
NotFound == -1
Capacity == MAX_FILES * MAX_FILE_SIZE

EntryNames == Names \cup {RootName, EmptyName}

file_entry_t == [name : EntryNames, type : FileTypes,
                 size : 0 .. MAX_FILE_SIZE, parent_id : FileIds,
                 data_offset : Nat]

filesystem_t == [files : [FileIds -> file_entry_t],
                 file_count : 0 .. MAX_FILES,
                 current_dir : FileIds,
                 current_path : Seq(EntryNames),
                 data_storage : [0 .. Capacity - 1 -> Bytes],
                 data_usage : Nat,
                 next_file_id : Nat,
                 fault : Faults]

VARIABLE fs

\* The entries in use: what every loop of fs.c runs over.
Live(s) == 0 .. s.file_count - 1

Faulty(s) == s.fault # NoFault

-----------------------------------------------------------------------------
(* Looking up and reading. *)

\* The first match wins: ids are positions in the table.
find_file_in_dir(s, dir_id, name) ==
  LET found == {i \in Live(s) : s.files[i].parent_id = dir_id /\ s.files[i].name = name}
  IN IF found = {} THEN NotFound ELSE Min(found)

Lookup(s, name) == find_file_in_dir(s, s.current_dir, name)
Exists(s, name) == Lookup(s, name) # NotFound

FileBytes(s, i) ==
  [k \in 1 .. s.files[i].size |-> s.data_storage[s.files[i].data_offset + k - 1]]

\* Variant: the size is believed.
ClipNothing(data, size) == data

Clip(data, size) == SubSeq(data, 1, IF Len(data) < size THEN Len(data) ELSE size)

\* A negative error code, or the number of bytes copied to the buffer.
ReadResult(s, name, size) ==
  IF ~Exists(s, name) \/ s.files[Lookup(s, name)].type # FILE_TYPE_REGULAR
  THEN FS_ERROR_INVALID_PATH
  ELSE Len(Clip(FileBytes(s, Lookup(s, name)), size))

ReadBuffer(s, name, size) == Clip(FileBytes(s, Lookup(s, name)), size)

-----------------------------------------------------------------------------
(* Creating and writing. *)

CreateResult(s, name) ==
  IF s.file_count >= MAX_FILES THEN FS_ERROR_NO_SPACE
  ELSE IF Exists(s, name) THEN FS_ERROR_ALREADY_EXISTS
  ELSE FS_SUCCESS

\* Variant: every file starts where the data area does.
CreatedAtZero(s, name, type) ==
  [s EXCEPT !.files[s.file_count] =
               [name |-> name, type |-> type, size |-> 0,
                parent_id |-> s.current_dir, data_offset |-> 0],
            !.file_count = @ + 1,
            !.fault = IF NameLen[name] >= MAX_FILENAME - 1 THEN NameOverrun ELSE @]

\* A new entry takes the first free slot and the end of the used data.
\* strncpy(…, MAX_FILENAME - 1) of a name that long or longer does not stop.
Created(s, name, type) ==
  [s EXCEPT !.files[s.file_count] =
               [name |-> name, type |-> type, size |-> 0,
                parent_id |-> s.current_dir, data_offset |-> s.data_usage],
            !.file_count = @ + 1,
            !.fault = IF NameLen[name] >= MAX_FILENAME - 1 THEN NameOverrun ELSE @]

CreateFile(s, name, type) ==
  IF CreateResult(s, name) = FS_SUCCESS THEN Created(s, name, type) ELSE s

WriteResult(s, name) ==
  IF ~Exists(s, name)
  THEN IF CreateResult(s, name) = FS_SUCCESS THEN FS_SUCCESS ELSE FS_ERROR_NO_SPACE
  ELSE IF s.files[Lookup(s, name)].type # FILE_TYPE_REGULAR THEN FS_ERROR_INVALID_PATH
  ELSE FS_SUCCESS

Copied(s, i, data) ==
  LET offset == s.files[i].data_offset
  IN [k \in 0 .. Capacity - 1 |->
        IF k \in offset .. offset + Len(data) - 1 THEN data[k - offset + 1]
        ELSE s.data_storage[k]]

\* Variant: the high-water mark stays.
StoredBelowUsage(s, i, data) ==
  [s EXCEPT !.data_storage = Copied(s, i, data),
            !.files[i].size = Len(data)]

\* The copy into the data area at the entry's offset, whatever lies there.
Stored(s, i, data) ==
  LET end == s.files[i].data_offset + Len(data)
  IN [s EXCEPT !.data_storage = Copied(s, i, data),
               !.files[i].size = Len(data),
               !.data_usage = IF end > @ THEN end ELSE @,
               !.fault = IF end > Capacity THEN StorageOverrun ELSE @]

\* Variant: the file is created and nothing more.
WriteFileCreating(s, name, data) ==
  LET t == CreateFile(s, name, FILE_TYPE_REGULAR)
  IN IF WriteResult(s, name) # FS_SUCCESS \/ ~Exists(s, name) THEN t
     ELSE Stored(s, Lookup(s, name), Clip(data, MAX_FILE_SIZE))

WriteFile(s, name, data) ==
  LET t == IF Exists(s, name) THEN s ELSE CreateFile(s, name, FILE_TYPE_REGULAR)
  IN IF WriteResult(s, name) # FS_SUCCESS \/ Faulty(t) THEN t
     ELSE Stored(t, Lookup(t, name), Clip(data, MAX_FILE_SIZE))

TouchFile(s, name) ==
  IF Exists(s, name) THEN s ELSE WriteFile(s, name, <<>>)

-----------------------------------------------------------------------------
(* Removing: the last entry moves into the hole, and every reference to it *)
(* follows it. *)

\* Variant: the entry moves and nothing follows it.
SwapOutAlone(s, id) ==
  LET last == s.file_count - 1
  IN [s EXCEPT !.files[id] = s.files[last], !.file_count = last]

SwapOut(s, id) ==
  LET last == s.file_count - 1
      follow(d) == IF d = last THEN id ELSE d
      reparented == [i \in FileIds |->
                       IF i \in Live(s)
                       THEN [s.files[i] EXCEPT !.parent_id = follow(@)]
                       ELSE s.files[i]]
  IN IF id < last
     THEN [s EXCEPT !.files = [reparented EXCEPT ![id] = reparented[last]],
                    !.current_dir = follow(@),
                    !.file_count = last]
     ELSE [s EXCEPT !.file_count = last]

DeleteResult(s, name) == IF Exists(s, name) THEN FS_SUCCESS ELSE FS_ERROR_NOT_FOUND

\* fs_delete_file does not look at the type of what it deletes.
DeleteFile(s, name) ==
  IF Exists(s, name) THEN SwapOut(s, Lookup(s, name)) ELSE s

HasChildren(s, id) == \E i \in Live(s) : s.files[i].parent_id = id

RemoveDirectoryResult(s, name) ==
  IF ~Exists(s, name) THEN FS_ERROR_NOT_FOUND
  ELSE IF s.files[Lookup(s, name)].type # FILE_TYPE_DIRECTORY THEN FS_ERROR_NOT_DIRECTORY
  ELSE IF HasChildren(s, Lookup(s, name)) THEN FS_ERROR_NOT_EMPTY
  ELSE FS_SUCCESS

RemoveDirectory(s, name) ==
  IF RemoveDirectoryResult(s, name) = FS_SUCCESS
  THEN SwapOut(s, Lookup(s, name)) ELSE s

-----------------------------------------------------------------------------
(* Directories and paths. *)

MakeDirectoryResult(s, name) ==
  IF NameLen[name] \notin 1 .. MAX_FILENAME - 1 THEN FS_ERROR_INVALID_NAME
  ELSE IF Exists(s, name) THEN FS_ERROR_ALREADY_EXISTS
  ELSE IF s.file_count >= MAX_FILES \/ s.next_file_id >= MAX_FILES
       THEN FS_ERROR_NO_SPACE
  ELSE FS_SUCCESS

MakeDirectory(s, name) ==
  IF MakeDirectoryResult(s, name) # FS_SUCCESS THEN s
  ELSE [s EXCEPT !.files[s.file_count] =
                    [name |-> name, type |-> FILE_TYPE_DIRECTORY, size |-> 0,
                     parent_id |-> s.current_dir, data_offset |-> 0],
                 !.file_count = @ + 1,
                 !.next_file_id = @ + 1]

\* The directories met walking up from d, as far as the walk can go.
Ancestors(s, d) ==
  LET up[k \in 0 .. MAX_DEPTH] ==
        IF k = 0 THEN d ELSE s.files[up[k - 1]].parent_id
  IN up

\* Variant: the innermost directory first.
NamesUpwards(s, up, depth) ==
  [j \in 1 .. depth |-> s.files[up[j - 1]].name]

NamesUpTo(s, up, depth) ==
  [j \in 1 .. depth |-> s.files[up[depth - j]].name]

\* rebuild_current_path stops at the root or after MAX_DEPTH levels ...
RebuiltPath(s) ==
  LET up == Ancestors(s, s.current_dir)
  IN NamesUpTo(s, up, Min({k \in 0 .. MAX_DEPTH : up[k] = ROOT_DIR} \cup {MAX_DEPTH}))

\* ... and fs_getcwd also when it meets the directory it started from.
Getcwd(s) ==
  LET up == Ancestors(s, s.current_dir)
      stops == {k \in 0 .. MAX_DEPTH : up[k] = ROOT_DIR \/ (k > 0 /\ up[k] = up[0])}
  IN NamesUpTo(s, up, Min(stops \cup {MAX_DEPTH}))

\* Bytes of "/a/b" with its terminator.
PathBytes(path) ==
  IF path = <<>> THEN 2
  ELSE MapThenSumSet(LAMBDA j : NameLen[path[j]] + 1, 1 .. Len(path)) + 1

Rebuilt(s) ==
  [s EXCEPT !.current_path = RebuiltPath(s),
            !.fault = IF PathBytes(RebuiltPath(s)) > MAX_PATH_LENGTH THEN PathOverrun ELSE @]

ChangeDirectoryResult(s, path) ==
  IF path = EmptyName THEN FS_ERROR_INVALID_PATH
  ELSE IF path \in {Dot, DotDot} THEN FS_SUCCESS
  ELSE IF ~Exists(s, path) THEN FS_ERROR_NOT_FOUND
  ELSE IF s.files[Lookup(s, path)].type # FILE_TYPE_DIRECTORY THEN FS_ERROR_NOT_DIRECTORY
  ELSE FS_SUCCESS

\* Variant: going up keeps the cached path.
ChangeDirectoryStale(s, path) ==
  IF ChangeDirectoryResult(s, path) # FS_SUCCESS \/ path = Dot THEN s
  ELSE IF path = DotDot
  THEN [s EXCEPT !.current_dir = s.files[s.current_dir].parent_id]
  ELSE Rebuilt([s EXCEPT !.current_dir = Lookup(s, path)])

ChangeDirectory(s, path) ==
  IF ChangeDirectoryResult(s, path) # FS_SUCCESS \/ path = Dot THEN s
  ELSE IF path = DotDot
  THEN Rebuilt([s EXCEPT !.current_dir = s.files[s.current_dir].parent_id])
  ELSE Rebuilt([s EXCEPT !.current_dir = Lookup(s, path)])

\* fs_resolve_path on a path whose components are tokens: every one of them
\* must name a directory; "." and ".." are looked up like any other name.
\* Only of paths whose copy fits: strncpy (fs.c 528) overruns temp_path when the
\* path has MAX_PATH - 1 characters or more.
ResolvePath(s, start, tokens) ==
  LET dir[k \in 0 .. Len(tokens)] ==
        IF k = 0 THEN start
        ELSE LET next == find_file_in_dir(s, dir[k - 1], tokens[k])
             IN IF dir[k - 1] = NotFound \/ next = NotFound THEN NotFound
                ELSE IF s.files[next].type # FILE_TYPE_DIRECTORY THEN NotFound
                ELSE next
  IN dir[Len(tokens)]

-----------------------------------------------------------------------------
(* Copying and moving, built from the operations above. *)

CopyResult(s, src, dest) ==
  IF ReadResult(s, src, MAX_FILE_SIZE) < 0 THEN ReadResult(s, src, MAX_FILE_SIZE)
  ELSE WriteResult(s, dest)

CopyFile(s, src, dest) ==
  IF ReadResult(s, src, MAX_FILE_SIZE) < 0 THEN s
  ELSE WriteFile(s, dest, ReadBuffer(s, src, MAX_FILE_SIZE))

\* Variant: no cleanup after a short read.
MovedIntoOrElse(s, src, dest) ==
  LET entry == s.files[Lookup(s, src)]
      written == WriteFile(s, dest, ReadBuffer(s, src, entry.size))
  IN IF ReadResult(s, src, entry.size) # entry.size \/ Faulty(written) THEN written
     ELSE DeleteFile(written, src)

\* fs_move_file, once the destination has been created: an error on the way
\* deletes the destination again.
MovedInto(s, src, dest) ==
  LET entry == s.files[Lookup(s, src)]
      written == WriteFile(s, dest, ReadBuffer(s, src, entry.size))
  IN IF ReadResult(s, src, entry.size) # entry.size THEN DeleteFile(s, dest)
     ELSE IF WriteResult(s, dest) # FS_SUCCESS THEN DeleteFile(s, dest)
     ELSE IF Faulty(written) THEN written
     ELSE DeleteFile(written, src)

MoveResult(s, src, dest) ==
  LET t == CreateFile(s, dest, s.files[Lookup(s, src)].type)
      size == t.files[Lookup(t, src)].size
  IN IF ~Exists(s, src) THEN FS_ERROR_NOT_FOUND
     ELSE IF Exists(s, dest) THEN FS_ERROR_ALREADY_EXISTS
     ELSE IF CreateResult(s, dest) # FS_SUCCESS THEN CreateResult(s, dest)
     ELSE IF ReadResult(t, src, size) = size /\ WriteResult(t, dest) = FS_SUCCESS
     THEN FS_SUCCESS ELSE FS_ERROR_PERMISSION_DENIED

MoveFile(s, src, dest) ==
  LET t == CreateFile(s, dest, s.files[Lookup(s, src)].type)
  IN IF ~Exists(s, src) \/ CreateResult(s, dest) # FS_SUCCESS THEN s
     ELSE IF Faulty(t) THEN t
     ELSE MovedInto(t, src, dest)

-----------------------------------------------------------------------------
(* The initial state of fs_init, and the calls. *)

EmptyEntry == [name |-> EmptyName, type |-> FILE_TYPE_REGULAR, size |-> 0,
               parent_id |-> ROOT_DIR, data_offset |-> 0]

RootOnly ==
  [files |-> [i \in FileIds |->
                IF i = ROOT_DIR THEN [EmptyEntry EXCEPT !.name = RootName,
                                                        !.type = FILE_TYPE_DIRECTORY]
                ELSE EmptyEntry],
   file_count |-> 1, current_dir |-> ROOT_DIR, current_path |-> <<>>,
   data_storage |-> [k \in 0 .. Capacity - 1 |-> Zero],
   data_usage |-> 0, next_file_id |-> 1, fault |-> NoFault]

fs_init ==
  MakeDirectory(MakeDirectory(MakeDirectory(RootOnly, Home), Bin), Etc)

Init == fs = fs_init

\* What may still run: nothing after a fault.
Running == ~Faulty(fs)

fs_create_file(name, type) == Running /\ fs' = CreateFile(fs, name, type)
fs_write_file(name, data) == Running /\ fs' = WriteFile(fs, name, data)
fs_touch_file(name) == Running /\ fs' = TouchFile(fs, name)
fs_make_directory(name) == Running /\ fs' = MakeDirectory(fs, name)
fs_remove_directory(name) == Running /\ fs' = RemoveDirectory(fs, name)
fs_delete_file(name) == Running /\ fs' = DeleteFile(fs, name)
fs_change_directory(path) == Running /\ fs' = ChangeDirectory(fs, path)
fs_copy_file(src, dest) == Running /\ fs' = CopyFile(fs, src, dest)
fs_move_file(src, dest) == Running /\ fs' = MoveFile(fs, src, dest)

-----------------------------------------------------------------------------
Next ==
  \/ \E n \in Names, t \in CreateTypes : fs_create_file(n, t)
  \/ \E n \in Names, d \in Contents : fs_write_file(n, d)
  \/ \E n \in Names : fs_touch_file(n)
  \/ \E n \in Names : fs_make_directory(n)
  \/ \E n \in Names : fs_remove_directory(n)
  \/ \E n \in Names : fs_delete_file(n)
  \/ \E n \in Names \cup {Dot, DotDot, EmptyName} : fs_change_directory(n)
  \/ \E src, dest \in Names : fs_copy_file(src, dest)
  \/ \E src, dest \in Names : fs_move_file(src, dest)

Spec == Init /\ [][Next]_fs

=============================================================================
