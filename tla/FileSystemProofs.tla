-------------------------- MODULE FileSystemProofs --------------------------
(***************************************************************************)
(* Proofs about FileSystem.tla, for every value of its constants: first    *)
(* the table, then the tree of its entries and the cached path, then the   *)
(* bytes of the data area.                                                 *)
(*                                                                         *)
(* A call is a chain of operators on the record s, so there is one lemma   *)
(* per operator and per invariant; the step of an action strings them      *)
(* together.                                                               *)
(***************************************************************************)
EXTENDS FileSystemInvariants, Ranges, TLAPS

-----------------------------------------------------------------------------
(* Looking up. *)

\* An id that find_file_in_dir returns is an entry in use with that parent and
\* that name; when it returns none, there is no such entry.
LEMMA LookupDef ==
  ASSUME NEW s \in filesystem_t, NEW dir_id, NEW name
  PROVE  LET id == find_file_in_dir(s, dir_id, name)
         IN /\ id \in Live(s) \cup {NotFound}
            /\ id # NotFound => /\ id \in Live(s)
                                /\ s.files[id].parent_id = dir_id
                                /\ s.files[id].name = name
            /\ id = NotFound =>
                 \A i \in Live(s) : ~(s.files[i].parent_id = dir_id /\ s.files[i].name = name)
<1> DEFINE found == {i \in Live(s) : s.files[i].parent_id = dir_id /\ s.files[i].name = name}
<1>1. s.file_count \in Nat
  BY SizesAssumption DEF filesystem_t
<1>2. found \in SUBSET Nat
  BY <1>1 DEF Live
<1>3. find_file_in_dir(s, dir_id, name) = IF found = {} THEN NotFound ELSE Min(found)
  BY DEF find_file_in_dir
<1>4. CASE found = {}
  BY <1>3, <1>4
<1>5. CASE found # {}
  <2>1. Min(found) \in found
    <3> HIDE DEF found
    <3>1. QED
      BY <1>2, <1>5, MinOfNaturals
  <2>2. NotFound \notin found
    BY <1>2 DEF NotFound
  <2>3. QED
    BY <1>3, <1>5, <2>1, <2>2
<1>6. QED
  BY <1>4, <1>5

\* Every entry in use has its place in the table.
LEMMA LiveInTable ==
  ASSUME NEW s \in filesystem_t
  PROVE  /\ s.file_count \in Nat
         /\ Live(s) \subseteq FileIds
         /\ \A i \in Live(s) : i \in Nat /\ i < s.file_count
BY SizesAssumption DEF filesystem_t, Live, FileIds

\* A name that exists is found at an index of the table.
LEMMA LookupInTable ==
  ASSUME NEW s \in filesystem_t, NEW name, Exists(s, name)
  PROVE  /\ Lookup(s, name) \in Live(s)
         /\ Lookup(s, name) \in FileIds
         /\ s.files[Lookup(s, name)].parent_id = s.current_dir
         /\ s.files[Lookup(s, name)].name = name
BY LookupDef, LiveInTable DEF Exists, Lookup

-----------------------------------------------------------------------------
(* The walk up the tree. *)

\* What the recursive definition of Ancestors defines.
LEMMA AncestorsDef ==
  ASSUME NEW s, NEW d
  PROVE  Ancestors(s, d) =
           [k \in 0 .. MAX_DEPTH |->
              IF k = 0 THEN d ELSE s.files[Ancestors(s, d)[k - 1]].parent_id]
<1> DEFINE Walk(f, n) ==
      f = [k \in 0 .. n |-> IF k = 0 THEN d ELSE s.files[f[k - 1]].parent_id]
<1> DEFINE P == {n \in 0 .. MAX_DEPTH : \E f : Walk(f, n)}
<1>1. 0 \in P
  <2>1. Walk([k \in 0 .. 0 |-> d], 0)
    OBVIOUS
  <2>2. 0 \in 0 .. MAX_DEPTH
    BY SizesAssumption
  <2>3. QED
    BY <2>1, <2>2
<1>2. ASSUME NEW n \in 0 .. MAX_DEPTH - 1, n \in P PROVE n + 1 \in P
  <2>1. PICK f : Walk(f, n)
    BY <1>2
  <2> DEFINE g == [k \in 0 .. n + 1 |->
                     IF k = n + 1 THEN s.files[f[n]].parent_id ELSE f[k]]
  <2>2. Walk(g, n + 1)
    <3>1. \A k \in 0 .. n + 1 :
             g[k] = IF k = 0 THEN d ELSE s.files[g[k - 1]].parent_id
      <4> TAKE k \in 0 .. n + 1
      <4>1. CASE k = n + 1
        BY <4>1
      <4>2. CASE k # n + 1
        <5>1. k \in 0 .. n /\ g[k] = f[k]
          BY <4>2
        <5>2. f[k] = IF k = 0 THEN d ELSE s.files[f[k - 1]].parent_id
          BY <2>1, <5>1
        <5>3. k # 0 => k - 1 \in 0 .. n + 1 /\ g[k - 1] = f[k - 1]
          BY <5>1
        <5>4. QED
          BY <5>1, <5>2, <5>3
      <4>3. QED
        BY <4>1, <4>2
    <3>2. QED
      BY <3>1
  <2>3. n + 1 \in 0 .. MAX_DEPTH
    BY SizesAssumption
  <2>4. QED
    BY <2>2, <2>3
<1>3. P = 0 .. MAX_DEPTH
  <2>1. P \in SUBSET (0 .. MAX_DEPTH)
    OBVIOUS
  <2> HIDE DEF P
  <2>2. QED
    BY <1>1, <1>2, <2>1, RangeInduction, SizesAssumption
<1>4. \E f : Walk(f, MAX_DEPTH)
  <2>1. MAX_DEPTH \in P
    <3> HIDE DEF P
    <3>1. QED
      BY <1>3, SizesAssumption
  <2> HIDE DEF Walk
  <2>2. QED
    BY <2>1
<1>5. Ancestors(s, d) = CHOOSE f : Walk(f, MAX_DEPTH)
  BY DEF Ancestors
<1>6. Walk(Ancestors(s, d), MAX_DEPTH)
  <2> HIDE DEF Walk
  <2>1. QED
    BY <1>4, <1>5
<1>7. QED
  BY <1>6

\* Walking up from an entry of the table stays in the table.
LEMMA AncestorsType ==
  ASSUME NEW s \in filesystem_t, NEW d \in FileIds
  PROVE  \A k \in 0 .. MAX_DEPTH : Ancestors(s, d)[k] \in FileIds
<1> DEFINE up == Ancestors(s, d)
<1> DEFINE P == {k \in 0 .. MAX_DEPTH : up[k] \in FileIds}
<1>1. up = [k \in 0 .. MAX_DEPTH |-> IF k = 0 THEN d ELSE s.files[up[k - 1]].parent_id]
  BY AncestorsDef
<1> HIDE DEF up
<1>2. 0 \in P
  BY <1>1, SizesAssumption
<1>3. ASSUME NEW k \in 0 .. MAX_DEPTH - 1, k \in P PROVE k + 1 \in P
  <2>1. k + 1 \in 0 .. MAX_DEPTH /\ up[k + 1] = s.files[up[k]].parent_id
    BY <1>1, SizesAssumption
  <2>2. s.files[up[k]].parent_id \in FileIds
    BY <1>3 DEF filesystem_t, file_entry_t
  <2>3. QED
    BY <2>1, <2>2
<1>4. P = 0 .. MAX_DEPTH
  <2>1. P \in SUBSET (0 .. MAX_DEPTH)
    OBVIOUS
  <2> HIDE DEF P
  <2>2. QED
    BY <1>2, <1>3, <2>1, RangeInduction, SizesAssumption
<1>5. QED
  BY <1>4 DEF up

\* rebuild_current_path yields a sequence of names.
LEMMA RebuiltPathType ==
  ASSUME NEW s \in filesystem_t
  PROVE  RebuiltPath(s) \in Seq(EntryNames)
<1> DEFINE up == Ancestors(s, s.current_dir)
<1> DEFINE stops == {k \in 0 .. MAX_DEPTH : up[k] = ROOT_DIR} \cup {MAX_DEPTH}
<1> DEFINE depth == Min(stops)
<1>1. \A k \in 0 .. MAX_DEPTH : up[k] \in FileIds
  BY AncestorsType DEF filesystem_t
<1>2. depth \in 0 .. MAX_DEPTH
  <2>1. stops \in SUBSET Nat /\ stops # {}
    BY SizesAssumption
  <2>2. stops \subseteq 0 .. MAX_DEPTH
    BY SizesAssumption
  <2> HIDE DEF stops
  <2>3. QED
    BY <2>1, <2>2, MinOfNaturals
<1>3. RebuiltPath(s) = [j \in 1 .. depth |-> s.files[up[depth - j]].name]
  BY DEF RebuiltPath, NamesUpTo
<1> HIDE DEF depth, up
<1>4. \A j \in 1 .. depth : s.files[up[depth - j]].name \in EntryNames
  <2> TAKE j \in 1 .. depth
  <2>1. depth - j \in 0 .. MAX_DEPTH
    BY <1>2, SizesAssumption
  <2>2. up[depth - j] \in FileIds
    BY <1>1, <2>1
  <2>3. QED
    BY <2>2 DEF filesystem_t, file_entry_t
<1>5. QED
  BY <1>2, <1>3, <1>4

-----------------------------------------------------------------------------
(* Types, and the allocator: every operator keeps the table well typed and   *)
(* the high-water mark past every entry's data.                              *)

TableOK(s) ==
  s \in filesystem_t /\ ExtentsWithinUsage(s) /\ UsageWithinCapacity(s)

\* A new entry starts at the high-water mark and takes no byte yet.
LEMMA CreatedTable ==
  ASSUME NEW s, TableOK(s), s.file_count < MAX_FILES,
         NEW name \in EntryNames, NEW type \in FileTypes
  PROVE  TableOK(Created(s, name, type))
<1> DEFINE t == Created(s, name, type)
<1> DEFINE entry == [name |-> name, type |-> type, size |-> 0,
                     parent_id |-> s.current_dir, data_offset |-> s.data_usage]
<1>1. s \in filesystem_t /\ s.file_count \in FileIds /\ s.file_count + 1 \in 0 .. MAX_FILES
  BY SizesAssumption DEF TableOK, filesystem_t, FileIds
<1>2. entry \in file_entry_t
  BY <1>1, SizesAssumption DEF file_entry_t, filesystem_t
<1>3. t.files = [s.files EXCEPT ![s.file_count] = entry]
  BY <1>1 DEF Created, filesystem_t
<1>4. t.fault \in Faults
  BY <1>1 DEF Created, filesystem_t, Faults
<1>5. t \in filesystem_t
  BY <1>1, <1>2, <1>4 DEF Created, filesystem_t
<1>6. ExtentsWithinUsage(t)
  <2> SUFFICES ASSUME NEW i \in Live(t) PROVE End(t, i) <= t.data_usage
    BY DEF ExtentsWithinUsage
  <2>1. t.data_usage = s.data_usage /\ t.file_count = s.file_count + 1
    BY <1>1 DEF Created, filesystem_t
  <2>2. CASE i = s.file_count
    BY <1>1, <1>3, <2>1, <2>2 DEF End, filesystem_t
  <2>3. CASE i # s.file_count
    <3>1. i \in Live(s) /\ t.files[i] = s.files[i]
      BY <1>1, <1>3, <2>1, <2>3 DEF Live, filesystem_t
    <3>2. QED
      BY <2>1, <3>1 DEF TableOK, ExtentsWithinUsage, End
  <2>4. QED
    BY <2>2, <2>3
<1>7. UsageWithinCapacity(t)
  BY <1>1 DEF Created, TableOK, UsageWithinCapacity, Faulty, NameOverrun, NoFault, filesystem_t
<1>8. QED
  BY <1>5, <1>6, <1>7 DEF TableOK

\* Storing the data of an entry moves the mark past it.
LEMMA StoredTable ==
  ASSUME NEW s, TableOK(s), NEW i \in FileIds,
         NEW data \in Seq(Bytes), Len(data) <= MAX_FILE_SIZE
  PROVE  TableOK(Stored(s, i, data))
<1> DEFINE t == Stored(s, i, data)
<1> DEFINE offset == s.files[i].data_offset
<1> DEFINE top == offset + Len(data)
<1>1. s \in filesystem_t /\ s.files[i] \in file_entry_t /\ offset \in Nat /\ s.data_usage \in Nat
  BY DEF TableOK, filesystem_t, file_entry_t
<1>2. Len(data) \in 0 .. MAX_FILE_SIZE
  BY SizesAssumption
<1>3. t.files = [s.files EXCEPT ![i].size = Len(data)]
  BY <1>1 DEF Stored, filesystem_t, file_entry_t
<1>4. t.files \in [FileIds -> file_entry_t]
  BY <1>1, <1>2, <1>3 DEF filesystem_t, file_entry_t
<1>5. t.data_storage \in [0 .. Capacity - 1 -> Bytes]
  <2>1. t.data_storage =
          [k \in 0 .. Capacity - 1 |->
             IF k \in offset .. top - 1 THEN data[k - offset + 1] ELSE s.data_storage[k]]
    BY <1>1 DEF Stored, Copied, filesystem_t, file_entry_t
  <2>2. \A k \in 0 .. Capacity - 1 : k \in offset .. top - 1 => data[k - offset + 1] \in Bytes
    <3> TAKE k \in 0 .. Capacity - 1
    <3>1. HAVE k \in offset .. top - 1
    <3>2. k - offset + 1 \in 1 .. Len(data)
      <4> HIDE DEF t, offset
      <4>1. offset \in Nat /\ Len(data) \in Nat
        BY <1>1
      <4>2. QED
        BY <3>1, <4>1, Recounted
    <3>3. QED
      BY <3>2
  <2>3. \A k \in 0 .. Capacity - 1 : s.data_storage[k] \in Bytes
    BY <1>1 DEF filesystem_t
  <2>4. QED
    BY <2>1, <2>2, <2>3
<1>6. t.fault \in Faults
  BY <1>1 DEF Stored, filesystem_t, file_entry_t, Faults
<1>7. t.data_usage = (IF top > s.data_usage THEN top ELSE s.data_usage) /\ t.data_usage \in Nat
  BY <1>1, <1>2 DEF Stored, filesystem_t, file_entry_t
<1>8. t.file_count = s.file_count
  BY <1>1 DEF Stored, filesystem_t, file_entry_t
<1>9. t \in filesystem_t
  <2>1. t = [s EXCEPT !.data_storage = t.data_storage, !.files = t.files,
                      !.data_usage = t.data_usage, !.fault = t.fault]
    BY <1>1 DEF Stored, filesystem_t, file_entry_t
  <2> HIDE DEF t
  <2>2. QED
    BY <1>1, <1>4, <1>5, <1>6, <1>7, <2>1 DEF filesystem_t
<1>10. ExtentsWithinUsage(t)
  <2> SUFFICES ASSUME NEW j \in Live(t) PROVE End(t, j) <= t.data_usage
    BY DEF ExtentsWithinUsage
  <2>1. j \in Live(s) /\ j \in FileIds /\ s.files[j] \in file_entry_t
    BY <1>1, <1>8, LiveInTable DEF Live, filesystem_t
  <2>2. CASE j = i
    <3>1. t.files[j].data_offset = offset /\ t.files[j].size = Len(data)
      BY <1>1, <1>3, <2>2 DEF filesystem_t, file_entry_t
    <3>2. QED
      BY <1>1, <1>2, <1>7, <3>1 DEF End
  <2>3. CASE j # i
    <3>1. t.files[j] = s.files[j]
      BY <1>1, <1>3, <2>1, <2>3 DEF filesystem_t
    <3>2. End(s, j) <= s.data_usage /\ End(s, j) \in Nat
      BY <2>1, SizesAssumption DEF TableOK, ExtentsWithinUsage, End, file_entry_t
    <3>3. QED
      BY <1>1, <1>2, <1>7, <3>1, <3>2 DEF End
  <2>4. QED
    BY <2>2, <2>3
<1>11. UsageWithinCapacity(t)
  <2>1. t.fault = IF top > Capacity THEN StorageOverrun ELSE s.fault
    BY <1>1 DEF Stored, filesystem_t, file_entry_t
  <2>2. Capacity \in Nat
    BY SizesAssumption DEF Capacity
  <2>3. StorageOverrun # NoFault
    BY DEF StorageOverrun, NoFault
  <2>4. Faulty(s) \/ s.data_usage <= Capacity
    BY DEF TableOK, UsageWithinCapacity
  <2> HIDE DEF t
  <2>5. QED
    BY <1>1, <1>2, <1>7, <2>1, <2>2, <2>3, <2>4 DEF UsageWithinCapacity, Faulty
<1>12. QED
  BY <1>9, <1>10, <1>11 DEF TableOK

\* Moving the last entry into a hole takes its extent along.
LEMMA SwapOutTable ==
  ASSUME NEW s, TableOK(s), NEW id \in Live(s)
  PROVE  TableOK(SwapOut(s, id))
<1> DEFINE t == SwapOut(s, id)
<1> DEFINE last == s.file_count - 1
<1> DEFINE follow(d) == IF d = last THEN id ELSE d
<1> DEFINE reparented == [i \in FileIds |->
                            IF i \in Live(s)
                            THEN [s.files[i] EXCEPT !.parent_id = follow(@)]
                            ELSE s.files[i]]
<1>1. s \in filesystem_t
  BY DEF TableOK
<1>2. s.file_count \in Nat /\ last \in Live(s) /\ last \in FileIds /\ id \in FileIds
      /\ last \in 0 .. MAX_FILES
  <2>1. s.file_count \in 0 .. MAX_FILES /\ id \in 0 .. s.file_count - 1
    BY <1>1 DEF filesystem_t, Live
  <2>2. QED
    BY <2>1, SizesAssumption DEF Live, FileIds
<1>3. CASE id >= last
  <2>1. t = [s EXCEPT !.file_count = last]
    BY <1>2, <1>3 DEF SwapOut, FileIds
  <2>2. t \in filesystem_t
    BY <1>1, <1>2, <2>1 DEF filesystem_t
  <2>3. \A i \in Live(t) : i \in Live(s) /\ End(t, i) = End(s, i)
    BY <1>1, <1>2, <2>1 DEF Live, End, filesystem_t
  <2>4. t.data_usage = s.data_usage
    BY <1>1, <2>1 DEF filesystem_t
  <2>5. t.fault = s.fault
    BY <1>1, <2>1 DEF filesystem_t
  <2>6. QED
    BY <2>2, <2>3, <2>4, <2>5 DEF TableOK, ExtentsWithinUsage, UsageWithinCapacity, Faulty
<1>4. CASE id < last
  <2>1. t = [s EXCEPT !.files = [reparented EXCEPT ![id] = reparented[last]],
                      !.current_dir = follow(s.current_dir),
                      !.file_count = last]
    BY <1>4, <1>1 DEF SwapOut, filesystem_t
  <2>2. \A d \in FileIds : follow(d) \in FileIds
    BY <1>2
  <2>3. \A i \in FileIds : /\ reparented[i] \in file_entry_t
                           /\ reparented[i].size = s.files[i].size
                           /\ reparented[i].data_offset = s.files[i].data_offset
    <3> TAKE i \in FileIds
    <3>1. s.files[i] \in file_entry_t
      BY <1>1 DEF filesystem_t
    <3>2. follow(s.files[i].parent_id) \in FileIds
      BY <2>2, <3>1 DEF file_entry_t
    <3>3. QED
      BY <3>1, <3>2 DEF file_entry_t
  <2>4. [reparented EXCEPT ![id] = reparented[last]] \in [FileIds -> file_entry_t]
    BY <1>2, <2>3
  <2>5. follow(s.current_dir) \in FileIds
    BY <1>1, <2>2 DEF filesystem_t
  <2>6. t \in filesystem_t
    <3> HIDE DEF reparented, follow
    <3>1. QED
      BY <1>1, <1>2, <2>1, <2>4, <2>5 DEF filesystem_t
  <2>7. ASSUME NEW i \in Live(t) PROVE End(t, i) <= t.data_usage
    <3>1. i \in Live(s) /\ i \in FileIds /\ i # last /\ t.data_usage = s.data_usage
      BY <1>1, <1>2, <2>1, LiveInTable DEF Live, filesystem_t
    <3>2. t.files = [reparented EXCEPT ![id] = reparented[last]]
      BY <1>1, <2>1 DEF filesystem_t
    <3>3. End(t, i) = End(s, i) \/ End(t, i) = End(s, last)
      <4> HIDE DEF reparented
      <4>1. t.files[i] = reparented[i] \/ t.files[i] = reparented[last]
        BY <2>4, <3>1, <3>2
      <4>2. QED
        BY <1>2, <2>3, <3>1, <4>1 DEF End
    <3>4. QED
      BY <1>2, <3>1, <3>3 DEF TableOK, ExtentsWithinUsage
  <2>8. t.fault = s.fault /\ t.data_usage = s.data_usage
    <3> HIDE DEF reparented, follow
    <3>1. QED
      BY <1>1, <2>1 DEF filesystem_t
  <2>9. QED
    BY <2>6, <2>7, <2>8 DEF TableOK, ExtentsWithinUsage, UsageWithinCapacity, Faulty
<1>5. QED
  BY <1>2, <1>3, <1>4 DEF FileIds

\* The entry that mkdir appends.
LEMMA MakeDirectoryTable ==
  ASSUME NEW s, TableOK(s), NEW name \in Names \cup {RootName}
  PROVE  TableOK(MakeDirectory(s, name))
<1> DEFINE t == MakeDirectory(s, name)
<1> DEFINE entry == [name |-> name, type |-> FILE_TYPE_DIRECTORY, size |-> 0,
                     parent_id |-> s.current_dir, data_offset |-> 0]
<1>1. CASE MakeDirectoryResult(s, name) # FS_SUCCESS
  BY <1>1 DEF MakeDirectory
<1>2. CASE MakeDirectoryResult(s, name) = FS_SUCCESS
  <2>1. s \in filesystem_t /\ s.file_count \in Nat /\ s.data_usage \in Nat
    BY LiveInTable DEF TableOK, filesystem_t
  <2>2. s.file_count < MAX_FILES
    <3>1. ~(s.file_count >= MAX_FILES)
      BY <1>2 DEF MakeDirectoryResult, FS_SUCCESS, FS_ERROR_NO_SPACE,
                  FS_ERROR_INVALID_NAME, FS_ERROR_ALREADY_EXISTS
    <3>2. QED
      BY <2>1, <3>1, SizesAssumption
  <2>3. s.file_count \in FileIds /\ s.file_count + 1 \in 0 .. MAX_FILES
    BY <2>1, <2>2, SizesAssumption DEF FileIds
  <2>4. entry \in file_entry_t
    BY <2>1, SizesAssumption DEF file_entry_t, filesystem_t, FileTypes, EntryNames
  <2>5. t = [s EXCEPT !.files = [s.files EXCEPT ![s.file_count] = entry],
                      !.file_count = s.file_count + 1,
                      !.next_file_id = s.next_file_id + 1]
    BY <1>2, <2>1 DEF MakeDirectory, filesystem_t
  <2>6. t \in filesystem_t /\ t.fault = s.fault /\ t.data_usage = s.data_usage
        /\ t.files = [s.files EXCEPT ![s.file_count] = entry]
        /\ t.file_count = s.file_count + 1
    <3> DEFINE files == [s.files EXCEPT ![s.file_count] = entry]
    <3>1. files \in [FileIds -> file_entry_t]
      <4> HIDE DEF entry
      <4>1. QED
        BY <2>1, <2>3, <2>4 DEF filesystem_t
    <3>2. t = [s EXCEPT !.files = files, !.file_count = s.file_count + 1,
                        !.next_file_id = s.next_file_id + 1]
      BY <2>5
    <3> HIDE DEF entry, t, files
    <3>3. t \in filesystem_t
      <4>1. s.next_file_id + 1 \in Nat
        BY <2>1 DEF filesystem_t
      <4>2. QED
        BY <2>1, <2>3, <3>1, <3>2, <4>1 DEF filesystem_t
    <3>4. t.fault = s.fault /\ t.data_usage = s.data_usage
          /\ t.files = files /\ t.file_count = s.file_count + 1
      BY <2>1, <3>2 DEF filesystem_t
    <3>5. QED
      BY <3>3, <3>4 DEF files
  <2>7. ASSUME NEW i \in Live(t) PROVE End(t, i) <= t.data_usage
    <3>1. CASE i = s.file_count
      BY <2>1, <2>3, <2>6, <3>1 DEF End, filesystem_t
    <3>2. CASE i # s.file_count
      <4>1. i \in Live(s) /\ t.files[i] = s.files[i]
        BY <2>1, <2>3, <2>6, <2>7, <3>2 DEF Live, filesystem_t
      <4>2. QED
        BY <2>6, <4>1 DEF TableOK, ExtentsWithinUsage, End
    <3>3. QED
      BY <3>1, <3>2
  <2>8. QED
    BY <2>6, <2>7 DEF TableOK, ExtentsWithinUsage, UsageWithinCapacity, Faulty
<1>3. QED
  BY <1>1, <1>2

\* Entering a directory of the table and rebuilding the path keeps the table.
LEMMA RebuiltTable ==
  ASSUME NEW s, TableOK(s), NEW d \in FileIds
  PROVE  TableOK(Rebuilt([s EXCEPT !.current_dir = d]))
<1> DEFINE u == [s EXCEPT !.current_dir = d]
<1> DEFINE t == Rebuilt(u)
<1> SUFFICES TableOK(t)
  OBVIOUS
<1>1. s \in filesystem_t
  BY DEF TableOK
<1>2. u \in filesystem_t /\ u.files = s.files /\ u.file_count = s.file_count
      /\ u.data_usage = s.data_usage /\ u.fault = s.fault
  BY <1>1 DEF filesystem_t
<1> HIDE DEF u
<1>3. RebuiltPath(u) \in Seq(EntryNames)
  BY <1>2, RebuiltPathType
<1>4. t \in filesystem_t
  BY <1>2, <1>3 DEF Rebuilt, filesystem_t, Faults
<1>5. t.files = s.files /\ t.file_count = s.file_count /\ t.data_usage = s.data_usage
      /\ (t.fault = s.fault \/ t.fault = PathOverrun)
  BY <1>2 DEF Rebuilt, filesystem_t
<1>6. QED
  BY <1>4, <1>5 DEF TableOK, ExtentsWithinUsage, UsageWithinCapacity, Faulty, End, Live,
                    PathOverrun, NoFault

\* The fields of a freshly created record, for the lemmas that look at them.
LEMMA CreatedFields ==
  ASSUME NEW s \in filesystem_t, s.file_count < MAX_FILES, NEW name, NEW type,
         NEW t, t = Created(s, name, type)
  PROVE  /\ t.file_count = s.file_count + 1
         /\ t.current_dir = s.current_dir
         /\ t.data_storage = s.data_storage
         /\ t.data_usage = s.data_usage
         /\ s.file_count \in FileIds
         /\ t.files[s.file_count] =
              [name |-> name, type |-> type, size |-> 0,
               parent_id |-> s.current_dir, data_offset |-> s.data_usage]
         /\ \A i \in FileIds \ {s.file_count} : t.files[i] = s.files[i]
         /\ Live(t) = Live(s) \cup {s.file_count}
<1>1. s.file_count \in Nat /\ s.file_count \in FileIds
  BY LiveInTable, SizesAssumption DEF FileIds
<1>2. QED
  BY <1>1 DEF Created, filesystem_t, Live

\* The new entry is found under its name, and what was found before still is.
LEMMA CreatedExists ==
  ASSUME NEW s, TableOK(s), s.file_count < MAX_FILES,
         NEW name \in EntryNames, NEW type \in FileTypes
  PROVE  /\ Exists(Created(s, name, type), name)
         /\ \A n : Exists(s, n) => Exists(Created(s, name, type), n)
<1> DEFINE t == Created(s, name, type)
<1>1. s \in filesystem_t /\ t \in filesystem_t
  BY CreatedTable DEF TableOK
<1>2. /\ t.current_dir = s.current_dir
      /\ t.files[s.file_count].name = name
      /\ t.files[s.file_count].parent_id = s.current_dir
      /\ s.file_count \in Live(t)
      /\ Live(s) \subseteq Live(t)
      /\ \A i \in Live(s) : t.files[i] = s.files[i]
  <2>1. \A i \in Live(s) : i \in FileIds \ {s.file_count}
    BY <1>1, LiveInTable
  <2>2. /\ t.current_dir = s.current_dir
        /\ t.files[s.file_count] =
             [name |-> name, type |-> type, size |-> 0,
              parent_id |-> s.current_dir, data_offset |-> s.data_usage]
        /\ \A i \in FileIds \ {s.file_count} : t.files[i] = s.files[i]
        /\ Live(t) = Live(s) \cup {s.file_count}
    <3>1. t = Created(s, name, type)
      OBVIOUS
    <3> HIDE DEF t
    <3>2. QED
      BY <1>1, <3>1, CreatedFields
  <2> HIDE DEF t
  <2>3. QED
    BY <2>1, <2>2
<1> HIDE DEF t
<1>3. Exists(t, name)
  BY <1>1, <1>2, LookupDef DEF Exists, Lookup
<1>4. ASSUME NEW n, Exists(s, n) PROVE Exists(t, n)
  <2>1. PICK i \in Live(s) : s.files[i].parent_id = s.current_dir /\ s.files[i].name = n
    BY <1>1, <1>4, LookupInTable
  <2>2. i \in Live(t) /\ t.files[i].parent_id = t.current_dir /\ t.files[i].name = n
    BY <1>2, <2>1
  <2>3. QED
    BY <1>1, <2>2, LookupDef DEF Exists, Lookup
<1>5. QED
  BY <1>3, <1>4 DEF t

\* fs_create_file succeeds only when there is room and the name is free.
LEMMA CreateSucceeds ==
  ASSUME NEW s \in filesystem_t, NEW name, CreateResult(s, name) = FS_SUCCESS
  PROVE  s.file_count < MAX_FILES /\ ~Exists(s, name)
<1>1. s.file_count \in Nat
  BY LiveInTable
<1>2. QED
  BY <1>1, SizesAssumption
  DEF CreateResult, FS_SUCCESS, FS_ERROR_NO_SPACE, FS_ERROR_ALREADY_EXISTS

\* fs_create_file keeps the table, whether it succeeds or not.
LEMMA CreateFileTable ==
  ASSUME NEW s, TableOK(s), NEW name \in EntryNames, NEW type \in FileTypes
  PROVE  TableOK(CreateFile(s, name, type))
BY CreatedTable, CreateSucceeds DEF CreateFile, TableOK

\* Clipping yields bytes, at most as many as asked for and as there are.
LEMMA ClipType ==
  ASSUME NEW data \in Seq(Bytes), NEW n \in Nat
  PROVE  Clip(data, n) \in Seq(Bytes) /\ Len(Clip(data, n)) <= n /\ Len(Clip(data, n)) <= Len(data)
BY DEF Clip

\* The bytes of a file lie in the data area as long as no write has left it.
LEMMA FileBytesType ==
  ASSUME NEW s, TableOK(s), ~Faulty(s), NEW i \in Live(s)
  PROVE  FileBytes(s, i) \in Seq(Bytes) /\ Len(FileBytes(s, i)) = s.files[i].size
<1>1. s \in filesystem_t
  BY DEF TableOK
<1>2. s.files[i] \in file_entry_t
  BY <1>1, LiveInTable DEF filesystem_t
<1>3. s.files[i].data_offset \in Nat /\ s.files[i].size \in Nat
  BY <1>2, SizesAssumption DEF file_entry_t
<1>4. s.files[i].data_offset + s.files[i].size <= Capacity
  <2>1. End(s, i) <= s.data_usage /\ s.data_usage <= Capacity
    BY <1>2 DEF TableOK, ExtentsWithinUsage, UsageWithinCapacity
  <2>2. s.data_usage \in Nat /\ Capacity \in Nat
    BY <1>1, SizesAssumption DEF filesystem_t, Capacity
  <2>3. QED
    BY <1>3, <2>1, <2>2 DEF End
<1>5. \A k \in 1 .. s.files[i].size :
        s.data_storage[s.files[i].data_offset + k - 1] \in Bytes
  <2> TAKE k \in 1 .. s.files[i].size
  <2>1. s.files[i].data_offset + k - 1 \in 0 .. Capacity - 1
    BY <1>3, <1>4, SizesAssumption DEF Capacity
  <2>2. QED
    BY <1>1, <2>1 DEF filesystem_t
<1>6. FileBytes(s, i) \in [1 .. s.files[i].size -> Bytes]
  BY <1>5 DEF FileBytes
<1>7. QED
  BY <1>3, <1>6

\* fs_read_file hands out bytes, no more than asked for and no more than there
\* are.
LEMMA ReadBufferType ==
  ASSUME NEW s, TableOK(s), ~Faulty(s), NEW name, Exists(s, name), NEW n \in Nat
  PROVE  /\ ReadBuffer(s, name, n) \in Seq(Bytes)
         /\ Len(ReadBuffer(s, name, n)) <= n
         /\ Len(ReadBuffer(s, name, n)) <= s.files[Lookup(s, name)].size
<1> DEFINE data == FileBytes(s, Lookup(s, name))
<1>1. data \in Seq(Bytes) /\ Len(data) = s.files[Lookup(s, name)].size
  BY LookupInTable, FileBytesType DEF TableOK
<1>2. ReadBuffer(s, name, n) = Clip(data, n)
  BY DEF ReadBuffer
<1> HIDE DEF data
<1>3. QED
  BY <1>1, <1>2, ClipType

\* fs_write_file keeps the table, also when it has to create the file.
LEMMA WriteFileTable ==
  ASSUME NEW s, TableOK(s), NEW name \in EntryNames, NEW data \in Seq(Bytes)
  PROVE  TableOK(WriteFile(s, name, data))
<1> DEFINE t == IF Exists(s, name) THEN s ELSE CreateFile(s, name, FILE_TYPE_REGULAR)
<1>1. TableOK(t)
  BY CreateFileTable DEF FileTypes
<1>2. CASE WriteResult(s, name) # FS_SUCCESS \/ Faulty(t)
  BY <1>1, <1>2 DEF WriteFile
<1>3. CASE WriteResult(s, name) = FS_SUCCESS /\ ~Faulty(t)
  <2>1. Exists(t, name)
    <3>1. CASE Exists(s, name)
      BY <3>1
    <3>2. CASE ~Exists(s, name)
      <4>1. CreateResult(s, name) = FS_SUCCESS
        BY <1>3, <3>2 DEF WriteResult, FS_SUCCESS, FS_ERROR_NO_SPACE
      <4>2. t = Created(s, name, FILE_TYPE_REGULAR) /\ s.file_count < MAX_FILES
        BY <3>2, <4>1, CreateSucceeds DEF CreateFile, TableOK
      <4>3. QED
        BY <4>2, CreatedExists DEF FileTypes
    <3>3. QED
      BY <3>1, <3>2
  <2>2. Lookup(t, name) \in FileIds
    BY <1>1, <2>1, LookupInTable DEF TableOK
  <2>3. Clip(data, MAX_FILE_SIZE) \in Seq(Bytes) /\ Len(Clip(data, MAX_FILE_SIZE)) <= MAX_FILE_SIZE
    BY ClipType, SizesAssumption
  <2>4. WriteFile(s, name, data) = Stored(t, Lookup(t, name), Clip(data, MAX_FILE_SIZE))
    BY <1>3 DEF WriteFile
  <2> HIDE DEF t
  <2>5. QED
    BY <1>1, <2>2, <2>3, <2>4, StoredTable
<1>4. QED
  BY <1>2, <1>3

\* fs_delete_file and fs_remove_directory keep the table.
LEMMA DeleteFileTable ==
  ASSUME NEW s, TableOK(s), NEW name
  PROVE  TableOK(DeleteFile(s, name)) /\ TableOK(RemoveDirectory(s, name))
<1>1. ASSUME Exists(s, name) PROVE TableOK(SwapOut(s, Lookup(s, name)))
  BY <1>1, LookupInTable, SwapOutTable DEF TableOK
<1>2. RemoveDirectoryResult(s, name) = FS_SUCCESS => Exists(s, name)
  BY DEF RemoveDirectoryResult, FS_SUCCESS, FS_ERROR_NOT_FOUND
<1>3. QED
  BY <1>1, <1>2 DEF DeleteFile, RemoveDirectory

\* fs_change_directory keeps the table.
LEMMA ChangeDirectoryTable ==
  ASSUME NEW s, TableOK(s), NEW path
  PROVE  TableOK(ChangeDirectory(s, path))
<1>1. s \in filesystem_t /\ s.files[s.current_dir].parent_id \in FileIds
  BY DEF TableOK, filesystem_t, file_entry_t
<1>2. CASE ChangeDirectoryResult(s, path) # FS_SUCCESS \/ path = Dot
  BY <1>2 DEF ChangeDirectory
<1>3. CASE path = DotDot /\ path # Dot /\ ChangeDirectoryResult(s, path) = FS_SUCCESS
  BY <1>1, <1>3, RebuiltTable DEF ChangeDirectory
<1>4. CASE path \notin {Dot, DotDot} /\ ChangeDirectoryResult(s, path) = FS_SUCCESS
  <2>1. Exists(s, path)
    BY <1>4 DEF ChangeDirectoryResult, FS_SUCCESS, FS_ERROR_NOT_FOUND, FS_ERROR_INVALID_PATH
  <2>2. Lookup(s, path) \in FileIds
    BY <1>1, <2>1, LookupInTable
  <2>3. QED
    BY <1>4, <2>2, RebuiltTable DEF ChangeDirectory
<1>5. QED
  BY <1>2, <1>3, <1>4

\* fs_copy_file keeps the table.
LEMMA CopyFileTable ==
  ASSUME NEW s, TableOK(s), ~Faulty(s), NEW src, NEW dest \in EntryNames
  PROVE  TableOK(CopyFile(s, src, dest))
<1>1. CASE ReadResult(s, src, MAX_FILE_SIZE) < 0
  BY <1>1 DEF CopyFile
<1>2. CASE ~(ReadResult(s, src, MAX_FILE_SIZE) < 0)
  <2>1. Exists(s, src)
    BY <1>2 DEF ReadResult, FS_ERROR_INVALID_PATH
  <2>2. ReadBuffer(s, src, MAX_FILE_SIZE) \in Seq(Bytes)
    BY <2>1, ReadBufferType, SizesAssumption
  <2>3. QED
    BY <1>2, <2>2, WriteFileTable DEF CopyFile
<1>3. QED
  BY <1>1, <1>2

\* fs_move_file keeps the table, on its error paths too.
LEMMA MoveFileTable ==
  ASSUME NEW s, TableOK(s), NEW src, NEW dest \in EntryNames
  PROVE  TableOK(MoveFile(s, src, dest))
<1> DEFINE t == CreateFile(s, dest, s.files[Lookup(s, src)].type)
<1>1. CASE ~Exists(s, src) \/ CreateResult(s, dest) # FS_SUCCESS
  BY <1>1 DEF MoveFile
<1>2. CASE Exists(s, src) /\ CreateResult(s, dest) = FS_SUCCESS
  <2>1. s \in filesystem_t /\ s.file_count < MAX_FILES
    BY <1>2, CreateSucceeds DEF TableOK
  <2>2. s.files[Lookup(s, src)].type \in FileTypes
    BY <1>2, <2>1, LookupInTable DEF filesystem_t, file_entry_t
  <2>3. TableOK(t)
    BY <2>2, CreateFileTable
  <2>4. Exists(t, src)
    BY <1>2, <2>1, <2>2, CreatedExists DEF CreateFile
  <2>5. CASE Faulty(t)
    BY <1>2, <2>3, <2>5 DEF MoveFile
  <2>6. CASE ~Faulty(t)
    <3>1. MoveFile(s, src, dest) = MovedInto(t, src, dest)
      BY <1>2, <2>6 DEF MoveFile
    <3> HIDE DEF t
    <3> DEFINE size == t.files[Lookup(t, src)].size
    <3>2. size \in Nat
      <4>1. t \in filesystem_t /\ Lookup(t, src) \in FileIds
        BY <2>3, <2>4, LookupInTable DEF TableOK
      <4>2. t.files[Lookup(t, src)] \in file_entry_t
        BY <4>1 DEF filesystem_t
      <4>3. QED
        BY <4>2, SizesAssumption DEF file_entry_t
    <3> HIDE DEF size
    <3>3. TableOK(WriteFile(t, dest, ReadBuffer(t, src, size)))
      BY <2>3, <2>4, <2>6, <3>2, ReadBufferType, WriteFileTable
    <3>4. QED
      BY <2>3, <3>1, <3>3, DeleteFileTable DEF MovedInto, size
  <2>7. QED
    BY <2>5, <2>6
<1>3. QED
  BY <1>1, <1>2

\* The table fs_init starts from.
LEMMA RootOnlyTable == TableOK(RootOnly)
<1>1. Capacity \in Nat
  BY SizesAssumption DEF Capacity
<1>2. EmptyEntry \in file_entry_t
  BY SizesAssumption DEF EmptyEntry, file_entry_t, EntryNames, FileTypes, FileIds, ROOT_DIR
<1>3. [EmptyEntry EXCEPT !.name = RootName, !.type = FILE_TYPE_DIRECTORY] \in file_entry_t
  BY <1>2 DEF file_entry_t, EntryNames, FileTypes
<1>4. RootOnly.files \in [FileIds -> file_entry_t]
  BY <1>2, <1>3 DEF RootOnly
<1>5. RootOnly.data_storage \in [0 .. Capacity - 1 -> Bytes]
  BY DataAssumption DEF RootOnly
<1>6. <<>> \in Seq(EntryNames)
  OBVIOUS
<1>7. RootOnly \in filesystem_t
  <2>1. RootOnly.file_count \in 0 .. MAX_FILES /\ RootOnly.current_dir \in FileIds
        /\ RootOnly.next_file_id \in Nat
    BY SizesAssumption DEF RootOnly, FileIds, ROOT_DIR
  <2>2. QED
    BY <1>4, <1>5, <1>6, <2>1 DEF RootOnly, filesystem_t, Faults
<1>8. ExtentsWithinUsage(RootOnly)
  <2>1. Live(RootOnly) = {ROOT_DIR} /\ ROOT_DIR \in FileIds
    BY SizesAssumption DEF RootOnly, Live, ROOT_DIR, FileIds
  <2>2. RootOnly.files[ROOT_DIR].data_offset = 0 /\ RootOnly.files[ROOT_DIR].size = 0
    BY <2>1 DEF RootOnly, EmptyEntry
  <2>3. End(RootOnly, ROOT_DIR) = 0
    BY <2>2 DEF End
  <2>4. RootOnly.data_usage = 0
    BY DEF RootOnly
  <2>5. QED
    BY <2>1, <2>3, <2>4 DEF ExtentsWithinUsage
<1>9. QED
  BY <1>1, <1>7, <1>8 DEF TableOK, UsageWithinCapacity, RootOnly

\* One step of any caller.
LEMMA NextTable ==
  ASSUME TableOK(fs), [Next]_fs
  PROVE  TableOK(fs')
<1>1. Names \subseteq EntryNames /\ FILE_TYPE_REGULAR \in FileTypes
  BY DEF EntryNames, FileTypes
<1>2. ASSUME NEW n \in Names, NEW t \in CreateTypes, fs_create_file(n, t) PROVE TableOK(fs')
  BY <1>1, <1>2, CreateFileTable, DataAssumption DEF fs_create_file
<1>3. ASSUME NEW n \in Names, NEW d \in Contents, fs_write_file(n, d) PROVE TableOK(fs')
  BY <1>1, <1>3, WriteFileTable, DataAssumption DEF fs_write_file
<1>4. ASSUME NEW n \in Names, fs_touch_file(n) PROVE TableOK(fs')
  <2>1. <<>> \in Seq(Bytes)
    OBVIOUS
  <2>2. QED
    BY <1>1, <1>4, <2>1, WriteFileTable DEF fs_touch_file, TouchFile
<1>5. ASSUME NEW n \in Names, fs_make_directory(n) PROVE TableOK(fs')
  BY <1>5, MakeDirectoryTable DEF fs_make_directory
<1>6. ASSUME NEW n \in Names, fs_remove_directory(n) PROVE TableOK(fs')
  BY <1>6, DeleteFileTable DEF fs_remove_directory
<1>7. ASSUME NEW n \in Names, fs_delete_file(n) PROVE TableOK(fs')
  BY <1>7, DeleteFileTable DEF fs_delete_file
<1>8. ASSUME NEW n \in Names \cup {Dot, DotDot, EmptyName}, fs_change_directory(n)
      PROVE  TableOK(fs')
  BY <1>8, ChangeDirectoryTable DEF fs_change_directory
<1>9. ASSUME NEW src \in Names, NEW dest \in Names, fs_copy_file(src, dest)
      PROVE  TableOK(fs')
  BY <1>1, <1>9, CopyFileTable DEF fs_copy_file, Running
<1>10. ASSUME NEW src \in Names, NEW dest \in Names, fs_move_file(src, dest)
       PROVE  TableOK(fs')
  BY <1>1, <1>10, MoveFileTable DEF fs_move_file
<1>11. CASE UNCHANGED fs
  BY <1>11
<1>12. QED
  BY <1>2, <1>3, <1>4, <1>5, <1>6, <1>7, <1>8, <1>9, <1>10, <1>11 DEF Next

\* The inductive invariant: types, extents below the mark, the mark in the data
\* area until a write has left it.
THEOREM TableInvariant == Spec => []TableOK(fs)
<1>1. Init => TableOK(fs)
  BY RootOnlyTable, MakeDirectoryTable, InitDirsAssumption DEF Init, fs_init
<1>2. TableOK(fs) /\ [Next]_fs => TableOK(fs)'
  BY NextTable DEF TableOK, filesystem_t, ExtentsWithinUsage, UsageWithinCapacity, Faulty, Live, End
<1>3. QED
  BY <1>1, <1>2, PTL DEF Spec

\* Whatever is called in whatever order, no id leaves the table and every
\* field of the record keeps its C type.
THEOREM TypeCorrect == Spec => []TypeOK
<1>1. TableOK(fs) => TypeOK
  BY DEF TableOK, TypeOK
<1>2. QED
  BY <1>1, TableInvariant, PTL

\* Whatever is called in whatever order, a new file starts past everything
\* stored, and no read leaves the data area before a write has.
THEOREM AllocatorCorrect == Spec => []AllocatorIsAhead
<1>1. TableOK(fs) => AllocatorIsAhead
  BY DEF TableOK, AllocatorIsAhead
<1>2. QED
  BY <1>1, TableInvariant, PTL

-----------------------------------------------------------------------------
(***************************************************************************)
(* The tree and the cached path: whatever the documented calls do, the     *)
(* entries in use form one tree under the root, and current_path is the    *)
(* way to current_dir in it.  Only name, type and parent_id of the entries *)
(* in use, current_dir and current_path matter, so each call is first      *)
(* reduced to what it does to those: nothing (SameTree), appending an      *)
(* entry (Grown), removing one and renumbering another (Removed), or going *)
(* elsewhere (Gone).                                                       *)
(***************************************************************************)

SameNode(f, e) == f.name = e.name /\ f.type = e.type /\ f.parent_id = e.parent_id

SameTree(s, t) ==
  /\ t.file_count = s.file_count
  /\ t.current_dir = s.current_dir /\ t.current_path = s.current_path
  /\ \A i \in Live(s) : SameNode(t.files[i], s.files[i])

Grown(s, t, name) ==
  /\ t.file_count = s.file_count + 1
  /\ t.current_dir = s.current_dir /\ t.current_path = s.current_path
  /\ \A i \in Live(s) : SameNode(t.files[i], s.files[i])
  /\ t.files[s.file_count].name = name
  /\ t.files[s.file_count].parent_id = s.current_dir

\* Where the last entry and the others go when id is removed, and from where.
Follow(s, id, d) == IF d = s.file_count - 1 THEN id ELSE d
From(s, id, i) == IF i = id THEN s.file_count - 1 ELSE i

Removed(s, t, id) ==
  /\ t.file_count = s.file_count - 1
  /\ t.current_dir = Follow(s, id, s.current_dir) /\ t.current_path = s.current_path
  /\ \A i \in Live(t) :
       LET entry == s.files[From(s, id, i)]
       IN /\ t.files[i].name = entry.name /\ t.files[i].type = entry.type
          /\ t.files[i].parent_id = Follow(s, id, entry.parent_id)

Gone(s, t, d) ==
  /\ t.file_count = s.file_count /\ t.current_dir = d
  /\ \A i \in Live(s) : SameNode(t.files[i], s.files[i])

-----------------------------------------------------------------------------
(* What the four do to a tree. *)

\* A name that is not found is on no entry of the current directory.
LEMMA NotFoundIs ==
  ASSUME NEW s \in filesystem_t, NEW name
  PROVE  ~Exists(s, name) =>
           \A i \in Live(s) : ~(s.files[i].parent_id = s.current_dir /\ s.files[i].name = name)
BY LookupDef DEF Exists, Lookup

LEMMA GoneTree ==
  ASSUME NEW s \in filesystem_t, NEW t, NEW d \in Live(s), TreeOK(s), Gone(s, t, d),
         s.files[d].type = FILE_TYPE_DIRECTORY
  PROVE  TreeOK(t)
<1>1. Live(t) = Live(s) /\ ROOT_DIR \in Live(s)
  BY LiveInTable DEF Gone, Live, TreeOK, RootOK, ROOT_DIR
<1>2. \A i \in Live(s) : SameNode(t.files[i], s.files[i])
  BY DEF Gone
<1>3. RootOK(t)
  BY <1>1, <1>2 DEF TreeOK, RootOK, Gone, SameNode
<1>4. ParentsAreDirectories(t)
  BY <1>1, <1>2 DEF TreeOK, ParentsAreDirectories, SameNode
<1>5. CurrentDirOK(t)
  BY <1>1, <1>2 DEF CurrentDirOK, Gone, SameNode
<1>6. NoCycles(t)
  BY <1>1, <1>2 DEF TreeOK, NoCycles, SameNode
<1>7. UniqueNames(t)
  BY <1>1, <1>2 DEF TreeOK, UniqueNames, SameNode
<1>8. QED
  BY <1>3, <1>4, <1>5, <1>6, <1>7 DEF TreeOK

LEMMA SameTreeKeeps ==
  ASSUME NEW s \in filesystem_t, NEW t, TreeOK(s), SameTree(s, t)
  PROVE  TreeOK(t)
<1>1. s.current_dir \in Live(s) /\ s.files[s.current_dir].type = FILE_TYPE_DIRECTORY
  BY DEF TreeOK, CurrentDirOK
<1>2. Gone(s, t, s.current_dir)
  BY DEF SameTree, Gone
<1>3. QED
  BY <1>1, <1>2, GoneTree

\* A new leaf in the current directory, under a name that is free there.
LEMMA GrownTree ==
  ASSUME NEW s \in filesystem_t, NEW t, NEW name, TreeOK(s), Grown(s, t, name), ~Exists(s, name)
  PROVE  TreeOK(t)
<1> DEFINE new == s.file_count
<1>1. /\ new \in Nat /\ Live(t) = Live(s) \cup {new} /\ new \notin Live(s)
      /\ ROOT_DIR \in Live(s) /\ t.file_count > 0
  BY LiveInTable DEF Grown, Live, TreeOK, RootOK, ROOT_DIR
<1>2. \A i \in Live(s) : SameNode(t.files[i], s.files[i])
  BY DEF Grown
<1>3. t.files[new].name = name /\ t.files[new].parent_id = s.current_dir
      /\ t.current_dir = s.current_dir
  BY DEF Grown
<1>4. s.current_dir \in Live(s) /\ s.files[s.current_dir].type = FILE_TYPE_DIRECTORY
  BY DEF TreeOK, CurrentDirOK
<1> HIDE DEF new
<1>5. RootOK(t)
  BY <1>1, <1>2 DEF TreeOK, RootOK, SameNode
<1>6. ParentsAreDirectories(t)
  BY <1>1, <1>2, <1>3, <1>4 DEF TreeOK, ParentsAreDirectories, SameNode
<1>7. CurrentDirOK(t)
  BY <1>1, <1>2, <1>3, <1>4 DEF CurrentDirOK, SameNode
<1>8. NoCycles(t)
  <2> SUFFICES ASSUME NEW S \in SUBSET (Live(t) \ {ROOT_DIR}), S # {}
               PROVE  \E i \in S : t.files[i].parent_id \notin S
    BY DEF NoCycles
  <2> DEFINE old == S \ {new}
  <2>1. CASE old = {}
    <3>1. S = {new}
      BY <2>1
    <3>2. QED
      BY <1>1, <1>3, <1>4, <3>1
  <2>2. CASE old # {}
    <3>1. old \in SUBSET (Live(s) \ {ROOT_DIR})
      BY <1>1
    <3>2. PICK i \in old : s.files[i].parent_id \notin old
      BY <2>2, <3>1 DEF TreeOK, NoCycles
    <3>3. s.files[i].parent_id \in Live(s) /\ t.files[i].parent_id = s.files[i].parent_id
      BY <1>2, <3>1, <3>2 DEF TreeOK, ParentsAreDirectories, SameNode
    <3>4. QED
      BY <1>1, <3>2, <3>3
  <2>3. QED
    BY <2>1, <2>2
<1>9. UniqueNames(t)
  <2> SUFFICES ASSUME NEW i \in Live(t), NEW j \in Live(t),
                      t.files[i].parent_id = t.files[j].parent_id,
                      t.files[i].name = t.files[j].name
               PROVE  i = j
    BY DEF UniqueNames
  <2>1. ASSUME NEW k \in Live(s), t.files[k].parent_id = s.current_dir, t.files[k].name = name
        PROVE  FALSE
    BY <1>2, <2>1, NotFoundIs DEF SameNode
  <2>2. CASE i = new \/ j = new
    BY <1>1, <1>3, <2>1, <2>2
  <2>3. CASE i # new /\ j # new
    BY <1>1, <1>2, <2>3 DEF TreeOK, UniqueNames, SameNode
  <2>4. QED
    BY <2>2, <2>3
<1>10. QED
  BY <1>5, <1>6, <1>7, <1>8, <1>9 DEF TreeOK

\* Renumbering is one to one between the entries that stay.
LEMMA Renumbering ==
  ASSUME NEW s \in filesystem_t, NEW t, NEW id \in Live(s), t.file_count = s.file_count - 1
  PROVE  /\ \A i \in Live(t) : /\ From(s, id, i) \in Live(s) \ {id}
                               /\ Follow(s, id, From(s, id, i)) = i
         /\ \A j \in Live(s) \ {id} : /\ Follow(s, id, j) \in Live(t)
                                      /\ From(s, id, Follow(s, id, j)) = j
BY LiveInTable DEF Live, From, Follow

\* A leaf other than the root goes, and the last entry takes its number.
LEMMA RemovedTree ==
  ASSUME NEW s \in filesystem_t, NEW t, NEW id \in Live(s), TreeOK(s), Removed(s, t, id),
         ~HasChildren(s, id), s.files[id].parent_id = s.current_dir
  PROVE  TreeOK(t)
<1>1. \A j \in Live(s) : s.files[j].parent_id # id /\ s.files[j].parent_id \in Live(s)
  BY DEF HasChildren, TreeOK, ParentsAreDirectories
<1>2. /\ ROOT_DIR \in Live(s) /\ s.files[ROOT_DIR].parent_id = ROOT_DIR
      /\ s.files[ROOT_DIR].type = FILE_TYPE_DIRECTORY /\ s.files[ROOT_DIR].name = RootName
      /\ s.current_dir \in Live(s) /\ s.files[s.current_dir].type = FILE_TYPE_DIRECTORY
  BY LiveInTable DEF TreeOK, RootOK, CurrentDirOK, Live, ROOT_DIR
<1>3. id # ROOT_DIR /\ id # s.current_dir
  BY <1>1, <1>2
<1>4. s.file_count \in Nat /\ t.file_count = s.file_count - 1 /\ t.file_count > 0
  <2>1. id \in Nat /\ id < s.file_count /\ s.file_count \in Nat
    BY LiveInTable
  <2>2. QED
    BY <1>3, <2>1 DEF Removed, ROOT_DIR
<1> DEFINE to(j) == Follow(s, id, j)
<1> DEFINE of(i) == From(s, id, i)
<1>5. to(ROOT_DIR) = ROOT_DIR /\ of(ROOT_DIR) = ROOT_DIR
  BY <1>3, <1>4 DEF Follow, From, ROOT_DIR
<1>6. \A i \in Live(t) : of(i) \in Live(s) \ {id} /\ to(of(i)) = i
  BY <1>4, Renumbering
<1>7. \A j \in Live(s) \ {id} : to(j) \in Live(t) /\ of(to(j)) = j
  BY <1>4, Renumbering
<1>8. \A i \in Live(t) : /\ t.files[i].name = s.files[of(i)].name
                         /\ t.files[i].type = s.files[of(i)].type
                         /\ t.files[i].parent_id = to(s.files[of(i)].parent_id)
  BY DEF Removed
<1>9. t.current_dir = to(s.current_dir)
  BY DEF Removed
<1> HIDE DEF to, of
<1>10. RootOK(t)
  BY <1>2, <1>3, <1>4, <1>5, <1>7, <1>8 DEF RootOK
<1>11. ParentsAreDirectories(t)
  <2> SUFFICES ASSUME NEW i \in Live(t)
               PROVE  /\ t.files[i].parent_id \in Live(t)
                      /\ t.files[t.files[i].parent_id].type = FILE_TYPE_DIRECTORY
    BY DEF ParentsAreDirectories
  <2> DEFINE parent == s.files[of(i)].parent_id
  <2>1. parent \in Live(s) \ {id} /\ s.files[parent].type = FILE_TYPE_DIRECTORY
    BY <1>1, <1>6 DEF TreeOK, ParentsAreDirectories
  <2>2. QED
    BY <1>7, <1>8, <2>1
<1>12. CurrentDirOK(t)
  BY <1>2, <1>3, <1>7, <1>8, <1>9 DEF CurrentDirOK
<1>13. NoCycles(t)
  <2> SUFFICES ASSUME NEW S \in SUBSET (Live(t) \ {ROOT_DIR}), S # {}
               PROVE  \E i \in S : t.files[i].parent_id \notin S
    BY DEF NoCycles
  <2> DEFINE before == {j \in Live(s) \ {ROOT_DIR} : j # id /\ to(j) \in S}
  <2>1. before # {}
    <3>1. PICK i \in S : i \in Live(t) /\ i # ROOT_DIR
      OBVIOUS
    <3>2. of(i) \in Live(s) \ {id} /\ to(of(i)) = i
      BY <1>6, <3>1
    <3>3. of(i) # ROOT_DIR
      BY <1>5, <3>1, <3>2
    <3>4. QED
      BY <3>1, <3>2, <3>3
  <2>2. PICK j \in before : s.files[j].parent_id \notin before
    <3>1. before \in SUBSET (Live(s) \ {ROOT_DIR})
      OBVIOUS
    <3>2. QED
      BY <2>1, <3>1 DEF TreeOK, NoCycles
  <2> DEFINE parent == s.files[j].parent_id
  <2>3. parent \in Live(s) \ {id}
    BY <1>1, <2>2
  <2>4. to(parent) \notin S
    <3>1. CASE parent = ROOT_DIR
      BY <1>5, <3>1
    <3>2. CASE parent # ROOT_DIR
      BY <2>2, <2>3, <3>2
    <3>3. QED
      BY <3>1, <3>2
  <2>5. to(j) \in S /\ to(j) \in Live(t) /\ of(to(j)) = j
    BY <1>7, <2>2
  <2>6. t.files[to(j)].parent_id = to(parent)
    BY <1>8, <2>5
  <2>7. QED
    BY <2>4, <2>5, <2>6
<1>14. UniqueNames(t)
  <2> SUFFICES ASSUME NEW i \in Live(t), NEW j \in Live(t),
                      t.files[i].parent_id = t.files[j].parent_id,
                      t.files[i].name = t.files[j].name
               PROVE  i = j
    BY DEF UniqueNames
  <2>1. of(i) \in Live(s) \ {id} /\ of(j) \in Live(s) \ {id} /\ to(of(i)) = i /\ to(of(j)) = j
    BY <1>6
  <2> DEFINE p == s.files[of(i)].parent_id
  <2> DEFINE q == s.files[of(j)].parent_id
  <2>2. to(p) = to(q) /\ s.files[of(i)].name = s.files[of(j)].name
    BY <1>8
  <2>3. p \in Live(s) \ {id} /\ q \in Live(s) \ {id}
    BY <1>1, <2>1
  <2>4. p = q
    <3> HIDE DEF p, q
    <3>1. of(to(p)) = p /\ of(to(q)) = q
      BY <1>7, <2>3
    <3>2. QED
      BY <2>2, <3>1
  <2>5. of(i) = of(j)
    BY <2>1, <2>2, <2>4 DEF TreeOK, UniqueNames
  <2>6. QED
    BY <2>1, <2>5
<1>15. QED
  BY <1>10, <1>11, <1>12, <1>13, <1>14 DEF TreeOK

-----------------------------------------------------------------------------
(* What they do to the path. *)

PathOK(s) == s.current_path = RebuiltPath(s)

\* One step of the walk.
LEMMA WalkUp ==
  ASSUME NEW s, NEW d
  PROVE  /\ Ancestors(s, d)[0] = d
         /\ \A k \in 0 .. MAX_DEPTH - 1 :
              Ancestors(s, d)[k + 1] = s.files[Ancestors(s, d)[k]].parent_id
<1> DEFINE up == Ancestors(s, d)
<1>1. up = [k \in 0 .. MAX_DEPTH |-> IF k = 0 THEN d ELSE s.files[up[k - 1]].parent_id]
  BY AncestorsDef
<1> HIDE DEF up
<1>2. up[0] = d /\ \A k \in 0 .. MAX_DEPTH - 1 : up[k + 1] = s.files[up[k]].parent_id
  BY <1>1, SizesAssumption
<1>3. QED
  BY <1>2 DEF up

\* M holds the current directory and the parent of each of its members, and
\* t holds the entries of M renumbered by to.
Carries(s, t, M, to) ==
  /\ s.current_dir \in M /\ t.current_dir = to[s.current_dir]
  /\ \A i \in M : /\ s.files[i].parent_id \in M
                  /\ t.files[to[i]].parent_id = to[s.files[i].parent_id]
                  /\ t.files[to[i]].name = s.files[i].name
                  /\ to[i] = ROOT_DIR <=> i = ROOT_DIR

\* The names met on the way up are then met again.
LEMMA CarriedPath ==
  ASSUME NEW s, NEW t, NEW M, NEW to, Carries(s, t, M, to)
  PROVE  RebuiltPath(t) = RebuiltPath(s)
<1> DEFINE up == Ancestors(s, s.current_dir)
<1> DEFINE upT == Ancestors(t, t.current_dir)
<1> DEFINE P == {k \in 0 .. MAX_DEPTH : up[k] \in M /\ upT[k] = to[up[k]]}
<1>1. /\ up[0] = s.current_dir /\ upT[0] = t.current_dir
      /\ \A k \in 0 .. MAX_DEPTH - 1 : /\ up[k + 1] = s.files[up[k]].parent_id
                                       /\ upT[k + 1] = t.files[upT[k]].parent_id
  BY WalkUp
<1> HIDE DEF up, upT
<1>2. 0 \in P
  BY <1>1, SizesAssumption DEF Carries
<1>3. ASSUME NEW k \in 0 .. MAX_DEPTH - 1, k \in P PROVE k + 1 \in P
  <2>1. /\ k + 1 \in 0 .. MAX_DEPTH
        /\ up[k + 1] = s.files[up[k]].parent_id /\ upT[k + 1] = t.files[upT[k]].parent_id
    BY <1>1, SizesAssumption
  <2>2. QED
    BY <1>3, <2>1 DEF Carries
<1>4. P = 0 .. MAX_DEPTH
  <2>1. P \in SUBSET (0 .. MAX_DEPTH)
    OBVIOUS
  <2> HIDE DEF P
  <2>2. QED
    BY <1>2, <1>3, <2>1, RangeInduction, SizesAssumption
<1>5. \A k \in 0 .. MAX_DEPTH : up[k] \in M /\ upT[k] = to[up[k]]
  BY <1>4
<1> DEFINE stops == {k \in 0 .. MAX_DEPTH : up[k] = ROOT_DIR} \cup {MAX_DEPTH}
<1> DEFINE depth == Min(stops)
<1>6. stops = {k \in 0 .. MAX_DEPTH : upT[k] = ROOT_DIR} \cup {MAX_DEPTH}
  BY <1>5 DEF Carries
<1>7. depth \in 0 .. MAX_DEPTH
  <2>1. stops \in SUBSET Nat /\ stops # {} /\ stops \subseteq 0 .. MAX_DEPTH
    BY SizesAssumption
  <2> HIDE DEF stops
  <2>2. QED
    BY <2>1, MinOfNaturals
<1>8. /\ RebuiltPath(s) = [j \in 1 .. depth |-> s.files[up[depth - j]].name]
      /\ RebuiltPath(t) = [j \in 1 .. depth |-> t.files[upT[depth - j]].name]
  BY <1>6 DEF RebuiltPath, NamesUpTo, up, upT
<1> HIDE DEF depth
<1>9. \A j \in 1 .. depth : t.files[upT[depth - j]].name = s.files[up[depth - j]].name
  <2> TAKE j \in 1 .. depth
  <2>1. depth - j \in 0 .. MAX_DEPTH
    BY <1>7, SizesAssumption
  <2>2. QED
    BY <1>5, <2>1 DEF Carries
<1>10. QED
  BY <1>8, <1>9

\* The same where every entry of M keeps its number.
LEMMA KeptPath ==
  ASSUME NEW s, NEW t, NEW M, s.current_dir \in M, t.current_dir = s.current_dir,
         \A i \in M : /\ s.files[i].parent_id \in M
                      /\ t.files[i].parent_id = s.files[i].parent_id
                      /\ t.files[i].name = s.files[i].name
  PROVE  RebuiltPath(t) = RebuiltPath(s)
<1> DEFINE to == [i \in M |-> i]
<1>1. Carries(s, t, M, to)
  BY DEF Carries
<1> HIDE DEF to
<1>2. QED
  BY <1>1, CarriedPath

LEMMA SameNodesPath ==
  ASSUME NEW s, NEW t, TreeOK(s), t.current_dir = s.current_dir,
         \A i \in Live(s) : SameNode(t.files[i], s.files[i])
  PROVE  RebuiltPath(t) = RebuiltPath(s)
<1>1. s.current_dir \in Live(s)
  BY DEF TreeOK, CurrentDirOK
<1>2. \A i \in Live(s) : /\ s.files[i].parent_id \in Live(s)
                         /\ t.files[i].parent_id = s.files[i].parent_id
                         /\ t.files[i].name = s.files[i].name
  BY DEF TreeOK, ParentsAreDirectories, SameNode
<1>3. QED
  BY <1>1, <1>2, KeptPath

LEMMA RemovedPath ==
  ASSUME NEW s \in filesystem_t, NEW t, NEW id \in Live(s), TreeOK(s), Removed(s, t, id),
         ~HasChildren(s, id), s.files[id].parent_id = s.current_dir
  PROVE  RebuiltPath(t) = RebuiltPath(s)
<1> DEFINE M == Live(s) \ {id}
<1> DEFINE to == [i \in M |-> Follow(s, id, i)]
<1>1. \A j \in Live(s) : s.files[j].parent_id # id /\ s.files[j].parent_id \in Live(s)
  BY DEF HasChildren, TreeOK, ParentsAreDirectories
<1>2. s.current_dir \in M /\ ROOT_DIR \in M
  <2>1. ROOT_DIR \in Live(s) /\ s.files[ROOT_DIR].parent_id = ROOT_DIR
        /\ s.current_dir \in Live(s)
    BY LiveInTable DEF TreeOK, RootOK, CurrentDirOK, Live, ROOT_DIR
  <2>2. QED
    BY <1>1, <2>1
<1>3. \A i \in M : to[i] = Follow(s, id, i) /\ to[i] \in Live(t) /\ From(s, id, to[i]) = i
  BY Renumbering DEF Removed
<1>4. t.current_dir = to[s.current_dir] /\ to[ROOT_DIR] = ROOT_DIR
  <2>1. s.file_count - 1 # ROOT_DIR
    BY <1>2, LiveInTable DEF Live, ROOT_DIR
  <2>2. QED
    BY <1>2, <1>3, <2>1 DEF Removed, Follow
<1>5. ASSUME NEW i \in M
      PROVE  /\ s.files[i].parent_id \in M
             /\ t.files[to[i]].parent_id = to[s.files[i].parent_id]
             /\ t.files[to[i]].name = s.files[i].name
             /\ to[i] = ROOT_DIR <=> i = ROOT_DIR
  <2>1. s.files[i].parent_id \in M
    BY <1>1
  <2>2. to[i] \in Live(t) /\ From(s, id, to[i]) = i
    BY <1>3
  <2>3. /\ t.files[to[i]].parent_id = Follow(s, id, s.files[i].parent_id)
        /\ t.files[to[i]].name = s.files[i].name
    BY <2>2 DEF Removed
  <2>4. to[s.files[i].parent_id] = Follow(s, id, s.files[i].parent_id)
    BY <1>3, <2>1
  <2>5. From(s, id, to[ROOT_DIR]) = ROOT_DIR
    BY <1>2, <1>3
  <2>6. to[i] = ROOT_DIR <=> i = ROOT_DIR
    BY <1>4, <2>2, <2>5
  <2>7. QED
    BY <2>1, <2>3, <2>4, <2>6
<1> HIDE DEF M, to
<1>6. Carries(s, t, M, to)
  BY <1>2, <1>4, <1>5 DEF Carries
<1>7. QED
  BY <1>6, CarriedPath

\* rebuild_current_path makes the path anew.
LEMMA RebuiltIsFresh ==
  ASSUME NEW s \in filesystem_t, NEW d \in FileIds
  PROVE  PathOK(Rebuilt([s EXCEPT !.current_dir = d]))
<1> DEFINE u == [s EXCEPT !.current_dir = d]
<1> DEFINE t == Rebuilt(u)
<1>1. /\ u.files = s.files /\ u.current_dir = d
      /\ t.files = u.files /\ t.current_dir = u.current_dir
      /\ t.current_path = RebuiltPath(u)
  BY DEF Rebuilt, filesystem_t
<1>2. \A i \in FileIds : s.files[i].parent_id \in FileIds
  BY DEF filesystem_t, file_entry_t
<1> HIDE DEF t, u
<1>3. RebuiltPath(t) = RebuiltPath(u)
  BY <1>1, <1>2, KeptPath
<1>4. QED
  BY <1>1, <1>3 DEF PathOK, t, u

\* A tree whose path is the one cached.
Sound(s) == TreeOK(s) /\ PathOK(s)

LEMMA SameTreeSound ==
  ASSUME NEW s \in filesystem_t, NEW t, Sound(s), SameTree(s, t)
  PROVE  Sound(t)
BY SameTreeKeeps, SameNodesPath DEF Sound, SameTree, PathOK

LEMMA GrownSound ==
  ASSUME NEW s \in filesystem_t, NEW t, NEW name, Sound(s), Grown(s, t, name), ~Exists(s, name)
  PROVE  Sound(t)
BY GrownTree, SameNodesPath DEF Sound, Grown, PathOK

LEMMA RemovedSound ==
  ASSUME NEW s \in filesystem_t, NEW t, NEW id \in Live(s), Sound(s), Removed(s, t, id),
         ~HasChildren(s, id), s.files[id].parent_id = s.current_dir
  PROVE  Sound(t)
BY RemovedTree, RemovedPath DEF Sound, Removed, PathOK

-----------------------------------------------------------------------------
(* What the operators of FileSystem.tla do to the tree and path. *)

\* Entries whose names and parents are the same are found in the same places.
LEMMA SameLookup ==
  ASSUME NEW s \in filesystem_t, NEW t, SameTree(s, t), NEW name
  PROVE  Lookup(t, name) = Lookup(s, name)
<1>1. Live(t) = Live(s) /\ t.current_dir = s.current_dir
  BY DEF SameTree, Live
<1>2. {i \in Live(t) : t.files[i].parent_id = t.current_dir /\ t.files[i].name = name}
      = {i \in Live(s) : s.files[i].parent_id = s.current_dir /\ s.files[i].name = name}
  BY <1>1 DEF SameTree, SameNode
<1>3. QED
  BY <1>2 DEF Lookup, find_file_in_dir

\* Only directories have entries under them.
LEMMA FileHasNoChildren ==
  ASSUME NEW s, Sound(s), NEW id, s.files[id].type # FILE_TYPE_DIRECTORY
  PROVE  ~HasChildren(s, id)
BY DEF Sound, TreeOK, ParentsAreDirectories, HasChildren

\* A created file is a leaf in the current directory.
LEMMA CreatedGrown ==
  ASSUME NEW s \in filesystem_t, s.file_count < MAX_FILES, NEW name, NEW type,
         NEW t, t = Created(s, name, type)
  PROVE  Grown(s, t, name) /\ t.files[s.file_count].type = type
<1>1. \A i \in Live(s) : i \in FileIds \ {s.file_count}
  BY LiveInTable
<1>2. /\ t.file_count = s.file_count + 1 /\ t.current_dir = s.current_dir
      /\ t.files[s.file_count] =
           [name |-> name, type |-> type, size |-> 0,
            parent_id |-> s.current_dir, data_offset |-> s.data_usage]
      /\ \A i \in FileIds \ {s.file_count} : t.files[i] = s.files[i]
  BY CreatedFields
<1>3. t.current_path = s.current_path
  BY DEF Created, filesystem_t
<1>4. QED
  BY <1>1, <1>2, <1>3 DEF Grown, SameNode

LEMMA CreateFileTree ==
  ASSUME NEW s, TableOK(s), Sound(s), NEW name, NEW type
  PROVE  Sound(CreateFile(s, name, type))
<1>1. CASE CreateResult(s, name) # FS_SUCCESS
  BY <1>1 DEF CreateFile
<1>2. CASE CreateResult(s, name) = FS_SUCCESS
  <2>1. s \in filesystem_t /\ s.file_count < MAX_FILES /\ ~Exists(s, name)
    BY <1>2, CreateSucceeds DEF TableOK
  <2>2. Grown(s, Created(s, name, type), name)
    BY <2>1, CreatedGrown
  <2>3. QED
    BY <1>2, <2>1, <2>2, GrownSound DEF CreateFile
<1>3. QED
  BY <1>1, <1>2

\* Writing data changes no name, type or parent.
LEMMA StoredSame ==
  ASSUME NEW s \in filesystem_t, NEW i \in FileIds, NEW data, NEW t, t = Stored(s, i, data)
  PROVE  SameTree(s, t)
<1>1. t.files = [s.files EXCEPT ![i].size = Len(data)]
      /\ t.file_count = s.file_count
      /\ t.current_dir = s.current_dir /\ t.current_path = s.current_path
  BY DEF Stored, filesystem_t
<1>2. \A j \in FileIds : s.files[j] \in file_entry_t
  BY DEF filesystem_t
<1>3. \A j \in FileIds : SameNode(t.files[j], s.files[j])
  <2> TAKE j \in FileIds
  <2>1. s.files \in [FileIds -> file_entry_t]
    BY DEF filesystem_t
  <2>2. CASE j = i
    <3>1. t.files[j] = [s.files[i] EXCEPT !.size = Len(data)]
      BY <1>1, <2>1, <2>2
    <3>2. QED
      BY <1>2, <2>2, <3>1 DEF SameNode, file_entry_t
  <2>3. CASE j # i
    BY <1>1, <2>1, <2>3 DEF SameNode
  <2>4. QED
    BY <2>2, <2>3
<1>4. QED
  BY <1>1, <1>3, LiveInTable DEF SameTree

LEMMA WriteFileTree ==
  ASSUME NEW s, TableOK(s), Sound(s), NEW name \in EntryNames, NEW data
  PROVE  Sound(WriteFile(s, name, data))
<1> DEFINE t == IF Exists(s, name) THEN s ELSE CreateFile(s, name, FILE_TYPE_REGULAR)
<1>1. TableOK(t) /\ Sound(t)
  BY CreateFileTable, CreateFileTree DEF FileTypes
<1>2. CASE WriteResult(s, name) # FS_SUCCESS \/ Faulty(t)
  BY <1>1, <1>2 DEF WriteFile
<1>3. CASE WriteResult(s, name) = FS_SUCCESS /\ ~Faulty(t)
  <2>1. Exists(t, name)
    <3>1. CASE Exists(s, name)
      BY <3>1
    <3>2. CASE ~Exists(s, name)
      <4>1. CreateResult(s, name) = FS_SUCCESS
        BY <1>3, <3>2 DEF WriteResult, FS_SUCCESS, FS_ERROR_NO_SPACE
      <4>2. t = Created(s, name, FILE_TYPE_REGULAR) /\ s.file_count < MAX_FILES
        BY <3>2, <4>1, CreateSucceeds DEF CreateFile, TableOK
      <4>3. QED
        BY <4>2, CreatedExists DEF FileTypes
    <3>3. QED
      BY <3>1, <3>2
  <2>2. WriteFile(s, name, data) = Stored(t, Lookup(t, name), Clip(data, MAX_FILE_SIZE))
    BY <1>3 DEF WriteFile
  <2> HIDE DEF t
  <2>3. t \in filesystem_t /\ Lookup(t, name) \in FileIds
    BY <1>1, <2>1, LookupInTable DEF TableOK
  <2>4. SameTree(t, WriteFile(s, name, data))
    BY <2>2, <2>3, StoredSame
  <2>5. QED
    BY <1>1, <2>3, <2>4, SameTreeSound
<1>4. QED
  BY <1>2, <1>3

\* What fs_make_directory leaves when it succeeds.
LEMMA MadeGrown ==
  ASSUME NEW s \in filesystem_t, NEW name, MakeDirectoryResult(s, name) = FS_SUCCESS,
         NEW t, t = MakeDirectory(s, name)
  PROVE  /\ Grown(s, t, name) /\ ~Exists(s, name)
         /\ t.next_file_id = s.next_file_id + 1
         /\ t.data_storage = s.data_storage /\ t.data_usage = s.data_usage
         /\ t.files[s.file_count].type = FILE_TYPE_DIRECTORY /\ t.files[s.file_count].size = 0
         /\ \A i \in Live(s) : t.files[i] = s.files[i]
<1>1. s.file_count \in Nat /\ \A i \in Live(s) : i # s.file_count
  BY LiveInTable
<1>2. ~Exists(s, name) /\ ~(s.file_count >= MAX_FILES)
  BY DEF MakeDirectoryResult, FS_SUCCESS, FS_ERROR_NO_SPACE, FS_ERROR_INVALID_NAME,
         FS_ERROR_ALREADY_EXISTS
<1>3. s.file_count \in FileIds /\ Live(s) \subseteq FileIds
  BY <1>1, <1>2, LiveInTable, SizesAssumption DEF FileIds
<1>4. /\ t.files = [s.files EXCEPT ![s.file_count] =
                      [name |-> name, type |-> FILE_TYPE_DIRECTORY, size |-> 0,
                       parent_id |-> s.current_dir, data_offset |-> 0]]
      /\ t.file_count = s.file_count + 1 /\ t.next_file_id = s.next_file_id + 1
      /\ t.current_dir = s.current_dir /\ t.current_path = s.current_path
      /\ t.data_storage = s.data_storage /\ t.data_usage = s.data_usage
  BY DEF MakeDirectory, filesystem_t
<1>5. s.files \in [FileIds -> file_entry_t]
  BY DEF filesystem_t
<1>6. /\ t.files[s.file_count] =
           [name |-> name, type |-> FILE_TYPE_DIRECTORY, size |-> 0,
            parent_id |-> s.current_dir, data_offset |-> 0]
      /\ \A i \in Live(s) : t.files[i] = s.files[i]
  BY <1>1, <1>3, <1>4, <1>5
<1>7. Grown(s, t, name)
  BY <1>4, <1>6 DEF Grown, SameNode
<1>8. QED
  BY <1>2, <1>4, <1>6, <1>7

\* A directory made is a leaf in the current directory.
LEMMA MakeDirectoryTree ==
  ASSUME NEW s, TableOK(s), Sound(s), NEW name
  PROVE  Sound(MakeDirectory(s, name))
<1> DEFINE t == MakeDirectory(s, name)
<1>1. CASE MakeDirectoryResult(s, name) # FS_SUCCESS
  BY <1>1 DEF MakeDirectory
<1>2. CASE MakeDirectoryResult(s, name) = FS_SUCCESS
  <2>1. s \in filesystem_t
    BY DEF TableOK
  <2>2. t = MakeDirectory(s, name)
    OBVIOUS
  <2> HIDE DEF t
  <2>3. Grown(s, t, name) /\ ~Exists(s, name)
    BY <1>2, <2>1, <2>2, MadeGrown
  <2>4. QED
    BY <2>1, <2>3, GrownSound DEF t
<1>3. QED
  BY <1>1, <1>2

\* Moving the last entry into the hole renumbers it for everyone.
LEMMA SwapOutRemoved ==
  ASSUME NEW s \in filesystem_t, NEW id \in Live(s), NEW t, t = SwapOut(s, id)
  PROVE  Removed(s, t, id)
<1> DEFINE last == s.file_count - 1
<1> DEFINE follow(d) == IF d = last THEN id ELSE d
<1> DEFINE reparented == [i \in FileIds |->
                            IF i \in Live(s)
                            THEN [s.files[i] EXCEPT !.parent_id = follow(@)]
                            ELSE s.files[i]]
<1>1. s.file_count \in Nat /\ id \in FileIds /\ id \in Nat /\ id <= last
      /\ last \in Live(s) /\ Live(s) \subseteq FileIds
  BY LiveInTable DEF Live
<1>2. CASE id = last
  <2>1. /\ t.files = s.files /\ t.file_count = last
        /\ t.current_dir = s.current_dir /\ t.current_path = s.current_path
    BY <1>2, <1>1 DEF SwapOut, filesystem_t
  <2>2. \A i \in Live(t) : From(s, id, i) = i
    BY <1>1, <1>2, <2>1 DEF Live, From
  <2>3. \A d : Follow(s, id, d) = d
    BY <1>2 DEF Follow
  <2>4. QED
    BY <2>1, <2>2, <2>3 DEF Removed
<1>3. CASE id < last
  <2>1. /\ t.files = [reparented EXCEPT ![id] = reparented[last]]
        /\ t.file_count = last
        /\ t.current_dir = follow(s.current_dir) /\ t.current_path = s.current_path
    BY <1>3 DEF SwapOut, filesystem_t
  <2>2. \A i \in Live(s) : /\ reparented[i].name = s.files[i].name
                           /\ reparented[i].type = s.files[i].type
                           /\ reparented[i].parent_id = follow(s.files[i].parent_id)
    <3> TAKE i \in Live(s)
    <3>1. reparented[i] = [s.files[i] EXCEPT !.parent_id = follow(@)]
      BY <1>1
    <3>2. s.files[i] \in file_entry_t
      BY <1>1 DEF filesystem_t
    <3>3. QED
      BY <3>1, <3>2 DEF file_entry_t
  <2>3. \A d : follow(d) = Follow(s, id, d)
    BY DEF Follow
  <2>4. DOMAIN reparented = FileIds
    OBVIOUS
  <2> HIDE DEF reparented, follow
  <2>5. \A i \in Live(t) : t.files[i] = reparented[From(s, id, i)] /\ From(s, id, i) \in Live(s)
    BY <1>1, <2>1, <2>4 DEF From, Live
  <2>6. QED
    BY <2>1, <2>2, <2>3, <2>5 DEF Removed
<1>4. QED
  BY <1>1, <1>2, <1>3

LEMMA SwapOutTree ==
  ASSUME NEW s, TableOK(s), Sound(s), NEW name, Exists(s, name),
         ~HasChildren(s, Lookup(s, name))
  PROVE  Sound(SwapOut(s, Lookup(s, name)))
<1> DEFINE id == Lookup(s, name)
<1>1. s \in filesystem_t
  BY DEF TableOK
<1>2. id \in Live(s) /\ s.files[id].parent_id = s.current_dir
  BY <1>1, LookupInTable
<1>3. Removed(s, SwapOut(s, id), id)
  BY <1>1, <1>2, SwapOutRemoved
<1>4. QED
  BY <1>1, <1>2, <1>3, RemovedSound

LEMMA DeleteFileTree ==
  ASSUME NEW s, TableOK(s), Sound(s), NEW name,
         Exists(s, name) => ~HasChildren(s, Lookup(s, name))
  PROVE  Sound(DeleteFile(s, name))
BY SwapOutTree DEF DeleteFile

LEMMA RemoveDirectoryTree ==
  ASSUME NEW s, TableOK(s), Sound(s), NEW name
  PROVE  Sound(RemoveDirectory(s, name))
<1>1. RemoveDirectoryResult(s, name) = FS_SUCCESS =>
        Exists(s, name) /\ ~HasChildren(s, Lookup(s, name))
  BY DEF RemoveDirectoryResult, FS_SUCCESS, FS_ERROR_NOT_FOUND, FS_ERROR_NOT_DIRECTORY,
         FS_ERROR_NOT_EMPTY
<1>2. QED
  BY <1>1, SwapOutTree DEF RemoveDirectory

\* Rebuilding the path touches no entry.
LEMMA RebuiltGone ==
  ASSUME NEW s \in filesystem_t, NEW d
  PROVE  Gone(s, Rebuilt([s EXCEPT !.current_dir = d]), d)
BY DEF Rebuilt, Gone, SameNode, filesystem_t

LEMMA ChangeDirectoryTree ==
  ASSUME NEW s, TableOK(s), Sound(s), NEW path
  PROVE  Sound(ChangeDirectory(s, path))
<1>1. s \in filesystem_t
  BY DEF TableOK
<1>2. CASE ChangeDirectoryResult(s, path) # FS_SUCCESS \/ path = Dot
  BY <1>2 DEF ChangeDirectory
<1>3. CASE path = DotDot /\ path # Dot /\ ChangeDirectoryResult(s, path) = FS_SUCCESS
  <2> DEFINE up == s.files[s.current_dir].parent_id
  <2>1. up \in Live(s) /\ s.files[up].type = FILE_TYPE_DIRECTORY
    BY DEF Sound, TreeOK, CurrentDirOK, ParentsAreDirectories
  <2>2. ChangeDirectory(s, path) = Rebuilt([s EXCEPT !.current_dir = up])
    BY <1>3 DEF ChangeDirectory
  <2> HIDE DEF up
  <2>3. Gone(s, ChangeDirectory(s, path), up)
    BY <1>1, <2>2, RebuiltGone
  <2>4. QED
    BY <1>1, <2>1, <2>2, <2>3, LiveInTable, GoneTree, RebuiltIsFresh DEF Sound
<1>4. CASE path \notin {Dot, DotDot} /\ ChangeDirectoryResult(s, path) = FS_SUCCESS
  <2>1. Exists(s, path) /\ s.files[Lookup(s, path)].type = FILE_TYPE_DIRECTORY
    BY <1>4 DEF ChangeDirectoryResult, FS_SUCCESS, FS_ERROR_NOT_FOUND, FS_ERROR_INVALID_PATH,
                FS_ERROR_NOT_DIRECTORY
  <2>2. Lookup(s, path) \in Live(s)
    BY <1>1, <2>1, LookupInTable
  <2>3. QED
    BY <1>1, <1>4, <2>1, <2>2, LiveInTable, RebuiltGone, GoneTree,
       RebuiltIsFresh DEF ChangeDirectory, Sound
<1>5. QED
  BY <1>2, <1>3, <1>4

LEMMA CopyFileTree ==
  ASSUME NEW s, TableOK(s), Sound(s), NEW src, NEW dest \in EntryNames
  PROVE  Sound(CopyFile(s, src, dest))
BY WriteFileTree DEF CopyFile

\* A file just created has nothing under it, whatever its type: when a move
\* fails, taking it back leaves a tree.
LEMMA CreatedHasNoChildren ==
  ASSUME NEW s, TableOK(s), Sound(s), NEW name \in EntryNames, NEW type \in FileTypes,
         CreateResult(s, name) = FS_SUCCESS,
         NEW t, t = CreateFile(s, name, type)
  PROVE  /\ TableOK(t) /\ Sound(t) /\ Exists(t, name)
         /\ \A n : Exists(s, n) => Exists(t, n)
         /\ ~HasChildren(t, Lookup(t, name))
<1>1. s \in filesystem_t /\ s.file_count < MAX_FILES /\ ~Exists(s, name)
  BY CreateSucceeds DEF TableOK
<1>2. t = Created(s, name, type)
  BY DEF CreateFile
<1>3. TableOK(t) /\ Sound(t)
  BY CreateFileTable, CreateFileTree
<1>4. Exists(t, name) /\ \A n : Exists(s, n) => Exists(t, n)
  BY <1>1, <1>2, CreatedExists
<1> DEFINE new == s.file_count
<1>5. Grown(s, t, name) /\ Live(t) = Live(s) \cup {new} /\ new \notin Live(s)
  <2>1. Grown(s, t, name)
    BY <1>1, <1>2, CreatedGrown
  <2>2. Live(t) = Live(s) \cup {new}
    BY <1>1, <2>1, LiveInTable DEF Live, Grown
  <2>3. new \notin Live(s)
    BY <1>1, LiveInTable
  <2>4. QED
    BY <2>1, <2>2, <2>3
<1>6. Lookup(t, name) = new
  <2>1. /\ Lookup(t, name) \in Live(t)
        /\ t.files[Lookup(t, name)].parent_id = t.current_dir
        /\ t.files[Lookup(t, name)].name = name
    BY <1>3, <1>4, LookupInTable DEF TableOK
  <2>2. \A i \in Live(s) : ~(t.files[i].parent_id = t.current_dir /\ t.files[i].name = name)
    BY <1>1, <1>5, NotFoundIs DEF Grown, SameNode
  <2>3. QED
    BY <1>5, <2>1, <2>2
<1>7. \A i \in Live(t) : t.files[i].parent_id \in Live(s)
  BY <1>5 DEF Grown, SameNode, Sound, TreeOK, ParentsAreDirectories, CurrentDirOK
<1>8. QED
  BY <1>3, <1>4, <1>5, <1>6, <1>7 DEF HasChildren

\* The source of a move is a regular file by the time it is deleted.
LEMMA MovedIntoTree ==
  ASSUME NEW s, TableOK(s), Sound(s), ~Faulty(s), NEW src, Exists(s, src),
         NEW dest \in EntryNames, Exists(s, dest), ~HasChildren(s, Lookup(s, dest))
  PROVE  Sound(MovedInto(s, src, dest))
<1> DEFINE id == Lookup(s, src)
<1> DEFINE size == s.files[id].size
<1> DEFINE data == ReadBuffer(s, src, size)
<1> DEFINE written == WriteFile(s, dest, data)
<1>1. s \in filesystem_t /\ size \in Nat
  <2>1. s \in filesystem_t /\ id \in FileIds
    BY LookupInTable DEF TableOK
  <2>2. s.files[id] \in file_entry_t
    BY <2>1 DEF filesystem_t
  <2>3. QED
    BY <2>1, <2>2, SizesAssumption DEF file_entry_t
<1>2. data \in Seq(Bytes)
  <2> HIDE DEF size
  <2>1. QED
    BY <1>1, ReadBufferType
<1>3. TableOK(written) /\ Sound(written)
  <2> HIDE DEF data
  <2>1. QED
    BY <1>2, WriteFileTable, WriteFileTree
<1>4. CASE ReadResult(s, src, size) # size \/ WriteResult(s, dest) # FS_SUCCESS
  BY <1>4, DeleteFileTree DEF MovedInto
<1>5. CASE ReadResult(s, src, size) = size /\ WriteResult(s, dest) = FS_SUCCESS
  <2>1. s.files[id].type = FILE_TYPE_REGULAR
    <3>1. ReadResult(s, src, size) # FS_ERROR_INVALID_PATH
      BY <1>1, <1>5 DEF FS_ERROR_INVALID_PATH
    <3>2. QED
      BY <3>1 DEF ReadResult
  <2>2. SameTree(s, written)
    <3>1. written = Stored(s, Lookup(s, dest), Clip(data, MAX_FILE_SIZE))
      BY <1>5 DEF WriteFile
    <3>2. Lookup(s, dest) \in FileIds
      BY <1>1, LookupInTable
    <3> HIDE DEF written, data
    <3>3. QED
      BY <1>1, <3>1, <3>2, StoredSame
  <2> HIDE DEF written
  <2>3. Lookup(written, src) = id
    BY <1>1, <2>2, SameLookup
  <2>4. written.files[id].type # FILE_TYPE_DIRECTORY
    <3>1. id \in Live(s)
      BY <1>1, LookupInTable
    <3> HIDE DEF id
    <3>2. QED
      BY <2>1, <2>2, <3>1 DEF SameTree, SameNode, FILE_TYPE_REGULAR, FILE_TYPE_DIRECTORY
  <2>5. Sound(DeleteFile(written, src))
    <3>1. ~HasChildren(written, Lookup(written, src))
      BY <1>3, <2>3, <2>4, FileHasNoChildren
    <3>2. QED
      BY <1>3, <3>1, DeleteFileTree
  <2>6. MovedInto(s, src, dest) = IF Faulty(written) THEN written ELSE DeleteFile(written, src)
    BY <1>5 DEF MovedInto, written
  <2>7. QED
    BY <1>3, <2>5, <2>6
<1>6. QED
  BY <1>4, <1>5

LEMMA MoveFileTree ==
  ASSUME NEW s, TableOK(s), Sound(s), NEW src, NEW dest \in EntryNames
  PROVE  Sound(MoveFile(s, src, dest))
<1> DEFINE t == CreateFile(s, dest, s.files[Lookup(s, src)].type)
<1>1. CASE ~Exists(s, src) \/ CreateResult(s, dest) # FS_SUCCESS
  BY <1>1 DEF MoveFile
<1>2. CASE Exists(s, src) /\ CreateResult(s, dest) = FS_SUCCESS
  <2>1. s \in filesystem_t /\ Lookup(s, src) \in FileIds
    BY <1>2, LookupInTable DEF TableOK
  <2>2. s.files[Lookup(s, src)].type \in FileTypes
    BY <2>1 DEF filesystem_t, file_entry_t
  <2>3. MoveFile(s, src, dest) = IF Faulty(t) THEN t ELSE MovedInto(t, src, dest)
    BY <1>2 DEF MoveFile
  <2>4. /\ TableOK(t) /\ Sound(t) /\ Exists(t, dest) /\ Exists(t, src)
        /\ ~HasChildren(t, Lookup(t, dest))
    <3>1. t = CreateFile(s, dest, s.files[Lookup(s, src)].type)
      OBVIOUS
    <3> HIDE DEF t
    <3>2. QED
      BY <1>2, <2>2, <3>1, CreatedHasNoChildren
  <2> HIDE DEF t
  <2>5. QED
    BY <2>3, <2>4, MovedIntoTree
<1>3. QED
  BY <1>1, <1>2

LEMMA RootOnlyTree == TreeOK(RootOnly)
<1>1. Live(RootOnly) = {ROOT_DIR} /\ RootOnly.file_count > 0 /\ RootOnly.current_dir = ROOT_DIR
  BY DEF RootOnly, Live, ROOT_DIR
<1>2. /\ RootOnly.files[ROOT_DIR].name = RootName
      /\ RootOnly.files[ROOT_DIR].type = FILE_TYPE_DIRECTORY
      /\ RootOnly.files[ROOT_DIR].parent_id = ROOT_DIR
  <2>1. ROOT_DIR \in FileIds
    BY SizesAssumption DEF ROOT_DIR, FileIds
  <2>2. QED
    BY <2>1 DEF RootOnly, EmptyEntry
<1>3. QED
  BY <1>1, <1>2
  DEF TreeOK, RootOK, ParentsAreDirectories, CurrentDirOK, NoCycles, UniqueNames

LEMMA RootOnlySound == Sound(RootOnly)
<1> DEFINE up == Ancestors(RootOnly, RootOnly.current_dir)
<1> DEFINE stops == {k \in 0 .. MAX_DEPTH : up[k] = ROOT_DIR} \cup {MAX_DEPTH}
<1>1. up[0] = ROOT_DIR
  BY AncestorsDef, SizesAssumption DEF RootOnly
<1>2. 0 \in stops /\ stops \in SUBSET Nat
  BY <1>1, SizesAssumption
<1> HIDE DEF stops
<1>3. Min(stops) = 0
  <2>1. Min(stops) \in Nat /\ Min(stops) <= 0
    BY <1>2, MinOfNaturals
  <2>2. QED
    BY <2>1
<1>4. RebuiltPath(RootOnly) = [j \in 1 .. 0 |-> RootOnly.files[up[0 - j]].name]
  BY <1>3 DEF RebuiltPath, NamesUpTo, stops
<1>5. RebuiltPath(RootOnly) = <<>>
  BY <1>4
<1>6. QED
  BY <1>5, RootOnlyTree DEF Sound, PathOK, RootOnly

-----------------------------------------------------------------------------
(* The tree stays a tree. *)

\* What the documented callers do, every caller may do.
LEMMA DocumentedIsNext ==
  ASSUME [DocumentedNext]_fs
  PROVE  [Next]_fs
BY DEF DocumentedNext, TableCalls, Next

\* The calls on the table alone, which both disciplined callers make.
LEMMA TableCallsTree ==
  ASSUME TableOK(fs), Sound(fs), TableCalls
  PROVE  Sound(fs')
<1>1. Names \subseteq EntryNames
  BY DEF EntryNames
<1>2. ASSUME NEW n \in Names, NEW t \in CreateTypes, fs_create_file(n, t) PROVE Sound(fs')
  BY <1>2, CreateFileTree DEF fs_create_file
<1>3. ASSUME NEW n \in Names, fs_touch_file(n) PROVE Sound(fs')
  BY <1>1, <1>3, WriteFileTree DEF fs_touch_file, TouchFile
<1>4. ASSUME NEW n \in Names, fs_make_directory(n) PROVE Sound(fs')
  BY <1>4, MakeDirectoryTree DEF fs_make_directory
<1>5. ASSUME NEW n \in Names, fs_remove_directory(n) PROVE Sound(fs')
  BY <1>5, RemoveDirectoryTree DEF fs_remove_directory
<1>6. ASSUME NEW n \in Names, ~IsDirectory(fs, n), fs_delete_file(n) PROVE Sound(fs')
  <2>1. Exists(fs, n) => ~HasChildren(fs, Lookup(fs, n))
    BY <1>6, FileHasNoChildren DEF IsDirectory
  <2>2. QED
    BY <1>6, <2>1, DeleteFileTree DEF fs_delete_file
<1>7. ASSUME NEW n \in Names \cup {Dot, DotDot, EmptyName}, fs_change_directory(n)
      PROVE  Sound(fs')
  BY <1>7, ChangeDirectoryTree DEF fs_change_directory
<1>8. QED
  BY <1>2, <1>3, <1>4, <1>5, <1>6, <1>7 DEF TableCalls

LEMMA DocumentedTree ==
  ASSUME TableOK(fs), Sound(fs), [DocumentedNext]_fs
  PROVE  Sound(fs')
<1>1. Names \subseteq EntryNames
  BY DEF EntryNames
<1>2. CASE TableCalls
  BY <1>2, TableCallsTree
<1>3. ASSUME NEW n \in Names, NEW d \in Contents, fs_write_file(n, d) PROVE Sound(fs')
  BY <1>1, <1>3, WriteFileTree DEF fs_write_file
<1>4. ASSUME NEW src \in Names, NEW dest \in Names, fs_copy_file(src, dest) PROVE Sound(fs')
  BY <1>1, <1>4, CopyFileTree DEF fs_copy_file
<1>5. ASSUME NEW src \in Names, NEW dest \in Names, fs_move_file(src, dest) PROVE Sound(fs')
  BY <1>1, <1>5, MoveFileTree DEF fs_move_file
<1>6. CASE UNCHANGED fs
  BY <1>6
<1>7. QED
  BY <1>2, <1>3, <1>4, <1>5, <1>6 DEF DocumentedNext

\* The inductive invariant of the documented calls: a well typed table that is
\* a tree, and the path of the current directory in it.
THEOREM TreeInvariant == DocSpec => [](TableOK(fs) /\ Sound(fs))
<1>1. Init => TableOK(fs) /\ Sound(fs)
  <2>1. {Home, Bin, Etc} \subseteq Names \cup {RootName}
    BY InitDirsAssumption
  <2>2. TableOK(RootOnly) /\ Sound(RootOnly)
    BY RootOnlyTable, RootOnlySound
  <2>3. ASSUME NEW s, TableOK(s), Sound(s), NEW name \in Names \cup {RootName}
        PROVE  TableOK(MakeDirectory(s, name)) /\ Sound(MakeDirectory(s, name))
    BY <2>3, MakeDirectoryTable, MakeDirectoryTree
  <2>4. QED
    BY <2>1, <2>2, <2>3 DEF Init, fs_init
<1>2. TableOK(fs) /\ Sound(fs) /\ [DocumentedNext]_fs => (TableOK(fs) /\ Sound(fs))'
  BY NextTable, DocumentedTree, DocumentedIsNext
  DEF TableOK, filesystem_t, ExtentsWithinUsage, UsageWithinCapacity, Faulty, Live, End,
      Sound, PathOK, RebuiltPath, Ancestors, NamesUpTo, TreeOK, RootOK, ParentsAreDirectories,
      CurrentDirOK, NoCycles, UniqueNames
<1>3. QED
  BY <1>1, <1>2, PTL DEF DocSpec

\* Whatever the documented calls create, remove, move or enter, the entries in
\* use form one tree under the root and the current directory is in it.
THEOREM TreeSound == DocSpec => []TreeIsSound
<1>1. TableOK(fs) /\ Sound(fs) => TreeIsSound
  BY DEF TreeIsSound, Sound
<1>2. QED
  BY <1>1, TreeInvariant, PTL

-----------------------------------------------------------------------------
(* The cached path is the way from the root to the current directory. *)

\* Walking up from the current directory meets directories in use.
LEMMA UpInTree ==
  ASSUME NEW s, TreeOK(s)
  PROVE  \A k \in 0 .. MAX_DEPTH :
           /\ Ancestors(s, s.current_dir)[k] \in Live(s)
           /\ s.files[Ancestors(s, s.current_dir)[k]].type = FILE_TYPE_DIRECTORY
<1> DEFINE up == Ancestors(s, s.current_dir)
<1> DEFINE D == {i \in Live(s) : s.files[i].type = FILE_TYPE_DIRECTORY}
<1>1. up[0] = s.current_dir /\ \A k \in 0 .. MAX_DEPTH - 1 : up[k + 1] = s.files[up[k]].parent_id
  BY WalkUp
<1>2. s.current_dir \in D /\ \A i \in D : s.files[i].parent_id \in D
  BY DEF TreeOK, CurrentDirOK, ParentsAreDirectories
<1>3. \A k \in 0 .. MAX_DEPTH : up[k] \in D
  <2> HIDE DEF up, D
  <2>1. QED
    BY <1>1, <1>2, StaysIn, SizesAssumption
<1>4. QED
  BY <1>3

\* How far rebuild_current_path walks: to the root, or MAX_DEPTH levels.
Stops(s) == {k \in 0 .. MAX_DEPTH : Ancestors(s, s.current_dir)[k] = ROOT_DIR} \cup {MAX_DEPTH}
WalkDepth(s) == Min(Stops(s))

LEMMA PathShape ==
  ASSUME NEW s
  PROVE  LET up == Ancestors(s, s.current_dir)
             depth == WalkDepth(s)
         IN /\ depth \in 0 .. MAX_DEPTH
            /\ RebuiltPath(s) = [j \in 1 .. depth |-> s.files[up[depth - j]].name]
            /\ \A k \in 0 .. MAX_DEPTH : up[k] = ROOT_DIR => depth <= k
            /\ depth < MAX_DEPTH => up[depth] = ROOT_DIR
<1>1. Stops(s) \in SUBSET Nat /\ Stops(s) # {}
  BY SizesAssumption DEF Stops
<1>2. WalkDepth(s) \in Stops(s) /\ \A k \in Stops(s) : WalkDepth(s) <= k
  BY <1>1, MinOfNaturals DEF WalkDepth
<1>3. RebuiltPath(s) = [j \in 1 .. WalkDepth(s) |->
                          s.files[Ancestors(s, s.current_dir)[WalkDepth(s) - j]].name]
  BY DEF RebuiltPath, NamesUpTo, WalkDepth, Stops
<1>4. QED
  BY <1>2, <1>3, SizesAssumption DEF Stops

\* Where the entries above the current directory, M, form no cycle, fs_getcwd
\* never meets the directory it started from before the root, so it stops where
\* rebuild_current_path does.
LEMMA GetcwdAbove ==
  ASSUME NEW s, NEW M, s.current_dir \in M, \A i \in M : s.files[i].parent_id \in M,
         \A S \in SUBSET (M \ {ROOT_DIR}) :
           S # {} => \E i \in S : s.files[i].parent_id \notin S
  PROVE  Getcwd(s) = RebuiltPath(s)
<1> DEFINE up == Ancestors(s, s.current_dir)
<1> DEFINE depth == WalkDepth(s)
<1> DEFINE stops == {k \in 0 .. MAX_DEPTH : up[k] = ROOT_DIR \/ (k > 0 /\ up[k] = up[0])}
                    \cup {MAX_DEPTH}
<1>1. /\ depth \in 0 .. MAX_DEPTH
      /\ RebuiltPath(s) = [j \in 1 .. depth |-> s.files[up[depth - j]].name]
      /\ \A k \in 0 .. MAX_DEPTH : up[k] = ROOT_DIR => depth <= k
      /\ depth < MAX_DEPTH => up[depth] = ROOT_DIR
  BY PathShape
<1>2. Getcwd(s) = [j \in 1 .. Min(stops) |-> s.files[up[Min(stops) - j]].name]
  BY DEF Getcwd, NamesUpTo
<1>3. up[0] = s.current_dir /\ \A k \in 0 .. MAX_DEPTH - 1 : up[k + 1] = s.files[up[k]].parent_id
  BY WalkUp
<1> HIDE DEF up, depth
<1>4. \A k \in 0 .. MAX_DEPTH : up[k] \in M
  BY <1>3, StaysIn, SizesAssumption
<1>5. ASSUME NEW k \in 0 .. MAX_DEPTH, k < depth, k > 0, up[k] = up[0] PROVE FALSE
  <2> DEFINE S == {up[j] : j \in 0 .. k - 1}
  <2>1. \A j \in 0 .. k : j \in 0 .. MAX_DEPTH /\ up[j] \in M /\ up[j] # ROOT_DIR
    BY <1>1, <1>4, <1>5, SizesAssumption
  <2>2. S \in SUBSET (M \ {ROOT_DIR})
    BY <2>1
  <2>3. up[0] \in S
    BY <1>5
  <2>4. ASSUME NEW j \in 0 .. k - 1 PROVE s.files[up[j]].parent_id \in S
    <3>1. s.files[up[j]].parent_id = up[j + 1]
      BY <1>3, <1>5, SizesAssumption
    <3>2. CASE j + 1 = k
      BY <1>5, <2>3, <3>1, <3>2
    <3>3. CASE j + 1 # k
      <4>1. j + 1 \in 0 .. k - 1
        BY <3>3
      <4>2. QED
        BY <3>1, <4>1
    <3>4. QED
      BY <3>2, <3>3
  <2>5. \A i \in S : s.files[i].parent_id \in S
    BY <2>4
  <2> HIDE DEF S
  <2>6. QED
    BY <2>2, <2>3, <2>5
<1>6. stops \in SUBSET Nat /\ depth \in stops /\ \A k \in stops : depth <= k
  BY <1>1, <1>5, SizesAssumption
<1> HIDE DEF stops
<1>7. Min(stops) \in stops /\ \A k \in stops : Min(stops) <= k
  BY <1>6, MinOfNaturals
<1>8. Min(stops) = depth
  <2>1. Min(stops) \in Nat /\ depth \in Nat /\ Min(stops) <= depth /\ depth <= Min(stops)
    BY <1>6, <1>7
  <2>2. QED
    BY <2>1
<1>9. QED
  BY <1>1, <1>2, <1>8

LEMMA GetcwdIsRebuilt ==
  ASSUME NEW s, TreeOK(s)
  PROVE  Getcwd(s) = RebuiltPath(s)
BY GetcwdAbove DEF TreeOK, CurrentDirOK, ParentsAreDirectories, NoCycles

\* Each name of the path, looked up in the directory above, is found again.
LEMMA FoundAgain ==
  ASSUME NEW s \in filesystem_t, TreeOK(s), NEW i \in Live(s)
  PROVE  find_file_in_dir(s, s.files[i].parent_id, s.files[i].name) = i
<1> DEFINE id == find_file_in_dir(s, s.files[i].parent_id, s.files[i].name)
<1>1. /\ id # NotFound => /\ id \in Live(s)
                          /\ s.files[id].parent_id = s.files[i].parent_id
                          /\ s.files[id].name = s.files[i].name
      /\ id # NotFound
  BY LookupDef
<1> HIDE DEF id
<1>2. id = i
  BY <1>1 DEF TreeOK, UniqueNames
<1>3. QED
  BY <1>2 DEF id

\* So fs_resolve_path retraces the walk that made the path.
LEMMA PathLeadsBack ==
  ASSUME NEW s \in filesystem_t, TreeOK(s), WithinDepth(s)
  PROVE  ResolvePath(s, ROOT_DIR, RebuiltPath(s)) = s.current_dir
<1> DEFINE up == Ancestors(s, s.current_dir)
<1> DEFINE depth == WalkDepth(s)
<1> DEFINE tokens == RebuiltPath(s)
<1>1. /\ depth \in 0 .. MAX_DEPTH
      /\ RebuiltPath(s) = [j \in 1 .. depth |-> s.files[up[depth - j]].name]
      /\ \A k \in 0 .. MAX_DEPTH : up[k] = ROOT_DIR => depth <= k
      /\ depth < MAX_DEPTH => up[depth] = ROOT_DIR
  BY PathShape
<1>2. /\ \A k \in 0 .. MAX_DEPTH : up[k] \in Live(s) /\ s.files[up[k]].type = FILE_TYPE_DIRECTORY
      /\ \A k \in 0 .. MAX_DEPTH - 1 : up[k + 1] = s.files[up[k]].parent_id
      /\ up[0] = s.current_dir
  BY UpInTree, WalkUp
<1>3. \E k \in 0 .. MAX_DEPTH : up[k] = ROOT_DIR
  BY DEF WithinDepth
<1> HIDE DEF up, depth
<1>4. up[depth] = ROOT_DIR
  BY <1>1, <1>3, SizesAssumption
<1>5. Len(tokens) = depth /\ \A k \in 1 .. depth : tokens[k] = s.files[up[depth - k]].name
  BY <1>1
<1> DEFINE Step(d, k) ==
      LET next == find_file_in_dir(s, d, tokens[k])
      IN IF d = NotFound \/ next = NotFound THEN NotFound
         ELSE IF s.files[next].type # FILE_TYPE_DIRECTORY THEN NotFound
         ELSE next
<1> DEFINE Walk(dir) ==
      dir = [k \in 0 .. Len(tokens) |-> IF k = 0 THEN ROOT_DIR ELSE Step(dir[k - 1], k)]
<1> DEFINE back == [k \in 0 .. depth |-> up[depth - k]]
<1>6. ResolvePath(s, ROOT_DIR, tokens) = (CHOOSE dir : Walk(dir))[Len(tokens)]
  BY DEF ResolvePath
<1> HIDE DEF tokens
<1>7. ASSUME NEW k \in 1 .. depth PROVE Step(up[depth - (k - 1)], k) = up[depth - k]
  <2> DEFINE i == up[depth - k]
  <2>1. depth - k \in 0 .. MAX_DEPTH - 1 /\ depth - (k - 1) = (depth - k) + 1
    BY <1>1, SizesAssumption
  <2>2. i \in Live(s) /\ s.files[i].type = FILE_TYPE_DIRECTORY
    BY <1>2, <2>1, SizesAssumption
  <2>3. up[depth - (k - 1)] = s.files[i].parent_id /\ up[depth - (k - 1)] \in Live(s)
    BY <1>1, <1>2, <2>1, SizesAssumption
  <2>4. tokens[k] = s.files[i].name
    BY <1>5
  <2>5. NotFound \notin Live(s)
    BY LiveInTable DEF NotFound
  <2> HIDE DEF i
  <2>6. find_file_in_dir(s, up[depth - (k - 1)], tokens[k]) = i
    BY <2>2, <2>3, <2>4, FoundAgain
  <2>7. QED
    BY <2>2, <2>3, <2>5, <2>6 DEF i
<1> HIDE DEF Step
<1>8. Walk(back)
  <2>1. \A k \in 0 .. depth : back[k] = IF k = 0 THEN ROOT_DIR ELSE Step(back[k - 1], k)
    <3> TAKE k \in 0 .. depth
    <3>1. CASE k = 0
      BY <1>1, <1>4, <3>1, SizesAssumption
    <3>2. CASE k # 0
      <4>1. k \in 1 .. depth /\ k - 1 \in 0 .. depth
        BY <1>1, <3>2, SizesAssumption
      <4>2. back[k] = up[depth - k] /\ back[k - 1] = up[depth - (k - 1)]
        BY <4>1
      <4>3. QED
        BY <1>7, <3>2, <4>1, <4>2
    <3>3. QED
      BY <3>1, <3>2
  <2>2. QED
    BY <1>5, <2>1
<1> DEFINE dir == CHOOSE d : Walk(d)
<1>9. Walk(dir)
  <2> HIDE DEF Walk
  <2>1. QED
    BY <1>8
<1> HIDE DEF dir
<1> DEFINE P == {k \in 0 .. depth : dir[k] = up[depth - k]}
<1>10. P = 0 .. depth
  <2>1. 0 \in P
    BY <1>1, <1>4, <1>5, <1>9, SizesAssumption
  <2>2. ASSUME NEW k \in 0 .. depth - 1, k \in P PROVE k + 1 \in P
    <3>1. k + 1 \in 1 .. depth /\ (k + 1) - 1 = k
      BY <1>1, SizesAssumption
    <3>2. dir[k + 1] = Step(dir[k], k + 1)
      BY <1>5, <1>9, <3>1
    <3>3. dir[k] = up[depth - k]
      BY <2>2
    <3>4. Step(up[depth - k], k + 1) = up[depth - (k + 1)]
      BY <1>7, <3>1
    <3>5. QED
      BY <3>1, <3>2, <3>3, <3>4
  <2>3. P \in SUBSET (0 .. depth)
    OBVIOUS
  <2> HIDE DEF P
  <2>4. QED
    BY <1>1, <2>1, <2>2, <2>3, RangeInduction, SizesAssumption
<1>11. dir[depth] = up[0]
  BY <1>1, <1>10, SizesAssumption
<1>12. QED
  BY <1>2, <1>5, <1>6, <1>11 DEF dir, tokens

\* The path the prompt shows stays the one fs_getcwd works out, although no
\* removal refreshes it.
THEOREM PathFresh == DocSpec => []PathIsFresh
<1>1. TableOK(fs) /\ Sound(fs) => PathIsFresh
  BY GetcwdIsRebuilt DEF Sound, PathOK, PathIsFresh
<1>2. QED
  BY <1>1, TreeInvariant, PTL

\* Given back to fs_resolve_path it leads to the current directory, unless the
\* directory is so deep that the path was cut, or the path fills its array.
THEOREM PathResolved == DocSpec => []PathResolves
<1>1. TableOK(fs) /\ Sound(fs) => PathResolves
  BY PathLeadsBack DEF TableOK, Sound, PathOK, PathResolves
<1>2. QED
  BY <1>1, TreeInvariant, PTL

-----------------------------------------------------------------------------
(* The data area: as long as files are written where there is room, no two  *)
(* entries share a byte.  Only the extents of the entries in use matter, so *)
(* each operator is first reduced to what it does to those.                 *)

\* Every byte in use is below the mark, so the data area bounds them all once
\* it bounds the mark.
DataOK(s) == ExtentsDisjoint(s) /\ s.data_usage <= Capacity

SameExtent(f, e) == f.size = e.size /\ f.data_offset = e.data_offset

\* A new entry, which owns no byte yet.
Widened(s, t) ==
  /\ t.file_count = s.file_count + 1 /\ t.data_usage = s.data_usage
  /\ \A i \in Live(s) : SameExtent(t.files[i], s.files[i])
  /\ t.files[s.file_count].size = 0

\* Entry i now owns n bytes, where it started before.
Rewritten(s, t, i, n) ==
  /\ t.file_count = s.file_count
  /\ t.data_usage = IF s.files[i].data_offset + n > s.data_usage
                    THEN s.files[i].data_offset + n ELSE s.data_usage
  /\ \A j \in Live(s) : t.files[j].data_offset = s.files[j].data_offset
  /\ \A j \in Live(s) \ {i} : t.files[j].size = s.files[j].size
  /\ t.files[i].size = n

\* Entry id is gone and the others kept their bytes.
Narrowed(s, t, id) ==
  /\ t.file_count = s.file_count - 1 /\ t.data_usage = s.data_usage
  /\ \A i \in Live(t) : SameExtent(t.files[i], s.files[From(s, id, i)])

\* Every extent in use is made of naturals, below the mark.
LEMMA Extents ==
  ASSUME NEW s, TableOK(s)
  PROVE  /\ s \in filesystem_t /\ s.data_usage \in Nat /\ Capacity \in Nat
         /\ \A i \in Live(s) : /\ s.files[i].size \in Nat /\ s.files[i].data_offset \in Nat
                               /\ End(s, i) \in Nat /\ End(s, i) <= s.data_usage
<1>1. s \in filesystem_t /\ s.data_usage \in Nat /\ Capacity \in Nat
  BY SizesAssumption DEF TableOK, filesystem_t, Capacity
<1>2. ASSUME NEW i \in Live(s)
      PROVE  s.files[i].size \in Nat /\ s.files[i].data_offset \in Nat
  <2>1. s.files[i] \in file_entry_t
    BY <1>1, LiveInTable DEF filesystem_t
  <2>2. QED
    BY <2>1, SizesAssumption DEF file_entry_t
<1>3. QED
  BY <1>1, <1>2 DEF TableOK, ExtentsWithinUsage, End

LEMMA WidenedData ==
  ASSUME NEW s, TableOK(s), DataOK(s), NEW t, Widened(s, t)
  PROVE  DataOK(t)
<1>1. s \in filesystem_t
  BY DEF TableOK
<1>2. \A i \in Live(t) : i = s.file_count \/ i \in Live(s)
  BY <1>1, LiveInTable DEF Widened, Live
<1>3. ExtentsDisjoint(t)
  BY <1>2 DEF DataOK, ExtentsDisjoint, Widened, SameExtent, End
<1>4. QED
  BY <1>3 DEF DataOK, Widened

\* Shrinking stays inside what the entry owned; growing starts from the bytes
\* under the mark, above which nobody owns any.
LEMMA RewrittenData ==
  ASSUME NEW s, TableOK(s), DataOK(s), NEW t, NEW i \in Live(s), NEW n \in Nat,
         Rewritten(s, t, i, n), s.files[i].data_offset + n <= Capacity,
         n <= s.files[i].size \/ End(s, i) = s.data_usage
  PROVE  DataOK(t)
<1> DEFINE offset == s.files[i].data_offset
<1>1. s.data_usage \in Nat /\ Capacity \in Nat /\ s.files[i].size \in Nat /\ offset \in Nat
      /\ End(s, i) \in Nat /\ End(s, i) <= s.data_usage /\ End(s, i) = offset + s.files[i].size
  BY Extents DEF End
<1>2. Live(t) = Live(s)
  BY DEF Rewritten, Live
<1>3. t.files[i].data_offset = offset /\ t.files[i].size = n /\ End(t, i) = offset + n
  BY DEF Rewritten, End
<1> HIDE DEF offset
<1>4. ASSUME NEW j \in Live(s), j # i, t.files[j].size > 0, n > 0
      PROVE  End(t, i) <= t.files[j].data_offset \/ End(t, j) <= t.files[i].data_offset
  <2>1. /\ t.files[j].data_offset = s.files[j].data_offset /\ End(t, j) = End(s, j)
        /\ s.files[j].size > 0
    BY <1>4 DEF Rewritten, End
  <2>2. /\ s.files[j].data_offset \in Nat /\ s.files[j].size \in Nat
        /\ End(s, j) \in Nat /\ End(s, j) <= s.data_usage
        /\ s.files[j].data_offset < End(s, j)
    BY <2>1, Extents DEF End
  <2>3. s.files[i].size > 0 =>
          End(s, i) <= s.files[j].data_offset \/ End(s, j) <= s.files[i].data_offset
    BY <1>4, <2>1 DEF DataOK, ExtentsDisjoint
  <2>4. QED
    BY <1>1, <1>3, <1>4, <2>1, <2>2, <2>3 DEF offset
<1>5. ASSUME NEW j \in Live(s), NEW k \in Live(s), j # k, t.files[j].size > 0, t.files[k].size > 0
      PROVE  End(t, j) <= t.files[k].data_offset \/ End(t, k) <= t.files[j].data_offset
  <2>1. CASE j = i
    BY <1>3, <1>4, <1>5, <2>1
  <2>2. CASE k = i
    BY <1>3, <1>4, <1>5, <2>2
  <2>3. CASE j # i /\ k # i
    <3>1. \A m \in {j, k} : SameExtent(t.files[m], s.files[m])
      BY <2>3 DEF Rewritten, SameExtent
    <3>2. QED
      BY <1>5, <3>1 DEF SameExtent, End, DataOK, ExtentsDisjoint
  <2>4. QED
    BY <2>1, <2>2, <2>3
<1>6. t.data_usage <= Capacity
  BY <1>1 DEF Rewritten, DataOK, offset
<1>7. QED
  BY <1>2, <1>5, <1>6 DEF DataOK, ExtentsDisjoint

LEMMA NarrowedData ==
  ASSUME NEW s, TableOK(s), DataOK(s), NEW id \in Live(s), NEW t, Narrowed(s, t, id)
  PROVE  DataOK(t)
<1>1. \A i \in Live(t) : From(s, id, i) \in Live(s) /\ Follow(s, id, From(s, id, i)) = i
  BY Renumbering DEF Narrowed, TableOK
<1>2. \A i, j \in Live(t) : i # j => From(s, id, i) # From(s, id, j)
  BY <1>1
<1>3. ExtentsDisjoint(t)
  BY <1>1, <1>2 DEF DataOK, ExtentsDisjoint, Narrowed, SameExtent, End
<1>4. QED
  BY <1>3 DEF DataOK, Narrowed

-----------------------------------------------------------------------------
(* What the operators of FileSystem.tla do to the extents. *)

LEMMA CreatedData ==
  ASSUME NEW s, TableOK(s), DataOK(s), s.file_count < MAX_FILES, NEW name, NEW type,
         NEW t, t = Created(s, name, type)
  PROVE  DataOK(t)
<1>1. s \in filesystem_t
  BY DEF TableOK
<1>2. \A i \in Live(s) : i \in FileIds \ {s.file_count}
  BY <1>1, LiveInTable
<1>3. /\ t.file_count = s.file_count + 1 /\ t.data_usage = s.data_usage
      /\ t.files[s.file_count] =
           [name |-> name, type |-> type, size |-> 0,
            parent_id |-> s.current_dir, data_offset |-> s.data_usage]
      /\ \A i \in FileIds \ {s.file_count} : t.files[i] = s.files[i]
  BY <1>1, CreatedFields
<1>4. Widened(s, t)
  BY <1>2, <1>3 DEF Widened, SameExtent
<1>5. QED
  BY <1>4, WidenedData

LEMMA CreateFileData ==
  ASSUME NEW s, TableOK(s), DataOK(s), NEW name, NEW type
  PROVE  DataOK(CreateFile(s, name, type))
BY CreatedData, CreateSucceeds DEF CreateFile, TableOK

LEMMA MakeDirectoryData ==
  ASSUME NEW s, TableOK(s), DataOK(s), NEW name
  PROVE  DataOK(MakeDirectory(s, name))
<1> DEFINE t == MakeDirectory(s, name)
<1>1. CASE MakeDirectoryResult(s, name) # FS_SUCCESS
  BY <1>1 DEF MakeDirectory
<1>2. CASE MakeDirectoryResult(s, name) = FS_SUCCESS
  <2>1. t = MakeDirectory(s, name)
    OBVIOUS
  <2> HIDE DEF t
  <2>2. /\ Grown(s, t, name) /\ t.data_usage = s.data_usage /\ t.files[s.file_count].size = 0
        /\ \A i \in Live(s) : t.files[i] = s.files[i]
    BY <1>2, <2>1, MadeGrown DEF TableOK
  <2>3. Widened(s, t)
    BY <2>2 DEF Grown, Widened, SameExtent
  <2>4. QED
    BY <2>3, WidenedData DEF t
<1>3. QED
  BY <1>1, <1>2

LEMMA StoredRewritten ==
  ASSUME NEW s \in filesystem_t, NEW i \in Live(s), NEW data, NEW t, t = Stored(s, i, data)
  PROVE  Rewritten(s, t, i, Len(data))
<1>1. /\ t.files = [s.files EXCEPT ![i].size = Len(data)]
      /\ t.file_count = s.file_count
      /\ t.data_usage = IF s.files[i].data_offset + Len(data) > s.data_usage
                        THEN s.files[i].data_offset + Len(data) ELSE s.data_usage
  BY DEF Stored, filesystem_t
<1>2. i \in FileIds /\ Live(s) \subseteq FileIds /\ s.files \in [FileIds -> file_entry_t]
  BY LiveInTable DEF filesystem_t
<1>3. t.files[i] = [s.files[i] EXCEPT !.size = Len(data)] /\ s.files[i] \in file_entry_t
  BY <1>1, <1>2
<1>4. t.files[i].size = Len(data) /\ t.files[i].data_offset = s.files[i].data_offset
  BY <1>3 DEF file_entry_t
<1>5. \A j \in Live(s) \ {i} : t.files[j] = s.files[j]
  BY <1>1, <1>2
<1>6. QED
  BY <1>1, <1>4, <1>5 DEF Rewritten

LEMMA SwapOutNarrowed ==
  ASSUME NEW s \in filesystem_t, NEW id \in Live(s), NEW t, t = SwapOut(s, id)
  PROVE  Narrowed(s, t, id)
<1> DEFINE last == s.file_count - 1
<1> DEFINE follow(d) == IF d = last THEN id ELSE d
<1> DEFINE reparented == [i \in FileIds |->
                            IF i \in Live(s)
                            THEN [s.files[i] EXCEPT !.parent_id = follow(@)]
                            ELSE s.files[i]]
<1>1. s.file_count \in Nat /\ id \in FileIds /\ id \in Nat /\ id <= last
      /\ last \in Live(s) /\ Live(s) \subseteq FileIds
  BY LiveInTable DEF Live
<1>2. CASE id = last
  <2>1. t.files = s.files /\ t.file_count = last /\ t.data_usage = s.data_usage
    BY <1>2, <1>1 DEF SwapOut, filesystem_t
  <2>2. \A i \in Live(t) : From(s, id, i) = i
    BY <1>1, <1>2, <2>1 DEF Live, From
  <2>3. QED
    BY <2>1, <2>2 DEF Narrowed, SameExtent
<1>3. CASE id < last
  <2>1. /\ t.files = [reparented EXCEPT ![id] = reparented[last]]
        /\ t.file_count = last /\ t.data_usage = s.data_usage
    BY <1>3 DEF SwapOut, filesystem_t
  <2>2. \A i \in Live(s) : SameExtent(reparented[i], s.files[i])
    <3> TAKE i \in Live(s)
    <3>1. reparented[i] = [s.files[i] EXCEPT !.parent_id = follow(@)]
      BY <1>1
    <3>2. s.files[i] \in file_entry_t
      BY <1>1 DEF filesystem_t
    <3>3. QED
      BY <3>1, <3>2 DEF file_entry_t, SameExtent
  <2>3. DOMAIN reparented = FileIds
    OBVIOUS
  <2> HIDE DEF reparented, follow
  <2>4. \A i \in Live(t) : t.files[i] = reparented[From(s, id, i)] /\ From(s, id, i) \in Live(s)
    BY <1>1, <2>1, <2>3 DEF From, Live
  <2>5. QED
    BY <2>1, <2>2, <2>4 DEF Narrowed
<1>4. QED
  BY <1>1, <1>2, <1>3

\* Removing an entry, by whichever call.
LEMMA RemovalData ==
  ASSUME NEW s, TableOK(s), DataOK(s), NEW name
  PROVE  DataOK(DeleteFile(s, name)) /\ DataOK(RemoveDirectory(s, name))
<1>1. ASSUME Exists(s, name) PROVE DataOK(SwapOut(s, Lookup(s, name)))
  <2>1. s \in filesystem_t /\ Lookup(s, name) \in Live(s)
    BY <1>1, LookupInTable DEF TableOK
  <2>2. Narrowed(s, SwapOut(s, Lookup(s, name)), Lookup(s, name))
    BY <2>1, SwapOutNarrowed
  <2>3. QED
    BY <2>1, <2>2, NarrowedData
<1>2. RemoveDirectoryResult(s, name) = FS_SUCCESS => Exists(s, name)
  BY DEF RemoveDirectoryResult, FS_SUCCESS, FS_ERROR_NOT_FOUND
<1>3. QED
  BY <1>1, <1>2 DEF DeleteFile, RemoveDirectory

\* Going elsewhere moves no byte.
LEMMA ChangeDirectoryData ==
  ASSUME NEW s, TableOK(s), DataOK(s), NEW path
  PROVE  DataOK(ChangeDirectory(s, path))
<1>1. ASSUME NEW d PROVE DataOK(Rebuilt([s EXCEPT !.current_dir = d]))
  <2> DEFINE t == Rebuilt([s EXCEPT !.current_dir = d])
  <2>1. t.files = s.files /\ t.file_count = s.file_count /\ t.data_usage = s.data_usage
    BY DEF Rebuilt, TableOK, filesystem_t
  <2> HIDE DEF t
  <2>2. QED
    BY <2>1 DEF DataOK, ExtentsDisjoint, Live, End, t
<1>2. QED
  BY <1>1 DEF ChangeDirectory

\* Where the entries are found once a file has been created.
LEMMA CreatedLookup ==
  ASSUME NEW s \in filesystem_t, s.file_count < MAX_FILES, NEW name, ~Exists(s, name), NEW type,
         NEW t, t = Created(s, name, type)
  PROVE  /\ Lookup(t, name) = s.file_count
         /\ \A n : Exists(s, n) => Lookup(t, n) = Lookup(s, n)
<1> DEFINE new == s.file_count
<1> DEFINE found(u, n) ==
      {i \in Live(u) : u.files[i].parent_id = u.current_dir /\ u.files[i].name = n}
<1>1. Grown(s, t, name)
  BY CreatedGrown
<1>2. Live(t) = Live(s) \cup {new} /\ new \notin Live(s) /\ new \in Nat
  BY <1>1, LiveInTable DEF Live, Grown
<1>3. /\ t.current_dir = s.current_dir /\ t.files[new].name = name
      /\ t.files[new].parent_id = s.current_dir
      /\ \A i \in Live(s) : t.files[i].name = s.files[i].name
                            /\ t.files[i].parent_id = s.files[i].parent_id
  BY <1>1 DEF Grown, SameNode
<1>4. \A u, n : Lookup(u, n) = IF found(u, n) = {} THEN NotFound ELSE Min(found(u, n))
  BY DEF Lookup, find_file_in_dir
<1> HIDE DEF new
<1>5. found(t, name) = {new}
  BY <1>2, <1>3, NotFoundIs
<1>6. ASSUME NEW n, Exists(s, n) PROVE found(t, n) = found(s, n)
  BY <1>2, <1>3, <1>6
<1>7. Min({new}) = new
  <2>1. Min({new}) \in {new}
    BY <1>2, MinOfNaturals
  <2>2. QED
    BY <2>1
<1> HIDE DEF found
<1>8. QED
  BY <1>4, <1>5, <1>6, <1>7 DEF new

\* A write that succeeds, of no more bytes than there is room for, stores them
\* in place.
LEMMA WrittenInPlace ==
  ASSUME NEW s, TableOK(s), DataOK(s), NEW name \in EntryNames, NEW data \in Seq(Bytes),
         NEW n \in Nat, Shown(data) <= n, HasRoom(s, name, n),
         WriteResult(s, name) = FS_SUCCESS,
         NEW t, t = IF Exists(s, name) THEN s ELSE CreateFile(s, name, FILE_TYPE_REGULAR),
         NEW i, i = Lookup(t, name), NEW clipped, clipped = Clip(data, MAX_FILE_SIZE)
  PROVE  /\ TableOK(t) /\ DataOK(t) /\ i \in Live(t) /\ t.files[i].type = FILE_TYPE_REGULAR
         /\ ~Faulty(t) => WriteFile(s, name, data) = Stored(t, i, clipped)
         /\ clipped \in Seq(Bytes) /\ Len(clipped) <= MAX_FILE_SIZE
         /\ t.files[i].data_offset + Len(clipped) <= Capacity
         /\ Len(clipped) <= t.files[i].size \/ End(t, i) = t.data_usage
<1>1. TableOK(t) /\ DataOK(t)
  BY CreateFileTable, CreateFileData DEF FileTypes
<1>2. /\ i \in Live(t) /\ t.files[i].type = FILE_TYPE_REGULAR
      /\ t.files[i].data_offset + n <= Capacity
      /\ n <= t.files[i].size \/ t.files[i].data_offset + t.files[i].size = t.data_usage
  <2>1. CASE Exists(s, name)
    <3>1. i \in Live(s)
      BY <2>1, LookupInTable DEF TableOK
    <3>2. s.files[i].type = FILE_TYPE_REGULAR
      BY <2>1 DEF WriteResult, FS_SUCCESS, FS_ERROR_INVALID_PATH
    <3>3. QED
      BY <2>1, <3>1, <3>2 DEF HasRoom
  <2>2. CASE ~Exists(s, name)
    <3>1. CreateResult(s, name) = FS_SUCCESS
      BY <2>2 DEF WriteResult, FS_SUCCESS, FS_ERROR_NO_SPACE
    <3>2. t = Created(s, name, FILE_TYPE_REGULAR)
      BY <2>2, <3>1 DEF CreateFile
    <3>3. s \in filesystem_t /\ s.file_count < MAX_FILES
      BY <3>1, CreateSucceeds DEF TableOK
    <3>4. i = s.file_count
      BY <2>2, <3>2, <3>3, CreatedLookup
    <3>5. /\ Live(t) = Live(s) \cup {s.file_count} /\ t.data_usage = s.data_usage
          /\ t.files[s.file_count] =
               [name |-> name, type |-> FILE_TYPE_REGULAR, size |-> 0,
                parent_id |-> s.current_dir, data_offset |-> s.data_usage]
      BY <3>2, <3>3, CreatedFields
    <3>6. s.data_usage + n <= Capacity /\ s.data_usage \in Nat
      BY <2>2, Extents DEF HasRoom
    <3>7. QED
      BY <3>4, <3>5, <3>6
  <2>3. QED
    BY <2>1, <2>2
<1>3. clipped \in Seq(Bytes) /\ Len(clipped) <= MAX_FILE_SIZE
      /\ Len(clipped) \in Nat /\ Len(clipped) <= n
  BY ClipType, SizesAssumption DEF Shown
<1>4. ~Faulty(t) => WriteFile(s, name, data) = Stored(t, i, clipped)
  BY DEF WriteFile
<1>5. /\ t.files[i].data_offset \in Nat /\ t.files[i].size \in Nat /\ Capacity \in Nat
      /\ End(t, i) = t.files[i].data_offset + t.files[i].size
  BY <1>1, <1>2, Extents DEF End
<1>6. /\ t.files[i].data_offset + Len(clipped) <= Capacity
      /\ Len(clipped) <= t.files[i].size \/ End(t, i) = t.data_usage
  <2>1. PICK o, z, m \in Nat : o = t.files[i].data_offset /\ z = t.files[i].size
                             /\ m = Len(clipped) /\ m <= n
    BY <1>3, <1>5
  <2>2. o + n <= Capacity /\ (n <= z \/ o + z = t.data_usage)
    BY <1>2, <2>1
  <2>3. o + m <= Capacity
    BY <1>5, <2>1, <2>2
  <2>4. m <= z \/ o + z = t.data_usage
    BY <2>1, <2>2
  <2>5. QED
    BY <1>5, <2>1, <2>3, <2>4
<1>7. QED
  BY <1>1, <1>2, <1>3, <1>4, <1>6

LEMMA WriteFileData ==
  ASSUME NEW s, TableOK(s), DataOK(s), NEW name \in EntryNames, NEW data \in Seq(Bytes),
         NEW n \in Nat, Shown(data) <= n, HasRoom(s, name, n)
  PROVE  DataOK(WriteFile(s, name, data))
<1> DEFINE t == IF Exists(s, name) THEN s ELSE CreateFile(s, name, FILE_TYPE_REGULAR)
<1> DEFINE i == Lookup(t, name)
<1> DEFINE clipped == Clip(data, MAX_FILE_SIZE)
<1>1. TableOK(t) /\ DataOK(t)
  BY CreateFileTable, CreateFileData DEF FileTypes
<1>2. CASE WriteResult(s, name) # FS_SUCCESS \/ Faulty(t)
  BY <1>1, <1>2 DEF WriteFile
<1>3. CASE WriteResult(s, name) = FS_SUCCESS /\ ~Faulty(t)
  <2>1. /\ i \in Live(t) /\ WriteFile(s, name, data) = Stored(t, i, clipped)
        /\ Len(clipped) \in Nat
        /\ t.files[i].data_offset + Len(clipped) <= Capacity
        /\ Len(clipped) <= t.files[i].size \/ End(t, i) = t.data_usage
    BY <1>3, WrittenInPlace
  <2> HIDE DEF t, i, clipped
  <2>2. Rewritten(t, WriteFile(s, name, data), i, Len(clipped))
    BY <1>1, <2>1, StoredRewritten DEF TableOK
  <2>3. QED
    BY <1>1, <2>1, <2>2, RewrittenData
<1>4. QED
  BY <1>2, <1>3

\* A copy needs the room of its source.
LEMMA CopyFileData ==
  ASSUME NEW s, TableOK(s), DataOK(s), ~Faulty(s), NEW src, NEW dest \in EntryNames,
         HasRoom(s, dest, SizeOf(s, src))
  PROVE  DataOK(CopyFile(s, src, dest))
<1> DEFINE data == ReadBuffer(s, src, MAX_FILE_SIZE)
<1>1. CASE ReadResult(s, src, MAX_FILE_SIZE) < 0
  BY <1>1 DEF CopyFile
<1>2. CASE ~(ReadResult(s, src, MAX_FILE_SIZE) < 0)
  <2>1. Exists(s, src)
    BY <1>2 DEF ReadResult, FS_ERROR_INVALID_PATH
  <2>2. SizeOf(s, src) = s.files[Lookup(s, src)].size /\ SizeOf(s, src) \in Nat
    BY <2>1, LookupInTable, Extents DEF SizeOf
  <2>3. data \in Seq(Bytes) /\ Len(data) <= SizeOf(s, src)
    BY <2>1, <2>2, ReadBufferType, SizesAssumption
  <2>4. CopyFile(s, src, dest) = WriteFile(s, dest, data)
    BY <1>2 DEF CopyFile
  <2> HIDE DEF data
  <2>5. Shown(data) <= SizeOf(s, src)
    BY <2>2, <2>3, ClipType, SizesAssumption DEF Shown
  <2>6. QED
    BY <2>2, <2>3, <2>4, <2>5, WriteFileData
<1>3. QED
  BY <1>1, <1>2

LEMMA MovedIntoData ==
  ASSUME NEW s, TableOK(s), DataOK(s), ~Faulty(s), NEW src, Exists(s, src),
         NEW dest \in EntryNames, HasRoom(s, dest, SizeOf(s, src))
  PROVE  DataOK(MovedInto(s, src, dest))
<1> DEFINE size == s.files[Lookup(s, src)].size
<1> DEFINE data == ReadBuffer(s, src, size)
<1>1. size = SizeOf(s, src) /\ size \in Nat
  BY LookupInTable, Extents DEF SizeOf
<1> HIDE DEF size
<1>2. data \in Seq(Bytes) /\ Len(data) <= size
  BY <1>1, ReadBufferType
<1> HIDE DEF data
<1>3. Shown(data) <= size
  BY <1>1, <1>2, ClipType, SizesAssumption DEF Shown
<1>4. TableOK(WriteFile(s, dest, data)) /\ DataOK(WriteFile(s, dest, data))
  BY <1>1, <1>2, <1>3, WriteFileTable, WriteFileData
<1>5. QED
  BY <1>4, RemovalData DEF MovedInto, size, data

\* The destination of a move is empty and at the mark, which has the room, and
\* the source is where it was.
LEMMA DestinationHasRoom ==
  ASSUME NEW s, TableOK(s), NEW src, Exists(s, src), NEW dest \in EntryNames,
         CreateResult(s, dest) = FS_SUCCESS, HasRoom(s, dest, SizeOf(s, src)),
         NEW type \in FileTypes, NEW t, t = CreateFile(s, dest, type)
  PROVE  /\ Exists(t, src) /\ Exists(t, dest)
         /\ Lookup(t, src) = Lookup(s, src) /\ Lookup(t, dest) = s.file_count
         /\ t.files[Lookup(s, src)] = s.files[Lookup(s, src)]
         /\ t.files[s.file_count].type = type
         /\ SizeOf(t, src) = SizeOf(s, src) /\ HasRoom(t, dest, SizeOf(t, src))
<1>1. /\ s \in filesystem_t /\ Lookup(s, src) \in Live(s) /\ Lookup(s, src) \in FileIds
      /\ s.file_count < MAX_FILES /\ ~Exists(s, dest)
  BY LookupInTable, CreateSucceeds DEF TableOK
<1>2. t = Created(s, dest, type)
  BY DEF CreateFile
<1>3. Exists(t, src) /\ Exists(t, dest)
  BY <1>1, <1>2, CreatedExists
<1>4. Lookup(t, dest) = s.file_count /\ Lookup(t, src) = Lookup(s, src)
  BY <1>1, <1>2, CreatedLookup
<1>5. /\ t.data_usage = s.data_usage
      /\ t.files[s.file_count] =
           [name |-> dest, type |-> type, size |-> 0,
            parent_id |-> s.current_dir, data_offset |-> s.data_usage]
      /\ \A i \in FileIds \ {s.file_count} : t.files[i] = s.files[i]
  BY <1>1, <1>2, CreatedFields
<1>6. Lookup(s, src) # s.file_count /\ s.data_usage \in Nat
  BY <1>1, LiveInTable, Extents
<1>7. SizeOf(t, src) = SizeOf(s, src)
  BY <1>1, <1>3, <1>4, <1>5, <1>6 DEF SizeOf
<1>8. HasRoom(t, dest, SizeOf(t, src))
  BY <1>1, <1>3, <1>4, <1>5, <1>6, <1>7 DEF HasRoom
<1>9. QED
  BY <1>1, <1>3, <1>4, <1>5, <1>6, <1>7, <1>8

LEMMA MoveFileData ==
  ASSUME NEW s, TableOK(s), DataOK(s), NEW src, NEW dest \in EntryNames,
         HasRoom(s, dest, SizeOf(s, src))
  PROVE  DataOK(MoveFile(s, src, dest))
<1> DEFINE type == s.files[Lookup(s, src)].type
<1> DEFINE t == CreateFile(s, dest, type)
<1>1. CASE ~Exists(s, src) \/ CreateResult(s, dest) # FS_SUCCESS
  BY <1>1 DEF MoveFile
<1>2. CASE Exists(s, src) /\ CreateResult(s, dest) = FS_SUCCESS
  <2>1. s \in filesystem_t /\ Lookup(s, src) \in FileIds
    BY <1>2, LookupInTable DEF TableOK
  <2>2. type \in FileTypes
    BY <2>1 DEF filesystem_t, file_entry_t
  <2>3. MoveFile(s, src, dest) = IF Faulty(t) THEN t ELSE MovedInto(t, src, dest)
    BY <1>2 DEF MoveFile
  <2>4. TableOK(t) /\ DataOK(t)
    BY <2>2, CreateFileTable, CreateFileData
  <2> HIDE DEF type
  <2>5. Exists(t, src) /\ HasRoom(t, dest, SizeOf(t, src))
    BY <1>2, <2>2, DestinationHasRoom
  <2> HIDE DEF t
  <2>6. QED
    BY <2>3, <2>4, <2>5, MovedIntoData
<1>3. QED
  BY <1>1, <1>2

-----------------------------------------------------------------------------
(* The calls that leave the data where it is, and those that write in place. *)

LEMMA TableCallsData ==
  ASSUME TableOK(fs), DataOK(fs), TableCalls
  PROVE  DataOK(fs')
<1>1. Names \subseteq EntryNames
  BY DEF EntryNames
<1>2. ASSUME NEW n \in Names, NEW t \in CreateTypes, fs_create_file(n, t) PROVE DataOK(fs')
  BY <1>2, CreateFileData DEF fs_create_file
<1>3. ASSUME NEW n \in Names, fs_touch_file(n) PROVE DataOK(fs')
  <2>1. CASE Exists(fs, n)
    BY <1>3, <2>1 DEF fs_touch_file, TouchFile
  <2>2. CASE ~Exists(fs, n)
    <3>1. <<>> \in Seq(Bytes) /\ Shown(<<>>) <= 0
      BY SizesAssumption DEF Shown, Clip
    <3>2. HasRoom(fs, n, 0)
      BY <2>2, Extents DEF HasRoom, DataOK
    <3>3. fs' = WriteFile(fs, n, <<>>)
      BY <1>3, <2>2 DEF fs_touch_file, TouchFile
    <3>4. QED
      BY <1>1, <3>1, <3>2, <3>3, WriteFileData
  <2>3. QED
    BY <2>1, <2>2
<1>4. ASSUME NEW n \in Names, fs_make_directory(n) PROVE DataOK(fs')
  BY <1>4, MakeDirectoryData DEF fs_make_directory
<1>5. ASSUME NEW n \in Names, fs_remove_directory(n) \/ fs_delete_file(n) PROVE DataOK(fs')
  BY <1>5, RemovalData DEF fs_remove_directory, fs_delete_file
<1>6. ASSUME NEW n \in Names \cup {Dot, DotDot, EmptyName}, fs_change_directory(n)
      PROVE  DataOK(fs')
  BY <1>6, ChangeDirectoryData DEF fs_change_directory
<1>7. QED
  BY <1>2, <1>3, <1>4, <1>5, <1>6 DEF TableCalls

LEMMA InPlaceData ==
  ASSUME TableOK(fs), DataOK(fs), [InPlaceNext]_fs
  PROVE  DataOK(fs')
<1>1. Names \subseteq EntryNames
  BY DEF EntryNames
<1>2. CASE TableCalls
  BY <1>2, TableCallsData
<1>3. ASSUME NEW n \in Names, NEW d \in Contents, HasRoom(fs, n, Shown(d)), fs_write_file(n, d)
      PROVE  DataOK(fs')
  <2>1. d \in Seq(Bytes)
    BY DataAssumption
  <2>2. Shown(d) \in Nat /\ Shown(d) <= Shown(d)
    BY <2>1, ClipType, SizesAssumption DEF Shown
  <2>3. QED
    BY <1>1, <1>3, <2>1, <2>2, WriteFileData DEF fs_write_file
<1>4. ASSUME NEW src \in Names, NEW dest \in Names, HasRoom(fs, dest, SizeOf(fs, src)),
             fs_copy_file(src, dest)
      PROVE  DataOK(fs')
  BY <1>1, <1>4, CopyFileData DEF fs_copy_file, Running
<1>5. ASSUME NEW src \in Names, NEW dest \in Names, HasRoom(fs, dest, SizeOf(fs, src)),
             fs_move_file(src, dest)
      PROVE  DataOK(fs')
  BY <1>1, <1>5, MoveFileData DEF fs_move_file
<1>6. CASE UNCHANGED fs
  BY <1>6
<1>7. QED
  BY <1>2, <1>3, <1>4, <1>5, <1>6 DEF InPlaceNext

LEMMA RootOnlyData == DataOK(RootOnly)
<1>1. Capacity \in Nat
  BY SizesAssumption DEF Capacity
<1>2. \A i, j \in Live(RootOnly) : i = j
  BY DEF RootOnly, Live
<1>3. QED
  BY <1>1, <1>2 DEF DataOK, ExtentsDisjoint, RootOnly

\* The inductive invariant of the calls that write in place.
THEOREM DataInvariant == InPlaceSpec => [](TableOK(fs) /\ DataOK(fs))
<1>1. Init => TableOK(fs) /\ DataOK(fs)
  <2>1. {Home, Bin, Etc} \subseteq Names \cup {RootName}
    BY InitDirsAssumption
  <2>2. TableOK(RootOnly) /\ DataOK(RootOnly)
    BY RootOnlyTable, RootOnlyData
  <2>3. ASSUME NEW s, TableOK(s), DataOK(s), NEW name \in Names \cup {RootName}
        PROVE  TableOK(MakeDirectory(s, name)) /\ DataOK(MakeDirectory(s, name))
    BY <2>3, MakeDirectoryTable, MakeDirectoryData
  <2>4. QED
    BY <2>1, <2>2, <2>3 DEF Init, fs_init
<1>2. [InPlaceNext]_fs => [Next]_fs
  BY DEF InPlaceNext, TableCalls, Next
<1>3. TableOK(fs) /\ DataOK(fs) /\ [InPlaceNext]_fs => (TableOK(fs) /\ DataOK(fs))'
  BY <1>2, NextTable, InPlaceData
  DEF TableOK, filesystem_t, ExtentsWithinUsage, UsageWithinCapacity, Faulty, Live, End,
      DataOK, ExtentsDisjoint
<1>4. QED
  BY <1>1, <1>3, PTL DEF InPlaceSpec

\* Written only where there is room, files never share a byte and never leave
\* the data area, whatever is removed, renumbered, copied or moved.
THEOREM DataApart == InPlaceSpec => []FilesAreDisjoint
<1>1. TableOK(fs) /\ DataOK(fs) => FilesAreDisjoint
  <2> SUFFICES ASSUME TableOK(fs), DataOK(fs) PROVE FilesAreDisjoint
    OBVIOUS
  <2>1. \A i \in Live(fs) : End(fs, i) <= Capacity
    BY Extents DEF DataOK
  <2>2. QED
    BY <2>1 DEF FilesAreDisjoint, ExtentsInside, DataOK
<1>2. QED
  BY <1>1, DataInvariant, PTL

-----------------------------------------------------------------------------
(* What one call does to the bytes. *)

\* Data short enough is not clipped.
LEMMA ClipWhole ==
  ASSUME NEW data \in Seq(Bytes), NEW n \in Nat, Len(data) <= n
  PROVE  Clip(data, n) = data
<1>1. Clip(data, n) = SubSeq(data, 1, Len(data))
  BY DEF Clip
<1>2. QED
  BY <1>1

\* The bytes stored are the bytes read.
LEMMA StoredBytes ==
  ASSUME NEW s, TableOK(s), NEW i \in Live(s), NEW data \in Seq(Bytes),
         s.files[i].data_offset + Len(data) <= Capacity,
         NEW t, t = Stored(s, i, data)
  PROVE  FileBytes(t, i) = data
<1> DEFINE offset == s.files[i].data_offset
<1>1. s \in filesystem_t /\ offset \in Nat /\ Capacity \in Nat /\ Len(data) \in Nat
  BY Extents
<1>2. t.files[i].size = Len(data) /\ t.files[i].data_offset = offset
  <2>1. Rewritten(s, t, i, Len(data))
    BY <1>1, StoredRewritten
  <2>2. QED
    BY <2>1 DEF Rewritten
<1>3. t.data_storage = Copied(s, i, data)
  BY DEF Stored, TableOK, filesystem_t
<1>4. ASSUME NEW k \in 1 .. Len(data) PROVE t.data_storage[offset + k - 1] = data[k]
  <2>1. /\ offset + k - 1 \in 0 .. Capacity - 1
        /\ offset + k - 1 \in offset .. offset + Len(data) - 1
        /\ (offset + k - 1) - offset + 1 = k
    BY <1>1
  <2>2. \A m \in 0 .. Capacity - 1 :
          m \in offset .. offset + Len(data) - 1 => t.data_storage[m] = data[m - offset + 1]
    BY <1>3 DEF Copied
  <2> HIDE DEF offset
  <2>3. QED
    BY <2>1, <2>2
<1>5. FileBytes(t, i) = [k \in 1 .. Len(data) |-> t.data_storage[offset + k - 1]]
  BY <1>2 DEF FileBytes
<1>6. FileBytes(t, i) = [k \in 1 .. Len(data) |-> data[k]]
  BY <1>4, <1>5
<1>7. QED
  BY <1>6

\* A write that succeeds leaves a regular file that reads back as it was given.
LEMMA WrittenReadsBack ==
  ASSUME NEW s, TableOK(s), NEW name \in EntryNames, NEW data \in Seq(Bytes),
         WriteResult(s, name) = FS_SUCCESS,
         NEW t, t = WriteFile(s, name, data), ~Faulty(t)
  PROVE  /\ ReadResult(t, name, MAX_FILE_SIZE) = Shown(data)
         /\ ReadBuffer(t, name, MAX_FILE_SIZE) = Clip(data, MAX_FILE_SIZE)
<1> DEFINE u == IF Exists(s, name) THEN s ELSE CreateFile(s, name, FILE_TYPE_REGULAR)
<1> DEFINE i == Lookup(u, name)
<1> DEFINE clipped == Clip(data, MAX_FILE_SIZE)
<1>1. TableOK(u) /\ ~Faulty(u)
  BY CreateFileTable DEF FileTypes, WriteFile
<1>2. t = Stored(u, i, clipped)
  BY <1>1 DEF WriteFile
<1>3. i \in Live(u) /\ Exists(u, name) /\ u.files[i].type = FILE_TYPE_REGULAR
  <2>1. CASE Exists(s, name)
    <3>1. s.files[Lookup(s, name)].type = FILE_TYPE_REGULAR
      BY <2>1 DEF WriteResult, FS_SUCCESS, FS_ERROR_INVALID_PATH
    <3>2. QED
      BY <2>1, <3>1, LookupInTable DEF TableOK
  <2>2. CASE ~Exists(s, name)
    <3>1. CreateResult(s, name) = FS_SUCCESS
      BY <2>2 DEF WriteResult, FS_SUCCESS, FS_ERROR_NO_SPACE
    <3>2. u = Created(s, name, FILE_TYPE_REGULAR)
      BY <2>2, <3>1 DEF CreateFile
    <3>3. s \in filesystem_t /\ s.file_count < MAX_FILES
      BY <3>1, CreateSucceeds DEF TableOK
    <3> HIDE DEF u
    <3>4. i = s.file_count /\ u.files[s.file_count].type = FILE_TYPE_REGULAR
      BY <2>2, <3>2, <3>3, CreatedLookup, CreatedGrown
    <3>5. Exists(u, name)
      BY <3>2, <3>3, CreatedExists DEF FileTypes
    <3>6. i \in Live(u)
      BY <1>1, <3>5, LookupInTable DEF TableOK
    <3> HIDE DEF i
    <3>7. QED
      BY <3>4, <3>5, <3>6
  <2>3. QED
    BY <2>1, <2>2
<1>4. clipped \in Seq(Bytes) /\ Len(clipped) <= MAX_FILE_SIZE
  BY ClipType, SizesAssumption
<1> HIDE DEF u, i, clipped
<1>5. u.files[i].data_offset + Len(clipped) <= Capacity
  <2>1. t.fault = IF u.files[i].data_offset + Len(clipped) > Capacity
                  THEN StorageOverrun ELSE u.fault
    BY <1>1, <1>2 DEF Stored, TableOK, filesystem_t
  <2>2. u.files[i].data_offset \in Nat /\ Capacity \in Nat
    BY <1>1, <1>3, Extents
  <2>3. QED
    BY <1>4, <2>1, <2>2 DEF Faulty, StorageOverrun, NoFault
<1>6. FileBytes(t, i) = clipped
  BY <1>1, <1>2, <1>3, <1>4, <1>5, StoredBytes
<1>7. Lookup(t, name) = i /\ t.files[i].type = FILE_TYPE_REGULAR
  <2>1. u \in filesystem_t /\ i \in FileIds
    BY <1>1, <1>3, LiveInTable DEF TableOK
  <2>2. SameTree(u, t)
    BY <1>2, <2>1, StoredSame
  <2>3. Lookup(t, name) = Lookup(u, name)
    BY <2>1, <2>2, SameLookup
  <2>4. QED
    BY <1>3, <2>2, <2>3 DEF SameTree, SameNode, i
<1>8. Exists(t, name)
  BY <1>3, <1>7 DEF Exists, i
<1>9. Clip(clipped, MAX_FILE_SIZE) = clipped
  BY <1>4, ClipWhole, SizesAssumption
<1>10. ReadBuffer(t, name, MAX_FILE_SIZE) = clipped
  BY <1>6, <1>7, <1>9 DEF ReadBuffer
<1>11. ReadResult(t, name, MAX_FILE_SIZE) = Len(clipped)
  BY <1>6, <1>7, <1>8, <1>9 DEF ReadResult
<1>12. QED
  BY <1>10, <1>11 DEF clipped, Shown

\* Taking back the entry just created leaves the entries before it as they were.
LEMMA CreatedTakenBack ==
  ASSUME NEW s, TableOK(s), NEW name \in EntryNames, NEW type \in FileTypes,
         CreateResult(s, name) = FS_SUCCESS,
         NEW c, c = CreateFile(s, name, type)
  PROVE  SameFiles(s, DeleteFile(c, name))
<1> DEFINE t == DeleteFile(c, name)
<1>1. s \in filesystem_t /\ s.file_count < MAX_FILES /\ ~Exists(s, name) /\ s.file_count \in Nat
  BY CreateSucceeds, LiveInTable DEF TableOK
<1>2. c = Created(s, name, type)
  BY DEF CreateFile
<1>3. Lookup(c, name) = s.file_count /\ Exists(c, name) /\ c \in filesystem_t
  BY <1>1, <1>2, CreatedLookup, CreatedExists, CreatedTable DEF TableOK
<1>4. /\ c.file_count = s.file_count + 1 /\ c.current_dir = s.current_dir
      /\ c.data_storage = s.data_storage
      /\ c.files[s.file_count] =
           [name |-> name, type |-> type, size |-> 0,
            parent_id |-> s.current_dir, data_offset |-> s.data_usage]
      /\ \A i \in FileIds \ {s.file_count} : c.files[i] = s.files[i]
  BY <1>1, <1>2, CreatedFields
<1>5. c.current_path = s.current_path
  BY <1>1, <1>2 DEF Created, filesystem_t
<1>6. t = [c EXCEPT !.file_count = s.file_count]
  <2>1. c.file_count - 1 = s.file_count /\ ~(s.file_count < s.file_count)
    BY <1>1, <1>4
  <2>2. t = SwapOut(c, s.file_count)
    BY <1>3 DEF DeleteFile
  <2> HIDE DEF t
  <2>3. QED
    BY <2>1, <2>2 DEF SwapOut
<1>7. /\ t.file_count = s.file_count /\ t.current_dir = s.current_dir
      /\ t.current_path = s.current_path /\ t.data_storage = s.data_storage
      /\ t.files = c.files
  BY <1>3, <1>4, <1>5, <1>6 DEF filesystem_t
<1>8. \A i \in Live(s) : i \in FileIds \ {s.file_count}
  BY <1>1, LiveInTable
<1> HIDE DEF t
<1>9. \A i \in Live(s) : t.files[i] = s.files[i]
  BY <1>4, <1>7, <1>8
<1>10. \A i \in Live(s) : FileBytes(t, i) = FileBytes(s, i)
  BY <1>7, <1>9 DEF FileBytes
<1>11. QED
  BY <1>7, <1>9, <1>10 DEF SameFiles, t

LEMMA FailedMoveKeeps ==
  ASSUME NEW s, TableOK(s), NEW src, NEW dest \in EntryNames,
         MoveResult(s, src, dest) # FS_SUCCESS, ~Faulty(MoveFile(s, src, dest))
  PROVE  SameFiles(s, MoveFile(s, src, dest))
<1> DEFINE c == CreateFile(s, dest, s.files[Lookup(s, src)].type)
<1>1. CASE ~Exists(s, src) \/ CreateResult(s, dest) # FS_SUCCESS
  <2>1. MoveFile(s, src, dest) = s
    BY <1>1 DEF MoveFile
  <2>2. QED
    BY <2>1 DEF SameFiles
<1>2. CASE Exists(s, src) /\ CreateResult(s, dest) = FS_SUCCESS
  <2>1. s \in filesystem_t /\ Lookup(s, src) \in FileIds /\ ~Exists(s, dest)
    BY <1>2, LookupInTable, CreateSucceeds DEF TableOK
  <2>2. s.files[Lookup(s, src)].type \in FileTypes
    BY <2>1 DEF filesystem_t, file_entry_t
  <2>3. MoveFile(s, src, dest) = MovedInto(c, src, dest)
    BY <1>2 DEF MoveFile
  <2>4. ~(/\ ReadResult(c, src, c.files[Lookup(c, src)].size) = c.files[Lookup(c, src)].size
          /\ WriteResult(c, dest) = FS_SUCCESS)
    BY <1>2, <2>1 DEF MoveResult
  <2>5. SameFiles(s, DeleteFile(c, dest))
    <3>1. c = CreateFile(s, dest, s.files[Lookup(s, src)].type)
      OBVIOUS
    <3> HIDE DEF c
    <3>2. QED
      BY <1>2, <2>2, <3>1, CreatedTakenBack
  <2> HIDE DEF c
  <2>6. MovedInto(c, src, dest) = DeleteFile(c, dest)
    BY <2>4 DEF MovedInto
  <2>7. QED
    BY <2>3, <2>5, <2>6
<1>3. QED
  BY <1>1, <1>2

\* What fs_write_file accepts, fs_read_file gives back.
THEOREM WritesReadBack == Spec => ReadBack
<1>1. TableOK(fs) =>
        [\A n \in Names, d \in Contents :
           /\ fs_write_file(n, d)
           /\ WriteResult(fs, n) = FS_SUCCESS
           /\ ~Faulty(fs')
           => /\ ReadResult(fs', n, MAX_FILE_SIZE) = Shown(d)
              /\ ReadBuffer(fs', n, MAX_FILE_SIZE) = Clip(d, MAX_FILE_SIZE)]_fs
  <2> SUFFICES ASSUME TableOK(fs), NEW n \in Names, NEW d \in Contents, fs_write_file(n, d),
                      WriteResult(fs, n) = FS_SUCCESS, ~Faulty(fs')
               PROVE  /\ ReadResult(fs', n, MAX_FILE_SIZE) = Shown(d)
                      /\ ReadBuffer(fs', n, MAX_FILE_SIZE) = Clip(d, MAX_FILE_SIZE)
    OBVIOUS
  <2>1. n \in EntryNames /\ d \in Seq(Bytes)
    BY DataAssumption DEF EntryNames
  <2>2. QED
    BY <2>1, WrittenReadsBack DEF fs_write_file
<1>2. QED
  BY <1>1, TableInvariant, PTL DEF Spec, ReadBack

\* A move that fails has changed nothing.
THEOREM FailedMovesUndone == Spec => FailedMoveChangesNothing
<1>1. TableOK(fs) =>
        [\A src, dest \in Names :
           /\ fs_move_file(src, dest)
           /\ MoveResult(fs, src, dest) # FS_SUCCESS
           /\ ~Faulty(fs')
           => SameFiles(fs, fs')]_fs
  <2> SUFFICES ASSUME TableOK(fs), NEW src \in Names, NEW dest \in Names,
                      fs_move_file(src, dest), MoveResult(fs, src, dest) # FS_SUCCESS,
                      ~Faulty(fs')
               PROVE  SameFiles(fs, fs')
    OBVIOUS
  <2>1. dest \in EntryNames
    BY DEF EntryNames
  <2>2. QED
    BY <2>1, FailedMoveKeeps DEF fs_move_file
<1>2. QED
  BY <1>1, TableInvariant, PTL DEF Spec, FailedMoveChangesNothing

=============================================================================
