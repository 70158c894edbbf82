------------------------ MODULE FileRefinementProofs ------------------------
(***************************************************************************)
(* The table of FileSystem.tla implements the tree of                      *)
(* AbstractFileSystem.tla, for every value of the constants.               *)
(*                                                                         *)
(* That the names on the way up make paths at all is part of the           *)
(* invariant: each operator is given the paths it leaves, and in a tree    *)
(* there is only one way to name the entries.                              *)
(***************************************************************************)
EXTENDS FileSystemTree, FileSystemProofs

-----------------------------------------------------------------------------
(* Sequences. *)

\* The last element and what is before it.
LEMMA AppendApart ==
  ASSUME NEW S, NEW p \in Seq(S), NEW q \in Seq(S), NEW x \in S, NEW y \in S,
         Append(p, x) = Append(q, y)
  PROVE  p = q /\ x = y
<1>1. Len(p) = Len(q)
  OBVIOUS
<1>2. x = y
  <2>1. Append(p, x)[Len(p) + 1] = x /\ Append(q, y)[Len(q) + 1] = y
    OBVIOUS
  <2>2. QED
    BY <1>1, <2>1
<1>3. \A k \in 1 .. Len(p) : p[k] = q[k]
  <2> TAKE k \in 1 .. Len(p)
  <2>1. Append(p, x)[k] = p[k] /\ Append(q, y)[k] = q[k]
    BY <1>1
  <2>2. QED
    BY <2>1
<1>4. QED
  BY <1>1, <1>2, <1>3

\* Taking the last name off a path gives the path of the directory.
LEMMA AppendParent ==
  ASSUME NEW S, NEW p \in Seq(S), NEW x \in S
  PROVE  /\ Append(p, x) \in Seq(S) /\ Append(p, x) # <<>>
         /\ Abstract!Parent(Append(p, x)) = p
<1>1. Append(p, x) \in Seq(S) /\ Len(Append(p, x)) = Len(p) + 1 /\ Len(p) \in Nat
  OBVIOUS
<1>2. Append(p, x) # <<>>
  BY <1>1
<1>3. SubSeq(Append(p, x), 1, Len(p)) = p
  OBVIOUS
<1>4. QED
  BY <1>1, <1>2, <1>3 DEF Abstract!Parent

-----------------------------------------------------------------------------
(* Naming the entries of a tree. *)

\* P gives the root the empty path and every other entry in use its name under
\* the path of its parent.
Naming(s, P) ==
  P = [i \in Live(s) |->
         IF i = ROOT_DIR THEN <<>> ELSE Append(P[s.files[i].parent_id], s.files[i].name)]

Named(s) == \E P : Naming(s, P)

\* If the entries can be named at all, PathsOf names them.
LEMMA PathsOfNames ==
  ASSUME NEW s, Named(s)
  PROVE  Naming(s, PathsOf(s))
<1>1. PathsOf(s) = CHOOSE P : Naming(s, P)
  BY DEF PathsOf, Naming
<1>2. QED
  BY <1>1 DEF Named

\* What holds of the root and passes from a directory to its entries holds of
\* all.
LEMMA TreeInduction ==
  ASSUME NEW s, TreeOK(s), NEW S \in SUBSET Live(s), ROOT_DIR \in S,
         \A i \in Live(s) \ {ROOT_DIR} : s.files[i].parent_id \in S => i \in S
  PROVE  S = Live(s)
<1>1. SUFFICES ASSUME Live(s) \ S # {} PROVE FALSE
  OBVIOUS
<1>2. PICK i \in Live(s) \ S : s.files[i].parent_id \notin Live(s) \ S
  BY <1>1 DEF TreeOK, NoCycles
<1>3. s.files[i].parent_id \in S
  BY <1>2 DEF TreeOK, ParentsAreDirectories
<1>4. QED
  BY <1>2, <1>3

\* Entries have names, and their parents are entries.
LEMMA NameType ==
  ASSUME NEW s \in filesystem_t
  PROVE  /\ \A i \in Live(s) : s.files[i].name \in EntryNames
         /\ TreeOK(s) => ROOT_DIR \in Live(s) /\ s.files[ROOT_DIR].parent_id = ROOT_DIR
                         /\ s.current_dir \in Live(s)
                         /\ \A i \in Live(s) : s.files[i].parent_id \in Live(s)
<1>1. \A i \in Live(s) : s.files[i].name \in EntryNames
  BY LiveInTable DEF filesystem_t, file_entry_t
<1>2. TreeOK(s) => ROOT_DIR \in Live(s)
  BY LiveInTable DEF TreeOK, RootOK, Live, ROOT_DIR
<1>3. QED
  BY <1>1, <1>2 DEF TreeOK, RootOK, CurrentDirOK, ParentsAreDirectories

\* Paths are sequences of names.
LEMMA NamingType ==
  ASSUME NEW s \in filesystem_t, TreeOK(s), NEW P, Naming(s, P)
  PROVE  P \in [Live(s) -> Seq(EntryNames)]
<1> DEFINE S == {i \in Live(s) : P[i] \in Seq(EntryNames)}
<1>1. /\ DOMAIN P = Live(s) /\ P = [i \in Live(s) |-> P[i]] /\ P[ROOT_DIR] = <<>>
      /\ \A i \in Live(s) \ {ROOT_DIR} : P[i] = Append(P[s.files[i].parent_id], s.files[i].name)
  BY NameType DEF Naming
<1>2. ROOT_DIR \in S
  <2>1. <<>> \in Seq(EntryNames)
    OBVIOUS
  <2>2. QED
    BY <1>1, <2>1, NameType
<1>3. ASSUME NEW i \in Live(s) \ {ROOT_DIR}, s.files[i].parent_id \in S PROVE i \in S
  <2>1. P[i] = Append(P[s.files[i].parent_id], s.files[i].name)
    BY <1>1
  <2>2. P[s.files[i].parent_id] \in Seq(EntryNames) /\ s.files[i].name \in EntryNames
    BY <1>3, NameType
  <2>3. Append(P[s.files[i].parent_id], s.files[i].name) \in Seq(EntryNames)
    BY <2>2, AppendParent
  <2>4. QED
    BY <2>1, <2>3
<1>4. S = Live(s)
  <2>1. S \in SUBSET Live(s)
    OBVIOUS
  <2> HIDE DEF S
  <2>2. QED
    BY <1>2, <1>3, <2>1, TreeInduction
<1>5. QED
  BY <1>1, <1>4

\* There is only one way to name the entries of a tree ...
LEMMA NamingUnique ==
  ASSUME NEW s \in filesystem_t, TreeOK(s), NEW P, NEW Q, Naming(s, P), Naming(s, Q)
  PROVE  P = Q
<1> DEFINE S == {i \in Live(s) : P[i] = Q[i]}
<1>1. /\ P = [i \in Live(s) |-> P[i]] /\ P[ROOT_DIR] = <<>>
      /\ Q = [i \in Live(s) |-> Q[i]] /\ Q[ROOT_DIR] = <<>>
      /\ \A i \in Live(s) \ {ROOT_DIR} :
           /\ P[i] = Append(P[s.files[i].parent_id], s.files[i].name)
           /\ Q[i] = Append(Q[s.files[i].parent_id], s.files[i].name)
  BY NameType DEF Naming
<1>2. ROOT_DIR \in S /\ S \in SUBSET Live(s)
  BY <1>1, NameType
<1>3. \A i \in Live(s) \ {ROOT_DIR} : s.files[i].parent_id \in S => i \in S
  BY <1>1
<1>4. S = Live(s)
  <2> HIDE DEF S
  <2>1. QED
    BY <1>2, <1>3, TreeInduction
<1>5. QED
  BY <1>1, <1>4

\* ... and no two of them have one path.
LEMMA NamingInjective ==
  ASSUME NEW s \in filesystem_t, TreeOK(s), NEW P, Naming(s, P),
         NEW i \in Live(s), NEW j \in Live(s), P[i] = P[j]
  PROVE  i = j
<1> DEFINE S == {k \in Live(s) : \A l \in Live(s) : P[k] = P[l] => k = l}
<1>1. /\ P[ROOT_DIR] = <<>>
      /\ \A k \in Live(s) \ {ROOT_DIR} :
           /\ P[k] = Append(P[s.files[k].parent_id], s.files[k].name)
           /\ P[s.files[k].parent_id] \in Seq(EntryNames) /\ s.files[k].name \in EntryNames
           /\ P[k] # <<>>
  <2>1. /\ P[ROOT_DIR] = <<>>
        /\ \A k \in Live(s) \ {ROOT_DIR} :
             P[k] = Append(P[s.files[k].parent_id], s.files[k].name)
    BY NameType DEF Naming
  <2>2. P \in [Live(s) -> Seq(EntryNames)]
    BY NamingType
  <2>3. ASSUME NEW k \in Live(s) \ {ROOT_DIR}
        PROVE  /\ P[s.files[k].parent_id] \in Seq(EntryNames) /\ s.files[k].name \in EntryNames
               /\ P[k] # <<>>
    <3>1. P[s.files[k].parent_id] \in Seq(EntryNames) /\ s.files[k].name \in EntryNames
      BY <2>2, NameType
    <3>2. QED
      BY <2>1, <3>1, AppendParent
  <2>4. QED
    BY <2>1, <2>3
<1>2. ROOT_DIR \in S
  BY <1>1, NameType
<1>3. ASSUME NEW k \in Live(s) \ {ROOT_DIR}, s.files[k].parent_id \in S PROVE k \in S
  <2> SUFFICES ASSUME NEW l \in Live(s), P[k] = P[l] PROVE k = l
    OBVIOUS
  <2>1. l # ROOT_DIR
    BY <1>1
  <2>2. P[s.files[k].parent_id] = P[s.files[l].parent_id] /\ s.files[k].name = s.files[l].name
    <3> DEFINE p == P[s.files[k].parent_id]
    <3> DEFINE q == P[s.files[l].parent_id]
    <3>1. /\ Append(p, s.files[k].name) = Append(q, s.files[l].name)
          /\ p \in Seq(EntryNames) /\ q \in Seq(EntryNames)
          /\ s.files[k].name \in EntryNames /\ s.files[l].name \in EntryNames
      BY <1>1, <2>1
    <3> HIDE DEF p, q
    <3>2. p = q /\ s.files[k].name = s.files[l].name
      BY <3>1, AppendApart
    <3>3. QED
      BY <3>2 DEF p, q
  <2>3. s.files[k].parent_id = s.files[l].parent_id
    BY <1>3, <2>2, NameType
  <2>4. QED
    BY <2>2, <2>3 DEF TreeOK, UniqueNames
<1>4. S = Live(s)
  <2>1. S \in SUBSET Live(s)
    OBVIOUS
  <2> HIDE DEF S
  <2>2. QED
    BY <1>2, <1>3, <2>1, TreeInduction
<1>5. QED
  BY <1>4

-----------------------------------------------------------------------------
(* The tree that a table stands for. *)

Entry(s, name) == Append(CwdOf(s), name)
Put(T, path, node) == [p \in DOMAIN T \cup {path} |-> IF p = path THEN node ELSE T[p]]
Drop(T, path) == [p \in DOMAIN T \ {path} |-> T[p]]

\* However the entries are named, that naming gives the tree.
LEMMA TreeOfIs ==
  ASSUME NEW s \in filesystem_t, TreeOK(s), NEW P, Naming(s, P)
  PROVE  /\ PathsOf(s) = P /\ CwdOf(s) = P[s.current_dir]
         /\ TreeOf(s) = [path \in DOMAIN TreeOf(s) |-> TreeOf(s)[path]]
         /\ DOMAIN TreeOf(s) = {P[i] : i \in Live(s)}
         /\ \A i \in Live(s) : TreeOf(s)[P[i]] = NodeAt(s, i)
<1>1. PathsOf(s) = P
  BY PathsOfNames, NamingUnique DEF Named
<1>2. TreeOf(s) = [path \in {P[i] : i \in Live(s)} |->
                     NodeAt(s, CHOOSE i \in Live(s) : P[i] = path)]
  BY <1>1 DEF TreeOf
<1>3. ASSUME NEW i \in Live(s) PROVE (CHOOSE j \in Live(s) : P[j] = P[i]) = i
  BY NamingInjective
<1>4. ASSUME NEW i \in Live(s) PROVE TreeOf(s)[P[i]] = NodeAt(s, i)
  BY <1>2, <1>3
<1>5. QED
  BY <1>1, <1>2, <1>4 DEF CwdOf

\* An entry appended to the table is a path added to the tree.
LEMMA GrownImage ==
  ASSUME NEW s \in filesystem_t, TreeOK(s), Named(s), NEW t \in filesystem_t, NEW name,
         Grown(s, t, name), ~Exists(s, name),
         \A i \in Live(s) : FileBytes(t, i) = FileBytes(s, i)
  PROVE  /\ Named(t) /\ CwdOf(t) = CwdOf(s) /\ Entry(s, name) \notin DOMAIN TreeOf(s)
         /\ TreeOf(t) = Put(TreeOf(s), Entry(s, name), NodeAt(t, s.file_count))
<1> DEFINE new == s.file_count
<1> DEFINE P == PathsOf(s)
<1> DEFINE Q == [i \in Live(t) |-> IF i = new THEN Append(P[s.current_dir], name) ELSE P[i]]
<1>1. Naming(s, P) /\ TreeOK(t)
  BY PathsOfNames, GrownTree
<1>2. Live(t) = Live(s) \cup {new} /\ new \notin Live(s)
  BY LiveInTable DEF Live, Grown
<1>3. /\ ROOT_DIR \in Live(s) /\ s.current_dir \in Live(s)
      /\ \A i \in Live(s) : s.files[i].parent_id \in Live(s)
  BY NameType
<1>4. /\ t.files[new].name = name /\ t.files[new].parent_id = s.current_dir
      /\ t.current_dir = s.current_dir
      /\ \A i \in Live(s) : SameNode(t.files[i], s.files[i])
  BY DEF Grown
<1> HIDE DEF new, P
<1>5. Naming(t, Q)
  <2>1. ASSUME NEW i \in Live(t)
        PROVE  Q[i] = IF i = ROOT_DIR THEN <<>>
                      ELSE Append(Q[t.files[i].parent_id], t.files[i].name)
    <3>1. CASE i = new
      BY <1>2, <1>3, <1>4, <3>1
    <3>2. CASE i # new
      <4>1. i \in Live(s) /\ t.files[i].parent_id = s.files[i].parent_id
            /\ t.files[i].name = s.files[i].name
        BY <1>2, <1>4, <3>2 DEF SameNode
      <4>2. P[i] = IF i = ROOT_DIR THEN <<>>
                   ELSE Append(P[s.files[i].parent_id], s.files[i].name)
        BY <1>1, <4>1 DEF Naming
      <4>3. QED
        BY <1>2, <1>3, <3>2, <4>1, <4>2
    <3>3. QED
      BY <3>1, <3>2
  <2>2. QED
    BY <2>1 DEF Naming
<1>6. /\ Q[new] = Append(P[s.current_dir], name) /\ Q[s.current_dir] = P[s.current_dir]
      /\ \A i \in Live(s) : Q[i] = P[i]
  BY <1>2, <1>3
<1> HIDE DEF Q
<1>7. /\ CwdOf(s) = P[s.current_dir] /\ CwdOf(t) = Q[t.current_dir]
      /\ DOMAIN TreeOf(s) = {P[i] : i \in Live(s)}
      /\ DOMAIN TreeOf(t) = {Q[i] : i \in Live(t)}
      /\ TreeOf(t) = [path \in DOMAIN TreeOf(t) |-> TreeOf(t)[path]]
      /\ \A i \in Live(s) : TreeOf(s)[P[i]] = NodeAt(s, i)
      /\ \A i \in Live(t) : TreeOf(t)[Q[i]] = NodeAt(t, i)
  BY <1>1, <1>5, TreeOfIs
<1>8. \A i \in Live(s) : Q[i] # Q[new]
  BY <1>1, <1>2, <1>5, NamingInjective
<1>9. Entry(s, name) = Q[new] /\ Q[new] \notin DOMAIN TreeOf(s) /\ CwdOf(t) = CwdOf(s)
  BY <1>4, <1>6, <1>7, <1>8 DEF Entry
<1>10. \A i \in Live(s) : NodeAt(t, i) = NodeAt(s, i)
  BY <1>4 DEF NodeAt, SameNode
<1>11. DOMAIN TreeOf(t) = DOMAIN TreeOf(s) \cup {Q[new]}
  BY <1>2, <1>6, <1>7
<1>12. ASSUME NEW path \in DOMAIN TreeOf(t)
       PROVE  TreeOf(t)[path] = IF path = Q[new] THEN NodeAt(t, new) ELSE TreeOf(s)[path]
  <2>1. PICK i \in Live(t) : path = Q[i]
    BY <1>7
  <2>2. CASE i = new
    BY <1>7, <2>1, <2>2
  <2>3. CASE i # new
    <3>1. i \in Live(s)
      BY <1>2, <2>3
    <3>2. path # Q[new] /\ path = P[i]
      BY <1>6, <1>8, <2>1, <3>1
    <3>3. TreeOf(t)[path] = NodeAt(t, i) /\ TreeOf(s)[path] = NodeAt(s, i)
      BY <1>7, <2>1, <3>1, <3>2
    <3>4. QED
      BY <1>10, <3>1, <3>2, <3>3
  <2>4. QED
    BY <2>2, <2>3
<1>13. TreeOf(t) = Put(TreeOf(s), Q[new], NodeAt(t, new))
  BY <1>7, <1>11, <1>12 DEF Put
<1>14. QED
  BY <1>5, <1>9, <1>13 DEF Named, new

\* Entries with the names and parents they had have the paths they had.
LEMMA GonePaths ==
  ASSUME NEW s \in filesystem_t, TreeOK(s), Named(s), NEW t \in filesystem_t, NEW d \in Live(s),
         s.files[d].type = FILE_TYPE_DIRECTORY, Gone(s, t, d)
  PROVE  /\ Named(t) /\ Naming(t, PathsOf(s)) /\ TreeOK(t) /\ Live(t) = Live(s)
         /\ CwdOf(t) = PathsOf(s)[d]
<1> DEFINE P == PathsOf(s)
<1>1. Naming(s, P) /\ TreeOK(t)
  BY PathsOfNames, GoneTree
<1>2. /\ Live(t) = Live(s) /\ t.current_dir = d
      /\ \A i \in Live(s) : SameNode(t.files[i], s.files[i])
  BY DEF Gone, Live
<1> HIDE DEF P
<1>3. Naming(t, P)
  BY <1>1, <1>2, Zenon DEF Naming, SameNode
<1>4. CwdOf(t) = P[d]
  BY <1>1, <1>2, <1>3, TreeOfIs
<1>5. QED
  BY <1>1, <1>2, <1>3, <1>4 DEF Named, P

\* Going elsewhere keeps the tree.
LEMMA GoneImage ==
  ASSUME NEW s \in filesystem_t, TreeOK(s), Named(s), NEW t \in filesystem_t, NEW d \in Live(s),
         s.files[d].type = FILE_TYPE_DIRECTORY, Gone(s, t, d),
         \A i \in Live(s) : FileBytes(t, i) = FileBytes(s, i)
  PROVE  Named(t) /\ TreeOf(t) = TreeOf(s) /\ CwdOf(t) = PathsOf(s)[d]
<1> DEFINE P == PathsOf(s)
<1>1. Naming(s, P) /\ Naming(t, P) /\ TreeOK(t) /\ Live(t) = Live(s)
  BY PathsOfNames, GonePaths
<1>2. \A i \in Live(s) : NodeAt(t, i) = NodeAt(s, i)
  BY DEF Gone, NodeAt, SameNode
<1> HIDE DEF P
<1>3. /\ DOMAIN TreeOf(s) = {P[i] : i \in Live(s)}
      /\ TreeOf(s) = [path \in DOMAIN TreeOf(s) |-> TreeOf(s)[path]]
      /\ \A i \in Live(s) : TreeOf(s)[P[i]] = NodeAt(s, i)
  BY <1>1, TreeOfIs
<1>4. /\ DOMAIN TreeOf(t) = {P[i] : i \in Live(t)}
      /\ TreeOf(t) = [path \in DOMAIN TreeOf(t) |-> TreeOf(t)[path]]
      /\ \A i \in Live(t) : TreeOf(t)[P[i]] = NodeAt(t, i)
  BY <1>1, TreeOfIs
<1>5. DOMAIN TreeOf(t) = DOMAIN TreeOf(s)
  BY <1>1, <1>3, <1>4
<1>6. \A path \in DOMAIN TreeOf(s) : TreeOf(t)[path] = TreeOf(s)[path]
  BY <1>1, <1>2, <1>3, <1>4
<1>7. TreeOf(t) = TreeOf(s)
  BY <1>3, <1>4, <1>5, <1>6
<1>8. QED
  BY <1>7, GonePaths

\* Changing the data of one entry puts a node at its path.
LEMMA RewrittenImage ==
  ASSUME NEW s \in filesystem_t, TreeOK(s), Named(s), NEW t \in filesystem_t, SameTree(s, t),
         NEW i \in Live(s), \A j \in Live(s) \ {i} : FileBytes(t, j) = FileBytes(s, j)
  PROVE  /\ Named(t) /\ CwdOf(t) = CwdOf(s)
         /\ TreeOf(t) = Put(TreeOf(s), PathsOf(s)[i], NodeAt(t, i))
<1> DEFINE P == PathsOf(s)
<1>1. s.current_dir \in Live(s) /\ s.files[s.current_dir].type = FILE_TYPE_DIRECTORY
      /\ Gone(s, t, s.current_dir)
  BY DEF TreeOK, CurrentDirOK, SameTree, Gone
<1>2. /\ Naming(s, P) /\ Naming(t, P) /\ TreeOK(t) /\ Live(t) = Live(s)
      /\ Named(t) /\ CwdOf(t) = P[s.current_dir]
  BY <1>1, PathsOfNames, GonePaths
<1>3. \A j \in Live(s) \ {i} : NodeAt(t, j) = NodeAt(s, j)
  BY DEF SameTree, NodeAt, SameNode
<1> HIDE DEF P
<1>4. /\ CwdOf(s) = P[s.current_dir]
      /\ DOMAIN TreeOf(s) = {P[j] : j \in Live(s)}
      /\ DOMAIN TreeOf(t) = {P[j] : j \in Live(s)}
      /\ TreeOf(t) = [path \in DOMAIN TreeOf(t) |-> TreeOf(t)[path]]
      /\ \A j \in Live(s) : TreeOf(s)[P[j]] = NodeAt(s, j) /\ TreeOf(t)[P[j]] = NodeAt(t, j)
  <2>1. /\ CwdOf(s) = P[s.current_dir] /\ DOMAIN TreeOf(s) = {P[j] : j \in Live(s)}
        /\ \A j \in Live(s) : TreeOf(s)[P[j]] = NodeAt(s, j)
    BY <1>2, TreeOfIs
  <2>2. /\ DOMAIN TreeOf(t) = {P[j] : j \in Live(t)}
        /\ TreeOf(t) = [path \in DOMAIN TreeOf(t) |-> TreeOf(t)[path]]
        /\ \A j \in Live(t) : TreeOf(t)[P[j]] = NodeAt(t, j)
    BY <1>2, TreeOfIs
  <2>3. QED
    BY <1>2, <2>1, <2>2
<1>5. ASSUME NEW path \in DOMAIN TreeOf(t)
      PROVE  TreeOf(t)[path] = IF path = P[i] THEN NodeAt(t, i) ELSE TreeOf(s)[path]
  <2>1. PICK j \in Live(s) : path = P[j]
    BY <1>4
  <2>2. CASE path = P[i]
    BY <1>4, <2>2
  <2>3. CASE path # P[i]
    <3>1. j # i
      BY <2>1, <2>3
    <3>2. QED
      BY <1>3, <1>4, <2>1, <2>3, <3>1
  <2>4. QED
    BY <2>2, <2>3
<1>6. DOMAIN TreeOf(t) = DOMAIN TreeOf(s) \cup {P[i]}
  BY <1>4
<1>7. TreeOf(t) = Put(TreeOf(s), P[i], NodeAt(t, i))
  BY <1>4, <1>5, <1>6 DEF Put
<1>8. QED
  BY <1>2, <1>4, <1>7 DEF P

\* Removing an entry and renumbering another takes one path off the tree.
LEMMA RemovedImage ==
  ASSUME NEW s \in filesystem_t, TreeOK(s), Named(s), NEW t \in filesystem_t,
         NEW id \in Live(s), Removed(s, t, id),
         ~HasChildren(s, id), s.files[id].parent_id = s.current_dir,
         \A i \in Live(t) : FileBytes(t, i) = FileBytes(s, From(s, id, i))
  PROVE  /\ Named(t) /\ CwdOf(t) = CwdOf(s)
         /\ TreeOf(t) = Drop(TreeOf(s), PathsOf(s)[id])
<1> DEFINE P == PathsOf(s)
<1> DEFINE to(j) == Follow(s, id, j)
<1> DEFINE of(i) == From(s, id, i)
<1> DEFINE Q == [i \in Live(t) |-> P[of(i)]]
<1>1. Naming(s, P) /\ TreeOK(t)
  BY PathsOfNames, RemovedTree
<1>2. /\ ROOT_DIR \in Live(s) \ {id} /\ s.current_dir \in Live(s) \ {id}
      /\ \A i \in Live(s) : s.files[i].parent_id \in Live(s) \ {id}
  <2>1. \A i \in Live(s) : s.files[i].parent_id # id
    BY DEF HasChildren
  <2>2. QED
    BY <2>1, NameType
<1>3. /\ \A i \in Live(t) : of(i) \in Live(s) \ {id} /\ to(of(i)) = i
      /\ \A j \in Live(s) \ {id} : to(j) \in Live(t) /\ of(to(j)) = j
  BY Renumbering DEF Removed
<1>4. of(ROOT_DIR) = ROOT_DIR
  BY <1>2 DEF From
<1>5. /\ t.current_dir = to(s.current_dir)
      /\ \A i \in Live(t) : /\ t.files[i].name = s.files[of(i)].name
                            /\ t.files[i].type = s.files[of(i)].type
                            /\ t.files[i].parent_id = to(s.files[of(i)].parent_id)
  BY DEF Removed
<1>6. \A i \in Live(t) : NodeAt(t, i) = NodeAt(s, of(i))
  BY <1>5 DEF NodeAt
<1> HIDE DEF P, to, of
<1>7. \A j \in Live(s) \ {id} : Q[to(j)] = P[j]
  BY <1>3
<1>8. Naming(t, Q)
  <2>1. ASSUME NEW i \in Live(t)
        PROVE  Q[i] = IF i = ROOT_DIR THEN <<>>
                      ELSE Append(Q[t.files[i].parent_id], t.files[i].name)
    <3>1. of(i) \in Live(s) /\ (of(i) = ROOT_DIR <=> i = ROOT_DIR)
      <4>1. of(i) \in Live(s) /\ to(of(i)) = i /\ to(of(ROOT_DIR)) = to(ROOT_DIR)
        BY <1>3, <1>4
      <4>2. to(ROOT_DIR) = ROOT_DIR
        <5>1. ROOT_DIR \in Live(t)
          BY <1>1, NameType
        <5>2. QED
          BY <1>3, <1>4, <5>1
      <4>3. QED
        BY <1>4, <4>1, <4>2
    <3>2. P[of(i)] = IF of(i) = ROOT_DIR THEN <<>>
                     ELSE Append(P[s.files[of(i)].parent_id], s.files[of(i)].name)
      BY <1>1, <3>1 DEF Naming
    <3>3. Q[t.files[i].parent_id] = P[s.files[of(i)].parent_id]
      BY <1>2, <1>5, <1>7, <3>1
    <3>4. QED
      BY <1>5, <3>1, <3>2, <3>3
  <2>2. QED
    BY <2>1 DEF Naming
<1>9. \A i \in Live(t) : Q[i] = P[of(i)]
  OBVIOUS
<1> HIDE DEF Q
<1>10. /\ CwdOf(s) = P[s.current_dir] /\ DOMAIN TreeOf(s) = {P[j] : j \in Live(s)}
       /\ \A j \in Live(s) : TreeOf(s)[P[j]] = NodeAt(s, j)
  BY <1>1, TreeOfIs
<1>11. /\ CwdOf(t) = Q[t.current_dir] /\ DOMAIN TreeOf(t) = {Q[i] : i \in Live(t)}
       /\ TreeOf(t) = [path \in DOMAIN TreeOf(t) |-> TreeOf(t)[path]]
       /\ \A i \in Live(t) : TreeOf(t)[Q[i]] = NodeAt(t, i)
  BY <1>1, <1>8, TreeOfIs
<1>12. DOMAIN TreeOf(t) = DOMAIN TreeOf(s) \ {P[id]}
  <2>1. \A j \in Live(s) \ {id} : P[j] # P[id]
    BY <1>1, NamingInjective
  <2>2. ASSUME NEW path \in DOMAIN TreeOf(t) PROVE path \in DOMAIN TreeOf(s) \ {P[id]}
    <3>1. PICK i \in Live(t) : path = Q[i]
      BY <1>11
    <3>2. path = P[of(i)] /\ of(i) \in Live(s) \ {id}
      BY <1>3, <1>9, <3>1
    <3>3. QED
      BY <1>10, <2>1, <3>2
  <2>3. ASSUME NEW path \in DOMAIN TreeOf(s), path # P[id] PROVE path \in DOMAIN TreeOf(t)
    <3>1. PICK j \in Live(s) : path = P[j]
      BY <1>10
    <3>2. path = Q[to(j)] /\ to(j) \in Live(t)
      BY <1>3, <1>7, <2>3, <3>1
    <3>3. QED
      BY <1>11, <3>2
  <2>4. QED
    BY <2>2, <2>3
<1>13. ASSUME NEW path \in DOMAIN TreeOf(t) PROVE TreeOf(t)[path] = TreeOf(s)[path]
  <2>1. PICK i \in Live(t) : path = Q[i]
    BY <1>11
  <2>2. of(i) \in Live(s) /\ path = P[of(i)]
    BY <1>3, <1>9, <2>1
  <2>3. TreeOf(t)[path] = NodeAt(t, i) /\ TreeOf(s)[path] = NodeAt(s, of(i))
    BY <1>10, <1>11, <2>1, <2>2
  <2>4. QED
    BY <1>6, <2>3
<1>14. TreeOf(t) = Drop(TreeOf(s), P[id])
  BY <1>11, <1>12, <1>13 DEF Drop
<1>15. CwdOf(t) = CwdOf(s)
  BY <1>2, <1>5, <1>7, <1>10, <1>11
<1>16. QED
  BY <1>8, <1>14, <1>15 DEF Named, P

\* An entry other than the root that find_file_in_dir finds is at the end of
\* the path of the current directory.
LEMMA HereIs ==
  ASSUME NEW s \in filesystem_t, TreeOK(s), Named(s), NEW name, Exists(s, name),
         Lookup(s, name) # ROOT_DIR
  PROVE  /\ PathsOf(s)[Lookup(s, name)] = Entry(s, name)
         /\ Entry(s, name) \in DOMAIN TreeOf(s)
         /\ TreeOf(s)[Entry(s, name)] = NodeAt(s, Lookup(s, name))
<1> DEFINE id == Lookup(s, name)
<1>1. id \in Live(s) /\ s.files[id].parent_id = s.current_dir /\ s.files[id].name = name
  BY LookupInTable
<1>2. Naming(s, PathsOf(s))
  BY PathsOfNames
<1> HIDE DEF id
<1>3. PathsOf(s)[id] = Append(PathsOf(s)[s.current_dir], name)
  BY <1>1, <1>2 DEF Naming, id
<1>4. PathsOf(s)[id] = Entry(s, name)
  BY <1>3 DEF Entry, CwdOf
<1>5. DOMAIN TreeOf(s) = {PathsOf(s)[i] : i \in Live(s)}
      /\ TreeOf(s)[PathsOf(s)[id]] = NodeAt(s, id)
  BY <1>1, <1>2, TreeOfIs
<1>6. QED
  BY <1>1, <1>4, <1>5 DEF id

-----------------------------------------------------------------------------
(* What the operators of FileSystem.tla do to the tree. *)

\* The table is a tree with its data in place.
Imaged(s) == TableOK(s) /\ Sound(s) /\ DataOK(s) /\ Named(s)

Leaf(type, data) == [type |-> type, data |-> data]

\* The call t comes from has put a node at a path of s, or removed a path.
Puts(s, t, path, node) ==
  Named(t) /\ CwdOf(t) = CwdOf(s) /\ TreeOf(t) = Put(TreeOf(s), path, node)
Drops(s, t, path) ==
  Named(t) /\ CwdOf(t) = CwdOf(s) /\ TreeOf(t) = Drop(TreeOf(s), path)

\* Bytes that stay where they are, for an entry that keeps its extent.
LEMMA KeptBytes ==
  ASSUME NEW s, NEW t, NEW i, NEW j, SameExtent(t.files[i], s.files[j]),
         t.data_storage = s.data_storage
  PROVE  FileBytes(t, i) = FileBytes(s, j)
BY DEF FileBytes, SameExtent

\* An entry of size 0 holds nothing.
LEMMA NoBytes ==
  ASSUME NEW t, NEW i, t.files[i].size = 0
  PROVE  FileBytes(t, i) = <<>>
<1>1. FileBytes(t, i) = [k \in 1 .. 0 |-> t.data_storage[t.files[i].data_offset + k - 1]]
  BY DEF FileBytes
<1>2. QED
  BY <1>1

\* Creating an entry.
LEMMA CreatedImage ==
  ASSUME NEW s, Imaged(s), NEW name \in EntryNames, NEW type \in FileTypes,
         CreateResult(s, name) = FS_SUCCESS, NEW t, t = CreateFile(s, name, type)
  PROVE  /\ t = Created(s, name, type) /\ Imaged(t)
         /\ Entry(s, name) \notin DOMAIN TreeOf(s)
         /\ Puts(s, t, Entry(s, name), Leaf(type, <<>>))
<1>1. s \in filesystem_t /\ s.file_count < MAX_FILES /\ ~Exists(s, name) /\ TreeOK(s)
  BY CreateSucceeds DEF Imaged, TableOK, Sound
<1>2. t = Created(s, name, type)
  BY DEF CreateFile
<1>3. TableOK(t) /\ Sound(t) /\ DataOK(t)
  BY CreateFileTable, CreateFileTree, CreateFileData DEF Imaged
<1>4. Grown(s, t, name) /\ t.files[s.file_count].type = type
  BY <1>1, <1>2, CreatedGrown
<1>5. /\ t.data_storage = s.data_storage
      /\ t.files[s.file_count] =
           [name |-> name, type |-> type, size |-> 0,
            parent_id |-> s.current_dir, data_offset |-> s.data_usage]
      /\ \A i \in FileIds \ {s.file_count} : t.files[i] = s.files[i]
  BY <1>1, <1>2, CreatedFields
<1>6. \A i \in Live(s) : FileBytes(t, i) = FileBytes(s, i)
  <2>1. \A i \in Live(s) : t.files[i] = s.files[i]
    BY <1>1, <1>5, LiveInTable
  <2>2. QED
    BY <1>5, <2>1, KeptBytes DEF SameExtent
<1>7. NodeAt(t, s.file_count) = Leaf(type, <<>>)
  <2>1. t.files[s.file_count].size = 0
    BY <1>5
  <2>2. QED
    BY <1>4, <2>1, NoBytes DEF NodeAt, Leaf
<1>8. QED
  BY <1>1, <1>2, <1>3, <1>4, <1>6, <1>7, GrownImage DEF Imaged, Puts, TableOK

\* Making a directory.
LEMMA MadeImage ==
  ASSUME NEW s, Imaged(s), NEW name \in EntryNames,
         MakeDirectoryResult(s, name) = FS_SUCCESS, NEW t, t = MakeDirectory(s, name),
         TableOK(t)
  PROVE  /\ Imaged(t) /\ Entry(s, name) \notin DOMAIN TreeOf(s)
         /\ Puts(s, t, Entry(s, name), Leaf(FILE_TYPE_DIRECTORY, <<>>))
<1>1. s \in filesystem_t /\ TreeOK(s)
  BY DEF Imaged, TableOK, Sound
<1>2. Sound(t) /\ DataOK(t)
  BY MakeDirectoryTree, MakeDirectoryData DEF Imaged
<1>3. /\ Grown(s, t, name) /\ ~Exists(s, name)
      /\ t.data_storage = s.data_storage
      /\ t.files[s.file_count].type = FILE_TYPE_DIRECTORY /\ t.files[s.file_count].size = 0
      /\ \A i \in Live(s) : t.files[i] = s.files[i]
  BY <1>1, MadeGrown
<1>4. \A i \in Live(s) : FileBytes(t, i) = FileBytes(s, i)
  BY <1>3, KeptBytes DEF SameExtent
<1>5. NodeAt(t, s.file_count) = Leaf(FILE_TYPE_DIRECTORY, <<>>)
  BY <1>3, NoBytes DEF NodeAt, Leaf
<1>6. QED
  BY <1>1, <1>2, <1>3, <1>4, <1>5, GrownImage DEF Imaged, Puts, TableOK

\* Storing the data of one entry touches no byte of another: their extents are
\* apart afterwards.
LEMMA OthersKeepBytes ==
  ASSUME NEW s, TableOK(s), DataOK(s), NEW i \in Live(s), NEW data \in Seq(Bytes),
         NEW t, t = Stored(s, i, data), DataOK(t), NEW j \in Live(s), j # i
  PROVE  FileBytes(t, j) = FileBytes(s, j)
<1> DEFINE offset == s.files[i].data_offset
<1> DEFINE from == s.files[j].data_offset
<1> DEFINE size == s.files[j].size
<1>1. /\ s \in filesystem_t /\ offset \in Nat /\ from \in Nat /\ size \in Nat
      /\ Capacity \in Nat /\ Len(data) \in Nat /\ from + size <= Capacity
  <2>1. End(s, j) <= Capacity
    BY Extents DEF DataOK
  <2>2. QED
    BY <2>1, Extents DEF End
<1>2. Rewritten(s, t, i, Len(data))
  BY <1>1, StoredRewritten
<1>3. /\ Live(t) = Live(s)
      /\ t.files[j].size = size /\ t.files[j].data_offset = from
      /\ t.files[i].size = Len(data) /\ t.files[i].data_offset = offset
  BY <1>2 DEF Rewritten, Live
<1>4. t.data_storage = Copied(s, i, data)
  BY <1>1 DEF Stored, filesystem_t
<1>5. size > 0 /\ Len(data) > 0 => offset + Len(data) <= from \/ from + size <= offset
  BY <1>3 DEF DataOK, ExtentsDisjoint, End
<1>6. \A m \in 0 .. Capacity - 1 :
        m \notin offset .. offset + Len(data) - 1 => t.data_storage[m] = s.data_storage[m]
  BY <1>4 DEF Copied
<1> HIDE DEF offset, from, size
<1>7. ASSUME NEW k \in 1 .. size
      PROVE  t.data_storage[from + k - 1] = s.data_storage[from + k - 1]
  <2>1. from + k - 1 \in 0 .. Capacity - 1
        /\ from + k - 1 \notin offset .. offset + Len(data) - 1
    BY <1>1, <1>5
  <2>2. QED
    BY <1>6, <2>1
<1>8. /\ FileBytes(t, j) = [k \in 1 .. size |-> t.data_storage[from + k - 1]]
      /\ FileBytes(s, j) = [k \in 1 .. size |-> s.data_storage[from + k - 1]]
  BY <1>3 DEF FileBytes, from, size
<1>9. QED
  BY <1>7, <1>8

\* Storing data.
LEMMA StoredImage ==
  ASSUME NEW s, Imaged(s), NEW i \in Live(s), NEW data \in Seq(Bytes),
         s.files[i].data_offset + Len(data) <= Capacity,
         NEW t, t = Stored(s, i, data), TableOK(t), DataOK(t)
  PROVE  Imaged(t) /\ Puts(s, t, PathsOf(s)[i], Leaf(s.files[i].type, data))
<1>1. s \in filesystem_t /\ t \in filesystem_t /\ TreeOK(s) /\ TableOK(s) /\ DataOK(s) /\ i \in FileIds
  BY LiveInTable DEF Imaged, TableOK, Sound
<1>2. SameTree(s, t)
  BY <1>1, StoredSame
<1>3. Sound(t)
  BY <1>1, <1>2, SameTreeSound DEF Imaged
<1>4. FileBytes(t, i) = data
  BY <1>1, StoredBytes
<1>5. NodeAt(t, i) = Leaf(s.files[i].type, data)
  BY <1>2, <1>4 DEF NodeAt, Leaf, SameTree, SameNode
<1>6. \A j \in Live(s) \ {i} : FileBytes(t, j) = FileBytes(s, j)
  BY <1>1, OthersKeepBytes
<1>7. QED
  BY <1>1, <1>2, <1>3, <1>5, <1>6, RewrittenImage DEF Imaged, Puts

\* Removing an entry under which there is none.
LEMMA SwapOutImage ==
  ASSUME NEW s, Imaged(s), NEW name, Exists(s, name), ~HasChildren(s, Lookup(s, name)),
         NEW t, t = SwapOut(s, Lookup(s, name))
  PROVE  /\ Lookup(s, name) # ROOT_DIR /\ Imaged(t)
         /\ Drops(s, t, Entry(s, name))
<1> DEFINE id == Lookup(s, name)
<1>1. s \in filesystem_t /\ TreeOK(s) /\ TableOK(s) /\ Named(s) /\ Sound(s) /\ DataOK(s)
  BY DEF Imaged, TableOK, Sound
<1>2. id \in Live(s) /\ s.files[id].parent_id = s.current_dir
  BY <1>1, LookupInTable
<1>3. id # ROOT_DIR
  BY <1>1, <1>2, NameType DEF HasChildren
<1>4. TableOK(t)
  BY <1>1, <1>2, SwapOutTable
<1>5. Sound(t)
  BY <1>1, SwapOutTree
<1>6. Removed(s, t, id) /\ Narrowed(s, t, id)
  BY <1>1, <1>2, SwapOutRemoved, SwapOutNarrowed
<1>7. DataOK(t)
  BY <1>1, <1>2, <1>6, NarrowedData
<1>8. t.data_storage = s.data_storage
  BY <1>1 DEF SwapOut, filesystem_t
<1>9. \A i \in Live(t) : FileBytes(t, i) = FileBytes(s, From(s, id, i))
  BY <1>6, <1>8, KeptBytes DEF Narrowed
<1> HIDE DEF id
<1>10. Named(t) /\ CwdOf(t) = CwdOf(s) /\ TreeOf(t) = Drop(TreeOf(s), PathsOf(s)[id])
  BY <1>1, <1>2, <1>4, <1>6, <1>9, RemovedImage DEF TableOK, id
<1>11. PathsOf(s)[id] = Entry(s, name)
  BY <1>1, <1>3, HereIs DEF id
<1>12. QED
  BY <1>3, <1>4, <1>5, <1>7, <1>10, <1>11 DEF Imaged, Drops, id

-----------------------------------------------------------------------------
(* What the calls do to the tree. *)

\* Paths put or taken off one after the other.
LEMMA PutTwice ==
  ASSUME NEW T, NEW path, NEW a, NEW b
  PROVE  Put(Put(T, path, a), path, b) = Put(T, path, b)
BY DEF Put

LEMMA PutAndDropped ==
  ASSUME NEW s \in filesystem_t, TreeOK(s), Named(s), NEW path, NEW a, path \notin DOMAIN TreeOf(s)
  PROVE  Drop(Put(TreeOf(s), path, a), path) = TreeOf(s)
<1>1. TreeOf(s) = [p \in DOMAIN TreeOf(s) |-> TreeOf(s)[p]]
  BY PathsOfNames, TreeOfIs
<1>2. QED
  BY <1>1 DEF Put, Drop

\* A regular file is read whole by whoever asks for all of it.
LEMMA ReadWhole ==
  ASSUME NEW s, Imaged(s), ~Faulty(s), NEW name, Exists(s, name),
         s.files[Lookup(s, name)].type = FILE_TYPE_REGULAR,
         NEW n \in Nat, s.files[Lookup(s, name)].size <= n
  PROVE  LET data == FileBytes(s, Lookup(s, name))
         IN /\ Lookup(s, name) # ROOT_DIR
            /\ data \in Seq(Bytes) /\ Len(data) = s.files[Lookup(s, name)].size
            /\ Len(data) <= MAX_FILE_SIZE
            /\ ReadBuffer(s, name, n) = data /\ ReadResult(s, name, n) = Len(data)
            /\ Entry(s, name) \in DOMAIN TreeOf(s)
            /\ TreeOf(s)[Entry(s, name)] = Leaf(FILE_TYPE_REGULAR, data)
<1> DEFINE id == Lookup(s, name)
<1> DEFINE data == FileBytes(s, id)
<1>1. s \in filesystem_t /\ TreeOK(s) /\ TableOK(s) /\ DataOK(s) /\ Named(s)
  BY DEF Imaged, TableOK, Sound
<1>2. id \in Live(s) /\ id \in FileIds
  BY <1>1, LookupInTable
<1>3. id # ROOT_DIR
  BY <1>1 DEF TreeOK, RootOK, FILE_TYPE_REGULAR, FILE_TYPE_DIRECTORY
<1>4. s.files[id].size \in 0 .. MAX_FILE_SIZE
  BY <1>1, <1>2 DEF filesystem_t, file_entry_t
<1>5. data \in Seq(Bytes) /\ Len(data) = s.files[id].size
  BY <1>1, <1>2, FileBytesType
<1>6. TreeOf(s)[Entry(s, name)] = NodeAt(s, id) /\ Entry(s, name) \in DOMAIN TreeOf(s)
  BY <1>1, <1>3, HereIs
<1>7. ReadBuffer(s, name, n) = Clip(data, n)
  BY DEF ReadBuffer
<1>8. ReadResult(s, name, n) = Len(Clip(data, n))
  BY DEF ReadResult
<1> HIDE DEF data
<1>9. Clip(data, n) = data
  BY <1>5, ClipWhole
<1>10. QED
  BY <1>3, <1>4, <1>5, <1>6, <1>7, <1>8, <1>9, SizesAssumption DEF data, NodeAt, Leaf

\* Storing the data of a file found in the current directory.
LEMMA StoredHere ==
  ASSUME NEW s, Imaged(s), NEW name, Exists(s, name),
         s.files[Lookup(s, name)].type = FILE_TYPE_REGULAR, NEW data \in Seq(Bytes),
         s.files[Lookup(s, name)].data_offset + Len(data) <= Capacity,
         NEW t, t = Stored(s, Lookup(s, name), data), TableOK(t), DataOK(t)
  PROVE  /\ Imaged(t) /\ SameTree(s, t) /\ t.fault = s.fault
         /\ Entry(s, name) \in DOMAIN TreeOf(s)
         /\ TreeOf(s)[Entry(s, name)].type = FILE_TYPE_REGULAR
         /\ Puts(s, t, Entry(s, name), Leaf(FILE_TYPE_REGULAR, data))
<1> DEFINE id == Lookup(s, name)
<1>1. s \in filesystem_t /\ TreeOK(s) /\ TableOK(s) /\ Named(s)
  BY DEF Imaged, TableOK, Sound
<1>2. id \in Live(s) /\ id \in FileIds
  BY <1>1, LookupInTable
<1>3. id # ROOT_DIR
  BY <1>1 DEF TreeOK, RootOK, FILE_TYPE_REGULAR, FILE_TYPE_DIRECTORY
<1>4. /\ PathsOf(s)[id] = Entry(s, name) /\ Entry(s, name) \in DOMAIN TreeOf(s)
      /\ TreeOf(s)[Entry(s, name)] = NodeAt(s, id)
  BY <1>1, <1>3, HereIs
<1>5. s.files[id].data_offset \in Nat /\ Capacity \in Nat /\ Len(data) \in Nat
  BY <1>1, <1>2, Extents
<1> HIDE DEF id
<1>6. t.fault = s.fault
  BY <1>1, <1>5 DEF Stored, filesystem_t, id
<1>7. SameTree(s, t)
  BY <1>1, <1>2, StoredSame DEF id
<1>8. Imaged(t) /\ Puts(s, t, PathsOf(s)[id], Leaf(s.files[id].type, data))
  BY <1>2, StoredImage DEF id
<1>9. QED
  BY <1>4, <1>6, <1>7, <1>8 DEF NodeAt, id

\* A write does nothing, creates the file and no more, or puts the data there.
Wrote(s, t, name, data) ==
  \/ t = s
  \/ /\ Entry(s, name) \notin DOMAIN TreeOf(s)
     /\ Puts(s, t, Entry(s, name), Leaf(FILE_TYPE_REGULAR, <<>>))
  \/ /\ Entry(s, name) \in DOMAIN TreeOf(s) =>
          TreeOf(s)[Entry(s, name)].type = FILE_TYPE_REGULAR
     /\ Puts(s, t, Entry(s, name), Leaf(FILE_TYPE_REGULAR, data))

LEMMA WriteFileImage ==
  ASSUME NEW s, Imaged(s), ~Faulty(s), NEW name \in EntryNames, NEW data \in Seq(Bytes),
         NEW n \in Nat, Shown(data) <= n, HasRoom(s, name, n),
         NEW t, t = WriteFile(s, name, data)
  PROVE  Imaged(t) /\ Wrote(s, t, name, Clip(data, MAX_FILE_SIZE))
<1> DEFINE u == IF Exists(s, name) THEN s ELSE CreateFile(s, name, FILE_TYPE_REGULAR)
<1> DEFINE clipped == Clip(data, MAX_FILE_SIZE)
<1>1. TableOK(s) /\ DataOK(s) /\ s \in filesystem_t
  BY DEF Imaged, TableOK
<1>2. TableOK(t) /\ DataOK(t)
  BY <1>1, WriteFileTable, WriteFileData
<1>3. CASE WriteResult(s, name) # FS_SUCCESS
  <2>1. ~Exists(s, name) => CreateFile(s, name, FILE_TYPE_REGULAR) = s
    BY <1>3 DEF WriteResult, CreateFile
  <2>2. t = s
    BY <1>3, <2>1 DEF WriteFile
  <2>3. QED
    BY <2>2 DEF Wrote
<1>4. CASE WriteResult(s, name) = FS_SUCCESS
  <2>1. /\ u.files[Lookup(u, name)].type = FILE_TYPE_REGULAR
        /\ ~Faulty(u) => t = Stored(u, Lookup(u, name), clipped)
        /\ clipped \in Seq(Bytes)
        /\ u.files[Lookup(u, name)].data_offset + Len(clipped) <= Capacity
    BY <1>1, <1>4, WrittenInPlace
  <2>2. Faulty(u) => t = u
    BY DEF WriteFile
  <2>3. CASE Exists(s, name)
    <3>1. u = s
      BY <2>3
    <3> HIDE DEF u, clipped
    <3>2. QED
      BY <1>2, <2>1, <2>3, <3>1, StoredHere DEF Wrote, clipped
  <2>4. CASE ~Exists(s, name)
    <3>1. CreateResult(s, name) = FS_SUCCESS /\ u = CreateFile(s, name, FILE_TYPE_REGULAR)
      BY <1>4, <2>4 DEF WriteResult, FS_SUCCESS, FS_ERROR_NO_SPACE
    <3> HIDE DEF u, clipped
    <3>2. /\ u = Created(s, name, FILE_TYPE_REGULAR) /\ Imaged(u)
          /\ Entry(s, name) \notin DOMAIN TreeOf(s)
          /\ Puts(s, u, Entry(s, name), Leaf(FILE_TYPE_REGULAR, <<>>))
      BY <3>1, CreatedImage DEF FileTypes
    <3>3. CASE Faulty(u)
      BY <2>2, <3>2, <3>3 DEF Wrote
    <3>4. CASE ~Faulty(u)
      <4>1. Exists(u, name)
        BY <1>1, <3>1, <3>2, CreatedExists, CreateSucceeds DEF FileTypes
      <4>2. Imaged(t) /\ Puts(u, t, Entry(u, name), Leaf(FILE_TYPE_REGULAR, clipped))
        BY <1>2, <2>1, <3>2, <3>4, <4>1, StoredHere
      <4>3. Entry(u, name) = Entry(s, name)
        BY <3>2 DEF Entry, Puts
      <4>4. Puts(s, t, Entry(s, name), Leaf(FILE_TYPE_REGULAR, clipped))
        BY <3>2, <4>2, <4>3, PutTwice DEF Puts
      <4>5. QED
        BY <3>2, <4>2, <4>4 DEF Wrote, clipped
    <3>5. QED
      BY <3>3, <3>4
  <2>5. QED
    BY <2>3, <2>4
<1>5. QED
  BY <1>3, <1>4

\* A copy writes what the source holds.
LEMMA CopyFileImage ==
  ASSUME NEW s, Imaged(s), ~Faulty(s), NEW src, NEW dest \in EntryNames,
         HasRoom(s, dest, SizeOf(s, src)), NEW t, t = CopyFile(s, src, dest)
  PROVE  /\ Imaged(t)
         /\ \/ t = s
            \/ /\ Entry(s, src) \in DOMAIN TreeOf(s)
               /\ TreeOf(s)[Entry(s, src)].type = FILE_TYPE_REGULAR
               /\ Wrote(s, t, dest, TreeOf(s)[Entry(s, src)].data)
<1> DEFINE data == FileBytes(s, Lookup(s, src))
<1>1. CASE ReadResult(s, src, MAX_FILE_SIZE) < 0
  BY <1>1 DEF CopyFile
<1>2. CASE ~(ReadResult(s, src, MAX_FILE_SIZE) < 0)
  <2>1. Exists(s, src) /\ s.files[Lookup(s, src)].type = FILE_TYPE_REGULAR
    BY <1>2 DEF ReadResult, FS_ERROR_INVALID_PATH
  <2>2. s.files[Lookup(s, src)].size \in 0 .. MAX_FILE_SIZE
    <3>1. s \in filesystem_t /\ Lookup(s, src) \in FileIds
      BY <2>1, LookupInTable DEF Imaged, TableOK
    <3>2. QED
      BY <3>1 DEF filesystem_t, file_entry_t
  <2>3. /\ data \in Seq(Bytes) /\ Len(data) = s.files[Lookup(s, src)].size
        /\ Len(data) <= MAX_FILE_SIZE /\ ReadBuffer(s, src, MAX_FILE_SIZE) = data
        /\ Entry(s, src) \in DOMAIN TreeOf(s)
        /\ TreeOf(s)[Entry(s, src)] = Leaf(FILE_TYPE_REGULAR, data)
    BY <2>1, <2>2, ReadWhole, SizesAssumption
  <2>4. t = WriteFile(s, dest, data)
    BY <1>2, <2>3 DEF CopyFile
  <2> HIDE DEF data
  <2>5. Clip(data, MAX_FILE_SIZE) = data
    BY <2>3, ClipWhole, SizesAssumption
  <2>6. Shown(data) <= SizeOf(s, src) /\ SizeOf(s, src) \in Nat
    BY <2>1, <2>2, <2>3, <2>5, SizesAssumption DEF Shown, SizeOf
  <2>7. Imaged(t) /\ Wrote(s, t, dest, data)
    BY <2>3, <2>4, <2>5, <2>6, WriteFileImage
  <2>8. QED
    BY <2>3, <2>7 DEF Leaf
<1>3. QED
  BY <1>1, <1>2

\* A move does nothing, creates the destination and no more, or takes the file
\* from the one path to the other.
Moved(s, t, src, dest) ==
  \/ Named(t) /\ TreeOf(t) = TreeOf(s) /\ CwdOf(t) = CwdOf(s)
  \/ /\ Entry(s, dest) \notin DOMAIN TreeOf(s)
     /\ \E type \in FileTypes : Puts(s, t, Entry(s, dest), Leaf(type, <<>>))
  \/ /\ Entry(s, src) \in DOMAIN TreeOf(s)
     /\ TreeOf(s)[Entry(s, src)].type = FILE_TYPE_REGULAR
     /\ Entry(s, dest) \notin DOMAIN TreeOf(s)
     /\ Named(t) /\ CwdOf(t) = CwdOf(s)
     /\ TreeOf(t) = Drop(Put(TreeOf(s), Entry(s, dest), TreeOf(s)[Entry(s, src)]),
                         Entry(s, src))

\* A move that cannot read its source takes the destination back.
LEMMA MoveTakenBack ==
  ASSUME NEW s, Imaged(s), NEW dest \in EntryNames, CreateResult(s, dest) = FS_SUCCESS,
         NEW type \in FileTypes, NEW c, c = CreateFile(s, dest, type),
         NEW t, t = DeleteFile(c, dest)
  PROVE  Imaged(t) /\ Named(t) /\ TreeOf(t) = TreeOf(s) /\ CwdOf(t) = CwdOf(s)
<1>1. s \in filesystem_t /\ TreeOK(s) /\ TableOK(s) /\ Sound(s) /\ Named(s)
  BY DEF Imaged, TableOK, Sound
<1>2. /\ Imaged(c) /\ Entry(s, dest) \notin DOMAIN TreeOf(s)
      /\ Puts(s, c, Entry(s, dest), Leaf(type, <<>>))
  BY CreatedImage
<1>3. Exists(c, dest) /\ ~HasChildren(c, Lookup(c, dest))
  BY <1>1, CreatedHasNoChildren
<1>4. t = SwapOut(c, Lookup(c, dest))
  BY <1>3 DEF DeleteFile
<1>5. Imaged(t) /\ Drops(c, t, Entry(c, dest))
  BY <1>2, <1>3, <1>4, SwapOutImage
<1>6. Entry(c, dest) = Entry(s, dest)
  BY <1>2 DEF Entry, Puts
<1>7. TreeOf(t) = Drop(Put(TreeOf(s), Entry(s, dest), Leaf(type, <<>>)), Entry(s, dest))
  BY <1>2, <1>5, <1>6 DEF Puts, Drops
<1>8. QED
  BY <1>1, <1>2, <1>5, <1>7, PutAndDropped DEF Puts, Drops

LEMMA MoveFileImage ==
  ASSUME NEW s, Imaged(s), NEW src, NEW dest \in EntryNames,
         HasRoom(s, dest, SizeOf(s, src)), NEW t, t = MoveFile(s, src, dest)
  PROVE  Imaged(t) /\ Moved(s, t, src, dest)
<1> DEFINE id == Lookup(s, src)
<1> DEFINE type == s.files[id].type
<1> DEFINE c == CreateFile(s, dest, type)
<1> DEFINE size == c.files[Lookup(c, src)].size
<1> DEFINE data == FileBytes(c, Lookup(c, src))
<1> DEFINE written == WriteFile(c, dest, ReadBuffer(c, src, size))
<1>1. s \in filesystem_t /\ TreeOK(s) /\ TableOK(s) /\ Sound(s) /\ Named(s)
  BY DEF Imaged, TableOK, Sound
<1>2. CASE ~Exists(s, src) \/ CreateResult(s, dest) # FS_SUCCESS
  BY <1>1, <1>2 DEF MoveFile, Moved
<1>3. CASE Exists(s, src) /\ CreateResult(s, dest) = FS_SUCCESS
  <2>1. type \in FileTypes
    BY <1>1, <1>3, LookupInTable DEF filesystem_t, file_entry_t
  <2>2. t = IF Faulty(c) THEN c ELSE MovedInto(c, src, dest)
    BY <1>3 DEF MoveFile
  <2>3. c = CreateFile(s, dest, type)
    OBVIOUS
  <2> HIDE DEF c
  <2>4. /\ Imaged(c) /\ Entry(s, dest) \notin DOMAIN TreeOf(s)
        /\ Puts(s, c, Entry(s, dest), Leaf(type, <<>>))
    BY <1>3, <2>1, <2>3, CreatedImage
  <2>5. /\ Exists(c, src) /\ Exists(c, dest) /\ Lookup(c, src) = id
        /\ c.files[id] = s.files[id] /\ c.files[Lookup(c, dest)].type = type
        /\ SizeOf(c, src) = size /\ HasRoom(c, dest, SizeOf(c, src))
    <3>1. /\ Exists(c, src) /\ Exists(c, dest) /\ Lookup(c, src) = id
          /\ c.files[id] = s.files[id] /\ c.files[Lookup(c, dest)].type = type
          /\ HasRoom(c, dest, SizeOf(c, src))
      BY <1>1, <1>3, <2>1, <2>3, DestinationHasRoom
    <3>2. SizeOf(c, src) = size
      BY <3>1 DEF SizeOf
    <3>3. QED
      BY <3>1, <3>2
  <2>6. c \in filesystem_t /\ TableOK(c) /\ DataOK(c) /\ Sound(c)
    BY <2>4 DEF Imaged, TableOK
  <2>7. size \in Nat /\ size <= MAX_FILE_SIZE
    <3>1. Lookup(c, src) \in FileIds
      BY <2>5, <2>6, LookupInTable
    <3>2. QED
      BY <2>6, <3>1, SizesAssumption DEF filesystem_t, file_entry_t
  <2>8. CASE Faulty(c)
    BY <2>1, <2>2, <2>4, <2>8 DEF Moved
  <2>9. CASE ~Faulty(c) /\ type # FILE_TYPE_REGULAR
    <3>1. ReadResult(c, src, size) # size
      BY <2>5, <2>7, <2>9 DEF ReadResult, FS_ERROR_INVALID_PATH
    <3>2. t = DeleteFile(c, dest)
      BY <2>2, <2>9, <3>1 DEF MovedInto
    <3>3. QED
      BY <1>3, <2>1, <2>3, <3>2, MoveTakenBack DEF Moved
  <2>10. CASE ~Faulty(c) /\ type = FILE_TYPE_REGULAR
    <3>1. /\ data \in Seq(Bytes) /\ Len(data) = size
          /\ ReadBuffer(c, src, size) = data /\ ReadResult(c, src, size) = size
          /\ Entry(c, src) \in DOMAIN TreeOf(c)
          /\ TreeOf(c)[Entry(c, src)] = Leaf(FILE_TYPE_REGULAR, data)
      BY <2>4, <2>5, <2>7, <2>10, ReadWhole
    <3>2. WriteResult(c, dest) = FS_SUCCESS
      BY <2>5, <2>10 DEF WriteResult
    <3> HIDE DEF data, size, type
    <3>3. Clip(data, MAX_FILE_SIZE) = data
      BY <2>7, <3>1, ClipWhole, SizesAssumption
    <3>4. Shown(data) <= size
      BY <2>7, <3>1, <3>3 DEF Shown
    <3>5. /\ written = Stored(c, Lookup(c, dest), data)
          /\ c.files[Lookup(c, dest)].data_offset + Len(data) <= Capacity
          /\ TableOK(written) /\ DataOK(written)
      <4>1. TableOK(written) /\ DataOK(written)
        BY <2>5, <2>6, <2>7, <3>1, <3>4, WriteFileTable, WriteFileData
      <4>2. /\ written = Stored(c, Lookup(c, dest), data)
            /\ c.files[Lookup(c, dest)].data_offset + Len(data) <= Capacity
        BY <2>5, <2>6, <2>7, <2>10, <3>1, <3>2, <3>3, <3>4, WrittenInPlace
      <4>3. QED
        BY <4>1, <4>2
    <3> HIDE DEF written
    <3>6. /\ Imaged(written) /\ SameTree(c, written) /\ written.fault = c.fault
          /\ Puts(c, written, Entry(c, dest), Leaf(FILE_TYPE_REGULAR, data))
      BY <2>4, <2>5, <2>10, <3>1, <3>5, StoredHere
    <3>7. t = DeleteFile(written, src)
      BY <2>2, <2>10, <3>1, <3>2, <3>6 DEF MovedInto, Faulty, written, size
    <3>8. Lookup(written, src) = id /\ Exists(written, src)
      BY <2>5, <2>6, <3>6, SameLookup DEF Exists
    <3>9. ~HasChildren(written, Lookup(written, src))
      <4>1. id \in Live(c)
        BY <2>5, <2>6, LookupInTable
      <4> HIDE DEF id
      <4>2. written.files[id].type = FILE_TYPE_REGULAR
        BY <2>5, <2>10, <3>6, <4>1 DEF SameTree, SameNode, type
      <4>3. QED
        BY <3>6, <3>8, <4>2, FileHasNoChildren
        DEF Imaged, FILE_TYPE_REGULAR, FILE_TYPE_DIRECTORY
    <3>10. Imaged(t) /\ Drops(written, t, Entry(written, src))
      BY <3>6, <3>7, <3>8, <3>9, SwapOutImage DEF DeleteFile
    <3>11. /\ Entry(c, src) = Entry(s, src) /\ Entry(c, dest) = Entry(s, dest)
           /\ Entry(written, src) = Entry(s, src)
      BY <2>4, <3>6 DEF Entry, Puts
    <3>12. /\ Exists(s, src) /\ id # ROOT_DIR
           /\ Entry(s, src) \in DOMAIN TreeOf(s)
      <4>1. id # ROOT_DIR
        BY <1>1, <2>10 DEF TreeOK, RootOK, type, FILE_TYPE_REGULAR, FILE_TYPE_DIRECTORY
      <4>2. QED
        BY <1>1, <1>3, <4>1, HereIs
    <3>13. TreeOf(s)[Entry(s, src)] = Leaf(FILE_TYPE_REGULAR, data)
      <4>1. Entry(s, src) # Entry(s, dest)
        BY <2>4, <3>12
      <4>2. TreeOf(c)[Entry(s, src)] = TreeOf(s)[Entry(s, src)]
        BY <2>4, <3>12, <4>1 DEF Puts, Put
      <4>3. QED
        BY <3>1, <3>11, <4>2
    <3>14. TreeOf(written) = Put(TreeOf(s), Entry(s, dest), TreeOf(s)[Entry(s, src)])
      BY <2>4, <3>6, <3>11, <3>13, PutTwice DEF Puts
    <3>15. CwdOf(t) = CwdOf(s) /\ Named(t)
      BY <2>4, <3>6, <3>10 DEF Puts, Drops
    <3>16. QED
      BY <2>4, <3>10, <3>11, <3>12, <3>13, <3>14, <3>15 DEF Drops, Moved, Leaf
  <2>11. QED
    BY <2>8, <2>9, <2>10
<1>4. QED
  BY <1>2, <1>3

\* Going to a directory of the current one, or to the one above.
LEMMA ChangeDirectoryImage ==
  ASSUME NEW s, Imaged(s), NEW path, NEW t, t = ChangeDirectory(s, path)
  PROVE  /\ Imaged(t) /\ TreeOf(t) = TreeOf(s)
         /\ \/ CwdOf(t) = CwdOf(s)
            \/ CwdOf(t) = Abstract!Parent(CwdOf(s))
            \/ /\ path \notin {Dot, DotDot, EmptyName}
               /\ Entry(s, path) \in DOMAIN TreeOf(s)
               /\ TreeOf(s)[Entry(s, path)].type = FILE_TYPE_DIRECTORY
               /\ CwdOf(t) = Entry(s, path)
<1> DEFINE P == PathsOf(s)
<1> DEFINE cur == s.current_dir
<1>1. s \in filesystem_t /\ TreeOK(s) /\ TableOK(s) /\ Sound(s) /\ DataOK(s) /\ Named(s)
  BY DEF Imaged, TableOK, Sound
<1>2. TableOK(t) /\ Sound(t) /\ DataOK(t)
  BY <1>1, ChangeDirectoryTable, ChangeDirectoryTree, ChangeDirectoryData
<1>3. ASSUME NEW d \in Live(s), s.files[d].type = FILE_TYPE_DIRECTORY,
             t = Rebuilt([s EXCEPT !.current_dir = d])
      PROVE  Imaged(t) /\ TreeOf(t) = TreeOf(s) /\ CwdOf(t) = P[d]
  <2>1. Gone(s, t, d)
    BY <1>1, <1>3, RebuiltGone
  <2>2. t.files = s.files /\ t.data_storage = s.data_storage
    BY <1>1, <1>3 DEF Rebuilt, filesystem_t
  <2>3. \A i \in Live(s) : FileBytes(t, i) = FileBytes(s, i)
    BY <2>2, KeptBytes DEF SameExtent
  <2>4. Named(t) /\ TreeOf(t) = TreeOf(s) /\ CwdOf(t) = P[d]
    BY <1>1, <1>2, <1>3, <2>1, <2>3, GoneImage DEF TableOK
  <2>5. QED
    BY <1>2, <2>4 DEF Imaged
<1>4. /\ P[ROOT_DIR] = <<>> /\ CwdOf(s) = P[cur] /\ cur \in Live(s)
      /\ \A i \in Live(s) \ {ROOT_DIR} : P[i] = Append(P[s.files[i].parent_id], s.files[i].name)
      /\ P \in [Live(s) -> Seq(EntryNames)]
  <2>1. Naming(s, P)
    BY <1>1, PathsOfNames
  <2>2. P \in [Live(s) -> Seq(EntryNames)]
    BY <1>1, <2>1, NamingType
  <2> HIDE DEF P
  <2>3. QED
    BY <1>1, <2>1, <2>2, NameType DEF Naming, CwdOf, P
<1> HIDE DEF P
<1>5. CASE ChangeDirectoryResult(s, path) # FS_SUCCESS \/ path = Dot
  BY <1>5 DEF ChangeDirectory
<1>6. CASE path = DotDot /\ path # Dot /\ ChangeDirectoryResult(s, path) = FS_SUCCESS
  <2> DEFINE up == s.files[cur].parent_id
  <2>1. up \in Live(s) /\ s.files[up].type = FILE_TYPE_DIRECTORY
    BY <1>1, <1>4 DEF TreeOK, ParentsAreDirectories
  <2>2. t = Rebuilt([s EXCEPT !.current_dir = up])
    BY <1>6 DEF ChangeDirectory
  <2>3. P[up] = Abstract!Parent(P[cur])
    <3>1. CASE cur = ROOT_DIR
      <4>1. up = ROOT_DIR /\ P[up] = <<>> /\ P[cur] = <<>>
        BY <1>1, <1>4, <3>1 DEF TreeOK, RootOK
      <4>2. QED
        BY <4>1 DEF Abstract!Parent
    <3>2. CASE cur # ROOT_DIR
      <4>1. P[cur] = Append(P[up], s.files[cur].name)
        BY <1>4, <3>2
      <4>2. P[up] \in Seq(EntryNames) /\ s.files[cur].name \in EntryNames
        BY <1>1, <1>4, <2>1, NameType
      <4>3. Abstract!Parent(Append(P[up], s.files[cur].name)) = P[up]
        BY <4>2, AppendParent
      <4>4. QED
        BY <4>1, <4>3
    <3>3. QED
      BY <3>1, <3>2
  <2> HIDE DEF up
  <2>4. QED
    BY <1>3, <1>4, <2>1, <2>2, <2>3
<1>7. CASE path \notin {Dot, DotDot} /\ ChangeDirectoryResult(s, path) = FS_SUCCESS
  <2> DEFINE d == Lookup(s, path)
  <2>1. Exists(s, path) /\ s.files[d].type = FILE_TYPE_DIRECTORY /\ path # EmptyName
    BY <1>7 DEF ChangeDirectoryResult, FS_SUCCESS, FS_ERROR_NOT_FOUND, FS_ERROR_INVALID_PATH,
                FS_ERROR_NOT_DIRECTORY
  <2>2. d \in Live(s) /\ s.files[d].parent_id = cur
    BY <1>1, <2>1, LookupInTable
  <2>3. t = Rebuilt([s EXCEPT !.current_dir = d])
    BY <1>7 DEF ChangeDirectory
  <2>4. d # ROOT_DIR =>
          /\ P[d] = Entry(s, path) /\ Entry(s, path) \in DOMAIN TreeOf(s)
          /\ TreeOf(s)[Entry(s, path)] = NodeAt(s, d)
    BY <1>1, <2>1, HereIs DEF P
  <2>5. d = ROOT_DIR => cur = ROOT_DIR
    BY <1>1, <2>2 DEF TreeOK, RootOK
  <2> HIDE DEF d
  <2>6. Imaged(t) /\ TreeOf(t) = TreeOf(s) /\ CwdOf(t) = P[d]
    BY <1>3, <2>1, <2>2, <2>3
  <2>7. QED
    BY <1>4, <1>7, <2>1, <2>4, <2>5, <2>6 DEF NodeAt
<1>8. QED
  BY <1>5, <1>6, <1>7

\* An entry under which there is none has no path below its own.
LEMMA RemovalImage ==
  ASSUME NEW s, Imaged(s), NEW name, Exists(s, name), ~HasChildren(s, Lookup(s, name)),
         NEW t, t = SwapOut(s, Lookup(s, name))
  PROVE  /\ Imaged(t) /\ Drops(s, t, Entry(s, name))
         /\ Entry(s, name) \in DOMAIN TreeOf(s)
         /\ \A p \in DOMAIN TreeOf(s) : p # <<>> => Abstract!Parent(p) # Entry(s, name)
         /\ TreeOf(s)[Entry(s, name)].type = s.files[Lookup(s, name)].type
<1> DEFINE id == Lookup(s, name)
<1> DEFINE P == PathsOf(s)
<1>1. s \in filesystem_t /\ TreeOK(s) /\ Named(s) /\ Naming(s, P)
  BY PathsOfNames DEF Imaged, TableOK, Sound
<1>2. Imaged(t) /\ Drops(s, t, Entry(s, name)) /\ id # ROOT_DIR /\ id \in Live(s)
  BY <1>1, SwapOutImage, LookupInTable
<1>3. /\ P[id] = Entry(s, name) /\ Entry(s, name) \in DOMAIN TreeOf(s)
      /\ TreeOf(s)[Entry(s, name)] = NodeAt(s, id)
  BY <1>1, <1>2, HereIs
<1> HIDE DEF P
<1>4. ASSUME NEW p \in DOMAIN TreeOf(s), p # <<>>, Abstract!Parent(p) = P[id] PROVE FALSE
  <2>1. DOMAIN TreeOf(s) = {P[i] : i \in Live(s)}
    BY <1>1, TreeOfIs
  <2>2. PICK i \in Live(s) : p = P[i]
    BY <2>1
  <2>3. i # ROOT_DIR /\ p = Append(P[s.files[i].parent_id], s.files[i].name)
    BY <1>1, <1>4, <2>2, NameType DEF Naming
  <2>4. P \in [Live(s) -> Seq(EntryNames)]
    BY <1>1, NamingType
  <2>5. s.files[i].parent_id \in Live(s) /\ s.files[i].name \in EntryNames
    BY <1>1, NameType
  <2>6. Abstract!Parent(p) = P[s.files[i].parent_id]
    BY <2>3, <2>4, <2>5, AppendParent
  <2>7. s.files[i].parent_id = id
    BY <1>1, <1>2, <1>4, <2>5, <2>6, NamingInjective
  <2>8. QED
    BY <2>7 DEF HasChildren
<1>5. QED
  BY <1>2, <1>3, <1>4 DEF NodeAt

-----------------------------------------------------------------------------
(* The directories of fs_init. *)

Folder == Leaf(FILE_TYPE_DIRECTORY, <<>>)

\* At most k entries, the root among them, and the directories D in it.
DirsIn(s, D, k) ==
  /\ Imaged(s) /\ s.current_dir = ROOT_DIR /\ s.file_count <= k /\ s.next_file_id <= k
  /\ CwdOf(s) = <<>>
  /\ TreeOf(s) = [p \in {<<>>} \cup {<<d>> : d \in D} |-> Folder]

\* The table before fs_init makes its directories.
LEMMA RootOnlyImage == DirsIn(RootOnly, {}, 1)
<1>1. TableOK(RootOnly) /\ Sound(RootOnly) /\ DataOK(RootOnly) /\ TreeOK(RootOnly)
      /\ RootOnly \in filesystem_t
  BY RootOnlyTable, RootOnlySound, RootOnlyData DEF Sound, TableOK
<1>2. /\ Live(RootOnly) = {ROOT_DIR} /\ RootOnly.file_count = 1 /\ RootOnly.next_file_id = 1
      /\ RootOnly.current_dir = ROOT_DIR
  BY DEF RootOnly, Live, ROOT_DIR
<1> DEFINE P == [i \in {ROOT_DIR} |-> <<>>]
<1>3. Naming(RootOnly, P)
  BY <1>2 DEF Naming
<1>4. /\ CwdOf(RootOnly) = P[ROOT_DIR] /\ DOMAIN TreeOf(RootOnly) = {P[i] : i \in {ROOT_DIR}}
      /\ TreeOf(RootOnly) = [path \in DOMAIN TreeOf(RootOnly) |-> TreeOf(RootOnly)[path]]
      /\ TreeOf(RootOnly)[P[ROOT_DIR]] = NodeAt(RootOnly, ROOT_DIR)
  <2> HIDE DEF P
  <2>1. /\ CwdOf(RootOnly) = P[RootOnly.current_dir]
        /\ DOMAIN TreeOf(RootOnly) = {P[i] : i \in Live(RootOnly)}
        /\ TreeOf(RootOnly) = [path \in DOMAIN TreeOf(RootOnly) |-> TreeOf(RootOnly)[path]]
        /\ \A i \in Live(RootOnly) : TreeOf(RootOnly)[P[i]] = NodeAt(RootOnly, i)
    BY <1>1, <1>3, TreeOfIs
  <2>2. QED
    BY <1>2, <2>1
<1>5. NodeAt(RootOnly, ROOT_DIR) = Folder
  <2>1. RootOnly.files[ROOT_DIR].type = FILE_TYPE_DIRECTORY /\ RootOnly.files[ROOT_DIR].size = 0
    <3>1. ROOT_DIR \in FileIds
      BY SizesAssumption DEF ROOT_DIR, FileIds
    <3>2. QED
      BY <3>1 DEF RootOnly, EmptyEntry
  <2>2. QED
    BY <2>1, NoBytes DEF NodeAt, Folder, Leaf
<1>6. P[ROOT_DIR] = <<>>
  OBVIOUS
<1>7. TreeOf(RootOnly) = [p \in {<<>>} \cup {<<d>> : d \in {}} |-> Folder]
  <2>1. DOMAIN TreeOf(RootOnly) = {<<>>} \cup {<<d>> : d \in {}}
    BY <1>4, <1>6
  <2>2. TreeOf(RootOnly)[<<>>] = Folder
    BY <1>4, <1>5, <1>6
  <2>3. QED
    BY <1>4, <2>1, <2>2
<1>8. QED
  BY <1>1, <1>2, <1>3, <1>4, <1>6, <1>7 DEF DirsIn, Imaged, Named

\* One more of them, unless its name is taken.
LEMMA DirMade ==
  ASSUME NEW s, NEW D, NEW k \in 1 .. 3, DirsIn(s, D, k), NEW name \in {Home, Bin, Etc}
  PROVE  DirsIn(MakeDirectory(s, name), D \cup ({name} \ {RootName}), k + 1)
<1> DEFINE t == MakeDirectory(s, name)
<1>1. /\ s \in filesystem_t /\ TreeOK(s) /\ TableOK(s) /\ Named(s) /\ s.current_dir = ROOT_DIR
      /\ s.file_count \in Nat /\ s.next_file_id \in Nat /\ s.file_count <= k /\ s.next_file_id <= k
      /\ CwdOf(s) = <<>>
  BY LiveInTable DEF DirsIn, Imaged, TableOK, Sound, filesystem_t
<1>2. name \in Names \cup {RootName} /\ name \in EntryNames
  BY InitDirsAssumption DEF EntryNames
<1>3. /\ ROOT_DIR \in Live(s) /\ s.files[ROOT_DIR].parent_id = ROOT_DIR
      /\ s.files[ROOT_DIR].name = RootName
  BY <1>1, NameType DEF TreeOK, RootOK
<1>4. DOMAIN TreeOf(s) = {<<>>} \cup {<<d>> : d \in D}
  BY DEF DirsIn
<1>5. Entry(s, name) = <<name>>
  BY <1>1 DEF Entry
<1>6. CASE Exists(s, name)
  <2>1. t = s
    BY <1>6 DEF MakeDirectory, MakeDirectoryResult, FS_SUCCESS, FS_ERROR_INVALID_NAME,
                FS_ERROR_ALREADY_EXISTS
  <2>2. name = RootName \/ name \in D
    <3>1. CASE Lookup(s, name) = ROOT_DIR
      BY <1>1, <1>3, <1>6, <3>1, LookupInTable
    <3>2. CASE Lookup(s, name) # ROOT_DIR
      <4>1. <<name>> \in DOMAIN TreeOf(s)
        BY <1>1, <1>5, <1>6, <3>2, HereIs
      <4>2. PICK d \in D : <<name>> = <<d>>
        BY <1>4, <4>1
      <4>3. QED
        BY <4>2
    <3>3. QED
      BY <3>1, <3>2
  <2>3. D \cup ({name} \ {RootName}) = D
    BY <2>2
  <2>4. QED
    BY <1>1, <2>1, <2>3 DEF DirsIn
<1>7. CASE ~Exists(s, name)
  <2>1. name # RootName
    BY <1>1, <1>3, <1>7, NotFoundIs
  <2>2. MakeDirectoryResult(s, name) = FS_SUCCESS
    <3>1. NameLen[name] \in 1 .. MAX_FILENAME - 1
      BY <2>1, InitDirsFit
    <3>2. ~(s.file_count >= MAX_FILES) /\ ~(s.next_file_id >= MAX_FILES)
      BY <1>1, InitDirsFit, SizesAssumption
    <3>3. QED
      BY <1>7, <3>1, <3>2 DEF MakeDirectoryResult
  <2>3. t = MakeDirectory(s, name) /\ TableOK(t)
    BY <1>1, <1>2, MakeDirectoryTable
  <2> HIDE DEF t
  <2>4. Imaged(t) /\ Puts(s, t, <<name>>, Folder)
    BY <1>2, <1>5, <2>2, <2>3, MadeImage DEF DirsIn, Folder
  <2>5. Grown(s, t, name) /\ t.next_file_id = s.next_file_id + 1
    BY <1>1, <2>2, <2>3, MadeGrown
  <2>6. D \cup ({name} \ {RootName}) = D \cup {name}
    BY <2>1
  <2>7. TreeOf(t) = [p \in {<<>>} \cup {<<d>> : d \in D \cup {name}} |-> Folder]
    <3>1. TreeOf(s) = [p \in {<<>>} \cup {<<d>> : d \in D} |-> Folder]
      BY DEF DirsIn
    <3>2. DOMAIN TreeOf(s) \cup {<<name>>} = {<<>>} \cup {<<d>> : d \in D \cup {name}}
      BY <1>4
    <3>3. TreeOf(t) = [p \in DOMAIN TreeOf(s) \cup {<<name>>} |->
                         IF p = <<name>> THEN Folder ELSE TreeOf(s)[p]]
      BY <2>4 DEF Puts, Put
    <3>4. \A p \in DOMAIN TreeOf(s) : TreeOf(s)[p] = Folder
      BY <3>1
    <3>5. QED
      BY <3>2, <3>3, <3>4
  <2>8. t.file_count <= k + 1 /\ t.next_file_id <= k + 1 /\ t.current_dir = ROOT_DIR
    BY <1>1, <2>5 DEF Grown
  <2>9. CwdOf(t) = <<>>
    BY <1>1, <2>4 DEF Puts
  <2>10. DirsIn(t, D \cup {name}, k + 1)
    BY <2>4, <2>7, <2>8, <2>9 DEF DirsIn
  <2>11. QED
    BY <2>6, <2>10 DEF t
<1>8. QED
  BY <1>6, <1>7

\* The table fs_init leaves.
LEMMA InitImage ==
  /\ Imaged(fs_init) /\ CwdOf(fs_init) = <<>>
  /\ TreeOf(fs_init) = [p \in {<<>>} \cup {<<d>> : d \in {Home, Bin, Etc} \ {RootName}} |-> Folder]
<1> DEFINE one == {} \cup ({Home} \ {RootName})
<1> DEFINE two == one \cup ({Bin} \ {RootName})
<1> DEFINE three == two \cup ({Etc} \ {RootName})
<1> DEFINE s1 == MakeDirectory(RootOnly, Home)
<1> DEFINE s2 == MakeDirectory(s1, Bin)
<1>1. /\ 1 \in 1 .. 3 /\ 1 + 1 \in 1 .. 3 /\ 1 + 1 + 1 \in 1 .. 3
      /\ Home \in {Home, Bin, Etc} /\ Bin \in {Home, Bin, Etc} /\ Etc \in {Home, Bin, Etc}
  OBVIOUS
<1> DEFINE none == {}
<1>2. DirsIn(s1, one, 1 + 1)
  <2>1. DirsIn(RootOnly, none, 1)
    BY RootOnlyImage
  <2> HIDE DEF none
  <2>2. DirsIn(MakeDirectory(RootOnly, Home), none \cup ({Home} \ {RootName}), 1 + 1)
    BY <1>1, <2>1, DirMade
  <2>3. QED
    BY <2>2 DEF none
<1> HIDE DEF s1, one
<1>3. DirsIn(s2, two, 1 + 1 + 1)
  BY <1>1, <1>2, DirMade
<1> HIDE DEF s2, two
<1>4. DirsIn(MakeDirectory(s2, Etc), three, 1 + 1 + 1 + 1)
  BY <1>1, <1>3, DirMade
<1>5. MakeDirectory(s2, Etc) = fs_init
  BY DEF fs_init, s1, s2
<1>6. three = {Home, Bin, Etc} \ {RootName}
  BY DEF one, two
<1>7. QED
  BY <1>4, <1>5, <1>6 DEF DirsIn

-----------------------------------------------------------------------------
(* The calls as steps of the tree. *)

\* The variables of FileSystemTree.tla as the abstract specification sees them.
LEMMA ImageIs ==
  ASSUME Image(fs)
  PROVE  /\ Abstract!Paths = DOMAIN TreeOf(fs) /\ tree = TreeOf(fs) /\ cwd = CwdOf(fs)
         /\ \A name : Abstract!Here(name) = Entry(fs, name)
BY DEF Image, Abstract!Paths, Abstract!Here, Entry

\* Putting a node at a path of the image.
LEMMA PutStep ==
  ASSUME Image(fs), Image(fs)', NEW path, NEW node, Puts(fs, fs', path, node)
  PROVE  tree' = Abstract!With(path, node) /\ UNCHANGED cwd
<1>1. tree' = TreeOf(fs') /\ cwd' = CwdOf(fs')
  BY DEF Image
<1>2. QED
  BY <1>1, ImageIs DEF Puts, Put, Abstract!With

\* A new path is a creation.
LEMMA CreateStep ==
  ASSUME Image(fs), Image(fs)', NEW name \in Names, NEW type \in FileTypes,
         Entry(fs, name) \notin DOMAIN TreeOf(fs),
         Puts(fs, fs', Entry(fs, name), Leaf(type, <<>>))
  PROVE  Abstract!Next
<1>1. Abstract!Create(name, type)
  BY ImageIs, PutStep DEF Abstract!Create, Abstract!Node, Leaf
<1>2. QED
  BY <1>1 DEF Abstract!Next

\* Data at a free path or at that of a file is a write.
LEMMA WriteStep ==
  ASSUME Image(fs), Image(fs)', NEW name \in Names, NEW data,
         Entry(fs, name) \in DOMAIN TreeOf(fs) =>
           TreeOf(fs)[Entry(fs, name)].type = FILE_TYPE_REGULAR,
         Puts(fs, fs', Entry(fs, name), Leaf(FILE_TYPE_REGULAR, data))
  PROVE  Abstract!Write(name, data)
<1>1. Leaf(FILE_TYPE_REGULAR, data) = Abstract!File(data)
  BY DEF Leaf, Abstract!File, FILE_TYPE_REGULAR
<1>2. tree' = Abstract!With(Entry(fs, name), Abstract!File(data)) /\ UNCHANGED cwd
  BY <1>1, PutStep
<1>3. QED
  BY <1>2, ImageIs DEF Abstract!Write, Abstract!IsFile, FILE_TYPE_REGULAR

\* Removing an entry under which there is none.
LEMMA RemoveStep ==
  ASSUME Imaged(fs), Image(fs), Image(fs)', NEW name \in Names, Exists(fs, name),
         ~HasChildren(fs, Lookup(fs, name)), fs' = SwapOut(fs, Lookup(fs, name))
  PROVE  Imaged(fs') /\ Abstract!Next
<1>1. /\ Imaged(fs') /\ Drops(fs, fs', Entry(fs, name))
      /\ Entry(fs, name) \in DOMAIN TreeOf(fs)
      /\ \A p \in DOMAIN TreeOf(fs) : p # <<>> => Abstract!Parent(p) # Entry(fs, name)
  BY RemovalImage
<1>2. tree' = TreeOf(fs') /\ cwd' = CwdOf(fs')
  BY DEF Image
<1>3. tree' = Abstract!Without(Entry(fs, name)) /\ UNCHANGED cwd
  BY <1>1, <1>2, ImageIs DEF Drops, Drop, Abstract!Without, Abstract!Restrict
<1>4. Abstract!IsEmptyHere(Entry(fs, name))
  BY <1>1, ImageIs DEF Abstract!IsEmptyHere
<1>5. Abstract!Remove(name)
  BY <1>1, <1>3, <1>4, ImageIs DEF Abstract!Remove
<1>6. QED
  BY <1>1, <1>5 DEF Abstract!Next

\* The tree and the current directory stay.
Stands == UNCHANGED <<tree, cwd>>

\* A call that keeps the image is a stutter.
LEMMA StandsStill ==
  ASSUME Image(fs), Image(fs)', TreeOf(fs') = TreeOf(fs), CwdOf(fs') = CwdOf(fs)
  PROVE  Stands
<1>1. tree' = TreeOf(fs') /\ cwd' = CwdOf(fs')
  BY DEF Image
<1>2. QED
  BY <1>1, ImageIs DEF Stands

\* The steps a write may take.
LEMMA WroteStep ==
  ASSUME Image(fs), Image(fs)', NEW name \in Names, NEW data, Wrote(fs, fs', name, data)
  PROVE  Stands \/ Abstract!Next \/ Abstract!Write(name, data)
BY StandsStill, CreateStep, WriteStep DEF Wrote, FileTypes

\* The steps a move may take.
LEMMA MovedStep ==
  ASSUME Image(fs), Image(fs)', NEW src \in Names, NEW dest \in Names,
         Moved(fs, fs', src, dest)
  PROVE  Stands \/ Abstract!Next
<1>1. CASE TreeOf(fs') = TreeOf(fs) /\ CwdOf(fs') = CwdOf(fs)
  BY <1>1, StandsStill
<1>2. CASE /\ Entry(fs, dest) \notin DOMAIN TreeOf(fs)
           /\ \E type \in FileTypes : Puts(fs, fs', Entry(fs, dest), Leaf(type, <<>>))
  BY <1>2, CreateStep
<1>3. CASE /\ Entry(fs, src) \in DOMAIN TreeOf(fs)
           /\ TreeOf(fs)[Entry(fs, src)].type = FILE_TYPE_REGULAR
           /\ Entry(fs, dest) \notin DOMAIN TreeOf(fs)
           /\ Named(fs') /\ CwdOf(fs') = CwdOf(fs)
           /\ TreeOf(fs') = Drop(Put(TreeOf(fs), Entry(fs, dest), TreeOf(fs)[Entry(fs, src)]),
                                 Entry(fs, src))
  <2>1. tree' = TreeOf(fs') /\ cwd' = CwdOf(fs')
    BY DEF Image
  <2> DEFINE from == Entry(fs, src)
  <2> DEFINE to == Entry(fs, dest)
  <2>2. Abstract!Here(src) = from /\ Abstract!Here(dest) = to
    BY ImageIs
  <2>3. Abstract!IsFile(from) /\ to \notin Abstract!Paths
    BY <1>3, ImageIs DEF Abstract!IsFile, FILE_TYPE_REGULAR
  <2>4. TreeOf(fs') = Drop(Put(tree, to, tree[from]), from)
    BY <1>3, ImageIs
  <2> HIDE DEF from, to
  <2>5. Drop(Put(tree, to, tree[from]), from)
          = Abstract!Restrict(Abstract!With(to, tree[from]), (Abstract!Paths \cup {to}) \ {from})
    BY DEF Drop, Put, Abstract!Restrict, Abstract!With, Abstract!Paths
  <2>6. cwd' = cwd
    BY <1>3, <2>1, ImageIs
  <2>7. Abstract!Move(src, dest)
    BY <2>1, <2>2, <2>3, <2>4, <2>5, <2>6 DEF Abstract!Move
  <2>8. QED
    BY <2>7 DEF Abstract!Next
<1>4. QED
  BY <1>1, <1>2, <1>3 DEF Moved

\* The steps of cd.
LEMMA ChangedStep ==
  ASSUME Imaged(fs), Image(fs), Image(fs)', NEW path \in Names \cup {Dot, DotDot, EmptyName},
         fs' = ChangeDirectory(fs, path)
  PROVE  Imaged(fs') /\ (Stands \/ Abstract!Next)
<1>1. /\ Imaged(fs') /\ TreeOf(fs') = TreeOf(fs)
      /\ \/ CwdOf(fs') = CwdOf(fs)
         \/ CwdOf(fs') = Abstract!Parent(CwdOf(fs))
         \/ /\ path \notin {Dot, DotDot, EmptyName}
            /\ Entry(fs, path) \in DOMAIN TreeOf(fs)
            /\ TreeOf(fs)[Entry(fs, path)].type = FILE_TYPE_DIRECTORY
            /\ CwdOf(fs') = Entry(fs, path)
  BY ChangeDirectoryImage
<1>2. tree' = tree /\ cwd' = CwdOf(fs')
  BY <1>1, ImageIs DEF Image
<1>3. CASE CwdOf(fs') = CwdOf(fs)
  BY <1>1, <1>3, StandsStill
<1>4. CASE CwdOf(fs') = Abstract!Parent(CwdOf(fs))
  <2>1. Abstract!Leave
    BY <1>2, <1>4, ImageIs DEF Abstract!Leave
  <2>2. QED
    BY <1>1, <2>1 DEF Abstract!Next
<1>5. CASE /\ path \in Names /\ Entry(fs, path) \in DOMAIN TreeOf(fs)
           /\ TreeOf(fs)[Entry(fs, path)].type = FILE_TYPE_DIRECTORY
           /\ CwdOf(fs') = Entry(fs, path)
  <2>1. Abstract!Enter(path)
    BY <1>2, <1>5, ImageIs DEF Abstract!Enter, Abstract!IsDirectory, FILE_TYPE_DIRECTORY
  <2>2. QED
    BY <1>1, <1>5, <2>1 DEF Abstract!Next
<1>6. QED
  BY <1>1, <1>3, <1>4, <1>5

\* The calls that write no data.
LEMMA TableCallsStep ==
  ASSUME Imaged(fs), Image(fs), Image(fs)', TableCalls
  PROVE  Imaged(fs') /\ (Stands \/ Abstract!Next)
<1>1. Names \subseteq EntryNames /\ ~Faulty(fs) /\ TableOK(fs) /\ TableOK(fs')
  <2>1. TableOK(fs) /\ Next
    BY DEF TableCalls, Next, Imaged
  <2>2. QED
    BY <2>1, NextTable DEF EntryNames, TableCalls, fs_create_file, fs_touch_file,
          fs_make_directory, fs_remove_directory, fs_delete_file, fs_change_directory, Running
<1>2. ASSUME fs' = fs PROVE Imaged(fs') /\ Stands
  BY <1>2, StandsStill, Zenon
<1>3. ASSUME NEW n \in Names, NEW t \in CreateTypes, fs_create_file(n, t)
      PROVE  Imaged(fs') /\ (Stands \/ Abstract!Next)
  <2>1. fs' = CreateFile(fs, n, t) /\ t \in FileTypes
    BY <1>3, DataAssumption DEF fs_create_file
  <2>2. CASE CreateResult(fs, n) = FS_SUCCESS
    BY <1>1, <2>1, <2>2, CreatedImage, CreateStep
  <2>3. CASE CreateResult(fs, n) # FS_SUCCESS
    BY <1>2, <2>1, <2>3 DEF CreateFile
  <2>4. QED
    BY <2>2, <2>3
<1>4. ASSUME NEW n \in Names, fs_touch_file(n)
      PROVE  Imaged(fs') /\ (Stands \/ Abstract!Next)
  <2>1. CASE Exists(fs, n)
    BY <1>2, <1>4, <2>1 DEF fs_touch_file, TouchFile
  <2>2. CASE ~Exists(fs, n)
    <3>1. /\ <<>> \in Seq(Bytes) /\ Shown(<<>>) <= 0 /\ 0 \in Nat
          /\ Clip(<<>>, MAX_FILE_SIZE) = <<>>
      BY SizesAssumption DEF Shown, Clip
    <3>2. HasRoom(fs, n, 0)
      BY <2>2, Extents DEF HasRoom, Imaged, DataOK
    <3>3. fs' = WriteFile(fs, n, <<>>)
      BY <1>4, <2>2 DEF fs_touch_file, TouchFile
    <3>4. Imaged(fs') /\ Wrote(fs, fs', n, <<>>)
      BY <1>1, <3>1, <3>2, <3>3, WriteFileImage
    <3>5. Entry(fs, n) \notin DOMAIN TreeOf(fs) \/ fs' = fs
      <4>1. CASE CreateResult(fs, n) = FS_SUCCESS
        BY <1>1, <4>1, CreatedImage DEF FileTypes
      <4>2. CASE CreateResult(fs, n) # FS_SUCCESS
        BY <2>2, <3>3, <4>2 DEF WriteFile, WriteResult, CreateFile, FS_SUCCESS, FS_ERROR_NO_SPACE
      <4>3. QED
        BY <4>1, <4>2
    <3>6. QED
      BY <1>2, <3>4, <3>5, CreateStep DEF Wrote, FileTypes
  <2>3. QED
    BY <2>1, <2>2
<1>5. ASSUME NEW n \in Names, fs_make_directory(n)
      PROVE  Imaged(fs') /\ (Stands \/ Abstract!Next)
  <2>1. fs' = MakeDirectory(fs, n)
    BY <1>5 DEF fs_make_directory
  <2>2. CASE MakeDirectoryResult(fs, n) = FS_SUCCESS
    BY <1>1, <2>1, <2>2, MadeImage, CreateStep DEF FileTypes
  <2>3. CASE MakeDirectoryResult(fs, n) # FS_SUCCESS
    BY <1>2, <2>1, <2>3 DEF MakeDirectory
  <2>4. QED
    BY <2>2, <2>3
<1>6. ASSUME NEW n \in Names, fs_remove_directory(n)
      PROVE  Imaged(fs') /\ (Stands \/ Abstract!Next)
  <2>1. fs' = RemoveDirectory(fs, n)
    BY <1>6 DEF fs_remove_directory
  <2>2. CASE RemoveDirectoryResult(fs, n) = FS_SUCCESS
    <3>1. Exists(fs, n) /\ ~HasChildren(fs, Lookup(fs, n))
      BY <2>2 DEF RemoveDirectoryResult, FS_SUCCESS, FS_ERROR_NOT_FOUND,
                  FS_ERROR_NOT_DIRECTORY, FS_ERROR_NOT_EMPTY
    <3>2. fs' = SwapOut(fs, Lookup(fs, n))
      BY <2>1, <2>2 DEF RemoveDirectory
    <3>3. QED
      BY <3>1, <3>2, RemoveStep
  <2>3. CASE RemoveDirectoryResult(fs, n) # FS_SUCCESS
    BY <1>2, <2>1, <2>3 DEF RemoveDirectory
  <2>4. QED
    BY <2>2, <2>3
<1>7. ASSUME NEW n \in Names, ~IsDirectory(fs, n), fs_delete_file(n)
      PROVE  Imaged(fs') /\ (Stands \/ Abstract!Next)
  <2>1. fs' = DeleteFile(fs, n)
    BY <1>7 DEF fs_delete_file
  <2>2. CASE Exists(fs, n)
    <3>1. ~HasChildren(fs, Lookup(fs, n))
      BY <1>7, <2>2, FileHasNoChildren DEF IsDirectory, Imaged
    <3>2. fs' = SwapOut(fs, Lookup(fs, n))
      BY <2>1, <2>2 DEF DeleteFile
    <3>3. QED
      BY <2>2, <3>1, <3>2, RemoveStep
  <2>3. CASE ~Exists(fs, n)
    BY <1>2, <2>1, <2>3 DEF DeleteFile
  <2>4. QED
    BY <2>2, <2>3
<1>8. ASSUME NEW n \in Names \cup {Dot, DotDot, EmptyName}, fs_change_directory(n)
      PROVE  Imaged(fs') /\ (Stands \/ Abstract!Next)
  BY <1>8, ChangedStep DEF fs_change_directory
<1>9. QED
  BY <1>3, <1>4, <1>5, <1>6, <1>7, <1>8 DEF TableCalls

\* Every call, used with room for its writes.
LEMMA InPlaceStep ==
  ASSUME Imaged(fs), Image(fs), Image(fs)', InPlaceNext
  PROVE  Imaged(fs') /\ (Stands \/ Abstract!Next)
<1>1. Names \subseteq EntryNames
  BY DEF EntryNames
<1>2. CASE TableCalls
  BY <1>2, TableCallsStep
<1>3. ASSUME NEW n \in Names, NEW d \in Contents, HasRoom(fs, n, Shown(d)), fs_write_file(n, d)
      PROVE  Imaged(fs') /\ (Stands \/ Abstract!Next)
  <2>1. d \in Seq(Bytes) /\ ~Faulty(fs) /\ fs' = WriteFile(fs, n, d)
    BY <1>3, DataAssumption DEF fs_write_file, Running
  <2>2. Shown(d) \in Nat /\ Shown(d) <= Shown(d)
    BY <2>1, ClipType, SizesAssumption DEF Shown
  <2>3. Imaged(fs') /\ Wrote(fs, fs', n, Clip(d, MAX_FILE_SIZE))
    BY <1>1, <1>3, <2>1, <2>2, WriteFileImage
  <2>4. Abstract!Write(n, Clip(d, MAX_FILE_SIZE)) => Abstract!Next
    BY DEF Abstract!Next
  <2>5. QED
    BY <2>3, <2>4, WroteStep
<1>4. ASSUME NEW src \in Names, NEW dest \in Names, HasRoom(fs, dest, SizeOf(fs, src)),
             fs_copy_file(src, dest)
      PROVE  Imaged(fs') /\ (Stands \/ Abstract!Next)
  <2> DEFINE from == Entry(fs, src)
  <2>1. ~Faulty(fs) /\ fs' = CopyFile(fs, src, dest)
    BY <1>4 DEF fs_copy_file, Running
  <2>2. /\ Imaged(fs')
        /\ \/ fs' = fs
           \/ /\ from \in DOMAIN TreeOf(fs) /\ TreeOf(fs)[from].type = FILE_TYPE_REGULAR
              /\ Wrote(fs, fs', dest, TreeOf(fs)[from].data)
    BY <1>1, <1>4, <2>1, CopyFileImage
  <2>3. ASSUME from \in DOMAIN TreeOf(fs), TreeOf(fs)[from].type = FILE_TYPE_REGULAR,
               Abstract!Write(dest, TreeOf(fs)[from].data)
        PROVE  Abstract!Next
    <3>1. Abstract!Copy(src, dest)
      BY <2>3, ImageIs DEF Abstract!Copy, Abstract!IsFile, FILE_TYPE_REGULAR
    <3>2. QED
      BY <3>1 DEF Abstract!Next
  <2> HIDE DEF from
  <2>4. CASE fs' = fs
    BY <2>2, <2>4, StandsStill, Zenon
  <2>5. QED
    BY <2>2, <2>3, <2>4, WroteStep
<1>5. ASSUME NEW src \in Names, NEW dest \in Names, HasRoom(fs, dest, SizeOf(fs, src)),
             fs_move_file(src, dest)
      PROVE  Imaged(fs') /\ (Stands \/ Abstract!Next)
  BY <1>1, <1>5, MoveFileImage, MovedStep DEF fs_move_file
<1>6. QED
  BY <1>2, <1>3, <1>4, <1>5 DEF InPlaceNext

\* Through every renumbering and every move of the current directory the table
\* of fs.c, used with room for its writes, implements the tree of named entries
\* its callers are promised.
THEOREM TreeImplemented == TreeSpec => ImplementsTree
<1> DEFINE Inv == Imaged(fs) /\ Image(fs)
<1>1. TreeInit => Inv /\ Abstract!Init
  <2> SUFFICES ASSUME TreeInit PROVE Inv /\ Abstract!Init
    OBVIOUS
  <2>1. Image(fs) /\ fs = fs_init
    BY DEF TreeInit, Init
  <2>2. /\ Imaged(fs) /\ CwdOf(fs) = <<>>
        /\ TreeOf(fs) = [p \in {<<>>} \cup {<<d>> : d \in {Home, Bin, Etc} \ {RootName}} |-> Folder]
    BY <2>1, InitImage
  <2>3. Abstract!Directory = Folder
    BY DEF Abstract!Directory, Folder, Leaf, FILE_TYPE_DIRECTORY
  <2>4. QED
    BY <2>1, <2>2, <2>3 DEF Abstract!Init, Image
<1>2. Inv /\ [TreeNext]_treeVars => Inv' /\ [Abstract!Next]_(Abstract!vars)
  <2> SUFFICES ASSUME Inv, [TreeNext]_treeVars PROVE Inv' /\ [Abstract!Next]_(Abstract!vars)
    OBVIOUS
  <2>1. CASE TreeNext
    <3>1. Image(fs)' /\ InPlaceNext
      BY <2>1 DEF TreeNext, Image
    <3>2. Imaged(fs') /\ (Stands \/ Abstract!Next)
      BY <3>1, InPlaceStep
    <3>3. QED
      BY <3>1, <3>2 DEF Stands, Abstract!vars, Imaged
  <2>2. CASE UNCHANGED treeVars
    <3>1. fs' = fs /\ tree' = tree /\ cwd' = cwd
      BY <2>2 DEF treeVars
    <3>2. Imaged(fs') /\ tree' = TreeOf(fs') /\ cwd' = CwdOf(fs')
      BY <3>1, Zenon DEF Image
    <3>3. Inv'
      BY <3>2 DEF Image, Imaged
    <3>4. QED
      BY <3>1, <3>3 DEF Abstract!vars
  <2>3. QED
    BY <2>1, <2>2
<1>3. QED
  BY <1>1, <1>2, PTL DEF TreeSpec, ImplementsTree, Abstract!Spec

=============================================================================
