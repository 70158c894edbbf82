------------------------- MODULE AbstractFileSystem -------------------------
(***************************************************************************)
(* What the callers of kernel/fs/fs.h are promised: a tree of named        *)
(* directories and files, and a current directory in it.                   *)
(*                                                                         *)
(* The tree is a function from paths, the sequences of names that lead     *)
(* down from the root, to nodes.  A call names an entry of the current     *)
(* directory, changes that entry alone and either takes place whole or     *)
(* leaves everything as it was.                                            *)
(***************************************************************************)
EXTENDS Sequences, FiniteSets, Functions

CONSTANTS
  Names,         \* the names callers use
  Datas,         \* what a file may be written with
  Types,         \* the types an entry may be created with
  InitialDirs    \* the directories in the root at the start

VARIABLES tree, cwd

vars == <<tree, cwd>>

Directory == [type |-> "DIRECTORY", data |-> <<>>]
File(data) == [type |-> "REGULAR", data |-> data]
Node(type) == [type |-> type, data |-> <<>>]

Paths == DOMAIN tree
Here(name) == Append(cwd, name)
Parent(path) == IF path = <<>> THEN <<>> ELSE SubSeq(path, 1, Len(path) - 1)
IsDirectory(path) == path \in Paths /\ tree[path].type = "DIRECTORY"
IsFile(path) == path \in Paths /\ tree[path].type = "REGULAR"
IsEmptyHere(path) == \A p \in Paths : p # <<>> => Parent(p) # path

With(path, node) == [p \in Paths \cup {path} |-> IF p = path THEN node ELSE tree[p]]
Without(path) == Restrict(tree, Paths \ {path})

Init ==
  /\ tree = [p \in {<<>>} \cup {<<d>> : d \in InitialDirs} |-> Directory]
  /\ cwd = <<>>

Create(name, type) ==
  /\ Here(name) \notin Paths
  /\ tree' = With(Here(name), Node(type))
  /\ UNCHANGED cwd

Write(name, data) ==
  /\ Here(name) \in Paths => IsFile(Here(name))
  /\ tree' = With(Here(name), File(data))
  /\ UNCHANGED cwd

\* A directory must be empty to go; a file always may.
Remove(name) ==
  /\ Here(name) \in Paths
  /\ IsDirectory(Here(name)) => IsEmptyHere(Here(name))
  /\ tree' = Without(Here(name))
  /\ UNCHANGED cwd

Copy(src, dest) == IsFile(Here(src)) /\ Write(dest, tree[Here(src)].data)

Move(src, dest) ==
  /\ IsFile(Here(src))
  /\ Here(dest) \notin Paths
  /\ tree' = Restrict(With(Here(dest), tree[Here(src)]),
                      (Paths \cup {Here(dest)}) \ {Here(src)})
  /\ UNCHANGED cwd

Enter(name) == IsDirectory(Here(name)) /\ cwd' = Here(name) /\ UNCHANGED tree
Leave == cwd' = Parent(cwd) /\ UNCHANGED tree

Next ==
  \/ \E n \in Names, t \in Types : Create(n, t)
  \/ \E n \in Names, d \in Datas : Write(n, d)
  \/ \E n \in Names : Remove(n)
  \/ \E src, dest \in Names : Copy(src, dest) \/ Move(src, dest)
  \/ \E n \in Names : Enter(n)
  \/ Leave

Spec == Init /\ [][Next]_vars

=============================================================================
