--------------------------- MODULE FileSystemTree ---------------------------
(***************************************************************************)
(* The table of FileSystem.tla as an implementation of the tree of         *)
(* AbstractFileSystem.tla: the names met on the way up from an entry are   *)
(* its path.                                                               *)
(*                                                                         *)
(* tree and cwd hold the image of fs under that mapping.  They add nothing *)
(* to the behaviour; they are variables so that the image is worked out    *)
(* once per state.                                                         *)
(***************************************************************************)
EXTENDS FileSystemInvariants

VARIABLES tree, cwd

\* fs_init has room for its directories, and their names are legal.
ASSUME InitDirsFit ==
  /\ MAX_FILES > 3
  /\ \A name \in {Home, Bin, Etc} \ {RootName} : NameLen[name] \in 1 .. MAX_FILENAME - 1

treeVars == <<fs, tree, cwd>>

\* The path of each entry in use: its name under the path of its parent.
PathsOf(s) ==
  LET path[i \in Live(s)] ==
        IF i = ROOT_DIR THEN <<>>
        ELSE Append(path[s.files[i].parent_id], s.files[i].name)
  IN path

NodeAt(s, i) == [type |-> s.files[i].type, data |-> FileBytes(s, i)]

TreeOf(s) ==
  LET pathOf == PathsOf(s)
  IN [path \in {pathOf[i] : i \in Live(s)} |->
        NodeAt(s, CHOOSE i \in Live(s) : pathOf[i] = path)]

CwdOf(s) == PathsOf(s)[s.current_dir]

Image(s) == tree = TreeOf(s) /\ cwd = CwdOf(s)

TreeInit == Init /\ Image(fs)
TreeNext == InPlaceNext /\ tree' = TreeOf(fs') /\ cwd' = CwdOf(fs')
TreeSpec == TreeInit /\ [][TreeNext]_treeVars

Abstract == INSTANCE AbstractFileSystem WITH
  Datas <- {Clip(d, MAX_FILE_SIZE) : d \in Contents},
  Types <- FileTypes,
  InitialDirs <- {Home, Bin, Etc} \ {RootName}

(* Through every renumbering of the table and every move of the current
   directory, each call changes one named entry and no other, all of it or
   nothing: used with room for its writes, the table implements the tree.  Which
   name the call was given is not compared: for writes and moves ReadBack and
   MvDelivers do that. *)
ImplementsTree == Abstract!Spec

=============================================================================
