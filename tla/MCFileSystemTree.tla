-------------------------- MODULE MCFileSystemTree --------------------------
(* The small instances of MCFileSystem for FileSystemTree: its image of the *)
(* table is a function of what Relevant keeps.                               *)
EXTENDS MCFileSystem, FileSystemTree
=============================================================================
