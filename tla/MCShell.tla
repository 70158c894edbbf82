------------------------------ MODULE MCShell ------------------------------
(* A small instance of Shell for TLC. *)
EXTENDS Shell, MCFileSystem

\* One character and the newline; a line of one character.
ThreeBytes == {0, 1, 2}
OneLine == {<<1>>}
SomeTexts == {<<1>>}

ShellRelevant == <<Relevant, edit>>
=============================================================================
