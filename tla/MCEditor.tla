------------------------------ MODULE MCEditor ------------------------------
(* Small instances of Editor for TLC. *)
EXTENDS Editor

CONSTANT x   \* the printable character

\* No file, an empty one, one without a final '\n', one that has longer lines
\* than a line has room for and more bytes than are read, and one that has more
\* lines than the buffer.
SomeFiles == {Missing, <<>>, <<x, NL, x>>, <<x, x, x, x, NL, x, NL, NL, NL, x, NL>>,
              <<x, NL, NL, NL, NL, x, NL>>}
NewFile == {Missing}
ShortFile == {<<x, NL>>}
=============================================================================
