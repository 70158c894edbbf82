---------------------------- MODULE MCCommandLine ----------------------------
(* A small instance of CommandLine for TLC. *)
EXTENDS CommandLine

CONSTANT x

\* `x x' is edit with a name, `xx' is panic, anything else just returns.
EditIsX == <<x>>
PanicIsXX == <<x, x>>
QuitIsX == {<<x>>}
=============================================================================
