------------------------------ MODULE MCDisplay ------------------------------
(* A small instance of Display for TLC. *)
EXTENDS Display

\* z is a keyword, a may stand in a number, every sign has a role somewhere.
LineAlphabet ==
  [l \in Languages |->
     CASE l = "C" -> {"/", "*", "\"", "\\", "#", "z", "1"}
       [] l = "Verilog" -> {"/", "'", "a", "z", "1"}
       [] l = "RISC-V" -> {"#", "-", "a", "z", "1"}]
AInNumbers == [l \in Languages |-> IF l = "C" THEN {} ELSE {"a"}]
ZIsKeyword == {<<"z">>, <<"z", "z">>}

SomeBytes == {"/", "*", "\"", " ", "z", "directive", ".", "#", ";", "newline"}

\* Longer files where the signs are few.
SomeFiles ==
  [e \in {"c", "v", "s", ""} |->
     CASE e = "c" -> SeqOf({"/", "*", "\"", " ", "z", "directive", "newline"}, 4)
       [] e = "v" -> SeqOf({"/", "*", "z", "newline"}, 5)
       [] e = "s" -> SeqOf({".", "#", ";", "z", "newline"}, 5)
       [] e = "" -> SeqOf({"z", " ", "newline"}, 6)]
JustZ == <<"z">>
=============================================================================
