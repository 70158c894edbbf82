-------------------------------- MODULE Texts --------------------------------
(***************************************************************************)
(* What a reader makes of a text.                                          *)
(***************************************************************************)
EXTENDS Integers, Sequences

Quote == "\""
Backslash == "\\"

\* A text with the members of a set left out.  SelectSeq would do, but takes
\* an operator, which a lemma cannot.
Without(text, set) ==
  LET kept[k \in 0 .. Len(text)] ==
        IF k = 0 THEN <<>>
        ELSE IF text[k] \in set THEN kept[k - 1] ELSE Append(kept[k - 1], text[k])
  IN kept[Len(text)]
=============================================================================
