------------------------------ MODULE FileViewer ------------------------------
(***************************************************************************)
(* The shell commands that read a file line by line (kernel/shell/shell.c): *)
(* cat, edit when it shows what is there already, grep and the count of    *)
(* `syntax' for assembly.  Each has a loop of its own over the bytes of    *)
(* the file and an array of 256 bytes for the line; cat and edit hand the  *)
(* line to display_line_with_highlighting.  A turn of a loop is a step.    *)
(* Indentation, headings and the newlines printed are left out.            *)
(* Definitions marked Variant are slips the next definition avoids.        *)
(***************************************************************************)
EXTENDS Integers, SequencesExt, Texts

CONSTANTS
  Bytes,         \* what files are made of
  Files,         \* Files[ext]: the files with that extension, as read
  Newline, NUL,  \* bytes
  WordChars,     \* what words are made of
  Known,         \* the keywords of the language
  Directive,     \* stands for #include, #define and the others searched for
  ShellWord,     \* what the array of a word takes: 63
  LineLimit,     \* what the array of a line takes: 255
  Pattern        \* what grep searches for

Extensions == DOMAIN Files

\* The marks of colours, as they go to the screen.
Colour == "colour"
Reset == "reset"

\* What is written into a file is a string, so it holds no NUL.
ASSUME ViewerAssumption ==
  /\ {ShellWord, LineLimit} \subseteq Nat \ {0}
  /\ \A e \in Extensions : Files[e] \subseteq Seq(Bytes)
  /\ Bytes \cap {NUL, Colour, Reset} = {}
  /\ Newline \in Bytes \ (WordChars \cup {"."})

VARIABLES
  command, ext,
  file,         \* the bytes read; a NUL follows
  offset,       \* bytes dealt with
  text,         \* the line so far
  line_number,
  output        \* what has been shown, found or counted

v_vars == <<command, ext, file, offset, text, line_number, output>>

-----------------------------------------------------------------------------
(* One line on the screen: display_line_with_highlighting. *)

Occurs(needle, t) ==
  {k \in 1..Len(t) - Len(needle) + 1 : SubSeq(t, k, k + Len(needle) - 1) = needle}
HasOne(needles, t) == \E n \in needles : Occurs(n, t) # {}

Coloured(t) == <<Colour>> \o t \o <<Reset>>

\* The comment from its sign on; what is before it has no colours.
WithComment(t, k) == SubSeq(t, 1, k - 1) \o Coloured(SubSeq(t, k, Len(t)))

highlight_word(word) == IF word \in Known THEN Coloured(word) ELSE word

\* The dot belongs to the words of assembly only.
InWord(c) == c \in WordChars \cup (IF ext = "s" THEN {"."} ELSE {})

\* A character the array of the word has no room for is dropped.
WordStep(acc, c) ==
  IF InWord(c)
  THEN [acc EXCEPT !.word = IF Len(@) < ShellWord THEN Append(@, c) ELSE @]
  ELSE [shown |-> acc.shown \o highlight_word(acc.word) \o <<c>>, word |-> <<>>]

ScanWords(t) ==
  LET scan[k \in 0 .. Len(t)] ==
        IF k = 0 THEN [shown |-> <<>>, word |-> <<>>] ELSE WordStep(scan[k - 1], t[k])
  IN scan[Len(t)]

\* Variant: a word the line ends with is not shown.
WordByWordOpen(t) == ScanWords(t).shown

WordByWord(t) == ScanWords(t).shown \o highlight_word(ScanWords(t).word)

\* A # counts before any semicolon, even one that stands behind it.
AsmComment(t) == IF Occurs(<<"#">>, t) # {} THEN Occurs(<<"#">>, t) ELSE Occurs(<<";">>, t)

Displayed(t) ==
  CASE ext = "c" /\ Occurs(<<Directive>>, t) # {} -> Coloured(t)
    [] ext = "c" /\ Occurs(<<Directive>>, t) = {} /\ Occurs(<<"/", "/">>, t) # {} ->
         WithComment(t, Min(Occurs(<<"/", "/">>, t)))
    [] ext = "v" /\ Occurs(<<"/", "/">>, t) # {} -> WithComment(t, Min(Occurs(<<"/", "/">>, t)))
    [] ext = "s" /\ AsmComment(t) # {} -> WithComment(t, Min(AsmComment(t)))
    [] ext = "" -> t
    [] OTHER ->
         IF \/ ext \in {"c", "v"} /\ HasOne({<<"/", "*">>, <<"*", "/">>}, t)
            \/ ext = "c" /\ HasOne({<<" ", "*", " ">>, <<Quote>>}, t)
         THEN Coloured(t) ELSE WordByWord(t)

-----------------------------------------------------------------------------
(* The loops. *)

\* grep and syntax take the NUL behind the file for the end of a last line.
LastByte == IF command \in {"grep", "syntax"} THEN Len(file) + 1 ELSE Len(file)
Byte == IF offset < Len(file) THEN file[offset + 1] ELSE NUL
EndsLine == Byte = Newline \/ (command # "edit" /\ Byte = NUL)

LineHasRoom == Len(text) < LineLimit

\* What a whole line adds to the output: cat leaves empty lines out; grep
\* shows those that hold the pattern; syntax counts lines that hold code.
cat_line(t) == IF t = <<>> THEN output ELSE output \o Displayed(t) \o <<Newline>>
edit_line(t) == output \o Displayed(t) \o <<Newline>>
grep_line(t) ==
  IF Occurs(Pattern, t) # {} THEN Append(output, <<line_number, t>>) ELSE output
syntax_line(t) ==
  IF t = <<>> \/ t[1] \in {"#", ";"} THEN output
  ELSE Append(output, IF t[1] = "." THEN "directive" ELSE "instruction")

WithLine(t) ==
  CASE command = "cat" -> cat_line(t)
    [] command = "edit" -> edit_line(t)
    [] command = "grep" -> grep_line(t)
    [] command = "syntax" -> syntax_line(t)

take_byte ==
  /\ command # "none"
  /\ offset < LastByte
  /\ ~EndsLine
  /\ offset' = offset + 1
  /\ text' = IF LineHasRoom THEN Append(text, Byte) ELSE text
  /\ UNCHANGED <<command, ext, file, line_number, output>>

\* Variant: lines that are not shown are not counted.
CountedIfShown == IF text = <<>> THEN line_number ELSE line_number + 1

Counted == line_number + 1

end_line ==
  /\ command # "none"
  /\ offset < LastByte
  /\ EndsLine
  /\ offset' = offset + 1
  /\ text' = <<>>
  /\ line_number' = Counted
  /\ output' = WithLine(text)
  /\ UNCHANGED <<command, ext, file>>

\* cat and edit show what the last newline left in the array.
last_line ==
  /\ command \in {"cat", "edit"}
  /\ offset = LastByte
  /\ text # <<>>
  /\ text' = <<>>
  /\ output' = WithLine(text)
  /\ UNCHANGED <<command, ext, file, offset, line_number>>

ViewerInit ==
  /\ command \in {"cat", "edit", "grep", "syntax"}
  /\ ext \in Extensions
  /\ command = "syntax" => ext = "s"
  /\ file \in Files[ext]
  /\ command = "edit" => file # <<>>
  /\ offset = 0
  /\ text = <<>>
  /\ line_number = 1
  /\ output = <<>>

ViewerNext == take_byte \/ end_line \/ last_line

-----------------------------------------------------------------------------
(* Properties. *)

Done == command # "none" /\ offset = LastByte /\ (text = <<>> \/ command \in {"grep", "syntax"})

\* Where the k-th byte stands in its line.
Column(k) == k - Max({0} \cup {j \in 1..k - 1 : file[j] = Newline})

\* What is not shown: the end of lines longer than the array and, by cat, the
\* newlines of empty lines.
LeftOut(k) ==
  IF file[k] = Newline THEN command = "cat" /\ Column(k) = 1 ELSE Column(k) > LineLimit
Struck == [k \in 1..Len(file) |-> IF LeftOut(k) THEN NUL ELSE file[k]]

\* A last line gets the newline it lacks.
LastNewline ==
  IF file = <<>> \/ file[Len(file)] = Newline THEN <<>> ELSE <<Newline>>

LongWord(t) ==
  \E k \in 1..Len(t) - ShellWord : \A j \in k..k + ShellWord : InWord(t[j])
Uncoloured(t) == Without(t, {Colour, Reset})

(* What cat and edit show of a file is its text, nothing lost and nothing
   doubled whatever is coloured, but for empty lines in cat and the end of
   lines longer than the array; words too long for theirs are shown cut, so
   files with such words are left out here. *)
FileIsShown ==
  Done /\ command \in {"cat", "edit"} /\ ~LongWord(file)
    => Uncoloured(output) = Without(Struck, {NUL}) \o LastNewline

\* The lines of a file, by the places where they begin.
LineStarts == {1} \cup {k + 1 : k \in {j \in 1..Len(file) : file[j] = Newline}}
LineFrom(s) ==
  SubSeq(file, s, Min({k \in s..Len(file) : file[k] = Newline} \cup {Len(file) + 1}) - 1)
LineNumber(s) == Cardinality({k \in 1..s - 1 : file[k] = Newline}) + 1

Cut(t) == SubSeq(t, 1, Min({Len(t), LineLimit}))

(* grep reports every line with the pattern in the part the array holds, each
   under its own number, empty lines counted, from the first to the last. *)
MatchesAreNumbered ==
  Done /\ command = "grep" =>
    /\ {output[k] : k \in 1..Len(output)} =
         {<<LineNumber(s), Cut(LineFrom(s))>> :
            s \in {x \in LineStarts : Occurs(Pattern, Cut(LineFrom(x))) # {}}}
    /\ \A j, k \in 1..Len(output) : j < k => output[j][1] < output[k][1]
=============================================================================
