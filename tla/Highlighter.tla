----------------------------- MODULE Highlighter -----------------------------
(***************************************************************************)
(* How the code editor shows a line (kernel/editor/editor.c): the three    *)
(* highlighters editor_highlight_c, _verilog and _riscv, one step per turn *)
(* of their loop.  What they print is a sequence of characters and of the  *)
(* markers `[C]', `[/C]' and so on.  The number before the line and the    *)
(* newline behind it are left out.  Definitions marked Variant are slips   *)
(* the next definition avoids.                                             *)
(***************************************************************************)
EXTENDS Integers, SequencesExt, Texts

CONSTANTS
  Alphabet,      \* Alphabet[language]: the characters of the lines
  MaxLength,     \* bound: characters of a line
  Letters,       \* is_alpha, among the characters
  Digits,        \* is_digit
  NumberLetters, \* NumberLetters[language]: the letters a number may hold
  Keywords,      \* the words in the table of the language
  WordLimit,     \* what extract_word takes: 63
  NumberLimit    \* what the arrays of the numbers take: 31, Verilog 63

Languages == {"C", "Verilog", "RISC-V"}

Opening == {"[C]", "[S]", "[P]", "[K]", "[N]"}
Closing(marker) == CASE marker = "[C]" -> "[/C]" [] marker = "[S]" -> "[/S]"
                     [] marker = "[P]" -> "[/P]" [] marker = "[K]" -> "[/K]"
                     [] marker = "[N]" -> "[/N]"
Markers == Opening \cup {Closing(m) : m \in Opening}

ASSUME HighlighterAssumption ==
  /\ {MaxLength, WordLimit, NumberLimit} \subseteq Nat \ {0}
  /\ Letters \cap Digits = {} /\ (Letters \cup Digits) \cap {"/", Quote} = {}
  /\ \A l \in Languages : NumberLetters[l] \subseteq Letters
  /\ NumberLimit > 1
  /\ \A l \in Languages : Alphabet[l] \cap Markers = {}

VARIABLES
  language,
  line,
  i,         \* the character to be looked at next
  printed

h_vars == <<language, line, i, printed>>

-----------------------------------------------------------------------------
Rest == SubSeq(line, i, Len(line))
At(c) == i <= Len(line) /\ line[i] = c
Pair(c, d) == At(c) /\ i < Len(line) /\ line[i + 1] = d

\* The longest run of characters of a set from k on, but at most so many.
RunEnd(k, set, most) ==
  Min({j \in k..Len(line) : line[j] \notin set \/ j - k >= most} \cup {Len(line) + 1})

\* Variant: the marker behind the text is forgotten.
MarkedOpen(marker, from, to) == <<marker>> \o SubSeq(line, from, to)

\* Print what is between two positions, in markers.
Marked(marker, from, to) ==
  <<marker>> \o SubSeq(line, from, to) \o <<Closing(marker)>>

Show(text, next) ==
  /\ printed' = printed \o text
  /\ i' = next
  /\ UNCHANGED <<language, line>>

\* To the end of the line; `break'.
ShowRest(marker) == Show(Marked(marker, i, Len(line)), Len(line) + 1)

line_comment == language # "RISC-V" /\ Pair("/", "/") /\ ShowRest("[C]")
hash_comment == language = "RISC-V" /\ At("#") /\ ShowRest("[C]")
preprocessor == language = "C" /\ At("#") /\ ShowRest("[P]")

\* Where the comment is closed, the star of its opening not counted.
CommentEnds == {j \in i + 2..Len(line) - 1 : line[j] = "*" /\ line[j + 1] = "/"}

block_comment ==
  /\ language = "C" /\ Pair("/", "*")
  /\ \/ /\ CommentEnds # {}
        /\ Show(Marked("[C]", i, Min(CommentEnds) + 1), Min(CommentEnds) + 2)
     \/ /\ CommentEnds = {}
        /\ Show(<<"[C]">> \o Rest, Len(line) + 1)

\* Variant: a backslash escapes a quote even when it is escaped itself.
EscapedByAny(j) == line[j - 1] = Backslash

\* An odd number of backslashes before it, those of this string only.
Escaped(j) ==
  LET start == Max({k \in i..j - 1 : line[k] # Backslash})
  IN (j - 1 - start) % 2 = 1

StringEnds == {j \in i + 1..Len(line) : line[j] = Quote /\ ~Escaped(j)}

string_literal ==
  /\ language = "C" /\ At(Quote)
  /\ \/ StringEnds # {} /\ Show(Marked("[S]", i, Min(StringEnds)), Min(StringEnds) + 1)
     \/ StringEnds = {} /\ Show(<<"[S]">> \o Rest, Len(line) + 2)

\* Variant: is_alpha in place of is_alnum.
WordEndAlpha == RunEnd(i, Letters, WordLimit)

\* extract_word
WordEnd == RunEnd(i, Letters \cup Digits, WordLimit)

\* Variant: the rest of a word that is too long is skipped.
AfterWholeWord == RunEnd(i, Letters \cup Digits, Len(line))

\* What extract_word returns in *end.
AfterWord == WordEnd

\* Registers and instructions of RISC-V have markers of their own.
word ==
  /\ i <= Len(line) /\ line[i] \in Letters
  /\ LET text == SubSeq(line, i, WordEnd - 1)
     IN \/ text \in Keywords /\ Show(Marked("[K]", i, WordEnd - 1), AfterWord)
        \/ text \notin Keywords /\ Show(text, AfterWord)

NumberChars ==
  Digits \cup NumberLetters[language]
    \cup (CASE language = "C" -> {"."} [] language = "Verilog" -> {"'"} [] OTHER -> {})

\* A minus sign begins an immediate of RISC-V.
NumberEnd ==
  IF At("-") THEN RunEnd(i + 1, NumberChars, NumberLimit - 1)
  ELSE RunEnd(i, NumberChars, NumberLimit)

\* Variant: a sign is left to the loop for digits, which does not move on.
NumberStartsAtDigit == line[i] \in Digits

NumberStarts == line[i] \in Digits \/ (language = "RISC-V" /\ At("-"))

number ==
  /\ i <= Len(line)
  /\ NumberStarts
  /\ Show(Marked("[N]", i, NumberEnd - 1), NumberEnd)

StartsSomething ==
  \/ line[i] \in Letters \cup Digits
  \/ CASE language = "C" -> Pair("/", "/") \/ Pair("/", "*") \/ line[i] \in {Quote, "#"}
       [] language = "Verilog" -> Pair("/", "/")
       [] language = "RISC-V" -> line[i] \in {"#", "-"}

plain ==
  i <= Len(line) /\ ~StartsSomething /\ Show(<<line[i]>>, i + 1)

HighlighterInit ==
  /\ language \in Languages
  /\ line \in SeqOf(Alphabet[language], MaxLength)
  /\ i = 1
  /\ printed = <<>>

HighlighterNext ==
  \/ line_comment \/ hash_comment \/ preprocessor \/ block_comment
  \/ string_literal \/ word \/ number \/ plain

Shown == i > Len(line)

-----------------------------------------------------------------------------
(* Properties. *)

Characters(text) == Without(text, Markers)

(* Nothing of the line is lost, doubled or put in another order by the
   highlighters: without its markers the output is the line read so far. *)
AllShown == Characters(printed) = SubSeq(line, 1, Min({i - 1, Len(line)}))

(* Markers never nest, each is closed by its own, and what is left open at the
   end of the line is a block comment or a string that does not end there. *)
MarkersPair ==
  LET marks == Without(printed, Alphabet[language])
  IN \A k \in 1..Len(marks) :
       IF k % 2 = 0 THEN marks[k] = Closing(marks[k - 1])
       ELSE /\ marks[k] \in Opening
            /\ k = Len(marks) => marks[k] \in {"[C]", "[S]"} /\ Shown

(* What is marked as a keyword is a whole word: it ends where the letters and
   digits end, and none of them stands right before it, but those of a number.
   extract_word takes a word that is too long in pieces, and a piece may be
   taken for a keyword: one that is full may end inside the word, and one that
   begins inside it begins where a full piece ends. *)
KeywordsStandAlone ==
  \A k \in 1..Len(printed) :
    printed[k] = "[K]" =>
      LET first == Len(Characters(SubSeq(printed, 1, k))) + 1
          run == RunEnd(first, Letters \cup Digits, Len(line)) - first
          end == Min({j \in k..Len(printed) : printed[j] = "[/K]"})
          piece == first - WordLimit
      IN /\ end - k - 1 = Min({run, WordLimit})
         /\ \/ first = 1 \/ line[first - 1] \notin Letters \cup Digits
            \/ printed[k - 1] = "[/N]"
            \/ /\ piece >= 1 /\ line[piece] \in Letters
               /\ \A c \in piece..first - 1 : line[c] \in Letters \cup Digits

(* A string in C is shown up to its first quote that is not escaped, so the
   text behind it is not taken for a part of it: of the quotes that no
   backslash takes away, read from the left, a closed one has two and an open
   one has one. *)
Quotes(text) ==
  LET takes[k \in 0 .. Len(text)] == k > 0 /\ text[k] = Backslash /\ ~takes[k - 1]
  IN Cardinality({k \in 1 .. Len(text) : text[k] = Quote /\ ~takes[k - 1]})

StringsEndRight ==
  \A k \in 1..Len(printed) :
    printed[k] = "[S]" =>
      LET ends == {j \in k..Len(printed) : printed[j] = "[/S]"}
      IN IF ends = {} THEN Quotes(SubSeq(printed, k + 1, Len(printed))) = 1
         ELSE Quotes(SubSeq(printed, k + 1, Min(ends) - 1)) = 2
=============================================================================
