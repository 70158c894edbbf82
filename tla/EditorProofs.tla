---------------------------- MODULE EditorProofs ----------------------------
(***************************************************************************)
(* Theorems about Editor, for every size of the buffer, the window and the *)
(* text, every file and every sequence of keys.  A key is an operator from *)
(* editor state to editor state, so there is one lemma per operator, saying*)
(* that it is a Stroke: it keeps the state sound, does not change the text *)
(* unnoticed and does not lose the cursor.                                 *)
(*                                                                         *)
(* The last part is about a text that is saved and loaded again.           *)
(***************************************************************************)
EXTENDS Editor, Ranges, SequenceTheorems

Bytes_t == Chars \cup {NL}

-----------------------------------------------------------------------------
(* Lines. *)

LEMMA EditorSizes ==
  /\ MAX_LINES \in Nat /\ MAX_LINES > 1
  /\ MAX_LINE_LENGTH \in Nat /\ MAX_LINE_LENGTH > 0
  /\ BUFFER_SIZE \in Nat /\ BUFFER_SIZE > 0
  /\ view_height \in Nat /\ view_height > 0
BY EditorAssumption

LEMMA LineIsShort ==
  ASSUME NEW l
  PROVE  l \in Line <=> l \in Seq(Chars) /\ Len(l) \in Nat /\ Len(l) < MAX_LINE_LENGTH
BY DEF Line

LEMMA NoTextIs ==
  /\ NoText \in Seq(Line) /\ Len(NoText) = 1 /\ NoText[1] = <<>> /\ NoText # <<>>
  /\ <<>> \in Line /\ Len(<<>>) = 0
<1>1. <<>> \in Line /\ Len(<<>>) = 0
  BY EditorSizes DEF Line
<1>2. QED
  BY <1>1 DEF NoText

\* A part of a sequence, with all of its elements where it should have them.
LEMMA PartOfSeq ==
  ASSUME NEW S, NEW s \in Seq(S), NEW m \in 1 .. Len(s) + 1, NEW n \in m - 1 .. Len(s)
  PROVE  SubSeq(s, m, n) \in Seq(S) /\ Len(SubSeq(s, m, n)) = n - m + 1
<1>1. Len(s) \in Nat /\ m \in Int /\ n \in Int
  BY LenProperties
<1>2. \A i \in m .. n : s[i] \in S
  BY <1>1, ElementOfSeq
<1>3. /\ SubSeq(s, m, n) \in Seq(S)
      /\ Len(SubSeq(s, m, n)) = IF m <= n THEN n - m + 1 ELSE 0
  BY <1>1, <1>2, SubSeqProperties
<1>4. (IF m <= n THEN n - m + 1 ELSE 0) = n - m + 1
  BY <1>1
<1>5. QED
  BY <1>3, <1>4

\* An element more.
LEMMA SeqWith ==
  ASSUME NEW S, NEW s \in Seq(S), NEW p \in 1 .. Len(s) + 1, NEW x \in S
  PROVE  InsertAt(s, p, x) \in Seq(S) /\ Len(InsertAt(s, p, x)) = Len(s) + 1
<1> DEFINE a == SubSeq(s, 1, p - 1)
<1> DEFINE b == SubSeq(s, p, Len(s))
<1>1. Len(s) \in Nat
  BY LenProperties
<1>2. a \in Seq(S) /\ Len(a) = p - 1
  <2>1. 1 \in 1 .. Len(s) + 1 /\ p - 1 \in 1 - 1 .. Len(s)
    BY <1>1
  <2>2. a \in Seq(S) /\ Len(a) = (p - 1) - 1 + 1
    BY <2>1, PartOfSeq
  <2>3. (p - 1) - 1 + 1 = p - 1
    BY <1>1
  <2>4. QED
    BY <2>2, <2>3
<1>3. b \in Seq(S) /\ Len(b) = Len(s) - p + 1
  <2>1. Len(s) \in p - 1 .. Len(s)
    BY <1>1
  <2>2. QED
    BY <2>1, PartOfSeq
<1>4. InsertAt(s, p, x) = a \o <<x>> \o b
  BY DEF InsertAt
<1> DEFINE ax == a \o <<x>>
<1>5. ax \in Seq(S) /\ Len(ax) = p
  <2> HIDE DEF a
  <2>1. <<x>> \in Seq(S) /\ Len(<<x>>) = 1
    OBVIOUS
  <2>2. ax \in Seq(S) /\ Len(ax) = Len(a) + 1
    BY <1>2, <2>1, ConcatProperties
  <2>3. QED
    BY <1>2, <2>2
<1>6. ax \o b \in Seq(S) /\ Len(ax \o b) = Len(ax) + Len(b)
  <2> HIDE DEF ax, b
  <2>1. QED
    BY <1>3, <1>5, ConcatProperties
<1>7. Len(ax) + Len(b) = Len(s) + 1
  <2> HIDE DEF ax, b
  <2>1. QED
    BY <1>1, <1>3, <1>5
<1>8. InsertAt(s, p, x) = ax \o b
  BY <1>4
<1>9. QED
  <2> HIDE DEF ax, b
  <2>1. QED
    BY <1>6, <1>7, <1>8

\* A part of a line is a line, and so is a line with a character more or less.
LEMMA PartOfLine ==
  ASSUME NEW l \in Line, NEW m \in 1 .. Len(l) + 1, NEW n \in m - 1 .. Len(l)
  PROVE  SubSeq(l, m, n) \in Line /\ Len(SubSeq(l, m, n)) = n - m + 1
<1> DEFINE part == SubSeq(l, m, n)
<1>1. l \in Seq(Chars) /\ Len(l) \in Nat /\ Len(l) < MAX_LINE_LENGTH
  BY LineIsShort
<1>2. part \in Seq(Chars) /\ Len(part) = n - m + 1
  BY <1>1, PartOfSeq
<1> HIDE DEF part
<1>3. part \in Line
  BY <1>1, <1>2, LineIsShort, EditorSizes
<1>4. QED
  BY <1>2, <1>3 DEF part

LEMMA LineWith ==
  ASSUME NEW l \in Line, Len(l) < MAX_LINE_LENGTH - 1, NEW p \in 1 .. Len(l) + 1,
         NEW c \in Chars
  PROVE  InsertAt(l, p, c) \in Line /\ Len(InsertAt(l, p, c)) = Len(l) + 1
<1> DEFINE longer == InsertAt(l, p, c)
<1>1. l \in Seq(Chars) /\ Len(l) \in Nat
  BY LineIsShort
<1>2. longer \in Seq(Chars) /\ Len(longer) = Len(l) + 1
  BY <1>1, SeqWith
<1> HIDE DEF longer
<1>3. longer \in Line
  BY <1>1, <1>2, LineIsShort, EditorSizes
<1>4. QED
  BY <1>2, <1>3 DEF longer

LEMMA LineWithout ==
  ASSUME NEW l \in Line, NEW k \in 1 .. Len(l)
  PROVE  RemoveAt(l, k) \in Line /\ Len(RemoveAt(l, k)) = Len(l) - 1
<1> DEFINE a == SubSeq(l, 1, k - 1)
<1> DEFINE b == SubSeq(l, k + 1, Len(l))
<1>1. l \in Seq(Chars) /\ Len(l) \in Nat /\ Len(l) < MAX_LINE_LENGTH
  BY LineIsShort
<1>2. a \in Seq(Chars) /\ Len(a) = k - 1
  <2>1. 1 \in 1 .. Len(l) + 1 /\ k - 1 \in 1 - 1 .. Len(l)
    BY <1>1
  <2>2. a \in Line /\ Len(a) = (k - 1) - 1 + 1
    BY <2>1, PartOfLine
  <2>3. Len(a) = k - 1
    BY <2>2
  <2>4. QED
    BY <2>2, <2>3, LineIsShort
<1>3. b \in Seq(Chars) /\ Len(b) = Len(l) - k
  <2>1. k + 1 \in 1 .. Len(l) + 1 /\ Len(l) \in (k + 1) - 1 .. Len(l)
    BY <1>1
  <2>2. b \in Line /\ Len(b) = Len(l) - (k + 1) + 1
    BY <2>1, PartOfLine
  <2>3. Len(b) = Len(l) - k
    BY <1>1, <2>2
  <2>4. QED
    BY <2>2, <2>3, LineIsShort
<1>4. RemoveAt(l, k) = a \o b
  BY DEF RemoveAt
<1> DEFINE shorter == a \o b
<1>5. shorter \in Seq(Chars) /\ Len(shorter) = Len(a) + Len(b)
  <2> HIDE DEF a, b
  <2>1. QED
    BY <1>2, <1>3, ConcatProperties
<1>6. Len(shorter) = Len(l) - 1 /\ RemoveAt(l, k) = shorter
  <2> HIDE DEF a, b
  <2>1. QED
    BY <1>1, <1>2, <1>3, <1>4, <1>5
<1> HIDE DEF a, b, shorter
<1>7. QED
  BY <1>1, <1>5, <1>6, LineIsShort, EditorSizes

-----------------------------------------------------------------------------
(* States of the editor. *)

InText(e) ==
  /\ e.cursor_line \in 0 .. LastLine(e)
  /\ LastLine(e) < MAX_LINES
  /\ e.cursor_col <= Len(Text(e))
  /\ e.view_start_line <= e.cursor_line

Sound(e) == e \in editor_state_t /\ InText(e)

Below(e) == e.cursor_line >= e.view_start_line + view_height

\* What a key may make of e.
Stroke(e, f) ==
  /\ Sound(f)
  /\ f.running = e.running
  /\ f.modified \/ (f.lines = e.lines /\ f.modified = e.modified)
  /\ f.lines = e.lines => /\ f.cursor_line > e.cursor_line => ~Below(f)
                          /\ Below(f) => Below(e)

LEMMA SoundIs ==
  ASSUME NEW e, Sound(e)
  PROVE  /\ e \in editor_state_t
         /\ e.lines \in Seq(Line) /\ Len(e.lines) \in Nat /\ Len(e.lines) <= MAX_LINES
         /\ e.cursor_line \in Nat /\ e.cursor_line + 1 \in 1 .. Len(e.lines)
         /\ Text(e) = e.lines[e.cursor_line + 1] /\ Text(e) \in Line /\ Len(Text(e)) \in Nat
         /\ e.cursor_col \in 0 .. Len(Text(e))
         /\ e.view_start_line \in 0 .. e.cursor_line
<1>1. /\ e \in editor_state_t /\ e.lines \in Seq(Line) /\ Len(e.lines) \in Nat
      /\ e.cursor_line \in Nat /\ e.cursor_col \in Nat /\ e.view_start_line \in Nat
  BY DEF Sound, editor_state_t
<1>2. /\ Len(e.lines) <= MAX_LINES
      /\ e.cursor_line + 1 \in 1 .. Len(e.lines)
      /\ e.view_start_line \in 0 .. e.cursor_line
      /\ e.cursor_col <= Len(Text(e))
  BY <1>1, EditorSizes DEF Sound, InText, LastLine
<1>3. Text(e) = e.lines[e.cursor_line + 1] /\ Text(e) \in Line
  BY <1>1, <1>2, ElementOfSeq DEF Text
<1>4. QED
  BY <1>1, <1>2, <1>3, LineIsShort

\* Moving the cursor and the window.
MovedTo(e, n, c, v) ==
  [e EXCEPT !.cursor_line = n, !.cursor_col = c, !.view_start_line = v]

LEMMA Moved ==
  ASSUME NEW e, Sound(e),
         NEW n \in Nat, n + 1 \in 1 .. Len(e.lines), NEW c \in 0 .. Len(e.lines[n + 1]),
         NEW v \in 0 .. n
  PROVE  /\ Sound(MovedTo(e, n, c, v))
         /\ MovedTo(e, n, c, v).lines = e.lines
         /\ MovedTo(e, n, c, v).modified = e.modified
         /\ MovedTo(e, n, c, v).running = e.running
         /\ MovedTo(e, n, c, v).cursor_line = n
         /\ MovedTo(e, n, c, v).view_start_line = v
<1> DEFINE f == MovedTo(e, n, c, v)
<1>1. e \in editor_state_t /\ Len(e.lines) \in Nat /\ Len(e.lines) <= MAX_LINES
      /\ e.lines \in Seq(Line)
  BY SoundIs
<1>2. c \in Nat
  <2>1. e.lines[n + 1] \in Line
    BY <1>1, ElementOfSeq
  <2>2. QED
    BY <2>1, LineIsShort
<1>3. /\ f \in editor_state_t /\ f.lines = e.lines /\ f.modified = e.modified
      /\ f.running = e.running
      /\ f.cursor_line = n /\ f.view_start_line = v /\ f.cursor_col = c
  <2>1. n \in Nat /\ c \in Nat /\ v \in Nat
    BY <1>2
  <2>2. f \in editor_state_t
    BY <1>1, <2>1 DEF editor_state_t, MovedTo
  <2>3. f.cursor_line = n /\ f.view_start_line = v /\ f.cursor_col = c
    BY <1>1 DEF editor_state_t, MovedTo
  <2>4. f.lines = e.lines /\ f.modified = e.modified /\ f.running = e.running
    BY <1>1 DEF editor_state_t, MovedTo
  <2>5. QED
    BY <2>2, <2>3, <2>4
<1>4. InText(f)
  <2> HIDE DEF f
  <2>1. QED
    BY <1>1, <1>3, EditorSizes DEF InText, LastLine, Text
<1>5. QED
  BY <1>3, <1>4 DEF Sound

\* Another text on the cursor's line.
WithLine(e, l, c) ==
  [e EXCEPT !.lines[e.cursor_line + 1] = l, !.cursor_col = c, !.modified = TRUE]

LEMMA Rewritten ==
  ASSUME NEW e, Sound(e), NEW l \in Line, NEW c \in 0 .. Len(l)
  PROVE  Stroke(e, WithLine(e, l, c))
<1> DEFINE i == e.cursor_line + 1
<1> DEFINE f == WithLine(e, l, c)
<1>1. /\ e \in editor_state_t /\ e.lines \in Seq(Line) /\ Len(e.lines) \in Nat
      /\ Len(e.lines) <= MAX_LINES
      /\ e.cursor_line \in Nat /\ i \in 1 .. Len(e.lines)
      /\ e.view_start_line \in 0 .. e.cursor_line
  BY SoundIs
<1>2. c \in Nat
  BY LineIsShort
<1> DEFINE text == [e.lines EXCEPT ![i] = l]
<1>3. text \in Seq(Line) /\ Len(text) = Len(e.lines) /\ text[i] = l
  BY <1>1, ExceptSeq
<1>4. /\ f \in editor_state_t /\ f.lines = text /\ f.modified /\ f.running = e.running
      /\ f.cursor_line = e.cursor_line /\ f.view_start_line = e.view_start_line
      /\ f.cursor_col = c
  <2>1. f = [e EXCEPT !.lines = text, !.cursor_col = c, !.modified = TRUE]
    BY DEF WithLine
  <2> HIDE DEF text
  <2>2. QED
    BY <1>1, <1>2, <1>3, <2>1 DEF editor_state_t
<1>5. InText(f)
  <2> HIDE DEF f, text
  <2>1. QED
    BY <1>1, <1>3, <1>4, EditorSizes DEF InText, LastLine, Text
<1>6. ~(f.cursor_line > e.cursor_line) /\ (Below(f) => Below(e))
  <2> HIDE DEF f
  <2>1. QED
    BY <1>1, <1>4 DEF Below
<1>7. QED
  BY <1>4, <1>5, <1>6 DEF Stroke, Sound

-----------------------------------------------------------------------------
(* The keys that move the cursor. *)

LEMMA StayStrokes ==
  ASSUME NEW e, Sound(e)
  PROVE  Stroke(e, e)
BY SoundIs DEF Stroke

LEMMA LeastIs ==
  ASSUME NEW m \in Nat, NEW n \in Nat
  PROVE  Least(m, n) \in 0 .. n /\ Least(m, n) \in 0 .. m
BY DEF Least

LEMMA UpStrokes ==
  ASSUME NEW e, Sound(e)
  PROVE  Stroke(e, Up(e))
<1> DEFINE n == e.cursor_line - 1
<1> DEFINE c == Least(e.cursor_col, Len(e.lines[n + 1]))
<1> DEFINE v == Least(e.view_start_line, n)
<1>1. CASE e.cursor_line = 0
  BY <1>1, StayStrokes DEF Up
<1>2. CASE e.cursor_line # 0
  <2>1. /\ e \in editor_state_t /\ e.lines \in Seq(Line) /\ Len(e.lines) \in Nat
        /\ e.cursor_line \in Nat /\ e.cursor_line + 1 \in 1 .. Len(e.lines)
        /\ e.cursor_col \in Nat /\ e.view_start_line \in 0 .. e.cursor_line
    BY SoundIs DEF editor_state_t
  <2>2. n \in Nat /\ n + 1 \in 1 .. Len(e.lines) /\ n + 1 = e.cursor_line
    BY <1>2, <2>1
  <2>3. Len(e.lines[n + 1]) \in Nat
    BY <2>1, <2>2, ElementOfSeq, LineIsShort
  <2>4. c \in 0 .. Len(e.lines[n + 1]) /\ v \in 0 .. n
    <3>1. c \in 0 .. Len(e.lines[n + 1])
      BY <2>1, <2>3, LeastIs
    <3>2. v \in 0 .. n
      <4>1. e.view_start_line \in Nat
        BY <2>1
      <4> HIDE DEF n
      <4>2. QED
        BY <2>2, <4>1, LeastIs
    <3>3. QED
      BY <3>1, <3>2
  <2>5. Up(e) = MovedTo(e, n, c, v)
    BY <1>2, <2>2 DEF Up, MovedTo
  <2> HIDE DEF n, c, v
  <2>6. /\ Sound(Up(e))
        /\ Up(e).lines = e.lines /\ Up(e).modified = e.modified /\ Up(e).running = e.running
        /\ Up(e).cursor_line = n /\ Up(e).view_start_line = v
    BY <2>2, <2>4, <2>5, Moved
  <2>7. n < e.cursor_line /\ (n >= v + view_height => e.cursor_line >= e.view_start_line + view_height)
    <3>1. e.cursor_line - 1 = n
      BY DEF n
    <3>2. v = e.view_start_line \/ v = n
      BY DEF v, Least, n
    <3>3. QED
      BY <2>1, <2>2, <2>4, <3>1, <3>2, EditorSizes
  <2>8. QED
    BY <2>1, <2>2, <2>6, <2>7 DEF Stroke, Below
<1>3. QED
  BY <1>1, <1>2

LEMMA DownStrokes ==
  ASSUME NEW e, Sound(e)
  PROVE  Stroke(e, Down(e))
<1> DEFINE n == e.cursor_line + 1
<1> DEFINE c == Least(e.cursor_col, Len(e.lines[n + 1]))
<1> DEFINE v == IF n >= e.view_start_line + view_height
                THEN n - view_height + 1 ELSE e.view_start_line
<1>1. CASE e.cursor_line = LastLine(e)
  BY <1>1, StayStrokes DEF Down
<1>2. CASE e.cursor_line # LastLine(e)
  <2>1. /\ e \in editor_state_t /\ e.lines \in Seq(Line) /\ Len(e.lines) \in Nat
        /\ e.cursor_line \in Nat /\ e.cursor_line + 1 \in 1 .. Len(e.lines)
        /\ e.cursor_col \in Nat /\ e.view_start_line \in 0 .. e.cursor_line
    BY SoundIs DEF editor_state_t
  <2>2. n \in Nat /\ n + 1 \in 1 .. Len(e.lines)
    BY <1>2, <2>1 DEF LastLine
  <2>3. Len(e.lines[n + 1]) \in Nat
    BY <2>1, <2>2, ElementOfSeq, LineIsShort
  <2>4. c \in 0 .. Len(e.lines[n + 1])
    BY <2>1, <2>3, LeastIs
  <2>5. v \in 0 .. n /\ ~(n >= v + view_height)
    BY <2>1, EditorSizes
  <2>6. Down(e) = MovedTo(e, n, c, v)
    BY <1>2 DEF Down, MovedTo
  <2> HIDE DEF n, c, v
  <2>7. /\ Sound(Down(e))
        /\ Down(e).lines = e.lines /\ Down(e).modified = e.modified
        /\ Down(e).running = e.running
        /\ Down(e).cursor_line = n /\ Down(e).view_start_line = v
    BY <2>2, <2>4, <2>5, <2>6, Moved
  <2>8. QED
    BY <2>5, <2>7 DEF Stroke, Below
<1>3. QED
  BY <1>1, <1>2

\* Left, right and the end of the line.
LEMMA AlongStrokes ==
  ASSUME NEW e, Sound(e), NEW c \in 0 .. Len(Text(e))
  PROVE  Stroke(e, [e EXCEPT !.cursor_col = c])
<1> DEFINE n == e.cursor_line
<1> DEFINE f == MovedTo(e, n, c, e.view_start_line)
<1>1. /\ e \in editor_state_t /\ e.cursor_line \in Nat
      /\ n + 1 \in 1 .. Len(e.lines) /\ e.view_start_line \in 0 .. n
      /\ c \in 0 .. Len(e.lines[n + 1])
  BY SoundIs
<1>2. f = [e EXCEPT !.cursor_col = c]
  BY <1>1 DEF editor_state_t, MovedTo
<1>3. /\ Sound(f) /\ f.lines = e.lines /\ f.modified = e.modified /\ f.running = e.running
      /\ f.cursor_line = n /\ f.view_start_line = e.view_start_line
  <2> HIDE DEF n
  <2>1. n \in Nat
    BY <1>1 DEF n
  <2>2. QED
    BY <1>1, <2>1, Moved
<1> HIDE DEF f
<1>4. ~(f.cursor_line > e.cursor_line)
  BY <1>1, <1>3
<1>5. QED
  BY <1>2, <1>3, <1>4 DEF Stroke, Below

LEMMA MoveStrokes ==
  ASSUME NEW e, Sound(e)
  PROVE  /\ \A f \in {Up(e), Down(e), Right(e), Left(e)} : Stroke(e, f)
         /\ Stroke(e, LineEnd(e))
<1>1. e.cursor_col \in 0 .. Len(Text(e)) /\ Len(Text(e)) \in Nat
  BY SoundIs
<1>2. Stroke(e, Right(e))
  <2>1. CASE e.cursor_col < Len(Text(e))
    <3>1. e.cursor_col + 1 \in 0 .. Len(Text(e))
      BY <1>1, <2>1
    <3>2. QED
      BY <2>1, <3>1, AlongStrokes DEF Right
  <2>2. QED
    BY <2>1, StayStrokes DEF Right
<1>3. Stroke(e, Left(e))
  <2>1. CASE e.cursor_col > 0
    <3>1. e.cursor_col - 1 \in 0 .. Len(Text(e))
      BY <1>1, <2>1
    <3>2. QED
      BY <2>1, <3>1, AlongStrokes DEF Left
  <2>2. QED
    BY <2>1, StayStrokes DEF Left
<1>4. Stroke(e, LineEnd(e))
  <2>1. Len(Text(e)) \in 0 .. Len(Text(e))
    BY <1>1
  <2>2. QED
    BY <2>1, AlongStrokes DEF LineEnd
<1>5. QED
  BY <1>2, <1>3, <1>4, UpStrokes, DownStrokes

-----------------------------------------------------------------------------
(* The keys that change the text. *)

LEMMA InsertStrokes ==
  ASSUME NEW e, Sound(e), NEW c \in Chars
  PROVE  Stroke(e, editor_insert_char(e, c))
<1> DEFINE l == InsertAt(Text(e), e.cursor_col + 1, c)
<1>1. /\ Text(e) = e.lines[e.cursor_line + 1] /\ Text(e) \in Line
      /\ Len(Text(e)) \in Nat /\ e.cursor_col \in 0 .. Len(Text(e))
  BY SoundIs
<1>2. CASE Len(Text(e)) >= MAX_LINE_LENGTH - 1
  BY <1>2, StayStrokes DEF editor_insert_char
<1>3. CASE ~(Len(Text(e)) >= MAX_LINE_LENGTH - 1)
  <2>1. Len(Text(e)) < MAX_LINE_LENGTH - 1 /\ e.cursor_col + 1 \in 1 .. Len(Text(e)) + 1
    BY <1>1, <1>3, EditorSizes
  <2>2. l \in Line /\ Len(l) = Len(Text(e)) + 1
    BY <1>1, <2>1, LineWith
  <2>3. editor_insert_char(e, c) = WithLine(e, l, e.cursor_col + 1)
    BY <1>1, <1>3 DEF editor_insert_char, WithLine
  <2>4. e.cursor_col + 1 \in 0 .. Len(l)
    <3> HIDE DEF l
    <3>1. QED
      BY <1>1, <2>2
  <2> HIDE DEF l
  <2>5. QED
    BY <2>2, <2>3, <2>4, Rewritten
<1>4. QED
  BY <1>2, <1>3

LEMMA DeleteStrokes ==
  ASSUME NEW e, Sound(e)
  PROVE  Stroke(e, editor_delete_char(e))
<1> DEFINE l == RemoveAt(Text(e), e.cursor_col)
<1>1. /\ Text(e) = e.lines[e.cursor_line + 1] /\ Text(e) \in Line
      /\ Len(Text(e)) \in Nat /\ e.cursor_col \in 0 .. Len(Text(e))
  BY SoundIs
<1>2. CASE e.cursor_col = 0
  BY <1>2, StayStrokes DEF editor_delete_char
<1>3. CASE e.cursor_col # 0
  <2>1. e.cursor_col \in 1 .. Len(Text(e))
    BY <1>1, <1>3
  <2>2. l \in Line /\ Len(l) = Len(Text(e)) - 1
    BY <1>1, <2>1, LineWithout
  <2>3. editor_delete_char(e) = WithLine(e, l, e.cursor_col - 1)
    BY <1>1, <1>3 DEF editor_delete_char, WithLine
  <2>4. e.cursor_col - 1 \in 0 .. Len(l)
    <3> HIDE DEF l
    <3>1. QED
      BY <1>1, <2>1, <2>2
  <2> HIDE DEF l
  <2>5. QED
    BY <2>2, <2>3, <2>4, Rewritten
<1>4. QED
  BY <1>2, <1>3

LEMMA DeleteUnderStrokes ==
  ASSUME NEW e, Sound(e)
  PROVE  Stroke(e, DeleteUnder(e))
<1> DEFINE l == RemoveAt(Text(e), e.cursor_col + 1)
<1>1. /\ e \in editor_state_t
      /\ Text(e) = e.lines[e.cursor_line + 1] /\ Text(e) \in Line
      /\ Len(Text(e)) \in Nat /\ e.cursor_col \in 0 .. Len(Text(e))
  BY SoundIs
<1>2. CASE e.cursor_col >= Len(Text(e))
  BY <1>2, StayStrokes DEF DeleteUnder
<1>3. CASE ~(e.cursor_col >= Len(Text(e)))
  <2>1. e.cursor_col + 1 \in 1 .. Len(Text(e))
    BY <1>1, <1>3
  <2>2. l \in Line /\ Len(l) = Len(Text(e)) - 1
    BY <1>1, <2>1, LineWithout
  <2>3. DeleteUnder(e) = WithLine(e, l, e.cursor_col)
    BY <1>1, <1>3 DEF DeleteUnder, WithLine, editor_state_t
  <2>4. e.cursor_col \in 0 .. Len(l)
    <3> HIDE DEF l
    <3>1. QED
      BY <1>1, <2>1, <2>2
  <2> HIDE DEF l
  <2>5. QED
    BY <2>2, <2>3, <2>4, Rewritten
<1>4. QED
  BY <1>2, <1>3

\* Splitting the line at the cursor.
LEMMA NewLineStrokes ==
  ASSUME NEW e, Sound(e)
  PROVE  Stroke(e, editor_new_line(e))
<1> DEFINE i == e.cursor_line + 1
<1> DEFINE before == SubSeq(Text(e), 1, e.cursor_col)
<1> DEFINE after == SubSeq(Text(e), e.cursor_col + 1, Len(Text(e)))
<1> DEFINE first == [e.lines EXCEPT ![i] = before]
<1> DEFINE text == InsertAt(first, e.cursor_line + 2, after)
<1> DEFINE f == [e EXCEPT !.lines = text, !.cursor_line = i, !.cursor_col = 0,
                          !.modified = TRUE]
<1>1. /\ e \in editor_state_t /\ e.lines \in Seq(Line) /\ Len(e.lines) \in Nat
      /\ e.cursor_line \in Nat /\ i \in 1 .. Len(e.lines)
      /\ Text(e) \in Line /\ Len(Text(e)) \in Nat
      /\ e.cursor_col \in 0 .. Len(Text(e)) /\ e.view_start_line \in 0 .. e.cursor_line
  BY SoundIs
<1>2. CASE Len(e.lines) >= MAX_LINES - 1
  BY <1>2, StayStrokes DEF editor_new_line
<1>3. CASE ~(Len(e.lines) >= MAX_LINES - 1)
  <2>1. before \in Line
    <3>1. 1 \in 1 .. Len(Text(e)) + 1 /\ e.cursor_col \in 1 - 1 .. Len(Text(e))
      BY <1>1
    <3>2. QED
      BY <1>1, <3>1, PartOfLine
  <2>2. after \in Line
    <3>1. e.cursor_col + 1 \in 1 .. Len(Text(e)) + 1
      BY <1>1
    <3>2. Len(Text(e)) \in (e.cursor_col + 1) - 1 .. Len(Text(e))
      BY <1>1
    <3>3. QED
      BY <1>1, <3>1, <3>2, PartOfLine
  <2>3. first \in Seq(Line) /\ Len(first) = Len(e.lines)
    <3> HIDE DEF before, i
    <3>1. QED
      BY <1>1, <2>1, ExceptSeq
  <2>4. text \in Seq(Line) /\ Len(text) = Len(e.lines) + 1
    <3> HIDE DEF first, after
    <3>1. e.cursor_line + 2 \in 1 .. Len(first) + 1
      BY <1>1, <2>3
    <3>2. text \in Seq(Line) /\ Len(text) = Len(first) + 1
      BY <2>2, <2>3, <3>1, SeqWith
    <3>3. QED
      BY <2>3, <3>2
  <2>5. editor_new_line(e) = f
    BY <1>1, <1>3 DEF editor_new_line
  <2> HIDE DEF text
  <2>6. i \in Nat
    BY <1>1
  <2>7. /\ f \in editor_state_t /\ f.lines = text /\ f.modified /\ f.running = e.running
        /\ f.cursor_line = i /\ f.cursor_col = 0 /\ f.view_start_line = e.view_start_line
    <3> HIDE DEF i
    <3>1. QED
      BY <1>1, <2>4, <2>6 DEF editor_state_t
  <2> HIDE DEF f
  <2>8. Text(f) \in Line /\ Len(Text(f)) >= 0
    <3>1. i + 1 \in 1 .. Len(text)
      BY <1>1, <2>4
    <3>2. Text(f) = text[i + 1]
      BY <2>7 DEF Text
    <3>3. QED
      BY <2>4, <3>1, <3>2, ElementOfSeq, LineIsShort
  <2>9. InText(f)
    <3>1. /\ i \in 0 .. Len(text) - 1
          /\ Len(text) - 1 < MAX_LINES
          /\ e.view_start_line <= i
      BY <1>1, <1>3, <2>4, EditorSizes
    <3>2. QED
      BY <2>7, <2>8, <3>1 DEF InText, LastLine
  <2>10. f.lines # e.lines
    BY <1>1, <2>4, <2>7
  <2>11. QED
    BY <2>5, <2>7, <2>9, <2>10 DEF Stroke, Sound
<1>4. QED
  BY <1>2, <1>3

-----------------------------------------------------------------------------
(* Saving. *)

Buffers == {b \in Seq(Bytes_t) : Len(b) < BUFFER_SIZE}

\* A line is only put where there is room for it and a byte more.
LEMMA SaveLineFits ==
  ASSUME NEW b \in Buffers, NEW l \in Line, NEW last \in BOOLEAN
  PROVE  SaveLine(b, l, last) \in Buffers
<1> DEFINE newline == IF last THEN <<>> ELSE <<NL>>
<1>1. b \in Seq(Bytes_t) /\ Len(b) \in Nat /\ Len(l) \in Nat /\ l \in Seq(Bytes_t)
  <2>1. Chars \subseteq Bytes_t
    BY DEF Bytes_t
  <2>2. l \in Seq(Bytes_t)
    BY <2>1, LineIsShort, SeqMonotonic
  <2>3. QED
    BY <2>2, LineIsShort DEF Buffers
<1>2. CASE Len(b) >= BUFFER_SIZE - 1 \/ Len(b) + Len(l) + 1 >= BUFFER_SIZE
  BY <1>2 DEF SaveLine
<1>3. CASE ~(Len(b) >= BUFFER_SIZE - 1 \/ Len(b) + Len(l) + 1 >= BUFFER_SIZE)
  <2>1. SaveLine(b, l, last) = b \o l \o newline
    BY <1>3 DEF SaveLine
  <2>2. newline \in Seq(Bytes_t) /\ Len(newline) \in Nat /\ Len(newline) <= 1
    <3>1. CASE last
      BY <3>1
    <3>2. CASE ~last
      <4>1. <<NL>> \in Seq(Bytes_t) /\ Len(<<NL>>) = 1
        BY DEF Bytes_t
      <4>2. QED
        BY <3>2, <4>1
    <3>3. QED
      BY <3>1, <3>2
  <2> HIDE DEF newline
  <2> DEFINE bl == b \o l
  <2>3. bl \in Seq(Bytes_t) /\ Len(bl) = Len(b) + Len(l)
    BY <1>1, ConcatProperties
  <2>4. bl \o newline \in Seq(Bytes_t) /\ Len(bl \o newline) = Len(bl) + Len(newline)
    <3> HIDE DEF bl
    <3>1. QED
      BY <2>2, <2>3, ConcatProperties
  <2>5. Len(bl) + Len(newline) < BUFFER_SIZE
    <3>1. Len(b) + Len(l) + 1 < BUFFER_SIZE
      BY <1>1, <1>3, EditorSizes
    <3> HIDE DEF bl
    <3>2. QED
      BY <1>1, <2>2, <2>3, <3>1, EditorSizes
  <2> DEFINE result == bl \o newline
  <2>6. result \in Seq(Bytes_t) /\ Len(result) < BUFFER_SIZE
    <3> HIDE DEF bl
    <3>1. QED
      BY <2>4, <2>5
  <2>7. SaveLine(b, l, last) = result
    BY <2>1
  <2> HIDE DEF result
  <2>8. QED
    BY <2>6, <2>7 DEF Buffers
<1>4. QED
  BY <1>2, <1>3

\* f is the buffer of editor_save_file after each of the lines.
IsSaving(f, lines) ==
  /\ f[0] = <<>> /\ SavedText(lines) = f[Len(lines)]
  /\ \A k \in 1 .. Len(lines) : f[k] = SaveLine(f[k - 1], lines[k], k = Len(lines))
  /\ \A k \in 0 .. Len(lines) : f[k] \in Buffers

\* What the recursive definition of SavedText defines.
LEMMA SavedSteps ==
  ASSUME NEW lines \in Seq(Line)
  PROVE  \E f : IsSaving(f, lines)
<1> DEFINE n == Len(lines)
<1> DEFINE Fills(f) ==
      f = [k \in 0 .. n |-> IF k = 0 THEN <<>> ELSE SaveLine(f[k - 1], lines[k], k = n)]
<1> DEFINE step == [k \in 1 .. n |-> [b \in Buffers |-> SaveLine(b, lines[k], k = n)]]
<1>1. n \in Nat /\ \A k \in 1 .. n : lines[k] \in Line
  BY LenProperties, ElementOfSeq
<1> HIDE DEF n
<1>2. <<>> \in Buffers
  BY EditorSizes DEF Buffers
<1>3. \A k \in 1 .. n : \A b \in Buffers : SaveLine(b, lines[k], k = n) \in Buffers
  BY <1>1, SaveLineFits
<1>4. step \in [1 .. n -> [Buffers -> Buffers]]
  BY <1>3
<1>5. \E f : Fills(f)
  <2>1. PICK f \in [0 .. n -> Buffers] : IsRecursion(f, n, <<>>, step)
    <3> HIDE DEF step
    <3>1. QED
      BY <1>1, <1>2, <1>4, Recursion
  <2>2. \A k \in 0 .. n : f[k] = IF k = 0 THEN <<>> ELSE SaveLine(f[k - 1], lines[k], k = n)
    <3> TAKE k \in 0 .. n
    <3>1. CASE k = 0
      BY <2>1, <3>1 DEF IsRecursion
    <3>2. CASE k # 0
      <4>1. k \in 1 .. n /\ f[k - 1] \in Buffers /\ f[k] = step[k][f[k - 1]]
        BY <1>1, <2>1, <3>2 DEF IsRecursion
      <4>2. QED
        BY <3>2, <4>1
    <3>3. QED
      BY <3>1, <3>2
  <2>3. Fills(f)
    BY <2>1, <2>2
  <2> HIDE DEF Fills
  <2>4. QED
    BY <2>3
<1>6. SavedText(lines) = (CHOOSE f : Fills(f))[n]
  BY DEF SavedText, n
<1> DEFINE f == CHOOSE f : Fills(f)
<1>7. Fills(f)
  <2> HIDE DEF Fills
  <2>1. QED
    BY <1>5
<1> HIDE DEF f
<1>8. \A k \in 0 .. n - 1 : f[k] \in Buffers => f[k + 1] \in Buffers
  <2> TAKE k \in 0 .. n - 1
  <2>1. HAVE f[k] \in Buffers
  <2>2. k + 1 \in 1 .. n /\ f[k + 1] = SaveLine(f[k], lines[k + 1], k + 1 = n)
    BY <1>1, <1>7
  <2>3. QED
    BY <1>3, <2>1, <2>2
<1>9. f[0] \in Buffers
  BY <1>1, <1>2, <1>7
<1>10. \A k \in 0 .. n : f[k] \in Buffers
  <2> HIDE DEF Fills
  <2>1. QED
    BY <1>1, <1>8, <1>9, StaysIn
<1>11. f[0] = <<>> /\ \A k \in 1 .. n : f[k] = SaveLine(f[k - 1], lines[k], k = n)
  BY <1>1, <1>7
<1>12. SavedText(lines) = f[n]
  BY <1>6 DEF f
<1> HIDE DEF Fills
<1>13. IsSaving(f, lines)
  BY <1>10, <1>11, <1>12 DEF n, IsSaving
<1>14. QED
  BY <1>13

LEMMA SavedIs ==
  ASSUME NEW lines \in Seq(Line)
  PROVE  SavedText(lines) \in Buffers
<1>1. Len(lines) \in 0 .. Len(lines)
  BY LenProperties
<1>2. PICK f : IsSaving(f, lines)
  BY SavedSteps
<1>3. QED
  BY <1>1, <1>2 DEF IsSaving

-----------------------------------------------------------------------------
(* Loading. *)

Texts == {t \in Seq(Line) : Len(t) <= MAX_LINES}
Loads == [done : Texts, line : Line]

LEMMA LoadByteKeeps ==
  ASSUME NEW m \in Loads, NEW byte \in Bytes_t
  PROVE  LoadByte(m, byte) \in Loads
<1>1. /\ m.done \in Seq(Line) /\ Len(m.done) \in Nat /\ Len(m.done) <= MAX_LINES
      /\ m.line \in Line
  BY DEF Loads, Texts
<1>2. CASE Len(m.done) >= MAX_LINES
  BY <1>2 DEF LoadByte
<1>3. CASE ~(Len(m.done) >= MAX_LINES) /\ byte = NL
  <2>1. Append(m.done, m.line) \in Seq(Line) /\ Len(Append(m.done, m.line)) = Len(m.done) + 1
    BY <1>1
  <2>2. Append(m.done, m.line) \in Texts
    BY <1>1, <1>3, <2>1, EditorSizes DEF Texts
  <2>3. LoadByte(m, byte) = [done |-> Append(m.done, m.line), line |-> <<>>]
    BY <1>3 DEF LoadByte
  <2>4. QED
    BY <2>2, <2>3, NoTextIs DEF Loads
<1>4. CASE /\ ~(Len(m.done) >= MAX_LINES) /\ byte # NL
           /\ Len(m.line) < MAX_LINE_LENGTH - 1
  <2>1. m.line \in Seq(Chars) /\ Len(m.line) \in Nat /\ byte \in Chars
    BY <1>1, <1>4, LineIsShort DEF Bytes_t
  <2> DEFINE longer == Append(m.line, byte)
  <2>2. longer \in Seq(Chars) /\ Len(longer) = Len(m.line) + 1
    BY <2>1
  <2>3. LoadByte(m, byte) = [m EXCEPT !.line = longer]
    BY <1>4 DEF LoadByte
  <2> HIDE DEF longer
  <2>4. longer \in Line
    BY <1>4, <2>1, <2>2, LineIsShort, EditorSizes
  <2>5. QED
    BY <2>3, <2>4 DEF Loads
<1>5. CASE /\ ~(Len(m.done) >= MAX_LINES) /\ byte # NL
           /\ ~(Len(m.line) < MAX_LINE_LENGTH - 1)
  BY <1>5 DEF LoadByte
<1>6. QED
  BY <1>2, <1>3, <1>4, <1>5

\* f is what editor_load_file has made of the first bytes, up to n of them.
IsLoading(f, n, bytes) ==
  /\ f[0] = [done |-> <<>>, line |-> <<>>]
  /\ \A k \in 1 .. n : f[k] = LoadByte(f[k - 1], bytes[k])
  /\ \A k \in 0 .. n : f[k] \in Loads
  /\ editor_load_file(bytes) = IF f[n].done = <<>> THEN NoText ELSE f[n].done

\* What the recursive definition of editor_load_file defines.
LEMMA LoadedSteps ==
  ASSUME NEW bytes \in Seq(Bytes_t), NEW n, n = Least(Len(bytes), BUFFER_SIZE - 1)
  PROVE  n \in Nat /\ \E f : IsLoading(f, n, bytes)
<1> DEFINE start == [done |-> <<>>, line |-> <<>>]
<1> DEFINE Reads(f) ==
      f = [k \in 0 .. n |-> IF k = 0 THEN start ELSE LoadByte(f[k - 1], bytes[k])]
<1> DEFINE step == [k \in 1 .. n |-> [m \in Loads |-> LoadByte(m, bytes[k])]]
<1>1. n \in Nat /\ \A k \in 1 .. n : bytes[k] \in Bytes_t
  <2>1. Len(bytes) \in Nat /\ BUFFER_SIZE - 1 \in Nat
    BY LenProperties, EditorSizes
  <2>2. n \in 0 .. Len(bytes)
    <3>1. Least(Len(bytes), BUFFER_SIZE - 1) \in 0 .. Len(bytes)
      BY <2>1, LeastIs
    <3>2. QED
      BY <3>1
  <2>3. n \in Nat /\ \A k \in 1 .. n : k \in 1 .. Len(bytes)
    BY <2>1, <2>2
  <2>4. QED
    BY <2>3, ElementOfSeq
<1>2. start \in Loads
  BY NoTextIs, EditorSizes DEF Loads, Texts
<1>3. \A k \in 1 .. n : \A m \in Loads : LoadByte(m, bytes[k]) \in Loads
  BY <1>1, LoadByteKeeps
<1>4. step \in [1 .. n -> [Loads -> Loads]]
  BY <1>3
<1>5. \E f : Reads(f)
  <2>1. PICK f \in [0 .. n -> Loads] : IsRecursion(f, n, start, step)
    <3> HIDE DEF start, step
    <3>1. QED
      BY <1>1, <1>2, <1>4, Recursion
  <2>2. \A k \in 0 .. n : f[k] = IF k = 0 THEN start ELSE LoadByte(f[k - 1], bytes[k])
    <3> TAKE k \in 0 .. n
    <3>1. CASE k = 0
      BY <2>1, <3>1 DEF IsRecursion
    <3>2. CASE k # 0
      <4>1. k \in 1 .. n /\ f[k - 1] \in Loads /\ f[k] = step[k][f[k - 1]]
        <5>1. k \in 1 .. n /\ k - 1 \in 0 .. n
          BY <1>1, <3>2
        <5> HIDE DEF step, start
        <5>2. QED
          BY <2>1, <5>1 DEF IsRecursion
      <4>2. QED
        BY <3>2, <4>1
    <3>3. QED
      BY <3>1, <3>2
  <2>3. QED
    BY <2>1, <2>2
<1> DEFINE f == CHOOSE f : Reads(f)
<1>6. editor_load_file(bytes) = IF f[n].done = <<>> THEN NoText ELSE f[n].done
  BY DEF editor_load_file
<1>7. Reads(f)
  <2> HIDE DEF Reads
  <2>1. QED
    BY <1>5
<1> HIDE DEF f
<1>8. \A k \in 0 .. n - 1 : f[k] \in Loads => f[k + 1] \in Loads
  <2> TAKE k \in 0 .. n - 1
  <2>1. HAVE f[k] \in Loads
  <2>2. k + 1 \in 1 .. n /\ f[k + 1] = LoadByte(f[k], bytes[k + 1])
    BY <1>1, <1>7
  <2>3. QED
    BY <1>3, <2>1, <2>2
<1>9. f[0] \in Loads
  BY <1>1, <1>2, <1>7
<1>10. \A k \in 0 .. n : f[k] \in Loads
  <2> HIDE DEF Reads
  <2>1. QED
    BY <1>1, <1>8, <1>9, StaysIn
<1>11. f[0] = start /\ \A k \in 1 .. n : f[k] = LoadByte(f[k - 1], bytes[k])
  BY <1>1, <1>7
<1>12. editor_load_file(bytes) = IF f[n].done = <<>> THEN NoText ELSE f[n].done
  BY <1>6 DEF f
<1> HIDE DEF Reads
<1>13. IsLoading(f, n, bytes)
  BY <1>10, <1>11, <1>12 DEF IsLoading
<1>14. QED
  BY <1>1, <1>13

LEMMA LoadedIs ==
  ASSUME NEW bytes \in Seq(Bytes_t)
  PROVE  editor_load_file(bytes) \in Texts /\ editor_load_file(bytes) # <<>>
<1>1. PICK n : n = Least(Len(bytes), BUFFER_SIZE - 1)
  OBVIOUS
<1>2. n \in Nat
  BY <1>1, LoadedSteps
<1>3. PICK f : IsLoading(f, n, bytes)
  BY <1>1, LoadedSteps
<1>4. f[n].done \in Texts
  BY <1>2, <1>3 DEF Loads, IsLoading
<1>5. NoText \in Texts /\ NoText # <<>>
  <2>1. Len(NoText) = 1 /\ Len(<<>>) = 0 /\ NoText \in Seq(Line)
    BY NoTextIs
  <2>2. 1 <= MAX_LINES
    BY EditorSizes
  <2>3. NoText \in Texts
    BY <2>1, <2>2 DEF Texts
  <2>4. QED
    BY <2>3, NoTextIs
<1>6. QED
  BY <1>3, <1>4, <1>5 DEF IsLoading

-----------------------------------------------------------------------------
(* Opening a file. *)

LEMMA LineEndIs ==
  ASSUME NEW e, Sound(e)
  PROVE  LET f == LineEnd(e)
         IN /\ Sound(f)
            /\ f.lines = e.lines /\ f.modified = e.modified /\ f.running = e.running
            /\ f.cursor_line = e.cursor_line /\ f.view_start_line = e.view_start_line
<1>1. Sound(LineEnd(e))
  BY MoveStrokes DEF Stroke
<1>2. e \in editor_state_t
  BY SoundIs
<1>3. QED
  BY <1>1, <1>2 DEF LineEnd, editor_state_t

LEMMA ModeStrokes ==
  ASSUME NEW e, NEW f, Stroke(e, f), NEW b \in BOOLEAN
  PROVE  Stroke(e, [f EXCEPT !.insert_mode = b])
<1> DEFINE g == [f EXCEPT !.insert_mode = b]
<1>1. f \in editor_state_t
  BY SoundIs DEF Stroke
<1>2. g \in editor_state_t
  BY <1>1 DEF editor_state_t
<1>3. /\ g.lines = f.lines /\ g.modified = f.modified /\ g.running = f.running
      /\ g.cursor_line = f.cursor_line /\ g.cursor_col = f.cursor_col
      /\ g.view_start_line = f.view_start_line
  BY <1>1 DEF editor_state_t
<1> HIDE DEF g
<1>4. Sound(g)
  <2>1. InText(f)
    BY DEF Stroke, Sound
  <2>2. InText(g)
    BY <1>3, <2>1 DEF InText, LastLine, Text
  <2>3. QED
    BY <1>2, <2>2 DEF Sound
<1>5. Below(g) <=> Below(f)
  BY <1>3 DEF Below
<1>6. Stroke(e, g)
  BY <1>3, <1>4, <1>5 DEF Stroke
<1>7. QED
  BY <1>6 DEF g

LEMMA ClearedIs ==
  ASSUME NEW choice \in MenuKeys, NEW t \in Texts, t # <<>>
  PROVE  LET e == [Cleared(choice) EXCEPT !.lines = t]
         IN /\ Sound(e) /\ e.lines = t
            /\ e.cursor_line = 0 /\ e.cursor_col = 0 /\ e.view_start_line = 0
            /\ ~e.modified
<1> DEFINE e == [Cleared(choice) EXCEPT !.lines = t]
<1>1. /\ e.lines = t /\ e.cursor_line = 0 /\ e.cursor_col = 0 /\ e.view_start_line = 0
      /\ ~e.modified
  BY DEF Cleared
<1>2. t \in Seq(Line) /\ Len(t) \in Nat /\ Len(t) <= MAX_LINES
  BY DEF Texts
<1>3. e \in editor_state_t
  BY <1>2 DEF Cleared, editor_state_t
<1>4. Len(t) > 0 /\ t[1] \in Line /\ Len(t[1]) \in Nat
  <2>1. Len(t) > 0
    BY <1>2, EmptySeq
  <2>2. QED
    BY <1>2, <2>1, ElementOfSeq, LineIsShort
<1> HIDE DEF e
<1>5. InText(e)
  BY <1>1, <1>2, <1>4, EditorSizes DEF InText, LastLine, Text
<1>6. QED
  BY <1>1, <1>3, <1>5 DEF Sound, e

LEMMA EmptyIs ==
  ASSUME NEW choice \in MenuKeys
  PROVE  /\ Sound(Cleared(choice)) /\ Cleared(choice).lines = NoText
         /\ Sound([Cleared(choice) EXCEPT !.modified = TRUE])
         /\ Sound([Cleared(choice) EXCEPT !.running = FALSE])
<1> DEFINE e == Cleared(choice)
<1>1. e \in editor_state_t
  BY NoTextIs DEF Cleared, editor_state_t
<1>2. InText(e)
  <2>1. Len(NoText) = 1 /\ NoText[1] = <<>> /\ Len(<<>>) = 0
    BY NoTextIs
  <2>2. e.lines = NoText /\ e.cursor_line = 0 /\ e.cursor_col = 0 /\ e.view_start_line = 0
    BY DEF Cleared
  <2> HIDE DEF e
  <2>3. LastLine(e) = 0 /\ Len(Text(e)) = 0
    BY <2>1, <2>2 DEF LastLine, Text
  <2>4. QED
    BY <2>2, <2>3, EditorSizes DEF InText
<1>3. ASSUME NEW f \in editor_state_t, f.lines = e.lines, f.cursor_line = e.cursor_line,
             f.cursor_col = e.cursor_col, f.view_start_line = e.view_start_line
      PROVE  Sound(f)
  <2> HIDE DEF e
  <2>1. QED
    BY <1>2, <1>3 DEF Sound, InText, LastLine, Text
<1>4. Sound([e EXCEPT !.modified = TRUE])
  <2> DEFINE f == [e EXCEPT !.modified = TRUE]
  <2> HIDE DEF e
  <2>1. /\ f \in editor_state_t /\ f.lines = e.lines /\ f.cursor_line = e.cursor_line
        /\ f.cursor_col = e.cursor_col /\ f.view_start_line = e.view_start_line
    BY <1>1 DEF editor_state_t
  <2>2. QED
    BY <1>3, <2>1
<1>5. Sound([e EXCEPT !.running = FALSE])
  <2> DEFINE f == [e EXCEPT !.running = FALSE]
  <2> HIDE DEF e
  <2>1. /\ f \in editor_state_t /\ f.lines = e.lines /\ f.cursor_line = e.cursor_line
        /\ f.cursor_col = e.cursor_col /\ f.view_start_line = e.view_start_line
    BY <1>1 DEF editor_state_t
  <2>2. QED
    BY <1>3, <2>1
<1>6. Cleared(choice).lines = NoText
  BY DEF Cleared
<1>7. QED
  BY <1>1, <1>2, <1>4, <1>5, <1>6 DEF Sound

\* Appending starts behind the last line, or on a line of its own.
LEMMA AppendingIs ==
  ASSUME NEW e, Sound(e), e.cursor_col = 0, e.view_start_line = 0
  PROVE  /\ Sound(ForAppending(e))
         /\ \/ ForAppending(e).modified
            \/ ForAppending(e).lines = e.lines /\ ForAppending(e).modified = e.modified
<1> DEFINE n == LastLine(e)
<1> DEFINE m == [e EXCEPT !.cursor_line = n]
<1>1. e \in editor_state_t /\ Len(e.lines) \in Nat /\ e.lines \in Seq(Line) /\ Len(e.lines) > 0
  BY SoundIs
<1>2. Sound(m) /\ m.lines = e.lines /\ m.modified = e.modified
  <2>1. n \in Nat /\ n + 1 \in 1 .. Len(e.lines) /\ 0 \in 0 .. n
    BY <1>1 DEF LastLine
  <2>2. 0 \in 0 .. Len(e.lines[n + 1])
    BY <1>1, <2>1, ElementOfSeq, LineIsShort
  <2>3. MovedTo(e, n, 0, 0) = m
    BY <1>1 DEF MovedTo, editor_state_t
  <2> HIDE DEF n, m
  <2>4. /\ Sound(MovedTo(e, n, 0, 0))
        /\ MovedTo(e, n, 0, 0).lines = e.lines
        /\ MovedTo(e, n, 0, 0).modified = e.modified
    BY <2>1, <2>2, Moved
  <2>5. QED
    BY <2>3, <2>4
<1>3. AtTheEnd(e) = LineEnd(m)
  BY DEF AtTheEnd
<1> DEFINE a == AtTheEnd(e)
<1>4. Sound(a) /\ a.lines = e.lines /\ a.modified = e.modified
  <2> HIDE DEF m
  <2>1. QED
    BY <1>2, <1>3, LineEndIs
<1> DEFINE f == IF Text(a) # <<>> THEN editor_new_line(a) ELSE a
<1>5. ForAppending(e) = [f EXCEPT !.insert_mode = TRUE]
  BY DEF ForAppending
<1> HIDE DEF a
<1>6. Stroke(a, f)
  BY <1>4, NewLineStrokes, StayStrokes
<1> HIDE DEF f
<1>7. Stroke(a, ForAppending(e))
  <2>1. TRUE \in BOOLEAN
    OBVIOUS
  <2>2. Stroke(a, [f EXCEPT !.insert_mode = TRUE])
    BY <1>6, <2>1, ModeStrokes
  <2>3. QED
    BY <1>5, <2>2
<1>8. /\ Sound(ForAppending(e))
      /\ \/ ForAppending(e).modified
         \/ ForAppending(e).lines = a.lines /\ ForAppending(e).modified = a.modified
  BY <1>7, Zenon DEF Stroke
<1>9. QED
  BY <1>4, <1>8

LEMMA StartedIs ==
  ASSUME NEW choice \in MenuKeys, file = Missing \/ file \in Seq(Bytes_t)
  PROVE  /\ Sound(Started(choice))
         /\ \/ Started(choice).modified
            \/ Started(choice).lines = IF file = Missing THEN NoText ELSE editor_load_file(file)
<1>1. CASE file = Missing
  <2>1. "1" \in MenuKeys
    BY DEF MenuKeys
  <2>2. QED
    BY <1>1, <2>1, EmptyIs DEF Started
<1>2. CASE file # Missing
  <2> DEFINE t == editor_load_file(file)
  <2> DEFINE e == Loaded(choice)
  <2>1. t \in Texts /\ t # <<>>
    BY <1>2, LoadedIs
  <2>2. /\ Sound(e) /\ e.lines = t
        /\ e.cursor_col = 0 /\ e.view_start_line = 0 /\ ~e.modified
    <3> HIDE DEF t
    <3>1. e = [Cleared(choice) EXCEPT !.lines = t]
      BY DEF Loaded, t
    <3> HIDE DEF e
    <3>2. QED
      BY <2>1, <3>1, ClearedIs
  <2>3. CASE choice = "2"
    <3>1. Started(choice) = ForAppending(e)
      BY <1>2, <2>3 DEF Started
    <3> HIDE DEF e
    <3>2. QED
      BY <1>2, <2>2, <3>1, AppendingIs
  <2>4. CASE choice = "3"
    <3>1. Started(choice) = [Cleared(choice) EXCEPT !.modified = TRUE]
      BY <1>2, <2>4 DEF Started
    <3>2. [Cleared(choice) EXCEPT !.modified = TRUE].modified
      BY DEF Cleared
    <3>3. QED
      BY <3>1, <3>2, EmptyIs
  <2>5. CASE choice \notin {"2", "3"}
    <3>1. Started(choice) = e
      BY <1>2, <2>5 DEF Started
    <3> HIDE DEF e
    <3>2. QED
      BY <1>2, <2>2, <3>1
  <2>6. QED
    BY <2>3, <2>4, <2>5
<1>3. QED
  BY <1>1, <1>2

-----------------------------------------------------------------------------
(* The theorems. *)

EditorInv == TypeOK /\ CursorInText /\ QuitLosesNothing

\* What DownShowsCursor says of a step.
CursorKept ==
  editor.running /\ editor'.lines = editor.lines
  => /\ editor'.cursor_line > editor.cursor_line => ~Below(editor')
     /\ Below(editor') => Below(editor)

LEMMA InvIs ==
  EditorInv <=> /\ Sound(editor) /\ QuitLosesNothing
                /\ file = Missing \/ file \in Seq(Bytes_t)
                /\ refused \in BOOLEAN
BY DEF EditorInv, TypeOK, CursorInText, Sound, InText, Bytes_t

\* A key that leaves the file alone.
LEMMA StrokeKeeps ==
  ASSUME EditorInv, editor.running, NEW f, Stroke(editor, f), Becomes(f)
  PROVE  EditorInv' /\ CursorKept
<1>1. editor' = f /\ file' = file /\ refused' = refused
  BY DEF Becomes
<1>2. TypeOK' /\ CursorInText'
  <2>1. Sound(f)
    BY DEF Stroke
  <2>2. TypeOK /\ f \in editor_state_t
    BY <2>1 DEF EditorInv, Sound
  <2>3. InText(f)
    BY <2>1 DEF Sound
  <2>4. TypeOK'
    BY <1>1, <2>2 DEF TypeOK
  <2>5. CursorInText'
    BY <1>1, <2>3 DEF InText, CursorInText, LastLine, Text
  <2>6. QED
    BY <2>4, <2>5
<1>3. QuitLosesNothing'
  <2>1. f.modified \/ (f.lines = editor.lines /\ f.modified = editor.modified)
    BY DEF Stroke
  <2>2. QuitLosesNothing
    BY DEF EditorInv
  <2>3. QED
    BY <1>1, <2>1, <2>2 DEF QuitLosesNothing
<1>4. CursorKept
  BY <1>1 DEF Stroke, CursorKept
<1>5. QED
  BY <1>2, <1>3, <1>4 DEF EditorInv

LEMMA ClosedIs ==
  Sound(Closed) /\ ~Closed.running /\ ~Below(Closed) /\ Closed.cursor_line = 0
<1>1. Sound(Closed)
  <2>1. "1" \in MenuKeys
    BY DEF MenuKeys
  <2>2. QED
    BY <2>1, EmptyIs DEF Closed
<1>2. ~Closed.running /\ Closed.cursor_line = 0 /\ Closed.view_start_line = 0
  BY DEF Closed, Cleared
<1>3. QED
  BY <1>1, <1>2, EditorSizes DEF Below

\* Closing, with or without a file written.
LEMMA ClosingKeeps ==
  ASSUME EditorInv, editor' = Closed, refused' = refused,
         file' = Missing \/ file' \in Seq(Bytes_t)
  PROVE  EditorInv' /\ CursorKept
<1>1. Sound(editor') /\ ~editor'.running /\ ~Below(editor') /\ editor'.cursor_line = 0
  BY ClosedIs
<1>2. TypeOK' /\ CursorInText'
  <2>1. refused \in BOOLEAN /\ editor' \in editor_state_t /\ InText(editor')
    BY <1>1 DEF EditorInv, TypeOK, Sound
  <2>2. TypeOK'
    BY <2>1 DEF TypeOK, Bytes_t
  <2>3. CursorInText'
    BY <2>1 DEF CursorInText, InText
  <2>4. QED
    BY <2>2, <2>3
<1>3. QuitLosesNothing'
  BY <1>1 DEF QuitLosesNothing
<1>4. CursorKept
  <2>1. editor.cursor_line \in Nat
    BY DEF EditorInv, TypeOK, editor_state_t
  <2>2. QED
    BY <1>1, <2>1 DEF CursorKept
<1>5. QED
  BY <1>2, <1>3, <1>4 DEF EditorInv

\* Writing the file.
LEMMA WrittenKeeps ==
  ASSUME EditorInv, file' = SavedText(editor.lines),
         editor' = [editor EXCEPT !.modified = FALSE], refused' = refused
  PROVE  EditorInv' /\ CursorKept
<1>1. Sound(editor) /\ editor \in editor_state_t /\ editor.lines \in Seq(Line)
  BY InvIs, SoundIs
<1>2. /\ editor' \in editor_state_t
      /\ editor'.lines = editor.lines /\ editor'.cursor_line = editor.cursor_line
      /\ editor'.cursor_col = editor.cursor_col
      /\ editor'.view_start_line = editor.view_start_line
  BY <1>1 DEF editor_state_t
<1>3. file' \in Seq(Bytes_t)
  BY <1>1, SavedIs DEF Buffers
<1>4. TypeOK'
  BY <1>2, <1>3 DEF EditorInv, TypeOK, Bytes_t
<1>5. CursorInText'
  BY <1>2 DEF EditorInv, CursorInText, LastLine, Text
<1>6. QuitLosesNothing'
  BY <1>2 DEF QuitLosesNothing
<1>7. CursorKept
  <2>1. editor.cursor_line \in Nat
    BY <1>1 DEF editor_state_t
  <2>2. QED
    BY <1>2, <2>1 DEF CursorKept, Below
<1>8. QED
  BY <1>4, <1>5, <1>6, <1>7 DEF EditorInv

LEMMA StartKeeps ==
  ASSUME EditorInv, NEW choice \in MenuKeys, editor_start(choice)
  PROVE  EditorInv' /\ CursorKept
<1>1. editor' = Started(choice) /\ file' = file /\ refused' = refused /\ ~editor.running
  BY DEF editor_start
<1>2. file = Missing \/ file \in Seq(Bytes_t)
  BY InvIs
<1>3. /\ Sound(Started(choice))
      /\ \/ Started(choice).modified
         \/ Started(choice).lines = IF file = Missing THEN NoText ELSE editor_load_file(file)
  BY <1>2, StartedIs
<1>4. TypeOK' /\ CursorInText'
  <2>1. refused \in BOOLEAN /\ editor' \in editor_state_t /\ InText(editor')
    BY <1>1, <1>3 DEF EditorInv, TypeOK, Sound
  <2>2. TypeOK'
    BY <1>1, <1>2, <2>1 DEF TypeOK, Bytes_t
  <2>3. CursorInText'
    BY <2>1 DEF CursorInText, InText
  <2>4. QED
    BY <2>2, <2>3
<1>5. QuitLosesNothing'
  <2>1. editor'.modified
        \/ editor'.lines = IF file' = Missing THEN NoText ELSE editor_load_file(file')
    BY <1>1, <1>3
  <2>2. QED
    BY <2>1 DEF QuitLosesNothing
<1>6. QED
  BY <1>1, <1>4, <1>5 DEF EditorInv, CursorKept

LEMMA EditorStep ==
  EditorInv /\ [Next]_vars => EditorInv' /\ CursorKept
<1> SUFFICES ASSUME EditorInv, [Next]_vars PROVE EditorInv' /\ CursorKept
  OBVIOUS
<1>1. Sound(editor)
  BY InvIs
<1>2. CASE UNCHANGED vars
  <2>1. editor' = editor /\ file' = file /\ refused' = refused
    BY <1>2 DEF vars
  <2>2. EditorInv'
    BY <2>1 DEF EditorInv, TypeOK, CursorInText, QuitLosesNothing
  <2>3. CursorKept
    <3>1. editor.cursor_line \in Nat
      BY DEF EditorInv, TypeOK, editor_state_t
    <3>2. QED
      BY <2>1, <3>1 DEF CursorKept
  <2>4. QED
    BY <2>2, <2>3
<1>3. ASSUME NEW choice \in MenuKeys, editor_start(choice) PROVE EditorInv' /\ CursorKept
  BY <1>3, StartKeeps
<1>4. CASE ArrowKey \/ MoveKey
  <2>1. PICK f \in {Up(editor), Down(editor), Right(editor), Left(editor)} :
          Becomes(f) /\ editor.running
    BY <1>4 DEF ArrowKey, MoveKey, Keys, CommandKeys
  <2>2. Stroke(editor, f)
    BY <1>1, MoveStrokes
  <2>3. QED
    BY <2>1, <2>2, StrokeKeeps
<1>5. CASE EscapeKey
  <2>1. Stroke(editor, [editor EXCEPT !.insert_mode = FALSE])
    BY <1>1, StayStrokes, ModeStrokes
  <2>2. QED
    BY <1>5, <2>1, StrokeKeeps DEF EscapeKey, Keys
<1>6. CASE EnterKey
  BY <1>1, <1>6, NewLineStrokes, StrokeKeeps DEF EnterKey, InsertKeys
<1>7. CASE BackspaceKey
  BY <1>1, <1>7, DeleteStrokes, StrokeKeeps DEF BackspaceKey, InsertKeys
<1>8. CASE CharKey
  <2>1. PICK c \in Chars : Becomes(editor_insert_char(editor, c)) /\ editor.running
    BY <1>8 DEF CharKey, InsertKeys
  <2>2. QED
    BY <1>1, <2>1, InsertStrokes, StrokeKeeps
<1>9. CASE InsertKey
  <2> DEFINE e == LineEnd(editor)
  <2>1. PICK f \in {editor, LineEnd(editor), editor_new_line(LineEnd(editor))} :
          Becomes([f EXCEPT !.insert_mode = TRUE]) /\ editor.running
    BY <1>9 DEF InsertKey, CommandKeys
  <2>2. Stroke(editor, editor) /\ Stroke(editor, LineEnd(editor))
    BY <1>1, StayStrokes, MoveStrokes
  <2>3. Stroke(editor, editor_new_line(LineEnd(editor)))
    <3>1. /\ Sound(e) /\ e.lines = editor.lines /\ e.modified = editor.modified
          /\ e.running = editor.running
          /\ e.cursor_line = editor.cursor_line /\ e.view_start_line = editor.view_start_line
      BY <1>1, LineEndIs
    <3> HIDE DEF e
    <3>2. Stroke(e, editor_new_line(e))
      BY <3>1, NewLineStrokes
    <3>3. Below(e) <=> Below(editor)
      BY <3>1 DEF Below
    <3>4. Stroke(editor, editor_new_line(e))
      BY <3>1, <3>2, <3>3 DEF Stroke
    <3>5. QED
      BY <3>4 DEF e
  <2>4. Stroke(editor, f)
    BY <2>2, <2>3
  <2>5. Stroke(editor, [f EXCEPT !.insert_mode = TRUE])
    BY <2>4, ModeStrokes
  <2>6. QED
    BY <2>1, <2>5, StrokeKeeps
<1>10. CASE DeleteKey
  BY <1>1, <1>10, DeleteUnderStrokes, StrokeKeeps DEF DeleteKey, CommandKeys
<1>11. CASE (WriteCommand \/ WriteQuitCommand) /\ refused
  <2>1. Becomes(editor) /\ editor.running
    BY <1>11 DEF WriteCommand, WriteQuitCommand, CommandKeys, Becomes
  <2>2. QED
    BY <1>1, <2>1, StayStrokes, StrokeKeeps
<1>12. CASE WriteCommand /\ ~refused
  BY <1>12, WrittenKeeps DEF WriteCommand
<1>13. CASE WriteQuitCommand /\ ~refused
  <2>1. /\ file' = SavedText(editor.lines) /\ editor' = Closed /\ refused' = refused
    BY <1>13 DEF WriteQuitCommand
  <2>2. file' \in Seq(Bytes_t)
    <3>1. editor.lines \in Seq(Line)
      BY <1>1, SoundIs
    <3>2. QED
      BY <2>1, <3>1, SavedIs DEF Buffers
  <2>3. QED
    BY <2>1, <2>2, ClosingKeeps
<1>14. CASE QuitCommand \/ AbandonCommand
  <2>1. CASE Becomes(Closed)
    <3>1. file' = Missing \/ file' \in Seq(Bytes_t)
      BY <2>1, InvIs DEF Becomes
    <3>2. QED
      BY <2>1, <3>1, ClosingKeeps DEF Becomes
  <2>2. CASE Becomes(editor) /\ editor.running
    BY <1>1, <2>2, StayStrokes, StrokeKeeps
  <2>3. QED
    BY <1>14, <2>1, <2>2 DEF QuitCommand, AbandonCommand, CommandKeys
<1>15. QED
  BY <1>2, <1>3, <1>4, <1>5, <1>6, <1>7, <1>8, <1>9, <1>10, <1>11, <1>12, <1>13, <1>14
     DEF Next

(* In every state the types are right, the cursor is in the text and what :q
   may drop is on file: together they are inductive. *)
THEOREM EditorInvariant == Spec => []EditorInv
<1>1. Init => EditorInv
  <2> SUFFICES ASSUME Init PROVE EditorInv
    OBVIOUS
  <2>1. editor = Closed /\ refused \in BOOLEAN
    BY DEF Init
  <2>2. Sound(editor) /\ ~editor.running
    BY <2>1, ClosedIs
  <2>3. file = Missing \/ file \in Seq(Bytes_t)
    BY EditorAssumption DEF Init, Bytes_t
  <2>4. QED
    BY <2>1, <2>2, <2>3, InvIs DEF QuitLosesNothing
<1>2. EditorInv /\ [Next]_vars => EditorInv'
  BY EditorStep
<1>3. QED
  BY <1>1, <1>2, PTL DEF Spec

(* Every line keeps room for its terminator, whatever is typed or loaded. *)
THEOREM EditorTypeCorrect == Spec => []TypeOK
<1>1. EditorInv => TypeOK
  BY DEF EditorInv
<1>2. QED
  BY <1>1, EditorInvariant, PTL

(* Insert, delete and split never touch a byte outside the cursor's line. *)
THEOREM CursorStaysInText == Spec => []CursorInText
<1>1. EditorInv => CursorInText
  BY DEF EditorInv
<1>2. QED
  BY <1>1, EditorInvariant, PTL

(* :q closes without a word only what the file holds. *)
THEOREM QuitIsSafe == Spec => []QuitLosesNothing
<1>1. EditorInv => QuitLosesNothing
  BY DEF EditorInv
<1>2. QED
  BY <1>1, EditorInvariant, PTL

(* Whatever the text, saving stays inside its buffer. *)
THEOREM SavingFits == Spec => []SaveFits
<1>1. EditorInv => SaveFits
  <2> SUFFICES ASSUME EditorInv PROVE SaveFits
    OBVIOUS
  <2>1. editor.lines \in Seq(Line)
    BY InvIs, SoundIs
  <2>2. QED
    BY <2>1, SavedIs DEF SaveFits, Buffers
<1>2. QED
  BY <1>1, EditorInvariant, PTL

(* Moving down always brings the cursor into the window, and no key that
   leaves the text alone takes it out. *)
THEOREM DownFindsCursor == Spec => DownShowsCursor
<1>1. EditorInv /\ [Next]_vars =>
        [editor.running /\ editor'.lines = editor.lines =>
           LET Under(e) == e.cursor_line >= e.view_start_line + view_height
           IN /\ editor'.cursor_line > editor.cursor_line => ~Under(editor')
              /\ Under(editor') => Under(editor)]_vars
  BY EditorStep DEF CursorKept, Below
<1>2. QED
  BY <1>1, EditorInvariant, PTL DEF Spec, DownShowsCursor

-----------------------------------------------------------------------------
(* Saving and loading again. *)

\* b counts the bytes up to each line, each with an '\n' behind it.
IsCounting(b, lines) ==
  /\ b \in [0 .. Len(lines) -> Nat]
  /\ b[0] = 0 /\ Bytes(lines) = b[Len(lines)]
  /\ \A k \in 1 .. Len(lines) : b[k] = b[k - 1] + Len(lines[k]) + 1

\* What the recursive definition of Bytes defines.
LEMMA BytesSteps ==
  ASSUME NEW lines \in Seq(Line)
  PROVE  \E b : IsCounting(b, lines)
<1> DEFINE n == Len(lines)
<1> DEFINE Counts(f) ==
      f = [k \in 0 .. n |-> IF k = 0 THEN 0 ELSE f[k - 1] + Len(lines[k]) + 1]
<1> DEFINE step == [k \in 1 .. n |-> [m \in Nat |-> m + Len(lines[k]) + 1]]
<1>1. n \in Nat /\ \A k \in 1 .. n : Len(lines[k]) \in Nat
  BY LenProperties, ElementOfSeq, LineIsShort
<1> HIDE DEF n
<1>2. step \in [1 .. n -> [Nat -> Nat]]
  <2>1. \A k \in 1 .. n : \A m \in Nat : m + Len(lines[k]) + 1 \in Nat
    BY <1>1
  <2>2. QED
    BY <2>1
<1>3. \E f : Counts(f)
  <2>1. PICK f \in [0 .. n -> Nat] : IsRecursion(f, n, 0, step)
    <3> HIDE DEF step
    <3>1. QED
      BY <1>1, <1>2, Recursion
  <2>2. \A k \in 0 .. n : f[k] = IF k = 0 THEN 0 ELSE f[k - 1] + Len(lines[k]) + 1
    <3> TAKE k \in 0 .. n
    <3>1. CASE k = 0
      BY <2>1, <3>1 DEF IsRecursion
    <3>2. CASE k # 0
      <4>1. k \in 1 .. n /\ f[k - 1] \in Nat /\ f[k] = step[k][f[k - 1]]
        <5>1. k \in 1 .. n /\ k - 1 \in 0 .. n
          BY <1>1, <3>2
        <5> HIDE DEF step
        <5>2. QED
          BY <2>1, <5>1 DEF IsRecursion
      <4>2. QED
        BY <3>2, <4>1
    <3>3. QED
      BY <3>1, <3>2
  <2>3. Counts(f)
    BY <2>1, <2>2
  <2> HIDE DEF Counts
  <2>4. QED
    BY <2>3
<1>4. Bytes(lines) = (CHOOSE f : Counts(f))[n]
  BY DEF Bytes, n
<1> DEFINE b == CHOOSE f : Counts(f)
<1>5. Counts(b)
  <2> HIDE DEF Counts
  <2>1. QED
    BY <1>3
<1> HIDE DEF b
<1>6. b[0] = 0 /\ \A k \in 1 .. n : b[k] = b[k - 1] + Len(lines[k]) + 1
  BY <1>1, <1>5
<1>7. \A k \in 0 .. n : b[k] \in Nat
  <2>1. \A k \in 0 .. n - 1 : b[k] \in Nat => b[k + 1] \in Nat
    <3> TAKE k \in 0 .. n - 1
    <3>1. k + 1 \in 1 .. n /\ (k + 1) - 1 = k
      BY <1>1
    <3>2. b[k + 1] = b[k] + Len(lines[k + 1]) + 1 /\ Len(lines[k + 1]) \in Nat
      BY <1>1, <1>6, <3>1
    <3>3. QED
      BY <3>2
  <2>2. b[0] \in Nat
    BY <1>6
  <2>3. QED
    BY <1>1, <2>1, <2>2, StaysIn
<1>8. b \in [0 .. n -> Nat]
  BY <1>5, <1>7
<1>9. IsCounting(b, lines)
  BY <1>4, <1>6, <1>8 DEF IsCounting, b, n
<1>10. QED
  BY <1>9

\* Later lines begin further on.
LEMMA CountingGrows ==
  ASSUME NEW lines \in Seq(Line), NEW b, IsCounting(b, lines)
  PROVE  /\ \A k \in 0 .. Len(lines) - 1 :
              Len(lines[k + 1]) \in Nat /\ b[k + 1] = b[k] + Len(lines[k + 1]) + 1
         /\ \A k \in 0 .. Len(lines) : \A i \in 0 .. k : b[i] <= b[k]
<1>1. PICK n \in Nat : n = Len(lines)
  BY LenProperties
<1>2. ASSUME NEW k \in 0 .. n - 1
      PROVE  Len(lines[k + 1]) \in Nat /\ b[k + 1] = b[k] + Len(lines[k + 1]) + 1
  <2>1. k + 1 \in 1 .. n /\ (k + 1) - 1 = k
    BY <1>1
  <2>2. lines[k + 1] \in Line
    BY <1>1, <2>1, ElementOfSeq
  <2>3. QED
    BY <1>1, <2>1, <2>2, LineIsShort DEF IsCounting
<1> DEFINE P == {k \in 0 .. n : \A i \in 0 .. k : b[i] <= b[k]}
<1>3. 0 \in P
  BY <1>1 DEF IsCounting
<1>4. ASSUME NEW k \in 0 .. n - 1, k \in P PROVE k + 1 \in P
  <2>1. \A i \in 0 .. k + 1 : b[i] \in Nat
    BY <1>1 DEF IsCounting
  <2>2. b[k] <= b[k + 1] /\ b[k] \in Nat /\ b[k + 1] \in Nat
    BY <1>1, <1>2, <2>1
  <2>3. ASSUME NEW i \in 0 .. k + 1 PROVE b[i] <= b[k + 1]
    <3>1. CASE i = k + 1
      BY <2>1, <3>1
    <3>2. CASE i # k + 1
      <4>1. b[i] <= b[k]
        BY <1>4, <3>2
      <4>2. QED
        BY <2>1, <2>2, <4>1
    <3>3. QED
      BY <3>1, <3>2
  <2>4. QED
    BY <1>1, <2>3
<1>5. P = 0 .. n
  <2>1. P \in SUBSET (0 .. n)
    OBVIOUS
  <2> HIDE DEF P
  <2>2. QED
    BY <1>1, <1>3, <1>4, <2>1, RangeInduction
<1>6. QED
  BY <1>1, <1>2, <1>5

\* Where a line and what follows it are put behind a buffer.
IsJoined(r, S, s, l, t) ==
  /\ r \in Seq(S) /\ Len(r) = Len(s) + Len(l) + Len(t)
  /\ \A i \in 1 .. Len(s) : r[i] = s[i]
  /\ \A i \in 1 .. Len(l) : r[Len(s) + i] = l[i]
  /\ \A i \in 1 .. Len(t) : r[Len(s) + Len(l) + i] = t[i]

LEMMA Joined ==
  ASSUME NEW S, NEW s \in Seq(S), NEW l \in Seq(S), NEW t \in Seq(S),
         NEW r, r = s \o l \o t
  PROVE  IsJoined(r, S, s, l, t)
<1>1. Len(s) \in Nat /\ Len(l) \in Nat /\ Len(t) \in Nat
  BY LenProperties
<1>2. PICK sl : sl = s \o l
  OBVIOUS
<1>3. /\ sl \in Seq(S) /\ Len(sl) = Len(s) + Len(l)
      /\ \A i \in 1 .. Len(s) + Len(l) : sl[i] = IF i <= Len(s) THEN s[i] ELSE l[i - Len(s)]
  BY <1>2, ConcatProperties
<1>4. r = sl \o t
  BY <1>2
<1>5. /\ r \in Seq(S) /\ Len(r) = Len(sl) + Len(t)
      /\ \A i \in 1 .. Len(sl) + Len(t) : r[i] = IF i <= Len(sl) THEN sl[i] ELSE t[i - Len(sl)]
  <2>1. sl \in Seq(S)
    BY <1>3
  <2>2. QED
    BY <1>4, <2>1, ConcatProperties
<1>6. ASSUME NEW i \in 1 .. Len(s) PROVE r[i] = s[i]
  <2>1. i \in 1 .. Len(s) + Len(l) /\ i \in 1 .. Len(sl) + Len(t) /\ i <= Len(sl) /\ i <= Len(s)
    BY <1>1, <1>3
  <2>2. QED
    BY <1>3, <1>5, <2>1
<1>7. ASSUME NEW i \in 1 .. Len(l) PROVE r[Len(s) + i] = l[i]
  <2>1. /\ Len(s) + i \in 1 .. Len(s) + Len(l) /\ Len(s) + i \in 1 .. Len(sl) + Len(t)
        /\ Len(s) + i <= Len(sl) /\ ~(Len(s) + i <= Len(s)) /\ Len(s) + i - Len(s) = i
    BY <1>1, <1>3
  <2>2. QED
    BY <1>3, <1>5, <2>1
<1>8. ASSUME NEW i \in 1 .. Len(t) PROVE r[Len(s) + Len(l) + i] = t[i]
  <2>1. /\ Len(s) + Len(l) + i \in 1 .. Len(sl) + Len(t)
        /\ ~(Len(s) + Len(l) + i <= Len(sl)) /\ Len(s) + Len(l) + i - Len(sl) = i
    BY <1>1, <1>3
  <2>2. QED
    BY <1>5, <2>1
<1>9. Len(r) = Len(s) + Len(l) + Len(t)
  BY <1>1, <1>3, <1>5
<1>10. QED
  BY <1>5, <1>6, <1>7, <1>8, <1>9 DEF IsJoined

\* The first k lines stand in s, each where b says and with its '\n'.
Laid(s, k, lines, b) ==
  /\ Len(s) = b[k]
  /\ \A i \in 1 .. k :
       /\ \A j \in 1 .. Len(lines[i]) : s[b[i - 1] + j] = lines[i][j]
       /\ s[b[i]] = NL

\* All lines stand in s, the last one without its '\n'.
Saved(s, lines, b) ==
  /\ s \in Seq(Bytes_t) /\ Len(s) + 1 = b[Len(lines)] /\ Len(s) + 1 < BUFFER_SIZE
  /\ \A i \in 1 .. Len(lines) :
       /\ \A j \in 1 .. Len(lines[i]) : s[b[i - 1] + j] = lines[i][j]
       /\ i # Len(lines) => s[b[i]] = NL

\* The first k lines, line k + 1 and t stand in r.
LaidWith(r, k, lines, b, t) ==
  /\ r \in Seq(Bytes_t) /\ Len(r) = b[k] + Len(lines[k + 1]) + Len(t)
  /\ \A i \in 1 .. k : /\ \A j \in 1 .. Len(lines[i]) : r[b[i - 1] + j] = lines[i][j]
                       /\ r[b[i]] = NL
  /\ \A j \in 1 .. Len(lines[k + 1]) : r[b[k] + j] = lines[k + 1][j]
  /\ \A j \in 1 .. Len(t) : r[b[k] + Len(lines[k + 1]) + j] = t[j]

LEMMA LaidOn ==
  ASSUME NEW lines \in Seq(Line), NEW b, IsCounting(b, lines),
         NEW k \in 0 .. Len(lines) - 1, NEW s \in Seq(Bytes_t), Laid(s, k, lines, b),
         NEW t \in Seq(Bytes_t), NEW r, r = s \o lines[k + 1] \o t
  PROVE  LaidWith(r, k, lines, b, t)
<1>1. PICK l : l = lines[k + 1]
  OBVIOUS
<1>2. Len(lines) \in Nat
  BY LenProperties
<1>3. l \in Seq(Bytes_t)
  <2>1. k + 1 \in 1 .. Len(lines)
    BY <1>2
  <2>2. l \in Seq(Chars)
    BY <1>1, <2>1, ElementOfSeq, LineIsShort
  <2>3. Chars \subseteq Bytes_t
    BY DEF Bytes_t
  <2>4. QED
    BY <2>2, <2>3, SeqMonotonic
<1>4. r = s \o l \o t
  BY <1>1
<1>5. /\ r \in Seq(Bytes_t) /\ Len(r) = Len(s) + Len(l) + Len(t)
      /\ \A i \in 1 .. Len(s) : r[i] = s[i]
      /\ \A i \in 1 .. Len(l) : r[Len(s) + i] = l[i]
      /\ \A i \in 1 .. Len(t) : r[Len(s) + Len(l) + i] = t[i]
  <2>1. IsJoined(r, Bytes_t, s, l, t)
    BY <1>3, <1>4, Joined
  <2>2. QED
    BY <2>1 DEF IsJoined
<1>6. Len(s) = b[k]
  BY DEF Laid
<1>7. ASSUME NEW i \in 1 .. k
      PROVE  /\ \A j \in 1 .. Len(lines[i]) : r[b[i - 1] + j] = lines[i][j]
             /\ r[b[i]] = NL
  <2>1. PICK h : h = i - 1
    OBVIOUS
  <2>2. h \in 0 .. Len(lines) - 1 /\ h + 1 = i /\ i \in 0 .. k /\ k \in 0 .. Len(lines)
        /\ i \in 0 .. Len(lines)
    BY <1>2, <2>1
  <2>3. Len(lines[i]) \in Nat /\ b[i] = b[h] + Len(lines[i]) + 1
    BY <2>2, CountingGrows
  <2>4. b[i] <= b[k] /\ b[h] \in Nat /\ b[i] \in Nat /\ b[k] \in Nat
    <3>1. b[i] <= b[k]
      BY <2>2, CountingGrows
    <3>2. b \in [0 .. Len(lines) -> Nat] /\ h \in 0 .. Len(lines)
      BY <1>2, <2>2 DEF IsCounting
    <3>3. QED
      BY <2>2, <3>1, <3>2
  <2>5. ASSUME NEW j \in 1 .. Len(lines[i]) PROVE r[b[h] + j] = lines[i][j]
    <3>1. b[h] + j \in 1 .. Len(s)
      <4>1. PICK w \in Nat : w = Len(lines[i])
        BY <2>3
      <4>2. PICK c \in Nat : c = b[h]
        BY <2>4
      <4>3. PICK u \in Nat : u = b[k]
        BY <2>4
      <4>4. j \in 1 .. w /\ c + w + 1 <= u
        BY <2>3, <2>4, <4>1, <4>2, <4>3
      <4>5. c + j \in 1 .. u
        BY <4>4
      <4>6. QED
        BY <1>6, <4>2, <4>3, <4>5
    <3>2. s[b[h] + j] = lines[i][j]
      BY <2>1 DEF Laid
    <3>3. QED
      BY <1>5, <3>1, <3>2
  <2>6. b[i] \in 1 .. Len(s) /\ s[b[i]] = NL
    BY <1>6, <2>3, <2>4 DEF Laid
  <2>7. QED
    BY <1>5, <2>1, <2>5, <2>6
<1>8. QED
  BY <1>1, <1>5, <1>6, <1>7 DEF LaidWith

\* A text that fits is saved whole.
LEMMA SavedWhole ==
  ASSUME NEW lines \in Seq(Line), lines # <<>>, NEW b, IsCounting(b, lines),
         Bytes(lines) < BUFFER_SIZE
  PROVE  Saved(SavedText(lines), lines, b)
<1>1. PICK n \in Nat : n = Len(lines)
  BY LenProperties
<1>2. n - 1 \in 0 .. n - 1 /\ n \in 0 .. n
  BY <1>1, EmptySeq
<1>3. PICK f : IsSaving(f, lines)
  BY SavedSteps
<1>4. b \in [0 .. n -> Nat] /\ b[0] = 0 /\ b[n] < BUFFER_SIZE
  BY <1>1 DEF IsCounting
<1>5. /\ f[0] = <<>> /\ SavedText(lines) = f[n]
      /\ \A k \in 1 .. n : f[k] = SaveLine(f[k - 1], lines[k], k = n)
      /\ \A k \in 0 .. n : f[k] \in Seq(Bytes_t)
  BY <1>1, <1>3 DEF IsSaving, Buffers
<1>6. ASSUME NEW k \in 0 .. n - 1, Laid(f[k], k, lines, b)
      PROVE  f[k + 1] = f[k] \o lines[k + 1] \o (IF k + 1 = n THEN <<>> ELSE <<NL>>)
  <2>1. k + 1 \in 1 .. n /\ (k + 1) - 1 = k /\ k + 1 \in 0 .. n /\ k \in 0 .. n
    BY <1>1
  <2>2. f[k + 1] = SaveLine(f[k], lines[k + 1], k + 1 = n)
    BY <1>5, <2>1
  <2>3. Len(lines[k + 1]) \in Nat /\ b[k + 1] = b[k] + Len(lines[k + 1]) + 1
    BY <1>1, CountingGrows
  <2>4. b[k + 1] <= b[n]
    BY <1>1, <1>2, <2>1, CountingGrows
  <2>5. b[k] \in Nat /\ b[k + 1] \in Nat /\ b[n] \in Nat
    BY <1>2, <1>4, <2>1
  <2>6. Len(f[k]) = b[k]
    BY <1>6 DEF Laid
  <2>7. ~(Len(f[k]) >= BUFFER_SIZE - 1 \/ Len(f[k]) + Len(lines[k + 1]) + 1 >= BUFFER_SIZE)
    BY <1>4, <2>3, <2>4, <2>5, <2>6, EditorSizes
  <2>8. QED
    BY <2>2, <2>7 DEF SaveLine
<1> DEFINE P == {k \in 0 .. n - 1 : Laid(f[k], k, lines, b)}
<1>7. 0 \in P
  BY <1>1, <1>2, <1>4, <1>5 DEF Laid
<1>8. ASSUME NEW k \in 0 .. n - 2, k \in P PROVE k + 1 \in P
  <2>1. k \in 0 .. n - 1 /\ k + 1 # n /\ k + 1 \in 0 .. n - 1 /\ k \in 0 .. n /\ k + 1 \in 1 .. k + 1
        /\ (k + 1) - 1 = k
    BY <1>1
  <2>2. PICK r : r = f[k + 1]
    OBVIOUS
  <2>3. r = f[k] \o lines[k + 1] \o <<NL>> /\ Laid(f[k], k, lines, b) /\ f[k] \in Seq(Bytes_t)
    BY <1>5, <1>6, <1>8, <2>1, <2>2
  <2>4. PICK t : t = <<NL>>
    OBVIOUS
  <2>5. t \in Seq(Bytes_t) /\ Len(t) = 1 /\ t[1] = NL
    BY <2>4 DEF Bytes_t
  <2>6. LaidWith(r, k, lines, b, t)
    <3>1. k \in 0 .. Len(lines) - 1 /\ r = f[k] \o lines[k + 1] \o t
      BY <1>1, <2>1, <2>3, <2>4
    <3>2. QED
      BY <2>3, <2>5, <3>1, LaidOn
  <2>7. Len(lines[k + 1]) \in Nat /\ b[k + 1] = b[k] + Len(lines[k + 1]) + 1
    BY <1>1, <2>1, CountingGrows
  <2>8. Len(r) = b[k + 1] /\ r[b[k + 1]] = NL
    BY <2>5, <2>6, <2>7 DEF LaidWith
  <2>9. ASSUME NEW i \in 1 .. k + 1
        PROVE  /\ \A j \in 1 .. Len(lines[i]) : r[b[i - 1] + j] = lines[i][j]
               /\ r[b[i]] = NL
    <3>1. CASE i = k + 1
      BY <2>1, <2>6, <2>8, <3>1 DEF LaidWith
    <3>2. CASE i # k + 1
      <4>1. i \in 1 .. k
        BY <3>2
      <4>2. QED
        BY <2>6, <4>1 DEF LaidWith
    <3>3. QED
      BY <3>1, <3>2
  <2>10. Laid(r, k + 1, lines, b)
    BY <2>8, <2>9 DEF Laid
  <2>11. QED
    BY <2>1, <2>2, <2>10
<1>9. Laid(f[n - 1], n - 1, lines, b)
  <2>1. PICK m \in Nat : m = n - 1
    BY <1>2
  <2>2. P = 0 .. m
    <3>1. P \in SUBSET (0 .. m) /\ \A k \in 0 .. m - 1 : k \in 0 .. n - 2
      BY <2>1
    <3> HIDE DEF P
    <3>2. QED
      BY <1>7, <1>8, <3>1, RangeInduction
  <2>3. QED
    BY <2>1, <2>2
<1>10. PICK k \in 0 .. n - 1 : k = n - 1 /\ k + 1 = n
  BY <1>2
<1>11. PICK r : r = f[n]
  OBVIOUS
<1>12. PICK t : t = <<>>
  OBVIOUS
<1>13. t \in Seq(Bytes_t) /\ Len(t) = 0
  BY <1>12
<1>14. r = f[k] \o lines[k + 1] \o t /\ Laid(f[k], k, lines, b) /\ f[k] \in Seq(Bytes_t)
  <2>1. k \in 0 .. n
    BY <1>1
  <2>2. QED
    BY <1>5, <1>6, <1>9, <1>10, <1>11, <1>12, <2>1
<1>15. LaidWith(r, k, lines, b, t)
  <2>1. k \in 0 .. Len(lines) - 1
    BY <1>1
  <2>2. QED
    BY <1>13, <1>14, <2>1, LaidOn
<1>16. Len(lines[k + 1]) \in Nat /\ b[k + 1] = b[k] + Len(lines[k + 1]) + 1
  BY <1>1, CountingGrows
<1>17. Len(r) + 1 = b[n] /\ Len(r) + 1 < BUFFER_SIZE
  <2>1. b[k] \in Nat
    BY <1>1, <1>4
  <2>2. QED
    BY <1>4, <1>10, <1>13, <1>15, <1>16, <2>1 DEF LaidWith
<1>18. ASSUME NEW i \in 1 .. n
       PROVE  /\ \A j \in 1 .. Len(lines[i]) : r[b[i - 1] + j] = lines[i][j]
              /\ i # n => r[b[i]] = NL
  <2>1. CASE i = k + 1
    BY <1>10, <1>15, <2>1 DEF LaidWith
  <2>2. CASE i # k + 1
    <3>1. i \in 1 .. k
      BY <1>10, <2>2
    <3>2. QED
      BY <1>15, <3>1 DEF LaidWith
  <2>3. QED
    BY <2>1, <2>2
<1>19. QED
  BY <1>1, <1>5, <1>11, <1>15, <1>17, <1>18 DEF Saved, LaidWith

\* What loading has made of the first p bytes: line k + 1 is being read.
ReadingLine(m, p, lines, b, k) ==
  /\ b[k] <= p /\ p <= b[k] + Len(lines[k + 1])
  /\ m = [done |-> SubSeq(lines, 1, k), line |-> SubSeq(lines[k + 1], 1, p - b[k])]

Reading(m, p, lines, b) == \E k \in 0 .. Len(lines) - 1 : ReadingLine(m, p, lines, b, k)

LEMMA ReadingIs ==
  ASSUME NEW m, NEW p, NEW lines, NEW b, NEW k, NEW l, l = lines[k + 1],
         b[k] <= p /\ p <= b[k] + Len(l), NEW d, d = p - b[k],
         m = [done |-> SubSeq(lines, 1, k), line |-> SubSeq(l, 1, d)]
  PROVE  ReadingLine(m, p, lines, b, k)
BY DEF ReadingLine

\* A prefix of a sequence and one element more.
LEMMA PrefixAppend ==
  ASSUME NEW S, NEW s \in Seq(S), NEW k \in 0 .. Len(s) - 1
  PROVE  /\ Append(SubSeq(s, 1, k), s[k + 1]) = SubSeq(s, 1, k + 1)
         /\ Len(SubSeq(s, 1, k)) = k /\ SubSeq(s, 1, 0) = <<>>
<1>1. Len(s) \in Nat
  BY LenProperties
<1>2. SubSeq(s, 1, k) \in Seq(S) /\ Len(SubSeq(s, 1, k)) = k
  <2>1. 1 \in 1 .. Len(s) + 1 /\ k \in 1 - 1 .. Len(s)
    BY <1>1
  <2>2. SubSeq(s, 1, k) \in Seq(S) /\ Len(SubSeq(s, 1, k)) = k - 1 + 1
    BY <2>1, PartOfSeq
  <2>3. QED
    BY <2>2
<1>3. SubSeq(s, 1, k + 1) = SubSeq(s, 1, k) \o <<s[k + 1]>>
  <2>1. PICK m : m = k + 1 /\ m - 1 = k
    OBVIOUS
  <2>2. 1 \in 1 .. Len(s) /\ m \in 1 .. Len(s)
    BY <1>1, <2>1
  <2>3. SubSeq(s, 1, m) = SubSeq(s, 1, m - 1) \o <<s[m]>>
    BY <2>2, SubSeqRecursiveSecond
  <2>4. QED
    BY <2>1, <2>3
<1>4. s[k + 1] \in S
  <2>1. k + 1 \in 1 .. Len(s)
    BY <1>1
  <2>2. QED
    BY <2>1, ElementOfSeq
<1>5. Append(SubSeq(s, 1, k), s[k + 1]) = SubSeq(s, 1, k) \o <<s[k + 1]>>
  BY <1>2, <1>4, AppendIsConcat
<1>6. SubSeq(s, 1, 0) = <<>>
  BY SubSeqEmpty
<1>7. QED
  BY <1>2, <1>3, <1>5, <1>6

LEMMA Onward ==
  ASSUME NEW c \in Nat, NEW w \in Nat, NEW q \in 0 .. w - 1, NEW p \in Nat, p = c + q,
         NEW e, e = p + 1, NEW d, d = q + 1
  PROVE  c <= e /\ e <= c + w /\ d = e - c
OBVIOUS

\* One byte more.
LEMMA ReadingOn ==
  ASSUME NEW lines \in Seq(Line), Len(lines) <= MAX_LINES, NEW b, IsCounting(b, lines),
         NEW s, Saved(s, lines, b), NEW p \in 0 .. Len(s) - 1, NEW m,
         Reading(m, p, lines, b)
  PROVE  Reading(LoadByte(m, s[p + 1]), p + 1, lines, b)
<1>1. PICK n \in Nat : n = Len(lines)
  BY LenProperties
<1>2. PICK k \in 0 .. n - 1 : ReadingLine(m, p, lines, b, k)
  BY <1>1 DEF Reading
<1>3. PICK l : l = lines[k + 1]
  OBVIOUS
<1>4. k + 1 \in 1 .. n /\ (k + 1) - 1 = k /\ k \in 0 .. n /\ k + 1 \in 0 .. n
  BY <1>1
<1>5. l \in Line /\ l \in Seq(Chars) /\ Len(l) \in Nat /\ Len(l) < MAX_LINE_LENGTH
  <2>1. l \in Line
    BY <1>1, <1>3, <1>4, ElementOfSeq
  <2>2. QED
    BY <2>1, LineIsShort
<1>6. b[k + 1] = b[k] + Len(l) + 1
  BY <1>1, <1>3, CountingGrows
<1>7. b[k] \in Nat /\ b[k + 1] \in Nat /\ Len(s) \in Nat /\ Len(s) + 1 = b[n]
  BY <1>1, <1>4, LenProperties DEF IsCounting, Saved
<1>8. PICK q : q = p - b[k]
  OBVIOUS
<1>9. p \in Nat /\ q \in 0 .. Len(l) /\ p = b[k] + q
  <2>1. p \in Nat
    BY <1>7
  <2>2. b[k] <= p /\ p <= b[k] + Len(l)
    BY <1>2, <1>3 DEF ReadingLine
  <2>3. PICK c \in Nat : c = b[k]
    BY <1>7
  <2>4. PICK w \in Nat : w = Len(l)
    BY <1>5
  <2>5. p - c \in 0 .. w /\ p = c + (p - c)
    BY <2>1, <2>2, <2>3, <2>4
  <2>6. QED
    BY <1>8, <2>1, <2>3, <2>4, <2>5
<1>10. m = [done |-> SubSeq(lines, 1, k), line |-> SubSeq(l, 1, q)]
  BY <1>2, <1>3, <1>8 DEF ReadingLine
<1>11. /\ Len(SubSeq(lines, 1, k)) = k
       /\ Append(SubSeq(lines, 1, k), l) = SubSeq(lines, 1, k + 1)
  BY <1>1, <1>3, PrefixAppend
<1>12. ~(Len(m.done) >= MAX_LINES)
  BY <1>1, <1>10, <1>11, EditorSizes
<1>13. CASE q = Len(l)
  <2>1. p + 1 = b[k + 1]
    BY <1>5, <1>6, <1>7, <1>8, <1>9, <1>13
  <2>2. k + 1 # n
    BY <1>7, <1>9, <2>1
  <2>3. s[p + 1] = NL
    BY <1>1, <1>4, <2>1, <2>2 DEF Saved
  <2>4. LoadByte(m, s[p + 1]) = [done |-> Append(m.done, m.line), line |-> <<>>]
    BY <1>12, <2>3 DEF LoadByte
  <2>5. SubSeq(l, 1, q) = l
    BY <1>5, <1>13, SubSeqFull
  <2>6. LoadByte(m, s[p + 1]) = [done |-> SubSeq(lines, 1, k + 1), line |-> <<>>]
    BY <1>10, <1>11, <2>4, <2>5
  <2>7. PICK h : h = k + 1
    OBVIOUS
  <2>8. h \in 0 .. n - 1 /\ h + 1 \in 1 .. n
    BY <1>1, <2>2, <2>7
  <2>9. lines[h + 1] \in Line /\ Len(lines[h + 1]) \in Nat
    BY <1>1, <2>8, ElementOfSeq, LineIsShort
  <2>10. SubSeq(lines[h + 1], 1, 0) = <<>>
    BY SubSeqEmpty
  <2>11. ReadingLine(LoadByte(m, s[p + 1]), p + 1, lines, b, h)
    <3>1. PICK e : e = p + 1
      OBVIOUS
    <3>2. PICK g : g = LoadByte(m, s[p + 1])
      OBVIOUS
    <3>3. PICK r : r = lines[h + 1]
      OBVIOUS
    <3>4. g = [done |-> SubSeq(lines, 1, h), line |-> SubSeq(r, 1, 0)]
      BY <2>6, <2>7, <2>10, <3>2, <3>3
    <3>5. b[h] <= e /\ e <= b[h] + Len(r) /\ 0 = e - b[h]
      <4>1. e \in Nat /\ b[h] \in Nat /\ Len(r) \in Nat /\ e = b[h]
        BY <1>7, <2>1, <2>7, <2>9, <3>1, <3>3
      <4>2. PICK c \in Nat : c = b[h]
        BY <4>1
      <4>3. PICK w \in Nat : w = Len(r)
        BY <4>1
      <4>4. c <= e /\ e <= c + w /\ 0 = e - c
        BY <4>1, <4>2
      <4>5. QED
        BY <4>2, <4>3, <4>4
    <3>6. ReadingLine(g, e, lines, b, h)
      BY <3>3, <3>4, <3>5, ReadingIs
    <3>7. QED
      BY <3>1, <3>2, <3>6
  <2>12. QED
    BY <1>1, <2>8, <2>11 DEF Reading
<1>14. CASE q # Len(l)
  <2>1. q \in 0 .. Len(l) - 1 /\ q + 1 \in 1 .. Len(l)
    BY <1>5, <1>9, <1>14
  <2>2. s[b[k] + (q + 1)] = l[q + 1]
    BY <1>1, <1>3, <1>4, <2>1 DEF Saved
  <2>3. p + 1 = b[k] + (q + 1)
    BY <1>7, <1>8, <1>9
  <2>4. s[p + 1] = l[q + 1] /\ l[q + 1] \in Chars
    BY <1>5, <2>1, <2>2, <2>3, ElementOfSeq
  <2>5. s[p + 1] # NL
    BY <2>4, EditorAssumption
  <2>6. /\ Len(SubSeq(l, 1, q)) = q
        /\ Append(SubSeq(l, 1, q), l[q + 1]) = SubSeq(l, 1, q + 1)
    BY <1>5, <2>1, PrefixAppend
  <2>7. Len(m.line) < MAX_LINE_LENGTH - 1
    BY <1>5, <1>10, <2>1, <2>6, EditorSizes
  <2>8. LoadByte(m, s[p + 1]) = [m EXCEPT !.line = Append(@, s[p + 1])]
    BY <1>12, <2>5, <2>7 DEF LoadByte
  <2>9. LoadByte(m, s[p + 1]) =
          [done |-> SubSeq(lines, 1, k), line |-> SubSeq(l, 1, q + 1)]
    BY <1>10, <2>4, <2>6, <2>8
  <2>10. ReadingLine(LoadByte(m, s[p + 1]), p + 1, lines, b, k)
    <3>1. PICK e : e = p + 1
      OBVIOUS
    <3>2. PICK g : g = LoadByte(m, s[p + 1])
      OBVIOUS
    <3>3. PICK d : d = q + 1
      OBVIOUS
    <3>4. g = [done |-> SubSeq(lines, 1, k), line |-> SubSeq(l, 1, d)]
      BY <2>9, <3>2, <3>3
    <3>5. b[k] <= e /\ e <= b[k] + Len(l) /\ d = e - b[k]
      <4>1. PICK c \in Nat : c = b[k]
        BY <1>7
      <4>2. PICK w \in Nat : w = Len(l)
        BY <1>5
      <4>3. p \in Nat /\ p = c + q /\ q \in 0 .. w - 1
        BY <1>9, <2>1, <4>1, <4>2
      <4>4. c <= e /\ e <= c + w /\ d = e - c
        BY <3>1, <3>3, <4>3, Onward
      <4>5. QED
        BY <4>1, <4>2, <4>4
    <3>6. ReadingLine(g, e, lines, b, k)
      BY <1>3, <3>4, <3>5, ReadingIs
    <3>7. QED
      BY <3>1, <3>2, <3>6
  <2>12. QED
    BY <1>1, <2>10 DEF Reading
<1>15. QED
  BY <1>13, <1>14

\* A text that fits is loaded as it was saved, its last line left out.
LEMMA SavedLoads ==
  ASSUME NEW lines \in Seq(Line), lines # <<>>, Len(lines) <= MAX_LINES,
         Bytes(lines) < BUFFER_SIZE
  PROVE  editor_load_file(SavedText(lines)) =
           IF Len(lines) = 1 THEN NoText ELSE Front(lines)
<1>1. PICK n \in Nat : n = Len(lines) /\ n # 0
  BY EmptySeq
<1>2. PICK b : IsCounting(b, lines)
  BY BytesSteps
<1>3. PICK s : s = SavedText(lines)
  OBVIOUS
<1>4. Saved(s, lines, b)
  BY <1>2, <1>3, SavedWhole
<1>5. s \in Seq(Bytes_t) /\ Len(s) \in Nat /\ Len(s) + 1 = b[n] /\ Len(s) + 1 < BUFFER_SIZE
  BY <1>1, <1>4, LenProperties DEF Saved
<1>6. Least(Len(s), BUFFER_SIZE - 1) = Len(s)
  BY <1>5, EditorSizes DEF Least
<1>7. PICK f : IsLoading(f, Len(s), s)
  BY <1>5, <1>6, LoadedSteps
<1> DEFINE P == {p \in 0 .. Len(s) : Reading(f[p], p, lines, b)}
<1>8. 0 \in P
  <2>1. f[0] = [done |-> <<>>, line |-> <<>>]
    BY <1>7 DEF IsLoading
  <2>2. SubSeq(lines, 1, 0) = <<>> /\ SubSeq(lines[0 + 1], 1, 0) = <<>>
    BY SubSeqEmpty
  <2>3. b[0] = 0
    BY <1>2 DEF IsCounting
  <2>4. 0 \in 0 .. Len(lines) - 1 /\ Len(lines[0 + 1]) \in Nat
    BY <1>1, <1>2, CountingGrows
  <2>5. f[0] = [done |-> SubSeq(lines, 1, 0), line |-> SubSeq(lines[0 + 1], 1, 0 - b[0])]
    BY <2>1, <2>2, <2>3
  <2>6. b[0] <= 0 /\ 0 <= b[0] + Len(lines[0 + 1])
    BY <2>3, <2>4
  <2>7. Reading(f[0], 0, lines, b)
    BY <2>4, <2>5, <2>6 DEF Reading, ReadingLine
  <2>8. QED
    BY <1>5, <2>7
<1>9. ASSUME NEW p \in 0 .. Len(s) - 1, p \in P PROVE p + 1 \in P
  <2>1. p + 1 \in 1 .. Len(s) /\ (p + 1) - 1 = p /\ p + 1 \in 0 .. Len(s)
    BY <1>5
  <2>2. f[p + 1] = LoadByte(f[p], s[p + 1])
    BY <1>7, <2>1 DEF IsLoading
  <2>3. Reading(LoadByte(f[p], s[p + 1]), p + 1, lines, b)
    BY <1>2, <1>4, <1>9, ReadingOn
  <2>4. QED
    BY <2>1, <2>2, <2>3
<1>10. Reading(f[Len(s)], Len(s), lines, b)
  <2>1. P = 0 .. Len(s)
    <3>1. P \in SUBSET (0 .. Len(s))
      OBVIOUS
    <3> HIDE DEF P
    <3>2. QED
      BY <1>5, <1>8, <1>9, <3>1, RangeInduction
  <2>2. QED
    BY <1>5, <2>1
<1>11. PICK k \in 0 .. n - 1 :
         /\ b[k] <= Len(s) /\ Len(s) <= b[k] + Len(lines[k + 1])
         /\ f[Len(s)].done = SubSeq(lines, 1, k)
  BY <1>1, <1>10 DEF Reading, ReadingLine
<1>12. k = n - 1
  <2>1. SUFFICES ASSUME k # n - 1 PROVE FALSE
    OBVIOUS
  <2>2. k + 1 \in 0 .. n - 1 /\ k + 1 \in 0 .. n /\ n - 1 \in 0 .. n /\ k \in 0 .. n
        /\ n \in 0 .. n /\ (n - 1) + 1 = n /\ n - 1 \in 0 .. n - 1
    BY <1>1, <2>1
  <2>3. Len(lines[k + 1]) \in Nat /\ b[k + 1] = b[k] + Len(lines[k + 1]) + 1
    BY <1>1, <1>2, CountingGrows
  <2>4. b[k + 1] <= b[n - 1]
    BY <1>1, <1>2, <2>2, CountingGrows
  <2>5. b[n - 1] < b[n]
    <3>1. Len(lines[n]) \in Nat /\ b[n] = b[n - 1] + Len(lines[n]) + 1
      BY <1>1, <1>2, <2>2, CountingGrows
    <3>2. b[n - 1] \in Nat
      BY <1>1, <1>2, <2>2 DEF IsCounting
    <3>3. QED
      BY <3>1, <3>2
  <2>6. b[k] \in Nat /\ b[k + 1] \in Nat /\ b[n - 1] \in Nat /\ b[n] \in Nat
    BY <1>1, <1>2, <2>2 DEF IsCounting
  <2>7. PICK x \in Nat : x = b[k]
    BY <2>6
  <2>8. PICK w \in Nat : w = Len(lines[k + 1])
    BY <2>3
  <2>9. PICK y \in Nat : y = b[n - 1]
    BY <2>6
  <2>10. PICK v \in Nat : v = Len(s)
    BY <1>5
  <2>11. v <= x + w
    BY <1>11, <2>7, <2>8, <2>10
  <2>12. x + w + 1 <= y
    BY <2>3, <2>4, <2>7, <2>8, <2>9
  <2>13. y < v + 1
    BY <1>5, <2>5, <2>9, <2>10
  <2>14. QED
    BY <2>11, <2>12, <2>13
<1>13. editor_load_file(s) =
         IF f[Len(s)].done = <<>> THEN NoText ELSE f[Len(s)].done
  BY <1>7 DEF IsLoading
<1>14. Len(SubSeq(lines, 1, n - 1)) = n - 1 /\ SubSeq(lines, 1, 0) = <<>>
  BY <1>1, <1>11, <1>12, PrefixAppend
<1>15. CASE n = 1
  BY <1>1, <1>3, <1>11, <1>12, <1>13, <1>14, <1>15
<1>16. CASE n # 1
  <2>1. SubSeq(lines, 1, n - 1) # <<>>
    <3>1. n - 1 # 0 /\ Len(<<>>) = 0
      BY <1>1, <1>16
    <3>2. QED
      BY <1>14, <3>1
  <2>2. editor_load_file(s) = SubSeq(lines, 1, n - 1)
    BY <1>11, <1>12, <1>13, <2>1
  <2>3. QED
    BY <1>1, <1>3, <1>16, <2>2 DEF Front
<1>17. QED
  BY <1>15, <1>16

(* Whatever was typed, and for every size of line, buffer and file: a text
   that fits is loaded again line by line as it was saved, but for the last
   line, which is saved without '\n'. *)
THEOREM ReloadingKeepsText == Spec => []ReloadKeepsText
<1>1. EditorInv => ReloadKeepsText
  <2> SUFFICES ASSUME EditorInv, Bytes(editor.lines) < BUFFER_SIZE
               PROVE  editor_load_file(SavedText(editor.lines)) =
                        IF Len(editor.lines) = 1 THEN NoText ELSE Front(editor.lines)
    BY DEF ReloadKeepsText
  <2>1. Sound(editor)
    BY InvIs
  <2>2. /\ editor.lines \in Seq(Line) /\ Len(editor.lines) \in Nat
        /\ Len(editor.lines) <= MAX_LINES
        /\ editor.cursor_line + 1 \in 1 .. Len(editor.lines)
    BY <2>1, SoundIs
  <2>3. editor.lines # <<>>
    BY <2>2
  <2>4. QED
    BY <2>2, <2>3, SavedLoads
<1>2. QED
  BY <1>1, EditorInvariant, PTL
=============================================================================
