-------------------------- MODULE CommandLineProofs --------------------------
(***************************************************************************)
(* Theorems about CommandLine, for every size of the buffers and of the    *)
(* ring and every content the buffer starts with.  The first lemmas say    *)
(* what the operators on arrays, the screen and the ring do; LineInv is    *)
(* the inductive invariant, in parts for the buffer, the screen, the ring, *)
(* the user's account of it and the lines of console_gets.                 *)
(***************************************************************************)
EXTENDS CommandLine, Ranges, SequenceTheorems

Characters == Bytes \ {NUL}
Array == [Cells -> Bytes]

-----------------------------------------------------------------------------
(* Lines and arrays. *)

LEMMA LinesAre ==
  Lines = {s \in Seq(Characters) : Len(s) \in Cells}
<1>1. MAX_COMMAND_LENGTH \in Nat \ {0}
  BY LineAssumption
<1>2. ASSUME NEW s \in Lines PROVE s \in Seq(Characters) /\ Len(s) \in Cells
  <2>1. PICK m \in 0..MAX_COMMAND_LENGTH - 1 : s \in [1..m -> Characters]
    BY DEF Lines, SeqOf, Characters
  <2>2. s \in Seq(Characters) /\ Len(s) = m
    BY <1>1, <2>1
  <2>3. QED
    BY <2>1, <2>2 DEF Cells
<1>3. ASSUME NEW s \in Seq(Characters), Len(s) \in Cells PROVE s \in Lines
  <2>1. s \in [1..Len(s) -> Characters]
    BY LenProperties
  <2>2. QED
    BY <1>3, <2>1 DEF Lines, SeqOf, Characters, Cells
<1>4. QED
  BY <1>2, <1>3 DEF Characters

LEMMA LineIs ==
  ASSUME NEW s \in Lines
  PROVE  /\ s \in Seq(Characters) /\ Len(s) \in Cells
         /\ \A i \in 1..Len(s) : s[i] \in Characters
  BY LinesAre, ElementOfSeq

(* Two lines that agree cell by cell are one. *)
LEMMA SameLine ==
  ASSUME NEW s \in Seq(Characters), NEW t \in Seq(Characters), Len(s) = Len(t),
         \A i \in 1..Len(s) : s[i] = t[i]
  PROVE  s = t
  BY SeqEqual

(* The first n cells, when they hold characters. *)
LEMMA FirstIsLine ==
  ASSUME NEW b, NEW n \in Cells, \A i \in 0..n - 1 : b[i] \in Characters
  PROVE  /\ First(b, n) \in Lines /\ Len(First(b, n)) = n
         /\ \A i \in 1..n : First(b, n)[i] = b[i - 1]
<1>1. n \in Nat
  BY LineAssumption DEF Cells
<1>2. First(b, n) \in [1..n -> Characters]
  BY <1>1 DEF First
<1>3. First(b, n) \in Seq(Characters) /\ Len(First(b, n)) = n
  BY <1>1, <1>2
<1>4. QED
  BY <1>3, LinesAre DEF First

LEMMA strlenFinds ==
  ASSUME NEW b \in Array, Terminated(b)
  PROVE  /\ strlen(b) \in Cells /\ b[strlen(b)] = NUL
         /\ \A i \in 0..strlen(b) - 1 : b[i] \in Characters
<1> DEFINE ends == {i \in Cells : b[i] = NUL}
<1>1. ends \in SUBSET Nat /\ ends # {}
  BY LineAssumption DEF Terminated, Cells
<1>2. strlen(b) \in ends /\ \A k \in ends : strlen(b) <= k
  BY <1>1, MinOfNaturals DEF strlen
<1> DEFINE n == strlen(b)
<1> HIDE DEF n
<1>3. ASSUME NEW i \in 0..n - 1 PROVE b[i] \in Characters
  <2>1. n \in 0..MAX_COMMAND_LENGTH - 1 /\ MAX_COMMAND_LENGTH \in Nat
    BY <1>2, LineAssumption DEF Cells, n
  <2>2. i \in Cells /\ i < n
    BY <2>1 DEF Cells
  <2>3. b[i] # NUL
    BY <1>2, <2>1, <2>2 DEF n
  <2>4. QED
    BY <2>2, <2>3 DEF Array, Characters
<1>4. QED
  BY <1>2, <1>3 DEF n

LEMMA TextIsLine ==
  ASSUME NEW b \in Array, Terminated(b)
  PROVE  /\ Text(b) \in Lines /\ Len(Text(b)) = strlen(b)
         /\ \A i \in 1..strlen(b) : Text(b)[i] = b[i - 1]
  BY strlenFinds, FirstIsLine DEF Text

(* The text of an array that holds only characters before position n, and a
   NUL there, is its first n cells. *)
LEMMA TextUpTo ==
  ASSUME NEW b \in Array, NEW n \in Cells, b[n] = NUL, \A i \in 0..n - 1 : b[i] \in Characters
  PROVE  Terminated(b) /\ Text(b) = First(b, n)
<1>1. Terminated(b)
  BY DEF Terminated
<1>2. strlen(b) = n
  <2>1. /\ strlen(b) \in Cells /\ b[strlen(b)] = NUL
        /\ \A i \in 0..strlen(b) - 1 : b[i] \in Characters
    BY <1>1, strlenFinds
  <2>2. ~(strlen(b) < n)
    BY <2>1, LineAssumption DEF Cells, Characters
  <2>3. ~(n < strlen(b))
    BY <2>1, LineAssumption DEF Cells, Characters
  <2>4. QED
    BY <2>1, <2>2, <2>3, LineAssumption DEF Cells
<1>3. QED
  BY <1>1, <1>2 DEF Text

(* A copied line is there, and the last cell stays a terminator if it is one. *)
LEMMA strcpyCopies ==
  ASSUME NEW b \in Array, NEW text \in Lines
  PROVE  /\ strcpy(b, text) \in Array
         /\ \A i \in 0..Len(text) - 1 : strcpy(b, text)[i] = text[i + 1]
         /\ First(strcpy(b, text), Len(text)) = text
         /\ b[MAX_COMMAND_LENGTH - 1] = NUL => strcpy(b, text)[MAX_COMMAND_LENGTH - 1] = NUL
<1> DEFINE c == strcpy(b, text)
<1>1. /\ Len(text) \in Cells /\ text \in Seq(Characters)
      /\ \A i \in 1..Len(text) : text[i] \in Characters
  BY LineIs
<1>2. MAX_COMMAND_LENGTH \in Nat \ {0}
  BY LineAssumption
<1>3. \A i \in Cells : c[i] = IF i < Len(text) THEN text[i + 1]
                              ELSE IF i = Len(text) THEN NUL ELSE b[i]
  BY DEF strcpy
<1>4. \A i \in 0..Len(text) - 1 : c[i] = text[i + 1]
  BY <1>1, <1>2, <1>3 DEF Cells
<1>5. c \in Array
  <2>1. \A i \in Cells : c[i] \in Bytes
    <3> TAKE i \in Cells
    <3>1. CASE i < Len(text)
      BY <1>1, <1>2, <1>3, <3>1 DEF Cells, Characters
    <3>2. CASE ~(i < Len(text))
      BY <1>3, <3>2, LineAssumption DEF Array
    <3>3. QED
      BY <3>1, <3>2
  <2>2. c = [i \in Cells |-> c[i]]
    BY DEF strcpy
  <2> HIDE DEF c
  <2>3. QED
    BY <2>1, <2>2 DEF Array
<1>6. First(c, Len(text)) = text
  <2>1. \A i \in 0..Len(text) - 1 : c[i] \in Characters
    BY <1>1, <1>4
  <2>2. /\ First(c, Len(text)) \in Lines /\ Len(First(c, Len(text))) = Len(text)
        /\ \A i \in 1..Len(text) : First(c, Len(text))[i] = c[i - 1]
    BY <1>1, <2>1, FirstIsLine
  <2>3. \A i \in 1..Len(text) : c[i - 1] = text[i]
    <3> TAKE i \in 1..Len(text)
    <3>1. i - 1 \in 0..Len(text) - 1 /\ (i - 1) + 1 = i
      BY <1>1, <1>2 DEF Cells
    <3>2. QED
      BY <1>4, <3>1
  <2> HIDE DEF c
  <2>4. QED
    BY <1>1, <2>2, <2>3, LineIs, SameLine
<1>7. b[MAX_COMMAND_LENGTH - 1] = NUL => c[MAX_COMMAND_LENGTH - 1] = NUL
  BY <1>1, <1>2, <1>3 DEF Cells
<1>8. QED
  BY <1>4, <1>5, <1>6, <1>7

(* The parser only puts terminators. *)
LEMMA parseTerminates ==
  ASSUME NEW b \in Array
  PROVE  /\ parse_command(b) \in Array
         /\ \A i \in Cells : parse_command(b)[i] \in {b[i], NUL}
<1>1. \A i \in Cells : parse_command(b)[i] \in {b[i], NUL}
  BY DEF parse_command
<1>2. parse_command(b) = [i \in Cells |-> parse_command(b)[i]]
  BY DEF parse_command
<1>3. QED
  BY <1>1, <1>2, LineAssumption DEF Array

-----------------------------------------------------------------------------
(* The invariant. *)

Screen == [told : BOOLEAN, column : Nat, shown : [Cells -> Printable]]

ModeOK == mode \in {"boot", "shell", "edit", "halted", "overrun"}

InputOK ==
  /\ input_line \in Seq(Printable) /\ Len(input_line) < max_length - 1
  /\ ~InGets => input_line = <<>>

BufferOK == buffer \in Array /\ pos \in Cells

\* What the terminal shows if anything is told of it.
ScreenIs(t) ==
  /\ t \in Screen /\ t.told /\ t.column = pos
  /\ \A i \in 0..pos - 1 : t.shown[i] = buffer[i]
ScreenOK == terminal = Untold \/ ScreenIs(terminal)

Accounts == [log : Seq(Lines), back : 0..HISTORY_SIZE, draft : Lines, continued : BOOLEAN]

\* Where the n-th last command is.
Place(n) == Slot(history_count - n + HISTORY_SIZE)

RingOK ==
  /\ command_history \in [0..HISTORY_SIZE - 1 -> Lines]
  /\ history_count \in 0..MaxCommands
  /\ temp_buffer \in Lines
  /\ user \in Accounts
  /\ current_history = IF user.back = 0 THEN -1 ELSE Place(user.back)

Earlier(log, n) == IF n <= Len(log) THEN log[Len(log) - n + 1] ELSE <<>>

AccountOK ==
  /\ \A n \in 1..HISTORY_SIZE : command_history[Place(n)] = Earlier(user.log, n)
  /\ user.back > 0 => IsPrefix(user.draft, temp_buffer)

LineInv == ModeOK /\ InputOK /\ BufferOK /\ ScreenOK /\ RingOK /\ AccountOK

-----------------------------------------------------------------------------
(* Places in the ring. *)

LEMMA Sizes ==
  /\ MAX_COMMAND_LENGTH \in Nat \ {0} /\ HISTORY_SIZE \in Nat \ {0} /\ MaxCommands \in Nat
  /\ TEST_BUFFER \in Nat /\ TEST_BUFFER >= 2 /\ MAX_LINE \in Nat /\ MAX_LINE >= 2
  /\ NUL \in Bytes /\ NUL \notin Characters /\ Space \in Printable
  /\ <<>> \in Lines
<1>1. <<>> \in Lines
  BY LinesAre, LineAssumption DEF Cells
<1>2. QED
  BY <1>1, LineAssumption DEF Characters

LEMMA LeastOfTwo ==
  ASSUME NEW m \in Int, NEW n \in Int
  PROVE  Min({m, n}) = IF m <= n THEN m ELSE n
<1>1. \E k \in {m, n} : \A j \in {m, n} : k <= j
  OBVIOUS
<1>2. Min({m, n}) \in {m, n} /\ \A j \in {m, n} : Min({m, n}) <= j
  BY <1>1 DEF Min
<1>3. QED
  BY <1>2

LEMMA GreatestOfTwo ==
  ASSUME NEW m \in Int, NEW n \in Int
  PROVE  Max({m, n}) = IF m >= n THEN m ELSE n
<1>1. \E k \in {m, n} : \A j \in {m, n} : k >= j
  OBVIOUS
<1>2. Max({m, n}) \in {m, n} /\ \A j \in {m, n} : Max({m, n}) >= j
  BY <1>1 DEF Max
<1>3. QED
  BY <1>2

LEMMA PlaceIs ==
  ASSUME NEW n \in 1..HISTORY_SIZE, RingOK
  PROVE  /\ Place(n) \in 0..HISTORY_SIZE - 1
         /\ n = HISTORY_SIZE => Place(n) = Slot(history_count)
         /\ n < HISTORY_SIZE => Place(n) # Slot(history_count)
<1>1. history_count \in Int /\ HISTORY_SIZE \in Nat \ {0}
  BY Sizes DEF RingOK
<1>2. n = HISTORY_SIZE => Place(n) = Slot(history_count)
  BY <1>1 DEF Place
<1>3. ASSUME n < HISTORY_SIZE PROVE Place(n) # Slot(history_count)
  <2> DEFINE d == HISTORY_SIZE - n
  <2>1. d \in 1..HISTORY_SIZE - 1 /\ history_count - n + HISTORY_SIZE = history_count + d
    BY <1>1, <1>3
  <2> HIDE DEF d
  <2>2. QED
    BY <1>1, <2>1, RingApart DEF Place, Slot
<1>4. Place(n) \in 0..HISTORY_SIZE - 1
  <2>1. history_count - n + HISTORY_SIZE \in Int
    BY <1>1
  <2>2. QED
    BY <1>1, <2>1, Remainder DEF Place, Slot
<1>5. QED
  BY <1>2, <1>3, <1>4

(* Up goes to the place of the command before, and stays at the last one. *)
LEMMA StepBackGoes ==
  ASSUME RingOK
  PROVE  LET n == IF user.back < HISTORY_SIZE THEN user.back + 1 ELSE HISTORY_SIZE
         IN n \in 1..HISTORY_SIZE /\ StepBack = Place(n)
<1>1. /\ history_count \in Int /\ HISTORY_SIZE \in Nat \ {0}
      /\ user.back \in 0..HISTORY_SIZE
  BY Sizes DEF RingOK, Accounts
<1>2. CASE user.back = 0
  <2>1. current_history = -1
    BY <1>2 DEF RingOK
  <2>2. Slot(history_count - 1) = Place(1)
    <3>1. history_count - 1 \in Int
      BY <1>1
    <3>2. QED
      BY <1>1, <3>1, RingStep DEF Slot, Place
  <2>3. QED
    BY <1>1, <1>2, <2>1, <2>2 DEF StepBack
<1>3. CASE user.back \in 1..HISTORY_SIZE - 1
  <2> DEFINE a == history_count - (user.back + 1) + HISTORY_SIZE
  <2>1. a \in Int /\ a + 1 = history_count - user.back + HISTORY_SIZE
    BY <1>1, <1>3
  <2>2. /\ current_history = Place(user.back)
        /\ current_history \in 0..HISTORY_SIZE - 1
        /\ current_history # Slot(history_count)
    BY <1>1, <1>3, PlaceIs DEF RingOK
  <2>3. Slot(current_history - 1 + HISTORY_SIZE) = a % HISTORY_SIZE
    <3> HIDE DEF a
    <3>1. current_history = (a + 1) % HISTORY_SIZE
      BY <2>1, <2>2 DEF Place, Slot
    <3>2. QED
      BY <1>1, <2>1, <3>1, RingWalk DEF Slot
  <2>4. StepBack = a % HISTORY_SIZE
    BY <2>2, <2>3 DEF StepBack
  <2>5. Place(user.back + 1) = a % HISTORY_SIZE
    BY DEF Place, Slot
  <2>6. QED
    BY <1>1, <1>3, <2>4, <2>5
<1>4. CASE user.back = HISTORY_SIZE
  <2>1. current_history = Place(HISTORY_SIZE) /\ Place(HISTORY_SIZE) = Slot(history_count)
    BY <1>1, <1>4, PlaceIs DEF RingOK
  <2>2. current_history # -1
    BY <1>1, <2>1, PlaceIs
  <2>3. QED
    BY <1>1, <1>4, <2>1, <2>2 DEF StepBack
<1>5. QED
  BY <1>1, <1>2, <1>3, <1>4

(* Down goes to the place of the command after, or past the last one. *)
LEMMA ForwardGoes ==
  ASSUME RingOK, current_history # -1
  PROVE  /\ user.back \in 1..HISTORY_SIZE
         /\ user.back = 1 => Forward = Slot(history_count)
         /\ user.back > 1 => Forward = Place(user.back - 1) /\ Forward # Slot(history_count)
<1>1. /\ history_count \in Int /\ HISTORY_SIZE \in Nat \ {0}
      /\ user.back \in 0..HISTORY_SIZE /\ user.back # 0
      /\ current_history = Place(user.back)
  BY Sizes DEF RingOK, Accounts
<1> DEFINE a == history_count - user.back + HISTORY_SIZE
<1>2. a \in Int /\ a + 1 = history_count - (user.back - 1) + HISTORY_SIZE
  BY <1>1
<1>3. Forward = (a + 1) % HISTORY_SIZE
  <2>1. current_history = a % HISTORY_SIZE
    BY <1>1 DEF Place, Slot
  <2> HIDE DEF a
  <2>2. QED
    BY <1>1, <1>2, <2>1, RingWalk DEF Forward, Slot
<1>4. ASSUME user.back = 1 PROVE Forward = Slot(history_count)
  <2>1. a + 1 = history_count + HISTORY_SIZE
    BY <1>1, <1>4
  <2> HIDE DEF a
  <2>2. QED
    BY <1>1, <1>3, <2>1, RingStep DEF Slot
<1>5. ASSUME user.back > 1
      PROVE  Forward = Place(user.back - 1) /\ Forward # Slot(history_count)
  <2>1. Forward = Place(user.back - 1)
    BY <1>2, <1>3 DEF Place, Slot
  <2>2. user.back - 1 \in 1..HISTORY_SIZE /\ user.back - 1 < HISTORY_SIZE
    BY <1>1, <1>5
  <2>3. QED
    BY <2>1, <2>2, PlaceIs
<1>6. QED
  BY <1>1, <1>4, <1>5

-----------------------------------------------------------------------------
(* The screen. *)

LEMMA BackGoes ==
  ASSUME NEW t \in Screen, NEW n \in Nat, n <= t.column
  PROVE  /\ Back(t, n) \in Screen /\ Back(t, n).told = t.told
         /\ Back(t, n).column = t.column - n /\ Back(t, n).shown = t.shown
<1>1. t.column \in Nat
  BY DEF Screen
<1>2. Max({t.column - n, 0}) = t.column - n
  BY <1>1, GreatestOfTwo
<1>3. QED
  BY <1>1, <1>2 DEF Back, Screen

LEMMA EmptyIs ==
  /\ EmptyScreen \in Screen /\ EmptyScreen.told /\ EmptyScreen.column = 0
  /\ Untold \in Screen /\ ~Untold.told /\ Untold.column = 0
BY Sizes DEF EmptyScreen, Untold, Screen

(* What is not told stays so, whatever is printed. *)
LEMMA UntoldStays ==
  /\ \A n \in Nat : Back(Untold, n) = Untold
  /\ \A text : console_puts(Untold, text) = Untold
<1>1. ASSUME NEW n \in Nat PROVE Back(Untold, n) = Untold
  <2>1. Max({0 - n, 0}) = 0
    BY GreatestOfTwo
  <2>2. Back(Untold, n) = [Untold EXCEPT !.column = 0]
    BY <2>1, EmptyIs DEF Back
  <2>3. QED
    BY <2>2, EmptyIs DEF Screen
<1>2. QED
  BY <1>1, EmptyIs DEF console_puts

(* A text printed is shown where the cursor was, or nothing is told. *)
LEMMA PutsShows ==
  ASSUME NEW t \in Screen, NEW T, NEW text \in Seq(T), console_puts(t, text) # Untold
  PROVE  /\ console_puts(t, text) \in Screen /\ console_puts(t, text).told
         /\ console_puts(t, text).column = t.column + Len(text)
         /\ \A i \in Cells :
              console_puts(t, text).shown[i] =
                IF i >= t.column /\ i < t.column + Len(text)
                THEN text[i - t.column + 1] ELSE t.shown[i]
<1>1. t.column \in Nat /\ t.shown \in [Cells -> Printable] /\ Len(text) \in Nat
  BY DEF Screen
<1> DEFINE new(i) == IF i >= t.column /\ i < t.column + Len(text)
                     THEN text[i - t.column + 1] ELSE t.shown[i]
<1>2. /\ console_puts(t, text) = [told |-> TRUE, column |-> t.column + Len(text),
                                  shown |-> [i \in Cells |-> new(i)]]
      /\ \A i \in 1..Len(text) : text[i] \in Printable
  BY DEF console_puts
<1>3. \A i \in Cells : new(i) \in Printable
  <2> TAKE i \in Cells
  <2>1. CASE i >= t.column /\ i < t.column + Len(text)
    <3>1. i \in Int
      BY Sizes DEF Cells
    <3>2. i - t.column + 1 \in 1..Len(text)
      BY <1>1, <2>1, <3>1
    <3>3. QED
      BY <1>2, <2>1, <3>2
  <2>2. CASE ~(i >= t.column /\ i < t.column + Len(text))
    BY <1>1, <2>2
  <2>3. QED
    BY <2>1, <2>2
<1> HIDE DEF new
<1>4. /\ console_puts(t, text) \in Screen /\ console_puts(t, text).told
      /\ console_puts(t, text).column = t.column + Len(text)
  BY <1>1, <1>2, <1>3 DEF Screen
<1>5. \A i \in Cells : console_puts(t, text).shown[i] = new(i)
  BY <1>2
<1>6. QED
  BY <1>4, <1>5 DEF new

(* A line recalled is the line, on the screen and in the buffer. *)
LEMMA Recalled ==
  ASSUME NEW text \in Lines, BufferOK, ScreenOK, Recall(text)
  PROVE  /\ BufferOK' /\ ScreenOK' /\ First(buffer', pos') = text
         /\ buffer[MAX_COMMAND_LENGTH - 1] = NUL => buffer'[MAX_COMMAND_LENGTH - 1] = NUL
<1>1. /\ text \in Seq(Characters) /\ Len(text) \in Cells
      /\ \A i \in 1..Len(text) : text[i] \in Characters
  BY LineIs
<1>2. buffer' = strcpy(buffer, text) /\ pos' = Len(text)
  BY DEF Recall
<1>3. /\ buffer' \in Array /\ First(buffer', pos') = text
      /\ \A i \in 0..pos' - 1 : buffer'[i] = text[i + 1]
      /\ buffer[MAX_COMMAND_LENGTH - 1] = NUL => buffer'[MAX_COMMAND_LENGTH - 1] = NUL
  BY <1>2, strcpyCopies DEF BufferOK
<1>4. BufferOK'
  BY <1>1, <1>2, <1>3 DEF BufferOK
<1>5. pos \in Nat /\ terminal' = console_puts(Back(terminal, pos), text)
  BY Sizes DEF Recall, BufferOK, Cells
<1>6. ASSUME terminal = Untold PROVE ScreenOK'
  BY <1>5, <1>6, UntoldStays DEF ScreenOK
<1>7. ASSUME terminal' # Untold, ScreenIs(terminal) PROVE ScreenOK'
  <2> DEFINE t == Back(terminal, pos)
  <2>1. t \in Screen /\ t.column = 0
    <3>1. terminal \in Screen /\ terminal.column = pos
      BY <1>7 DEF ScreenIs
    <3>2. QED
      BY <1>5, <3>1, BackGoes
  <2>2. terminal' = console_puts(t, text)
    BY <1>5
  <2> HIDE DEF t
  <2>3. /\ terminal' \in Screen /\ terminal'.told /\ terminal'.column = 0 + Len(text)
        /\ \A i \in Cells : terminal'.shown[i] =
             IF i >= 0 /\ i < 0 + Len(text) THEN text[i - 0 + 1] ELSE t.shown[i]
    BY <1>1, <1>7, <2>1, <2>2, PutsShows
  <2>4. terminal'.column = pos'
    BY <1>1, <1>2, <2>3, Sizes DEF Cells
  <2>5. \A i \in 0..pos' - 1 : terminal'.shown[i] = text[i + 1]
    <3> TAKE i \in 0..pos' - 1
    <3>1. i \in Cells /\ i \in Int /\ i >= 0 /\ i < 0 + Len(text) /\ i - 0 + 1 = i + 1
      BY <1>1, <1>2, Sizes DEF Cells
    <3>2. QED
      BY <2>3, <3>1
  <2>6. ScreenIs(terminal)'
    BY <1>3, <2>3, <2>4, <2>5 DEF ScreenIs
  <2>7. QED
    BY <2>6 DEF ScreenOK
<1>8. ScreenOK'
  BY <1>6, <1>7 DEF ScreenOK
<1>9. QED
  BY <1>3, <1>4, <1>8

-----------------------------------------------------------------------------
(* The keys of the shell. *)

LEMMA CharKeeps ==
  ASSUME NEW c \in Bytes, BufferOK, ScreenOK, key_char(c)
  PROVE  BufferOK' /\ ScreenOK'
<1>1. buffer \in Array /\ pos \in Nat /\ pos < MAX_COMMAND_LENGTH - 1
  BY Sizes DEF BufferOK, key_char, HasRoom, Cells
<1>2. pos \in Cells /\ pos' = pos + 1 /\ pos' \in Cells
  BY <1>1, Sizes DEF key_char, Cells
<1>3. buffer' \in Array /\ buffer'[pos] = c /\ \A i \in Cells : i # pos => buffer'[i] = buffer[i]
  BY <1>1, <1>2 DEF key_char, Array
<1>4. \A i \in 0..pos' - 1 : i \in Cells /\ (i = pos \/ i \in 0..pos - 1)
  BY <1>1, <1>2, Sizes DEF Cells
<1>5. BufferOK'
  BY <1>2, <1>3 DEF BufferOK
<1>6. terminal' = console_puts(terminal, <<c>>)
  BY DEF key_char
<1>7. ASSUME terminal = Untold PROVE ScreenOK'
  BY <1>6, <1>7, UntoldStays DEF ScreenOK
<1>8. ASSUME terminal' # Untold, ScreenIs(terminal) PROVE ScreenOK'
  <2>1. terminal \in Screen /\ terminal.column = pos
    BY <1>8 DEF ScreenIs
  <2>2. <<c>> \in Seq(Bytes) /\ Len(<<c>>) = 1 /\ <<c>>[1] = c
    OBVIOUS
  <2>3. /\ terminal' \in Screen /\ terminal'.told /\ terminal'.column = pos + 1
        /\ \A i \in Cells : terminal'.shown[i] =
             IF i >= pos /\ i < pos + 1 THEN <<c>>[i - pos + 1] ELSE terminal.shown[i]
    <3>1. /\ terminal' \in Screen /\ terminal'.told
          /\ terminal'.column = terminal.column + Len(<<c>>)
          /\ \A i \in Cells : terminal'.shown[i] =
               IF i >= terminal.column /\ i < terminal.column + Len(<<c>>)
               THEN <<c>>[i - terminal.column + 1] ELSE terminal.shown[i]
      <4>1. terminal \in Screen /\ <<c>> \in Seq(Bytes) /\ console_puts(terminal, <<c>>) # Untold
        BY <1>6, <1>8, <2>1, <2>2
      <4>2. QED
        BY <1>6, <4>1, PutsShows
    <3>2. QED
      BY <1>1, <2>1, <2>2, <3>1
  <2>4. \A i \in 0..pos' - 1 : terminal'.shown[i] = buffer'[i]
    <3> TAKE i \in 0..pos' - 1
    <3>1. CASE i = pos
      <4>1. i >= pos /\ i < pos + 1 /\ i - pos + 1 = 1
        BY <1>1, <3>1
      <4>2. QED
        BY <1>3, <1>4, <2>2, <2>3, <3>1, <4>1
    <3>2. CASE i # pos
      <4>1. i \in 0..pos - 1 /\ ~(i >= pos /\ i < pos + 1)
        BY <1>1, <1>4, <3>2
      <4>2. terminal.shown[i] = buffer[i]
        BY <1>8, <4>1 DEF ScreenIs
      <4>3. QED
        BY <1>3, <1>4, <2>3, <3>2, <4>1, <4>2
    <3>3. QED
      BY <3>1, <3>2
  <2>5. ScreenIs(terminal)'
    BY <1>2, <2>3, <2>4 DEF ScreenIs
  <2>6. QED
    BY <2>5 DEF ScreenOK
<1>9. ScreenOK'
  BY <1>7, <1>8 DEF ScreenOK
<1>10. QED
  BY <1>5, <1>9

LEMMA BackspaceKeeps ==
  ASSUME BufferOK, ScreenOK, key_backspace
  PROVE  BufferOK' /\ ScreenOK'
<1>1. pos \in Nat /\ pos > 0 /\ pos \in Cells /\ pos' = pos - 1 /\ buffer' = buffer
  BY Sizes DEF BufferOK, key_backspace, Cells
<1>2. \A i \in 0..pos' - 1 : i \in 0..pos - 1 /\ i \in Cells /\ i < pos - 1
  BY <1>1, Sizes DEF Cells
<1>3. pos' \in Cells
  BY <1>1, Sizes DEF Cells
<1>4. BufferOK'
  BY <1>1, <1>3 DEF BufferOK
<1> DEFINE t == Back(terminal, 1)  u == console_puts(t, <<Space>>)
<1>5. terminal' = Back(u, 1)
  BY DEF key_backspace
<1>6. ASSUME terminal = Untold \/ u = Untold PROVE ScreenOK'
  BY <1>5, <1>6, UntoldStays DEF ScreenOK
<1>7. ASSUME u # Untold, ScreenIs(terminal) PROVE ScreenOK'
  <2>1. terminal \in Screen /\ terminal.column = pos
    BY <1>7 DEF ScreenIs
  <2>2. t \in Screen /\ t.column = pos - 1 /\ t.shown = terminal.shown
    BY <1>1, <2>1, BackGoes
  <2> HIDE DEF t
  <2>3. <<Space>> \in Seq(Printable) /\ Len(<<Space>>) = 1
    BY Sizes
  <2>4. /\ u \in Screen /\ u.told /\ u.column = pos
        /\ \A i \in Cells : u.shown[i] =
             IF i >= pos - 1 /\ i < pos - 1 + 1 THEN <<Space>>[i - (pos - 1) + 1] ELSE t.shown[i]
    <3>1. /\ u \in Screen /\ u.told /\ u.column = t.column + Len(<<Space>>)
          /\ \A i \in Cells : u.shown[i] =
               IF i >= t.column /\ i < t.column + Len(<<Space>>)
               THEN <<Space>>[i - t.column + 1] ELSE t.shown[i]
      BY <1>7, <2>2, <2>3, PutsShows
    <3>2. QED
      BY <1>1, <2>2, <2>3, <3>1
  <2> HIDE DEF u
  <2>5. /\ terminal' \in Screen /\ terminal'.told /\ terminal'.column = pos'
        /\ terminal'.shown = u.shown
    BY <1>1, <1>5, <2>4, BackGoes
  <2>6. \A i \in 0..pos' - 1 : terminal'.shown[i] = buffer'[i]
    <3> TAKE i \in 0..pos' - 1
    <3>1. i \in Cells /\ ~(i >= pos - 1)
      BY <1>1, <1>2
    <3>2. u.shown[i] = terminal.shown[i]
      BY <2>2, <2>4, <3>1
    <3>3. QED
      BY <1>1, <1>2, <1>7, <2>5, <3>2 DEF ScreenIs
  <2>7. ScreenIs(terminal)'
    BY <2>5, <2>6 DEF ScreenIs
  <2>8. QED
    BY <2>7 DEF ScreenOK
<1>8. ScreenOK'
  BY <1>6, <1>7 DEF ScreenOK
<1>9. QED
  BY <1>4, <1>8

(* What starts a new line starts an empty one. *)
LEMMA NewLineKeeps ==
  ASSUME buffer' \in Array, NewLine
  PROVE  BufferOK' /\ ScreenOK'
<1>1. pos' = 0 /\ terminal' = EmptyScreen
  BY DEF NewLine
<1>2. 0 \in Cells /\ 0..0 - 1 = {}
  BY Sizes DEF Cells
<1>3. ScreenIs(terminal)'
  BY <1>1, <1>2, EmptyIs DEF ScreenIs
<1>4. QED
  BY <1>1, <1>2, <1>3 DEF BufferOK, ScreenOK

-----------------------------------------------------------------------------
(* The arrows. *)

\* What RecallsInOrder and DraftComesBack say of a step.
InOrder ==
  user'.back # user.back /\ user'.back > 0 =>
    First(buffer', pos') = Earlier(user.log, user'.back)
DraftBack == user.back = 1 /\ key_down => IsPrefix(user.draft, First(buffer', pos'))

\* What TerminatorStays says.
LastStays ==
  buffer[MAX_COMMAND_LENGTH - 1] = NUL => buffer'[MAX_COMMAND_LENGTH - 1] = NUL

(* What was typed ends at the cursor or at a NUL before it. *)
LEMMA TypedIs ==
  ASSUME BufferOK
  PROVE  \E n \in Cells :
           /\ Typed = First(buffer, n) /\ n <= pos /\ (n < pos => buffer[n] = NUL)
           /\ \A i \in 0..n - 1 : i \in Cells /\ buffer[i] \in Characters
<1> DEFINE ends == {i \in 0..pos - 1 : buffer[i] = NUL} \cup {pos}
<1>1. buffer \in Array /\ pos \in Nat /\ pos <= MAX_COMMAND_LENGTH - 1
  BY Sizes DEF BufferOK, Cells
<1>2. ends \in SUBSET Nat /\ ends # {}
  BY <1>1
<1>3. PICK n : n = Min(ends)
  OBVIOUS
<1>4. n \in ends /\ \A k \in ends : n <= k
  BY <1>2, <1>3, MinOfNaturals
<1>5. n \in Nat /\ n <= pos /\ (n < pos => buffer[n] = NUL) /\ n \in Cells
  BY <1>1, <1>4, Sizes DEF Cells
<1>6. ASSUME NEW i \in 0..n - 1 PROVE i \in Cells /\ buffer[i] \in Characters
  <2>1. i \in 0..pos - 1 /\ i \in Cells /\ i < n
    BY <1>1, <1>5, Sizes DEF Cells
  <2>2. buffer[i] # NUL
    <3>1. SUFFICES ASSUME buffer[i] = NUL PROVE FALSE
      OBVIOUS
    <3>2. i \in ends
      BY <2>1, <3>1
    <3>3. QED
      BY <1>4, <1>5, <2>1, <3>2
  <2>3. QED
    BY <1>1, <2>1, <2>2 DEF Array, Characters
<1>7. Typed = First(buffer, n)
  BY <1>3 DEF Typed
<1> HIDE DEF ends
<1>8. QED
  BY <1>5, <1>6, <1>7

(* What is saved of a line begins with the characters typed. *)
LEMMA TypedIsPrefix ==
  ASSUME BufferOK, Terminated(buffer)
  PROVE  Typed \in Lines /\ IsPrefix(Typed, Text(buffer))
<1> DEFINE s == Typed  t == Text(buffer)
<1>1. PICK n \in Cells :
        /\ s = First(buffer, n) /\ n <= pos
        /\ \A i \in 0..n - 1 : i \in Cells /\ buffer[i] \in Characters
  BY TypedIs
<1>2. n \in Nat /\ s \in Lines /\ Len(s) = n /\ \A i \in 1..n : s[i] = buffer[i - 1]
  BY <1>1, FirstIsLine, Sizes DEF Cells
<1>3. t \in Lines /\ Len(t) = strlen(buffer) /\ \A i \in 1..strlen(buffer) : t[i] = buffer[i - 1]
  BY TextIsLine DEF BufferOK
<1>4. strlen(buffer) \in Nat /\ n <= strlen(buffer)
  <2>1. strlen(buffer) \in Cells /\ buffer[strlen(buffer)] = NUL
    BY strlenFinds DEF BufferOK
  <2>2. strlen(buffer) \in Nat
    BY <2>1, Sizes DEF Cells
  <2>3. strlen(buffer) \notin 0..n - 1
    BY <1>1, <2>1, Sizes
  <2>4. QED
    BY <1>2, <2>2, <2>3
<1>5. s \in Seq(Characters) /\ t \in Seq(Characters)
  BY <1>2, <1>3, LineIs
<1> HIDE DEF s, t
<1>6. SubSeq(s, 1, Len(s)) = SubSeq(t, 1, Len(s))
  <2>1. SubSeq(s, 1, Len(s)) = s
    BY <1>5
  <2>2. /\ SubSeq(t, 1, n) \in Seq(Characters) /\ Len(SubSeq(t, 1, n)) = n
        /\ \A i \in 1..n : SubSeq(t, 1, n)[i] = t[i]
    BY <1>2, <1>3, <1>4, <1>5
  <2>3. \A i \in 1..n : s[i] = SubSeq(t, 1, n)[i]
    BY <1>2, <1>3, <1>4, <2>2
  <2>4. s = SubSeq(t, 1, n)
    BY <1>2, <1>5, <2>2, <2>3, SameLine
  <2>5. QED
    BY <1>2, <2>1, <2>4
<1>7. QED
  BY <1>2, <1>3, <1>4, <1>6 DEF IsPrefix, s, t

LEMMA UpKeeps ==
  ASSUME LineInv, key_up
  PROVE  LineInv' /\ InOrder /\ LastStays
<1>1. BufferOK /\ ScreenOK /\ RingOK /\ AccountOK
  BY DEF LineInv
<1>2. /\ user \in Accounts /\ user.back \in 0..HISTORY_SIZE /\ HISTORY_SIZE \in Nat \ {0}
      /\ command_history \in [0..HISTORY_SIZE - 1 -> Lines]
  BY <1>1, Sizes DEF RingOK, Accounts
<1> DEFINE n == IF user.back < HISTORY_SIZE THEN user.back + 1 ELSE HISTORY_SIZE
<1>3. n \in 1..HISTORY_SIZE /\ StepBack = Place(n) /\ StepBack \in 0..HISTORY_SIZE - 1
  <2>1. n \in 1..HISTORY_SIZE /\ StepBack = Place(n)
    BY <1>1, StepBackGoes
  <2> HIDE DEF n
  <2>2. QED
    BY <1>1, <2>1, PlaceIs
<1>4. Min({user.back + 1, HISTORY_SIZE}) = n
  <2>1. user.back + 1 \in Int /\ HISTORY_SIZE \in Int
    BY <1>2
  <2>2. QED
    BY <1>2, <2>1, LeastOfTwo
<1>5. /\ user'.back = n /\ user'.log = user.log /\ user'.continued = user.continued
      /\ user'.draft = IF user.back = 0 THEN Typed ELSE user.draft
      /\ DOMAIN user' = DOMAIN user /\ user' = [log |-> user'.log, back |-> user'.back,
                       draft |-> user'.draft, continued |-> user'.continued]
  BY <1>2, <1>4 DEF key_up, Accounts
<1> HIDE DEF n
<1>6. /\ command_history' = command_history /\ history_count' = history_count
      /\ mode' = mode /\ input_line' = input_line
      /\ current_history' = Place(n) /\ temp_buffer' = Saved
  BY <1>3 DEF key_up, history_vars
<1>7. current_history = -1 <=> user.back = 0
  <2>1. CASE user.back = 0
    BY <1>1, <2>1 DEF RingOK
  <2>2. CASE user.back \in 1..HISTORY_SIZE
    <3>1. current_history = Place(user.back) /\ Place(user.back) \in 0..HISTORY_SIZE - 1
      BY <1>1, <2>2, PlaceIs DEF RingOK
    <3>2. QED
      BY <1>2, <2>2, <3>1
  <2>3. QED
    BY <1>2, <2>1, <2>2
<1>8. Recall(command_history[StepBack]) /\ command_history[StepBack] \in Lines
  BY <1>2, <1>3 DEF key_up
<1>9. BufferOK' /\ ScreenOK' /\ First(buffer', pos') = command_history[Place(n)] /\ LastStays
  BY <1>1, <1>3, <1>8, Recalled DEF LastStays
<1>10. /\ temp_buffer' \in Lines
       /\ user'.draft \in Lines
       /\ IsPrefix(user'.draft, temp_buffer')
  <2>1. CASE user.back = 0
    <3>1. Terminated(buffer) /\ temp_buffer' = Text(buffer)
      BY <1>6, <1>7, <2>1 DEF key_up, Saved
    <3>2. Text(buffer) \in Lines
      BY <1>1, <3>1, TextIsLine DEF BufferOK
    <3>3. QED
      BY <1>1, <1>5, <2>1, <3>1, <3>2, TypedIsPrefix
  <2>2. CASE user.back # 0
    BY <1>1, <1>2, <1>5, <1>6, <1>7, <2>2 DEF Saved, RingOK, AccountOK, Accounts
  <2>3. QED
    BY <2>1, <2>2
<1>11. \A k \in Int : Place(k)' = Place(k)
  BY <1>6 DEF Place, Slot
<1>12. RingOK'
  <2>1. user' \in Accounts
    BY <1>2, <1>3, <1>5, <1>10 DEF Accounts
  <2>2. n # 0 /\ n \in Int
    BY <1>2, <1>3
  <2>3. QED
    BY <1>1, <1>5, <1>6, <1>10, <1>11, <2>1, <2>2 DEF RingOK
<1>13. AccountOK'
  BY <1>1, <1>5, <1>6, <1>10, <1>11 DEF AccountOK
<1>14. InOrder
  BY <1>1, <1>3, <1>5, <1>9 DEF InOrder, AccountOK
<1>15. ModeOK' /\ InputOK'
  BY <1>6 DEF LineInv, ModeOK, InputOK, InGets, max_length
<1>16. QED
  BY <1>9, <1>12, <1>13, <1>14, <1>15 DEF LineInv

LEMMA DownKeeps ==
  ASSUME LineInv, key_down
  PROVE  LineInv' /\ InOrder /\ DraftBack /\ LastStays
<1>1. BufferOK /\ ScreenOK /\ RingOK /\ AccountOK /\ current_history # -1
  BY DEF LineInv, key_down
<1>2. /\ user \in Accounts /\ HISTORY_SIZE \in Nat \ {0}
      /\ command_history \in [0..HISTORY_SIZE - 1 -> Lines] /\ temp_buffer \in Lines
  BY <1>1, Sizes DEF RingOK
<1>3. /\ user.back \in 1..HISTORY_SIZE
      /\ user.back = 1 => Forward = Slot(history_count)
      /\ user.back > 1 => Forward = Place(user.back - 1) /\ Forward # Slot(history_count)
  BY <1>1, ForwardGoes
<1>4. /\ user'.back = user.back - 1 /\ user'.log = user.log /\ user'.continued = user.continued
      /\ user'.draft = IF user.back = 1 THEN <<>> ELSE user.draft
      /\ user' = [log |-> user'.log, back |-> user'.back,
                  draft |-> user'.draft, continued |-> user'.continued]
  BY <1>2 DEF key_down, Accounts
<1>5. /\ command_history' = command_history /\ history_count' = history_count
      /\ mode' = mode /\ input_line' = input_line /\ temp_buffer' = temp_buffer
  BY DEF key_down, history_vars
<1>6. \A k \in Int : Place(k)' = Place(k)
  BY <1>5 DEF Place, Slot
<1>7. user' \in Accounts
  <2>1. user'.back \in 0..HISTORY_SIZE /\ user'.draft \in Lines
    BY <1>2, <1>3, <1>4, Sizes DEF Accounts
  <2>2. QED
    BY <1>2, <1>4, <2>1 DEF Accounts
<1>8. AccountOK'
  <2>1. user'.back > 0 => user'.draft = user.draft /\ user.back > 0
    BY <1>3, <1>4
  <2>2. QED
    BY <1>1, <1>4, <1>5, <1>6, <2>1 DEF AccountOK
<1>9. ModeOK' /\ InputOK'
  BY <1>5 DEF LineInv, ModeOK, InputOK, InGets, max_length
<1>10. CASE user.back = 1
  <2>1. Recall(temp_buffer) /\ current_history' = -1
    BY <1>3, <1>10 DEF key_down
  <2>2. BufferOK' /\ ScreenOK' /\ First(buffer', pos') = temp_buffer /\ LastStays
    BY <1>1, <1>2, <2>1, Recalled DEF LastStays
  <2>3. user'.back = 0
    BY <1>4, <1>10
  <2>4. RingOK'
    BY <1>1, <1>5, <1>7, <2>1, <2>3 DEF RingOK
  <2>5. DraftBack
    BY <1>1, <1>10, <2>2 DEF DraftBack, AccountOK
  <2>6. QED
    BY <1>8, <1>9, <2>2, <2>3, <2>4, <2>5 DEF LineInv, InOrder
<1>11. CASE user.back > 1
  <2> DEFINE n == user.back - 1
  <2>1. n \in 1..HISTORY_SIZE /\ n # 0 /\ user'.back = n
    BY <1>2, <1>3, <1>4, <1>11
  <2>2. Forward = Place(n) /\ Forward # Slot(history_count)
    BY <1>3, <1>11
  <2> HIDE DEF n
  <2>3. Recall(command_history[Place(n)]) /\ current_history' = Place(n)
    BY <2>2 DEF key_down
  <2>4. Place(n) \in 0..HISTORY_SIZE - 1
    BY <1>1, <2>1, PlaceIs
  <2>5. command_history[Place(n)] \in Lines
    BY <1>2, <2>4
  <2>6. BufferOK' /\ ScreenOK' /\ First(buffer', pos') = command_history[Place(n)] /\ LastStays
    BY <1>1, <2>3, <2>5, Recalled DEF LastStays
  <2>7. RingOK'
    BY <1>1, <1>5, <1>6, <1>7, <2>1, <2>3 DEF RingOK
  <2>8. InOrder
    BY <1>1, <2>1, <2>6 DEF InOrder, AccountOK
  <2>9. DraftBack
    BY <1>11 DEF DraftBack
  <2>10. QED
    BY <1>8, <1>9, <2>6, <2>7, <2>8, <2>9 DEF LineInv
<1>12. QED
  BY <1>3, <1>10, <1>11

-----------------------------------------------------------------------------
(* Enter. *)

(* The user's log of one more line holds it last, and the others behind it. *)
LEMMA RememberedHolds ==
  ASSUME NEW log \in Seq(Lines), NEW line \in Lines
  PROVE  /\ Remembered(log, line) \in Seq(Lines)
         /\ Earlier(Remembered(log, line), 1) = line
         /\ \A n \in 2..HISTORY_SIZE :
              Earlier(Remembered(log, line), n) = Earlier(log, n - 1)
<1> DEFINE all == Append(log, line)  size == Len(log) + 1
           from == IF 1 >= size - HISTORY_SIZE + 1 THEN 1 ELSE size - HISTORY_SIZE + 1
           R == SubSeq(all, from, size)
<1>1. /\ Len(log) \in Nat /\ size \in Nat /\ HISTORY_SIZE \in Nat \ {0}
      /\ all \in Seq(Lines) /\ Len(all) = size
      /\ all[size] = line /\ \A k \in 1..size - 1 : all[k] = log[k]
  BY Sizes
<1>2. from \in 1..size /\ (from = 1 \/ from = size - HISTORY_SIZE + 1)
  BY <1>1
<1>3. Remembered(log, line) = R
  <2>1. size - HISTORY_SIZE + 1 \in Int
    BY <1>1
  <2>2. Max({1, size - HISTORY_SIZE + 1}) = from
    BY <2>1, GreatestOfTwo
  <2> HIDE DEF from
  <2>3. QED
    BY <1>1, <2>2 DEF Remembered
<1> HIDE DEF all
<1>4. /\ R \in Seq(Lines) /\ Len(R) = size - from + 1
      /\ \A k \in 1..size - from + 1 : R[k] = all[from + k - 1]
  <2> HIDE DEF from, size
  <2>1. QED
    BY <1>1, <1>2, SubSeqProperties
<1>5. ASSUME NEW n \in 1..HISTORY_SIZE
      PROVE  Earlier(R, n) = IF n <= size THEN all[size - n + 1] ELSE <<>>
  <2> HIDE DEF R
  <2>1. n <= Len(R) <=> n <= size
    BY <1>1, <1>4
  <2> HIDE DEF from, size
  <2>2. CASE n <= size
    <3> DEFINE k == Len(R) - n + 1
    <3>1. k \in 1..size - from + 1 /\ from + k - 1 = size - n + 1
      BY <1>1, <1>2, <1>4, <2>1, <2>2
    <3> HIDE DEF k
    <3>2. R[k] = all[size - n + 1]
      BY <1>4, <3>1
    <3>3. QED
      BY <2>1, <2>2, <3>2 DEF Earlier, k
  <2>3. CASE ~(n <= size)
    BY <2>1, <2>3 DEF Earlier
  <2>4. QED
    BY <2>2, <2>3
<1> HIDE DEF R, from
<1>6. Earlier(R, 1) = line
  <2>1. 1 \in 1..HISTORY_SIZE /\ 1 <= size /\ size - 1 + 1 = size
    BY <1>1
  <2>2. QED
    BY <1>1, <1>5, <2>1
<1>7. ASSUME NEW n \in 2..HISTORY_SIZE PROVE Earlier(R, n) = Earlier(log, n - 1)
  <2>1. n \in 1..HISTORY_SIZE
    BY <1>1
  <2>2. CASE n <= size
    <3>1. n - 1 <= Len(log) /\ size - n + 1 = Len(log) - (n - 1) + 1 /\ size - n + 1 \in 1..size - 1
      BY <1>1, <2>2
    <3> HIDE DEF size
    <3>2. QED
      BY <1>1, <1>5, <2>1, <2>2, <3>1 DEF Earlier
  <2>3. CASE ~(n <= size)
    <3>1. ~(n - 1 <= Len(log))
      BY <1>1, <2>3
    <3> HIDE DEF size
    <3>2. QED
      BY <1>5, <2>1, <2>3, <3>1 DEF Earlier
  <2>4. QED
    BY <2>2, <2>3
<1>8. QED
  BY <1>3, <1>4, <1>6, <1>7

(* What Enter puts into the history is the line as typed; the last cell stays
   a terminator if it is one. *)
LEMMA EnteredIs ==
  ASSUME BufferOK
  PROVE  /\ Entered.buffer \in Array
         /\ Entered.text = Typed /\ Typed \in Lines
         /\ buffer[MAX_COMMAND_LENGTH - 1] = NUL
              => Entered.buffer[MAX_COMMAND_LENGTH - 1] = NUL
<1> DEFINE line == entered_line
<1>1. buffer \in Array /\ pos \in Cells /\ pos \in Nat
  BY Sizes DEF BufferOK, Cells
<1>2. PICK n \in Cells :
        /\ Typed = First(buffer, n) /\ n <= pos /\ (n < pos => buffer[n] = NUL)
        /\ \A i \in 0..n - 1 : i \in Cells /\ buffer[i] \in Characters
  BY TypedIs
<1>3. /\ line \in Array /\ line[pos] = NUL
      /\ \A i \in Cells : i # pos => line[i] = buffer[i]
  BY <1>1, Sizes DEF Array, entered_line
<1>4. Entered.buffer = parse_command(line) /\ Entered.text = Text(line)
  BY DEF Entered
<1> HIDE DEF line
<1>5. n \in Nat /\ line[n] = NUL /\ \A i \in 0..n - 1 : line[i] = buffer[i]
  <2>1. n \in Nat
    BY Sizes DEF Cells
  <2>2. line[n] = NUL
    BY <1>1, <1>2, <1>3, <2>1
  <2>3. \A i \in 0..n - 1 : i \in Cells /\ i # pos
    BY <1>1, <1>2, <2>1
  <2>4. QED
    BY <1>3, <2>1, <2>2, <2>3
<1>6. Text(line) = First(line, n)
  BY <1>2, <1>3, <1>5, TextUpTo
<1>7. First(line, n) = First(buffer, n) /\ First(buffer, n) \in Lines
  <2>1. /\ First(buffer, n) \in Lines /\ Len(First(buffer, n)) = n
        /\ \A i \in 1..n : First(buffer, n)[i] = buffer[i - 1]
    BY <1>2, FirstIsLine
  <2>2. /\ First(line, n) \in Lines /\ Len(First(line, n)) = n
        /\ \A i \in 1..n : First(line, n)[i] = line[i - 1]
    BY <1>2, <1>5, FirstIsLine
  <2>3. \A i \in 1..n : i - 1 \in 0..n - 1
    BY <1>5
  <2>4. QED
    BY <1>5, <2>1, <2>2, <2>3, LineIs, SameLine
<1>8. MAX_COMMAND_LENGTH - 1 \in Cells
  BY Sizes DEF Cells
<1>9. /\ parse_command(line) \in Array
      /\ parse_command(line)[MAX_COMMAND_LENGTH - 1] \in {line[MAX_COMMAND_LENGTH - 1], NUL}
  BY <1>3, <1>8, parseTerminates
<1>10. buffer[MAX_COMMAND_LENGTH - 1] = NUL => line[MAX_COMMAND_LENGTH - 1] = NUL
  BY <1>3, <1>8
<1>11. QED
  BY <1>2, <1>4, <1>6, <1>7, <1>9, <1>10

LEMMA EnterKeeps ==
  ASSUME LineInv, key_enter
  PROVE  LineInv' /\ InOrder /\ LastStays
<1>1. BufferOK /\ RingOK /\ AccountOK /\ mode = "shell" /\ NewLine
  BY DEF LineInv, key_enter, AtPrompt
<1> DEFINE text == Typed
<1>2. /\ buffer' \in Array /\ LastStays
      /\ text \in Lines
      /\ command_history' = [command_history EXCEPT ![Slot(history_count)] = text]
  BY <1>1, EnteredIs DEF key_enter, LastStays
<1>3. BufferOK' /\ ScreenOK'
  BY <1>1, <1>2, NewLineKeeps
<1> HIDE DEF text
<1>4. /\ user' = [log |-> Remembered(user.log, text), back |-> 0,
                  draft |-> <<>>, continued |-> FALSE]
      /\ history_count' = history_count + 1 /\ history_count < MaxCommands
      /\ current_history' = -1 /\ temp_buffer' = <<>> /\ input_line' = input_line
  BY <1>1 DEF key_enter, NewUser, NewLine, text
<1>5. /\ user.log \in Seq(Lines) /\ history_count \in Nat /\ HISTORY_SIZE \in Nat \ {0}
      /\ command_history \in [0..HISTORY_SIZE - 1 -> Lines] /\ <<>> \in Lines
      /\ MaxCommands \in Nat
  BY <1>1, Sizes DEF RingOK, Accounts
<1>6. /\ user'.log \in Seq(Lines) /\ Earlier(user'.log, 1) = text
      /\ \A n \in 2..HISTORY_SIZE : Earlier(user'.log, n) = Earlier(user.log, n - 1)
  BY <1>2, <1>4, <1>5, RememberedHolds
<1>7. Slot(history_count) \in 0..HISTORY_SIZE - 1
  BY <1>5, Remainder DEF Slot
<1>8. RingOK'
  <2>1. user' \in Accounts
    BY <1>4, <1>5, <1>6 DEF Accounts
  <2>2. command_history' \in [0..HISTORY_SIZE - 1 -> Lines]
    BY <1>2, <1>5, <1>7
  <2>3. history_count' \in 0..MaxCommands
    BY <1>4, <1>5
  <2>4. QED
    BY <1>4, <1>5, <2>1, <2>2, <2>3 DEF RingOK
<1>9. ASSUME NEW n \in 1..HISTORY_SIZE
      PROVE  command_history'[Place(n)'] = Earlier(user'.log, n)
  <2>1. Place(n)' = Slot(history_count + 1 - n + HISTORY_SIZE)
    BY <1>4, <1>5 DEF Place, Slot
  <2>2. CASE n = 1
    <3>1. Place(n)' = Slot(history_count + HISTORY_SIZE)
      <4>1. history_count + 1 - n + HISTORY_SIZE = history_count + HISTORY_SIZE
        BY <1>5, <2>2
      <4>2. QED
        BY <2>1, <4>1
    <3>2. Place(n)' = Slot(history_count)
      <4>1. history_count \in Int
        BY <1>5
      <4>2. (history_count + HISTORY_SIZE) % HISTORY_SIZE = history_count % HISTORY_SIZE
        BY <1>5, <4>1, RingStep
      <4>3. QED
        BY <3>1, <4>2 DEF Slot
    <3>3. QED
      BY <1>2, <1>5, <1>6, <1>7, <2>2, <3>2
  <2>3. CASE n # 1
    <3>1. n - 1 \in 1..HISTORY_SIZE /\ n - 1 < HISTORY_SIZE /\ n \in 2..HISTORY_SIZE
      BY <1>5, <2>3
    <3>2. history_count + 1 - n + HISTORY_SIZE = history_count - (n - 1) + HISTORY_SIZE
      BY <1>5, <3>1
    <3>3. Place(n)' = Place(n - 1)
      BY <2>1, <3>2 DEF Place
    <3>4. Place(n - 1) \in 0..HISTORY_SIZE - 1 /\ Place(n - 1) # Slot(history_count)
      BY <1>1, <3>1, PlaceIs
    <3>5. command_history'[Place(n - 1)] = command_history[Place(n - 1)]
      BY <1>2, <1>5, <3>4
    <3>6. command_history[Place(n - 1)] = Earlier(user.log, n - 1)
      BY <1>1, <3>1 DEF AccountOK
    <3>7. QED
      BY <1>6, <3>1, <3>3, <3>5, <3>6
  <2>4. QED
    BY <2>2, <2>3
<1>10. user'.back = 0
  BY <1>4
<1>11. AccountOK'
  BY <1>9, <1>10 DEF AccountOK
<1>12. ModeOK'
  BY DEF key_enter, ModeOK, AfterCommand
<1>13. InputOK'
  <2>1. input_line' = <<>>
    BY <1>1, <1>4 DEF LineInv, InputOK, InGets
  <2>2. <<>> \in Seq(Printable) /\ Len(<<>>) = 0 /\ (max_length - 1 > 0)'
    BY Sizes DEF max_length
  <2>3. QED
    BY <2>1, <2>2 DEF InputOK
<1>14. QED
  BY <1>2, <1>3, <1>8, <1>10, <1>11, <1>12, <1>13 DEF LineInv, InOrder

LEMMA EmptyEnterKeeps ==
  ASSUME LineInv, key_enter_empty
  PROVE  LineInv' /\ InOrder /\ LastStays
<1>1. BufferOK /\ RingOK /\ AccountOK /\ NewLine
  BY DEF LineInv, key_enter_empty
<1>2. buffer' \in Array /\ LastStays
  <2>1. buffer' = [buffer EXCEPT ![0] = NUL] /\ MAX_COMMAND_LENGTH - 1 \in Cells
    BY Sizes DEF key_enter_empty, Cells
  <2>2. QED
    BY <1>1, <2>1, Sizes DEF BufferOK, Array, LastStays
<1>3. BufferOK' /\ ScreenOK'
  BY <1>1, <1>2, NewLineKeeps
<1>4. /\ user' = [log |-> user.log, back |-> 0, draft |-> <<>>, continued |-> FALSE]
      /\ current_history' = -1 /\ temp_buffer' = <<>>
      /\ command_history' = command_history /\ history_count' = history_count
      /\ input_line' = input_line /\ mode' = mode
  BY <1>1 DEF key_enter_empty, NewUser, NewLine, history_vars
<1>5. RingOK'
  BY <1>1, <1>4, Sizes DEF RingOK, Accounts
<1>6. \A k \in Int : Place(k)' = Place(k)
  BY <1>4 DEF Place, Slot
<1>7. AccountOK'
  BY <1>1, <1>4, <1>6 DEF AccountOK
<1>8. ModeOK' /\ InputOK'
  BY <1>4 DEF LineInv, ModeOK, InputOK, InGets, max_length
<1>9. QED
  BY <1>2, <1>3, <1>4, <1>5, <1>7, <1>8 DEF LineInv, InOrder

-----------------------------------------------------------------------------
(* The other keys. *)

(* Keys that leave the history and the user's account of it alone. *)
LEMMA RingUntouched ==
  ASSUME RingOK, AccountOK, UNCHANGED <<current_history, temp_buffer, history_vars>>,
         user' \in Accounts, user'.back = user.back, user'.log = user.log,
         user'.draft = user.draft
  PROVE  RingOK' /\ AccountOK' /\ InOrder
<1>1. /\ command_history' = command_history /\ history_count' = history_count
      /\ current_history' = current_history /\ temp_buffer' = temp_buffer
  BY DEF history_vars
<1>2. \A k \in Int : Place(k)' = Place(k)
  BY <1>1 DEF Place, Slot
<1>3. user.back \in Int
  BY Sizes DEF RingOK, Accounts
<1>4. RingOK'
  BY <1>1, <1>2, <1>3 DEF RingOK
<1>5. AccountOK'
  BY <1>1, <1>2 DEF AccountOK
<1>6. QED
  BY <1>4, <1>5 DEF InOrder

LEMMA EditKeysKeep ==
  ASSUME LineInv, NEW c \in Bytes, key_char(c) \/ key_backspace
  PROVE  LineInv' /\ InOrder /\ LastStays
<1>1. BufferOK' /\ ScreenOK'
  BY CharKeeps, BackspaceKeeps DEF LineInv
<1>2. /\ UNCHANGED <<mode, input_line, user>>
      /\ UNCHANGED <<current_history, temp_buffer, history_vars>>
  BY DEF key_char, key_backspace
<1>3. RingOK' /\ AccountOK' /\ InOrder
  BY <1>2, RingUntouched DEF LineInv, RingOK
<1>4. ModeOK' /\ InputOK'
  BY <1>2 DEF LineInv, ModeOK, InputOK, InGets, max_length
<1>5. LastStays
  <2>1. CASE key_backspace
    BY <2>1 DEF key_backspace, LastStays
  <2>2. CASE key_char(c)
    <3>1. pos \in Nat /\ pos # MAX_COMMAND_LENGTH - 1 /\ MAX_COMMAND_LENGTH - 1 \in Cells
      BY <2>2, Sizes DEF key_char, HasRoom, LineInv, BufferOK, Cells
    <3>2. buffer' = [buffer EXCEPT ![pos] = c] /\ buffer \in Array
      BY <2>2 DEF key_char, LineInv, BufferOK
    <3>3. QED
      BY <3>1, <3>2 DEF LastStays, Array
  <2>3. QED
    BY <2>1, <2>2
<1>6. QED
  BY <1>1, <1>3, <1>4, <1>5 DEF LineInv

LEMMA OverrunKeeps ==
  ASSUME LineInv, key_up_overrun
  PROVE  LineInv' /\ InOrder /\ LastStays
<1>1. /\ UNCHANGED <<line_vars, input_line, user>>
      /\ UNCHANGED <<current_history, temp_buffer, history_vars>>
      /\ mode = "shell" /\ mode' = "overrun"
  BY DEF key_up_overrun, AtPrompt, line_vars
<1>2. RingOK' /\ AccountOK' /\ InOrder
  BY <1>1, RingUntouched DEF LineInv, RingOK
<1>3. BufferOK' /\ ScreenOK' /\ LastStays
  BY <1>1 DEF LineInv, BufferOK, ScreenOK, ScreenIs, LastStays, line_vars
<1>4. ModeOK' /\ InputOK'
  BY <1>1 DEF LineInv, ModeOK, InputOK, InGets, max_length
<1>5. QED
  BY <1>2, <1>3, <1>4 DEF LineInv

LEMMA GetsReturnsKeeps ==
  ASSUME LineInv, InGets, NEW line, NEW full \in BOOLEAN, gets_returns(line, full)
  PROVE  LineInv' /\ InOrder /\ LastStays
<1>1. /\ UNCHANGED line_vars /\ UNCHANGED <<current_history, temp_buffer, history_vars>>
      /\ input_line' = <<>> /\ mode' \in {"shell", mode}
      /\ user' = [user EXCEPT !.continued = full /\ mode' = "edit"]
  BY DEF gets_returns, line_vars
<1>2. user \in Accounts
  BY DEF LineInv, RingOK
<1>3. RingOK' /\ AccountOK' /\ InOrder
  <2>1. (full /\ mode' = "edit") \in BOOLEAN
    OBVIOUS
  <2>2. /\ user' \in Accounts /\ user'.back = user.back /\ user'.log = user.log
        /\ user'.draft = user.draft
    BY <1>1, <1>2, <2>1 DEF Accounts
  <2>3. QED
    BY <1>1, <2>2, RingUntouched DEF LineInv
<1>4. BufferOK' /\ ScreenOK' /\ LastStays
  BY <1>1 DEF LineInv, BufferOK, ScreenOK, ScreenIs, LastStays, line_vars
<1>5. ModeOK'
  BY <1>1 DEF LineInv, ModeOK, InGets
<1>6. InputOK'
  <2>1. <<>> \in Seq(Printable) /\ Len(<<>>) = 0 /\ (max_length - 1 > 0)'
    BY Sizes DEF max_length
  <2>2. QED
    BY <1>1, <2>1 DEF InputOK
<1>7. QED
  BY <1>3, <1>4, <1>5, <1>6 DEF LineInv

LEMMA GetsKeysKeep ==
  ASSUME LineInv, NEW c \in Printable, gets_char(c) \/ gets_backspace
  PROVE  LineInv' /\ InOrder /\ LastStays
<1>1. /\ UNCHANGED <<line_vars, mode, user>>
      /\ UNCHANGED <<current_history, temp_buffer, history_vars>>
      /\ InGets
  BY DEF gets_char, gets_backspace, line_vars
<1>2. RingOK' /\ AccountOK' /\ InOrder
  BY <1>1, RingUntouched DEF LineInv, RingOK
<1>3. BufferOK' /\ ScreenOK' /\ LastStays
  BY <1>1 DEF LineInv, BufferOK, ScreenOK, ScreenIs, LastStays, line_vars
<1>4. ModeOK' /\ InGets' /\ max_length' = max_length /\ max_length \in Nat
  BY <1>1, Sizes DEF LineInv, ModeOK, InGets, max_length
<1>5. input_line \in Seq(Printable) /\ Len(input_line) < max_length - 1
  BY DEF LineInv, InputOK
<1>6. input_line' \in Seq(Printable) /\ Len(input_line') < max_length - 1
  <2> DEFINE room == max_length
  <2>1. room \in Nat /\ Len(input_line) < room - 1 /\ Len(input_line) \in Nat
    BY <1>4, <1>5
  <2> HIDE DEF room
  <2>2. CASE gets_char(c)
    <3>1. input_line' = Append(input_line, c) /\ Len(input_line) < room - 2
      BY <2>2 DEF gets_char, room
    <3>2. input_line' \in Seq(Printable) /\ Len(input_line') = Len(input_line) + 1
      BY <1>5, <3>1
    <3>3. QED
      BY <2>1, <3>1, <3>2 DEF room
  <2>3. CASE gets_backspace
    <3>1. input_line' = SubSeq(input_line, 1, Len(input_line) - 1) /\ input_line # <<>>
      BY <2>3 DEF gets_backspace, Front
    <3>2. Len(input_line) > 0
      BY <1>5, <3>1
    <3> DEFINE m == Len(input_line) - 1
    <3>3. m \in Nat /\ m <= Len(input_line) /\ input_line' = SubSeq(input_line, 1, m)
      BY <2>1, <3>1, <3>2
    <3>4. input_line' \in Seq(Printable) /\ Len(input_line') = m
      <4> HIDE DEF m
      <4>1. QED
        BY <1>5, <3>3
    <3>5. QED
      BY <2>1, <3>4 DEF room
  <2>4. QED
    BY <2>2, <2>3
<1>7. InputOK'
  BY <1>4, <1>6 DEF InputOK
<1>8. QED
  BY <1>2, <1>3, <1>4, <1>7 DEF LineInv

-----------------------------------------------------------------------------
(* The theorems. *)

LEMMA LineInit == Init => LineInv
<1> SUFFICES ASSUME Init PROVE LineInv
  OBVIOUS
<1>1. ModeOK /\ InputOK
  <2>1. <<>> \in Seq(Printable) /\ Len(<<>>) = 0 /\ max_length - 1 > 0
    BY Sizes DEF max_length
  <2>2. QED
    BY <2>1 DEF Init, ModeOK, InputOK
<1>2. BufferOK /\ ScreenOK
  <2>1. buffer \in Array /\ pos = 0 /\ terminal = EmptyScreen
    BY DEF Init, Array
  <2>2. 0 \in Cells /\ 0..0 - 1 = {}
    BY Sizes DEF Cells
  <2>3. ScreenIs(terminal)
    BY <2>1, <2>2, EmptyIs DEF ScreenIs
  <2>4. QED
    BY <2>1, <2>2, <2>3 DEF BufferOK, ScreenOK
<1>3. RingOK
  <2>1. NewUser \in Accounts /\ NewUser.back = 0
    BY Sizes DEF NewUser, Accounts
  <2>2. QED
    BY <2>1, Sizes DEF Init, RingOK
<1>4. AccountOK
  <2>1. ASSUME NEW n \in 1..HISTORY_SIZE PROVE command_history[Place(n)] = Earlier(user.log, n)
    <3>1. Place(n) \in 0..HISTORY_SIZE - 1
      BY <1>3, PlaceIs
    <3>2. command_history[Place(n)] = <<>>
      BY <3>1 DEF Init
    <3>3. user.log = <<>> /\ Len(<<>>) = 0 /\ ~(n <= 0)
      BY Sizes DEF Init, NewUser
    <3>4. QED
      BY <3>2, <3>3 DEF Earlier
  <2>2. user.back = 0
    BY DEF Init, NewUser
  <2>3. QED
    BY <2>1, <2>2 DEF AccountOK
<1>5. QED
  BY <1>1, <1>2, <1>3, <1>4 DEF LineInv

(* Every step keeps the invariant and does what the action properties say. *)
LEMMA LineStep ==
  LineInv /\ [Next]_vars => LineInv' /\ InOrder /\ DraftBack /\ LastStays
<1> SUFFICES ASSUME LineInv, [Next]_vars
             PROVE  LineInv' /\ InOrder /\ DraftBack /\ LastStays
  OBVIOUS
<1>1. CASE UNCHANGED vars
  <2>1. /\ UNCHANGED <<mode, input_line, user, buffer, pos, terminal>>
        /\ UNCHANGED <<current_history, temp_buffer, history_vars>>
    BY <1>1 DEF vars, history_vars
  <2>2. RingOK' /\ AccountOK' /\ InOrder
    BY <2>1, RingUntouched DEF LineInv, RingOK
  <2>3. ModeOK' /\ InputOK' /\ BufferOK' /\ ScreenOK' /\ LastStays
    BY <2>1 DEF LineInv, ModeOK, InputOK, InGets, max_length, BufferOK, ScreenOK, ScreenIs, LastStays
  <2>4. ~(user.back = 1 /\ key_down)
    <3>1. CASE user.back = 1 /\ key_down
      <4>1. user'.back = user.back - 1
        BY <3>1 DEF key_down, LineInv, RingOK, Accounts
      <4>2. QED
        BY <2>1, <3>1, <4>1
    <3>2. QED
      BY <3>1
  <2>5. QED
    BY <2>2, <2>3, <2>4 DEF LineInv, DraftBack
<1>2. CASE key_down
  BY <1>2, DownKeeps
<1>3. ASSUME ~key_down, Next PROVE LineInv' /\ InOrder /\ LastStays
  <2>0. ASSUME NEW c \in Bytes, key_char(c)
        PROVE  LineInv' /\ InOrder /\ LastStays
    BY <2>0, EditKeysKeep
  <2>1. ASSUME NEW c \in Printable, gets_char(c) \/ gets_last_char(c)
        PROVE  LineInv' /\ InOrder /\ LastStays
    BY <2>1, GetsKeysKeep, GetsReturnsKeeps DEF gets_last_char
  <2>2. ASSUME key_backspace \/ gets_backspace PROVE LineInv' /\ InOrder /\ LastStays
    BY <2>2, EditKeysKeep, GetsKeysKeep, Sizes
  <2>3. CASE key_up \/ key_up_overrun
    BY <2>3, UpKeeps, OverrunKeeps
  <2>4. CASE key_enter \/ key_enter_empty
    BY <2>4, EnterKeeps, EmptyEnterKeeps
  <2>5. CASE gets_enter
    BY <2>5, GetsReturnsKeeps DEF gets_enter
  <2>6. QED
    BY <1>3, <2>0, <2>1, <2>2, <2>3, <2>4, <2>5 DEF Next
<1>4. QED
  BY <1>1, <1>2, <1>3 DEF DraftBack

THEOREM LineInvariant == Spec => []LineInv
<1>1. LineInv /\ [Next]_vars => LineInv'
  BY LineStep
<1>2. QED
  BY <1>1, LineInit, PTL DEF Spec

(* Whatever bytes the keys send, the line has room for its terminator and neither
   the saved line nor a slot of the history holds more than a line. *)
THEOREM LineTypeCorrect == Spec => []TypeOK
<1>1. LineInv => TypeOK
  <2> SUFFICES ASSUME LineInv PROVE TypeOK
    OBVIOUS
  <2>1. current_history \in -1..HISTORY_SIZE - 1
    <3>1. CASE user.back = 0
      BY <3>1, Sizes DEF LineInv, RingOK
    <3>2. CASE user.back # 0
      <4>1. user.back \in 1..HISTORY_SIZE
        BY <3>2, Sizes DEF LineInv, RingOK, Accounts
      <4>2. Place(user.back) \in 0..HISTORY_SIZE - 1
        BY <4>1, PlaceIs DEF LineInv
      <4>3. QED
        BY <3>2, <4>2, Sizes DEF LineInv, RingOK
    <3>3. QED
      BY <3>1, <3>2
  <2>2. terminal.column \in 0..MAX_COMMAND_LENGTH
    BY Sizes, EmptyIs DEF LineInv, ScreenOK, ScreenIs, BufferOK, Cells
  <2>3. QED
    BY <2>1, <2>2 DEF TypeOK, LineInv, ModeOK, InputOK, BufferOK, RingOK, Accounts, Array
<1>2. QED
  BY <1>1, LineInvariant, PTL

(* The screen shows what will be executed, for every buffer, every byte a key
   may send and every width of the terminal: until the next prompt or until a
   byte is echoed that does not show as one cell or that ends the row. *)
THEOREM ScreenShowsLine == Spec => []EchoMatches
<1>1. LineInv => EchoMatches
  BY EmptyIs DEF LineInv, ScreenOK, ScreenIs, EchoMatches
<1>2. QED
  BY <1>1, LineInvariant, PTL

(* The arrows show the commands as they were typed, for every size of the ring,
   however often it has wrapped. *)
THEOREM HistoryInOrder == Spec => RecallsInOrder
<1>1. LineInv /\ [Next]_vars =>
        [user'.back # user.back /\ user'.back > 0 =>
           First(buffer', pos') =
             IF user'.back <= Len(user.log)
             THEN user.log[Len(user.log) - user'.back + 1] ELSE <<>>]_vars
  BY LineStep DEF InOrder, Earlier
<1>2. QED
  BY <1>1, LineInvariant, PTL DEF Spec, RecallsInOrder

(* The line left for the history comes back, at least as a beginning. *)
THEOREM DraftReturns == Spec => DraftComesBack
<1>1. LineInv /\ [Next]_vars =>
        [user.back = 1 /\ key_down => IsPrefix(user.draft, First(buffer', pos'))]_vars
  BY LineStep DEF DraftBack
<1>2. QED
  BY <1>1, LineInvariant, PTL DEF Spec, DraftComesBack

(* A terminator in the last cell of the buffer is there for good. *)
THEOREM TerminatorKept == Spec => TerminatorStays
<1>1. LineInv /\ [Next]_vars =>
        [LET last == MAX_COMMAND_LENGTH - 1
         IN buffer[last] = NUL => buffer'[last] = NUL]_vars
  BY LineStep DEF LastStays
<1>2. QED
  BY <1>1, LineInvariant, PTL DEF Spec, TerminatorStays
=============================================================================
