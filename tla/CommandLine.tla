----------------------------- MODULE CommandLine -----------------------------
(***************************************************************************)
(* What happens between the keyboard and a command: the two line readers   *)
(* of the system, console_gets_with_history of the shell (kernel/shell/    *)
(* shell.c), with its ring of earlier commands, and console_gets of the    *)
(* console driver (kernel/drivers/console.c), which the test at boot and   *)
(* `edit' use; the loop of the shell; parse_command, which cuts the line   *)
(* up in place; and the terminal the readers echo to.  Readers and         *)
(* commands take turns: each gets the keys the one before left over.       *)
(* A key is one action.  The buffers are C arrays, what is left in them    *)
(* from earlier lines included.  Definitions marked Variant are slips the  *)
(* next definition avoids.                                                 *)
(***************************************************************************)
EXTENDS Integers, SequencesExt

CONSTANTS
  Bytes,               \* what keys send, but those the readers act on, and memory holds
  Printable,           \* the bytes the terminal shows as one cell
  Space, Tab, NUL,
  COLUMNS,             \* cells the terminal has behind the longest prompt
  MAX_COMMAND_LENGTH,  \* cells of the shell's buffer
  MAX_ARGS, HISTORY_SIZE,
  TEST_BUFFER,         \* cells console_gets may fill in the test at boot
  MAX_LINE,            \* and in `edit'
  Edit, Panic,         \* the names of the commands that do not just return
  EditQuits,           \* the lines `edit' takes for :q and :wq
  MaxCommands          \* bound: lines entered at the prompt

ASSUME LineAssumption ==
  /\ NUL \in Bytes /\ Space \in Printable /\ Printable \cap {Tab, NUL} = {} /\ Tab # NUL
  /\ COLUMNS \in Nat \ {0}
  /\ {MAX_COMMAND_LENGTH, MAX_ARGS, HISTORY_SIZE, MaxCommands} \subseteq Nat \ {0}
  /\ {TEST_BUFFER, MAX_LINE} \subseteq Nat \ {0, 1}
  /\ {Edit, Panic} \cup EditQuits \subseteq Seq(Printable) \ {<<>>}

VARIABLES
  mode,            \* who reads: "boot", "shell", "edit"; or "halted", "overrun"
  buffer,          \* input_buffer of shell_run, written by whoever has its address
  pos,
  current_history, \* -1: not in the history
  temp_buffer,     \* the line as it was when the user went into the history
  command_history, history_count,
  input_line,      \* the line console_gets is reading
  terminal,        \* what stands after the prompt and where the cursor is
  user             \* what the user would say happened (for the properties)

vars == <<mode, buffer, pos, current_history, temp_buffer, command_history,
          history_count, input_line, terminal, user>>
line_vars == <<buffer, pos, current_history, temp_buffer, terminal>>
history_vars == <<command_history, history_count>>

Cells == 0..MAX_COMMAND_LENGTH - 1

-----------------------------------------------------------------------------
(* Strings in arrays (lib/string.c). *)

Terminated(b) == \E i \in Cells : b[i] = NUL
strlen(b) == Min({i \in Cells : b[i] = NUL})
First(b, n) == [i \in 1..n |-> b[i - 1]]
Text(b) == First(b, strlen(b))

\* The cells behind the terminator stay as they are.
strcpy(b, text) ==
  [i \in Cells |-> CASE i < Len(text) -> text[i + 1]
                     [] i = Len(text) -> NUL
                     [] OTHER -> b[i]]

-----------------------------------------------------------------------------
(* The terminal: the row behind the prompt.  What a tab, another control byte *)
(* or a text that fills the row does to it is up to the terminal, and nothing *)
(* is told of it then until the next prompt.                                  *)

EmptyScreen == [told |-> TRUE, column |-> 0, shown |-> [i \in Cells |-> Space]]
Untold == [EmptyScreen EXCEPT !.told = FALSE]

\* '\b' moves the cursor and changes nothing.
Back(t, n) == [t EXCEPT !.column = Max({@ - n, 0})]

console_puts(t, text) ==
  IF t.told /\ t.column + Len(text) < COLUMNS /\ \A i \in 1..Len(text) : text[i] \in Printable
  THEN [told |-> TRUE,
        column |-> t.column + Len(text),
        shown |-> [i \in Cells |-> IF i >= t.column /\ i < t.column + Len(text)
                                   THEN text[i - t.column + 1] ELSE t.shown[i]]]
  ELSE Untold

-----------------------------------------------------------------------------
(* A line cut into arguments and what the command does to the dialogue. *)

Blanks == {Space, Tab}

\* Where words begin; the first MAX_ARGS of them are arguments.
Words(text) == {i \in 1..Len(text) : text[i] \notin Blanks /\ (i = 1 \/ text[i - 1] \in Blanks)}
Arguments(text) == {i \in Words(text) : Cardinality({j \in Words(text) : j < i}) < MAX_ARGS}
WordEnd(text, i) == Min({j \in i..Len(text) : text[j] \in Blanks} \cup {Len(text) + 1})
argc(text) == Cardinality(Arguments(text))
argv0(text) == LET i == Min(Arguments(text)) IN SubSeq(text, i, WordEnd(text, i) - 1)

\* Each argument but one that ends the line gets a NUL behind it.
parse_command(b) ==
  LET ends == {WordEnd(Text(b), i) : i \in Arguments(Text(b))}
  IN [i \in Cells |-> IF i + 1 \in ends THEN NUL ELSE b[i]]

\* exit and quit print Goodbye and return like every other command; edit
\* without a name prints how it is used.
AfterCommand(text) ==
  CASE argc(text) = 0 -> "shell"
    [] argc(text) > 0 /\ argv0(text) = Panic -> "halted"
    [] argc(text) > 1 /\ argv0(text) = Edit -> "edit"
    [] OTHER -> "shell"

-----------------------------------------------------------------------------
(* The user's side: the last HISTORY_SIZE lines entered, how many lines back  *)
(* the arrows have gone, the line left for the history, and whether the       *)
(* present line of console_gets continues one that was taken for being full.  *)

NewUser == [log |-> <<>>, back |-> 0, draft |-> <<>>, continued |-> FALSE]

Remembered(log, line) ==
  LET all == Append(log, line)
  IN SubSeq(all, Max({1, Len(all) - HISTORY_SIZE + 1}), Len(all))

\* The line on the way, as far as a NUL in it if one was typed.
Typed == First(buffer, Min({i \in 0..pos - 1 : buffer[i] = NUL} \cup {pos}))

-----------------------------------------------------------------------------
(* The shell reads a line: console_gets_with_history. *)

AtPrompt == mode = "shell"

\* What a new call starts with; the buffer is the one of the call before.
NewLine ==
  /\ pos' = 0
  /\ current_history' = -1
  /\ temp_buffer' = <<>>
  /\ terminal' = EmptyScreen

\* Variant: the last cell is not kept for the terminator.
HasRoomTight == pos < MAX_COMMAND_LENGTH

\* Bytes a full line has no room for are dropped in silence.
HasRoom == pos < MAX_COMMAND_LENGTH - 1

\* Every byte no other key stands for is stored and echoed, a NUL too.
key_char(c) ==
  /\ AtPrompt
  /\ HasRoom
  /\ buffer' = [buffer EXCEPT ![pos] = c]
  /\ pos' = pos + 1
  /\ terminal' = console_puts(terminal, <<c>>)
  /\ UNCHANGED <<mode, current_history, temp_buffer, history_vars, input_line, user>>

\* Variant: the blank is written without going back first.
key_backspace_blind ==
  /\ AtPrompt
  /\ pos > 0
  /\ pos' = pos - 1
  /\ terminal' = Back(console_puts(terminal, <<Space>>), 1)
  /\ UNCHANGED <<mode, buffer, current_history, temp_buffer, history_vars, input_line, user>>

\* The character stays in the buffer.
key_backspace ==
  /\ AtPrompt
  /\ pos > 0
  /\ pos' = pos - 1
  /\ terminal' = Back(console_puts(Back(terminal, 1), <<Space>>), 1)
  /\ UNCHANGED <<mode, buffer, current_history, temp_buffer, history_vars, input_line, user>>

Slot(n) == n % HISTORY_SIZE

\* Show a line over the old one, of which the longer end stays on the screen.
Recall(text) ==
  /\ buffer' = strcpy(buffer, text)
  /\ pos' = Len(text)
  /\ terminal' = console_puts(Back(terminal, pos), text)

\* Variant: the first step back goes to the slot the next command will fill.
StepBackFromNext ==
  IF current_history = -1 THEN Slot(history_count)
  ELSE IF current_history # Slot(history_count)
       THEN Slot(current_history - 1 + HISTORY_SIZE) ELSE current_history

\* The oldest slot is the one the next command will fill.
StepBack ==
  IF current_history = -1 THEN Slot(history_count - 1)
  ELSE IF current_history # Slot(history_count)
       THEN Slot(current_history - 1 + HISTORY_SIZE) ELSE current_history

\* An array full of characters: the copy to temp_buffer runs past both.
key_up_overrun ==
  /\ AtPrompt
  /\ history_count > 0
  /\ current_history = -1 /\ ~Terminated(buffer)
  /\ mode' = "overrun"
  /\ UNCHANGED <<line_vars, history_vars, input_line, user>>

\* Variant: the line is not saved.
NothingSaved == temp_buffer

\* The first step back saves the line, up to its NUL, which need not be at pos.
Saved == IF current_history = -1 THEN Text(buffer) ELSE temp_buffer

key_up ==
  /\ AtPrompt
  /\ history_count > 0
  /\ current_history = -1 => Terminated(buffer)
  /\ temp_buffer' = Saved
  /\ current_history' = StepBack
  /\ Recall(command_history[StepBack])
  /\ user' = [user EXCEPT !.draft = IF user.back = 0 THEN Typed ELSE @,
                          !.back = Min({@ + 1, HISTORY_SIZE})]
  /\ UNCHANGED <<mode, history_vars, input_line>>

Forward == Slot(current_history + 1)

key_down ==
  /\ AtPrompt
  /\ current_history # -1
  /\ IF Forward = Slot(history_count)
     THEN Recall(temp_buffer) /\ current_history' = -1
     ELSE Recall(command_history[Forward]) /\ current_history' = Forward
  /\ user' = [user EXCEPT !.back = @ - 1, !.draft = IF user.back = 1 THEN <<>> ELSE @]
  /\ UNCHANGED <<mode, temp_buffer, history_vars, input_line>>

entered_line == [buffer EXCEPT ![pos] = NUL]

\* Variant: the line goes into the history as the parser left it.
EnteredAfterParsing ==
  LET parsed == parse_command(entered_line) IN [buffer |-> parsed, text |-> Text(parsed)]

\* Enter terminates the line; the history gets it before it is cut up.
Entered == [buffer |-> parse_command(entered_line), text |-> Text(entered_line)]

key_enter ==
  /\ AtPrompt
  /\ pos > 0
  /\ history_count < MaxCommands
  /\ buffer' = Entered.buffer
  /\ command_history' = [command_history EXCEPT ![Slot(history_count)] = Entered.text]
  /\ history_count' = history_count + 1
  /\ mode' = AfterCommand(Text(entered_line))
  /\ user' = [NewUser EXCEPT !.log = Remembered(user.log, Typed)]
  /\ NewLine /\ UNCHANGED input_line

\* An empty line is not a command and not remembered; one that begins with a
\* NUL is no command either, but is.
key_enter_empty ==
  /\ AtPrompt
  /\ pos = 0
  /\ buffer' = [buffer EXCEPT ![0] = NUL]
  /\ user' = [NewUser EXCEPT !.log = user.log]
  /\ NewLine /\ UNCHANGED <<mode, history_vars, input_line>>

-----------------------------------------------------------------------------
(* console_gets: the test of the keyboard at boot and the lines of `edit'.    *)
(* Bytes that are not printable are ignored one by one, so an arrow key comes *)
(* out as the two printable characters its sequence ends with.                *)

InGets == mode \in {"boot", "edit"}
max_length == IF mode = "boot" THEN TEST_BUFFER ELSE MAX_LINE

\* What follows a line; one that is full needs no Enter.
gets_returns(line, full) ==
  /\ input_line' = <<>>
  /\ mode' = IF mode = "boot" \/ line = <<>> \/ line \in EditQuits THEN "shell" ELSE mode
  /\ user' = [user EXCEPT !.continued = full /\ mode' = "edit"]
  /\ UNCHANGED <<line_vars, history_vars>>

gets_char(c) ==
  /\ InGets
  /\ Len(input_line) < max_length - 2
  /\ input_line' = Append(input_line, c)
  /\ UNCHANGED <<mode, line_vars, history_vars, user>>

gets_last_char(c) ==
  InGets /\ Len(input_line) = max_length - 2 /\ gets_returns(Append(input_line, c), TRUE)

gets_backspace ==
  /\ InGets
  /\ input_line # <<>>
  /\ input_line' = Front(input_line)
  /\ UNCHANGED <<mode, line_vars, history_vars, user>>

gets_enter == InGets /\ gets_returns(input_line, FALSE)

-----------------------------------------------------------------------------
\* input_buffer starts as whatever the stack holds; the history is zeroed.
Init ==
  /\ mode = "boot"
  /\ buffer \in [Cells -> Bytes]
  /\ pos = 0 /\ current_history = -1 /\ temp_buffer = <<>>
  /\ terminal = EmptyScreen
  /\ command_history = [i \in 0..HISTORY_SIZE - 1 |-> <<>>]
  /\ history_count = 0
  /\ input_line = <<>>
  /\ user = NewUser

Next ==
  \/ \E c \in Bytes : key_char(c)
  \/ \E c \in Printable : gets_char(c) \/ gets_last_char(c)
  \/ key_backspace \/ key_up \/ key_up_overrun \/ key_down
  \/ key_enter \/ key_enter_empty
  \/ gets_backspace \/ gets_enter

Spec == Init /\ [][Next]_vars

-----------------------------------------------------------------------------
(* Properties. *)

Lines == SeqOf(Bytes \ {NUL}, MAX_COMMAND_LENGTH - 1)

(* The variables have their types, the line has room for its terminator, and
   no slot of the history holds more than a line. *)
TypeOK ==
  /\ mode \in {"boot", "shell", "edit", "halted", "overrun"}
  /\ buffer \in [Cells -> Bytes]
  /\ pos \in Cells
  /\ current_history \in -1..HISTORY_SIZE - 1
  /\ temp_buffer \in Lines
  /\ command_history \in [0..HISTORY_SIZE - 1 -> Lines]
  /\ history_count \in 0..MaxCommands
  /\ Len(input_line) < max_length - 1
  /\ terminal.column \in 0..MAX_COMMAND_LENGTH
  /\ user.back \in 0..HISTORY_SIZE

(* The screen shows what will be executed: the cursor stands behind the last
   character of the line and the cells before it show the line, whatever keys
   and arrows came before.  This is so as long as everything echoed since the
   prompt showed as one cell and left the cursor in its row; the shell echoes
   tabs and other control bytes as it gets them, counts each as one column,
   and does not know how long a row is. *)
EchoMatches ==
  AtPrompt /\ terminal.told =>
    /\ terminal.column = pos
    /\ \A i \in 0..pos - 1 : terminal.shown[i] = buffer[i]

(* The arrows show the commands in the order they were entered and as they
   were typed, not as the parser cut them up, before and after the ring has
   wrapped: n steps back is the n-th last command, and an empty line where
   there are fewer.  A line with a NUL typed into it ends there. *)
RecallsInOrder ==
  [][user'.back # user.back /\ user'.back > 0 =>
       First(buffer', pos') =
         IF user'.back <= Len(user.log)
         THEN user.log[Len(user.log) - user'.back + 1] ELSE <<>>]_vars

(* The line that was being typed when the user went into the history comes
   back, at least as the beginning of the line, when the arrows have gone as
   far down as up. *)
DraftComesBack ==
  [][user.back = 1 /\ key_down => IsPrefix(user.draft, First(buffer', pos'))]_vars

(* A terminator in the last cell of the buffer is never overwritten, so from
   then on no copy of the line can run past the array. *)
TerminatorStays ==
  [][LET last == MAX_COMMAND_LENGTH - 1
     IN buffer[last] = NUL => buffer'[last] = NUL]_vars

(* `empty line - finish editing': without :q or :wq a session of edit ends at a
   line the user left empty, not at the Enter behind a line that was full. *)
EmptyLineFinishes ==
  [][mode = "edit" /\ mode' = "shell" => input_line \in EditQuits \/ ~user.continued]_vars

=============================================================================
