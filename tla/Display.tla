------------------------------- MODULE Display -------------------------------
(***************************************************************************)
(* The two ways a text gets on the screen: line by line through the        *)
(* highlighters of the code editor, or byte by byte through the commands   *)
(* of the shell.  One processor executes both, so while one is at work the *)
(* other is not.                                                           *)
(***************************************************************************)
EXTENDS Highlighter, FileViewer

vars == <<h_vars, v_vars>>

NoHighlighter == language = "C" /\ line = <<>> /\ i = 1 /\ printed = <<>>

NoViewer ==
  /\ command = "none" /\ ext = ""
  /\ file = <<>> /\ offset = 0 /\ text = <<>> /\ line_number = 1 /\ output = <<>>

Init == (HighlighterInit /\ NoViewer) \/ (ViewerInit /\ NoHighlighter)

Next ==
  \/ HighlighterNext /\ UNCHANGED v_vars
  \/ ViewerNext /\ UNCHANGED h_vars

\* Nothing but the program takes steps, and the processor goes on executing.
Spec == Init /\ [][Next]_vars /\ WF_vars(Next)

(* Every loop ends: each line the editor shows and each file a command reads
   comes to its end, whatever is in it, and the user gets the prompt back. *)
Terminates == <>(IF command = "none" THEN Shown ELSE Done)
=============================================================================
