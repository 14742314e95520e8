------------------------------- MODULE MCChat -------------------------------
(***************************************************************************)
(* Chat for TLC, with a small table of commands, and the line editor over  *)
(* every sequence of a few keys.  A name is a letter or two: c is /compact,*)
(* pl /plan, pr another that prints something beside a turn, ...           *)
(***************************************************************************)
EXTENDS Chat, MCForms
S == INSTANCE Screen
Q == INSTANCE Question

Entry(name, during, does) ==
  [name |-> name, aliases |-> {}, args |-> FALSE, during |-> during, implemented |-> TRUE,
   listed |-> TRUE, does |-> does]

MCCommands ==
  <<Entry(<<"n">>, FALSE, "new"), Entry(<<"i">>, FALSE, "init"), Entry(<<"c">>, FALSE, "compact"),
    [Entry(<<"p", "l">>, FALSE, "plan") EXCEPT !.args = TRUE],
    [Entry(<<"g">>, TRUE, "goal") EXCEPT !.args = TRUE],
    [Entry(<<"p", "r">>, TRUE, "nothing") EXCEPT !.aliases = {<<"l">>}],
    [Entry(<<"x">>, TRUE, "exit") EXCEPT !.listed = FALSE],
    [Entry(<<"v">>, FALSE, "nothing") EXCEPT !.implemented = FALSE]>>

Words == <<"a">>
Slash(name) == <<"/">> \o name
Plan == <<"/", "p", "l", " ", "b">>
Default == <<"/", "d", " ", "b">>
MCMenus ==
  {{Words, Slash(<<"c">>), Slash(<<"p", "r">>)}, {Words, Slash(<<"n">>), Slash(<<"u">>)},
   {Plan, Default, Slash(<<"g">>)}, {Words, Slash(<<"i">>), Slash(<<"x">>)}}
MCDefault == <<"d">>
MCInit == <<"w">>

-----------------------------------------------------------------------------
(* The line editor over every sequence of five keys.                       *)

Keys == {"a", "/", "p", " ", Newline, "Left", "Up", "Down", "Home", "Tab", "Esc", "Backspace", "CtrlK", "CtrlU", "CtrlY"}
Edited ==
  LET Reached[n \in 0..5] ==
        IF n = 0 THEN {Blank} ELSE Reached[n - 1] \cup {Press(e, k) : e \in Reached[n - 1], k \in Keys} IN
  Reached[5]

(* The cursor is in the text and the selection in the palette, whatever    *)
(* the keys; Enter changes nothing behind the name of the command it       *)
(* completes; what C-k or C-u takes out C-y puts back; a line moved over   *)
(* up and down is the same line; and Esc that closes a palette leaves the  *)
(* next Esc to interrupt (_TurnInputReader).                               *)
EditorIsSound(e) ==
  /\ e.cursor \in 0..Len(e.text)
  /\ Rows(e) # <<>> => e.sel < Len(Rows(e))
  /\ \E n \in 0..Len(Entered(e)) : From(Entered(e), n) = From(e.text, NameEnd(e.text))
  /\ \A k \in {"CtrlK", "CtrlU"} :
       Press(e, k).text # e.text => Press(Press(e, k), "CtrlY").text = e.text
  /\ LineStart(e.text, Above(e.text, Below(e.text, e.cursor)))
       = IF Below(e.text, e.cursor) # e.cursor THEN LineStart(e.text, e.cursor)
         ELSE LineStart(e.text, Above(e.text, e.cursor))
  /\ ~Interrupts(e) => Interrupts(Press(e, "Esc")) /\ Press(e, "Esc").text = e.text

(* What Tab completes is a command, unless it is given something it does   *)
(* not take (_complete_slash_selection, _parse_interactive_slash).         *)
TabCompletes(e) ==
  Press(e, "Tab").text # e.text =>
    LET t == Press(e, "Tab").text IN Stripped(Rest(t)) = <<>> => Parsed(t) # NoCommand

(* C-d held down between turns takes what is behind the cursor, nothing    *)
(* before it, and ends the prompt only if nothing is left; and Esc, Esc,   *)
(* Enter sends the text as it was typed, whatever the palette offered      *)
(* (_read_tty_prompt).                                                     *)
PromptKeepsText(e) ==
  LET held == FoldLeft(Prompted, Opened(e), [i \in 1..(Len(e.text) + 1) |-> "CtrlD"]) IN
  /\ held.edit.text = Upto(e.text, e.cursor)
  /\ held.end = "none" <=> e.cursor = 0
  /\ FoldLeft(Prompted, Opened(e), <<"Esc", "Esc", "Enter">>).edit.text = e.text

ASSUME EditorAssumption == \A e \in Edited : EditorIsSound(e) /\ TabCompletes(e) /\ PromptKeepsText(e)
ASSUME ScreenAssumption ==
  /\ S!WindowShowsCursor(1..20, {S!BodyLines(r) : r \in 1..30})
  /\ S!CursorStaysInBox(0..5, {0, 1, 2}, 2..3)
  /\ S!SelectionIsShown(1..20, 8)
ASSUME QuestionAssumption ==
  \A options \in {Q!Options(<<"A", "", "B">>, TRUE), Q!Options(<<"A">>, FALSE), Q!Options(<<>>, TRUE)} :
    Q!AnswersAreMeant(options, {"Up", "Down", "Tab", "Enter", "Newline", "Esc", "Backspace", "2", "3", "9", "a", " ", "Paste"}, 5)

=============================================================================
