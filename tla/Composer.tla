------------------------------ MODULE Composer ------------------------------
(***************************************************************************)
(* The line the user edits (src/volley/cli.py): _TurnInputReader while a   *)
(* turn runs, _read_tty_prompt between turns.  Both give a key to the same *)
(* operations; Press is one key.                                           *)
(*                                                                         *)
(* A text is a sequence of characters, a cursor the number of characters   *)
(* before it.  Rendering, escape sequences byte by byte and the decoding of*)
(* UTF-8 are left out: a key is its name, a pasted text one key.           *)
(***************************************************************************)
EXTENDS Integers, SequencesExt, FiniteSetsExt

CONSTANTS
  Commands   \* _SLASH_COMMANDS, with what each does to the conversation

ASSUME CommandsAssumption ==
  \A i \in DOMAIN Commands :
    DOMAIN Commands[i] = {"name", "aliases", "args", "during", "implemented", "listed", "does"}

Newline == "\n"
Space(c) == c \in {" ", Newline}
Undismissed == <<"none">>   \* no first line: _slash_dismissed_for is None

Blank == [text |-> <<>>, cursor |-> 0, kill |-> <<>>, sel |-> 0, key |-> <<>>, dismissed |-> Undismissed]
Draft(t, c) == [Blank EXCEPT !.text = t, !.cursor = Max({0, Min({Len(t), c})})]

From(t, c) == SubSeq(t, c + 1, Len(t))
Upto(t, c) == SubSeq(t, 1, c)
Splice(t, a, s, b) == Upto(t, a) \o s \o From(t, b)

-----------------------------------------------------------------------------
(* Moving and killing.                                                     *)

LineStart(t, c) == Max({0} \cup {p \in 1..c : t[p] = Newline})
LineEnd(t, c) == Min({Len(t)} \cup {p \in c..(Len(t) - 1) : t[p + 1] = Newline})

\* _move_cursor_vertical
Above(t, c) ==
  LET start == LineStart(t, c) IN
  IF start = 0 THEN c ELSE Min({LineStart(t, start - 1) + c - start, start - 1})
Below(t, c) ==
  LET end == LineEnd(t, c) IN
  IF end = Len(t) THEN c ELSE Min({end + 1 + c - LineStart(t, c), LineEnd(t, end + 1)})

\* _apply_prompt_escape_sequence, as far as it moves
Moved(t, c) ==
  [Left |-> Max({0, c - 1}), Right |-> Min({Len(t), c + 1}),
   Home |-> LineStart(t, c), End |-> LineEnd(t, c), Up |-> Above(t, c), Down |-> Below(t, c),
   \* _apply_prompt_control_key: at the end of a line on to the next one
   CtrlA |-> IF c = LineStart(t, c) /\ c > 0 THEN LineStart(t, c - 1) ELSE LineStart(t, c),
   CtrlE |-> IF c = LineEnd(t, c) /\ c < Len(t) THEN LineEnd(t, c + 1) ELSE LineEnd(t, c)]
Moves == {"Left", "Right", "Home", "End", "Up", "Down", "CtrlA", "CtrlE"}

\* what a key takes out: from where to where
Cut(t, c) ==
  [Backspace |-> <<Max({0, c - 1}), c>>,
   Delete |-> <<c, Min({Len(t), c + 1})>>,
   CtrlK |-> <<c, IF c = LineEnd(t, c) THEN Min({Len(t), c + 1}) ELSE LineEnd(t, c)>>,
   CtrlU |-> <<IF c = LineStart(t, c) THEN Max({0, c - 1}) ELSE LineStart(t, c), c>>]
Cuts == {"Backspace", "Delete", "CtrlK", "CtrlU"}

Removed(e, k) ==
  LET cut == Cut(e.text, e.cursor)[k] IN
  [e EXCEPT !.text = Splice(e.text, cut[1], <<>>, cut[2]), !.cursor = cut[1],
            !.kill = IF k \in {"CtrlK", "CtrlU"} /\ cut[1] < cut[2]
                     THEN SubSeq(e.text, cut[1] + 1, cut[2]) ELSE @]
Inserted(e, s) ==
  [e EXCEPT !.text = Splice(e.text, e.cursor, s, e.cursor), !.cursor = @ + Len(s)]

-----------------------------------------------------------------------------
(* The palette of commands under a line that begins with a slash.          *)

FirstLine(t) == Upto(t, LineEnd(t, 0))
NameEnd(t) ==
  LET end == LineEnd(t, 0) IN
  Min({end} \cup {p \in 1..(end - 1) : Space(t[p + 1])})
SlashName(t) == SubSeq(t, 2, NameEnd(t))
Rest(t) ==
  LET name == NameEnd(t)
      end == LineEnd(t, 0)
      after == {p \in name..(end - 1) : ~Space(t[p + 1])} IN
  SubSeq(t, (IF after = {} THEN name ELSE Min(after)) + 1, end)

\* _slash_command_under_cursor
UnderCursor(e) ==
  /\ e.text # <<>> /\ e.text[1] = "/"
  /\ e.cursor <= NameEnd(e.text)

\* _slash_palette_rows_for_name
Names(command) == {command.name} \cup command.aliases
Listed == SelectSeq(Commands, LAMBDA command : command.implemented /\ command.listed)
AllNames == UNION {Names(Commands[i]) : i \in DOMAIN Commands}
\* the commands with one of these names
Pick(names) ==
  SelectSeq(Commands, LAMBDA command : command.implemented /\ Names(command) \cap names # {})
Subsequence(q, n) ==
  \E at \in [DOMAIN q -> DOMAIN n] :
    /\ \A i \in DOMAIN q : n[at[i]] = q[i]
    /\ \A i, j \in DOMAIN q : i < j => at[i] < at[j]
RowsForName(q) ==
  LET exact == Pick({q})
      rest == SelectSeq(Pick({n \in AllNames : IsPrefix(q, n)}), LAMBDA command : q \notin Names(command)) IN
  IF q = <<>> THEN Listed
  ELSE IF exact \o rest # <<>> THEN exact \o rest
  ELSE Pick({n \in AllNames : Subsequence(q, n)})

Shown(e) == UnderCursor(e) /\ e.dismissed # FirstLine(e.text)
\* _slash_palette_rows_for_buffer
Rows(e) ==
  IF Shown(e) /\ (SlashName(e.text) # <<>> \/ Rest(e.text) = <<>>)
  THEN RowsForName(SlashName(e.text)) ELSE <<>>

\* _current_slash_rows: the selection is that of one first line
Chosen(e) ==
  LET key == IF Shown(e) THEN FirstLine(e.text) ELSE <<>>
      sel == IF key = e.key THEN e.sel ELSE 0 IN
  [e EXCEPT !.key = key,
            !.sel = IF Rows(e) = <<>> THEN sel ELSE Min({sel, Len(Rows(e)) - 1})]
\* _sync_slash_after_edit
Synced(e) ==
  Chosen(IF FirstLine(e.text) = e.dismissed THEN e ELSE [e EXCEPT !.dismissed = Undismissed])

\* _slash_selected_completion_text; none if no row is shown
Completion(e, spaced) ==
  LET t == e.text
      row == Rows(e)[Max({0, Min({e.sel, Len(Rows(e)) - 1})}) + 1].name
      tail == From(t, NameEnd(t)) IN
  <<"/">> \o row
    \o (IF spaced /\ ~(tail # <<>> /\ tail[1] = " ") THEN <<" ">> ELSE <<>>)
    \o tail
\* _complete_slash_selection
Completed(e) ==
  LET t == Completion(e, TRUE) IN
  Synced([e EXCEPT !.text = t, !.cursor = LineEnd(t, 0), !.dismissed = FirstLine(t)])

-----------------------------------------------------------------------------
(* One key.                                                                *)

\* _handle_chunk and _handle_escape_sequence, for a key that submits nothing
Press(e, k) ==
  LET rows == Rows(Chosen(e))
      turn(d) == [Chosen(e) EXCEPT !.sel = (@ + d) % Len(rows)] IN
  CASE k = "Up" /\ rows # <<>> -> turn(-1)
    [] k = "Down" /\ rows # <<>> -> turn(1)
    [] k = "Esc" -> IF rows # <<>> THEN [Chosen(e) EXCEPT !.dismissed = FirstLine(e.text)] ELSE e
    [] k = "Tab" -> IF Rows(e) # <<>> THEN Completed(e) ELSE e
    [] k = "/" /\ Rows(e) # <<>> -> Completed(e)
    [] k = "CtrlY" -> Synced(Inserted(e, e.kill))
    [] k \in Cuts -> Synced(Removed(e, k))
    [] k \in Moves /\ ~(k \in {"Up", "Down"} /\ rows # <<>>) -> Synced([e EXCEPT !.cursor = Moved(e.text, e.cursor)[k]])
    [] OTHER -> Synced(Inserted(e, <<k>>))

\* Enter: the text with the command the palette shows; Esc: whether it interrupts
Entered(e) == IF Rows(e) # <<>> THEN Completion(e, FALSE) ELSE e.text
Interrupts(e) == Rows(Chosen(e)) = <<>>

\* _read_tty_prompt: the same keys, until one ends the line; there is nothing
\* for Esc to interrupt, and C-d ends an empty line without a text
Opened(e) == [edit |-> e, end |-> "open"]
Prompted(p, k) ==
  CASE p.end # "open" -> p
    [] k = "Enter" -> [edit |-> Draft(Entered(p.edit), 0), end |-> "line"]
    [] k = "CtrlD" /\ p.edit.text = <<>> -> [p EXCEPT !.end = "none"]
    [] OTHER -> Opened(Press(p.edit, IF k = "CtrlD" THEN "Delete" ELSE k))

-----------------------------------------------------------------------------
(* What a submitted text is.                                               *)

Stripped(t) ==
  LET solid == {i \in DOMAIN t : ~Space(t[i])} IN
  IF solid = {} THEN <<>> ELSE From(t, Min(solid) - 1)
\* _parse_slash_name, whose name is not empty
HasName(t) == t # <<>> /\ t[1] = "/" /\ NameEnd(t) > 1
NoCommand == [name |-> <<>>, aliases |-> {}, args |-> FALSE, during |-> TRUE, implemented |-> FALSE,
              listed |-> FALSE, does |-> "nothing"]
\* _parse_interactive_slash
Parsed(text) ==
  LET t == Stripped(text)
      name == SlashName(t)
      bare == Stripped(Rest(t)) = <<>>
      fits == {i \in DOMAIN Commands :
                 /\ Commands[i].implemented /\ name \in Names(Commands[i])
                 /\ bare \/ Commands[i].args} IN
  IF ~HasName(t) \/ fits = {} THEN NoCommand ELSE Commands[Min(fits)]
\* a name the interface does not know, that is no path
Unknown(text) ==
  LET t == Stripped(text) IN
  Parsed(text) = NoCommand /\ HasName(t) /\ "/" \notin ToSet(SlashName(t))

=============================================================================
