------------------------------ MODULE Question ------------------------------
(***************************************************************************)
(* The question a tool puts to the user (src/volley/cli.py):               *)
(* _prompt_request_user_input asks one after the other, each read key by   *)
(* key by _read_request_user_input_answer.                                 *)
(***************************************************************************)
EXTENDS Integers, Sequences
LOCAL INSTANCE FiniteSetsExt
LOCAL INSTANCE SequencesExt

Other == "None of the above"

\* _request_user_input_options, of the labels the tool gave
Options(labels, isOther) ==
  LET given == SelectSeq(labels, LAMBDA l : l # "") IN
  IF given # <<>> /\ isOther THEN Append(given, Other) ELSE given

Asked(options) ==
  [selected |-> 0, notes |-> <<>>, state |-> "open", answer |-> <<>>, mode |-> IF options = <<>> THEN "notes" ELSE "options"]

Blank(notes) == \A i \in DOMAIN notes : notes[i] \in {" ", "\n"}
\* _request_user_input_values_for_selection; the note goes without the blanks
\* around it
Values(option, notes) == <<option>> \o IF Blank(notes) THEN <<>> ELSE <<notes>>

Digits == <<"1", "2", "3", "4", "5", "6", "7", "8", "9">>
NumberOf(k) == IF k \in ToSet(Digits) THEN CHOOSE i \in DOMAIN Digits : Digits[i] = k ELSE 0

Answered(q, values) == [q EXCEPT !.state = "answered", !.answer = values]
Noted(q, k) == [q EXCEPT !.mode = "notes", !.notes = Append(@, k)]

\* Enter
Chosen(q, options) ==
  IF options = <<>> THEN Answered(q, IF Blank(q.notes) THEN <<>> ELSE <<q.notes>>)
  ELSE IF q.mode = "options" /\ options[q.selected + 1] = Other THEN [q EXCEPT !.mode = "notes"]
  ELSE Answered(q, Values(options[q.selected + 1], q.notes))

\* Esc, which in the notes clears them first
Escaped(q, options) ==
  IF q.mode = "notes" /\ q.notes # <<>>
  THEN [q EXCEPT !.notes = <<>>, !.mode = IF options = <<>> THEN "notes" ELSE "options"]
  ELSE [q EXCEPT !.state = "cancelled"]

Erased(q, options) ==
  IF q.mode # "notes" THEN q
  ELSE IF q.notes # <<>> THEN [q EXCEPT !.notes = Front(@)]
  ELSE [q EXCEPT !.mode = IF options = <<>> THEN @ ELSE "options"]

\* a character: the number of an option, or the beginning of a note
Typed(q, options, k) ==
  LET i == NumberOf(k) IN
  IF q.mode = "options" /\ i \in DOMAIN options
  THEN [q EXCEPT !.selected = i - 1, !.mode = IF options[i] = Other THEN "notes" ELSE @]
  ELSE Noted(q, k)

Key(q, options, k) ==
  LET turned(d) == IF options = <<>> THEN q ELSE [q EXCEPT !.selected = (@ + d) % Len(options)] IN
  CASE k = "Backspace" -> Erased(q, options)
    [] k = "Tab" -> IF options = <<>> THEN q
                    ELSE [q EXCEPT !.mode = IF @ = "options" THEN "notes" ELSE "options"]
    [] k = "Enter" -> Chosen(q, options)
    [] k = "Newline" -> IF q.mode = "notes" THEN [q EXCEPT !.notes = Append(@, "\n")] ELSE Chosen(q, options)
    [] k = "Up" -> turned(-1)
    [] k = "Down" -> turned(1)
    [] k = "Esc" -> Escaped(q, options)
    [] k = "Paste" -> Noted(q, k)
    [] OTHER -> Typed(q, options, k)

\* the answers to all questions, or none if one was cancelled
Response(qs) ==
  IF \E i \in DOMAIN qs : qs[i].state = "cancelled" THEN <<>> ELSE [i \in DOMAIN qs |-> qs[i].answer]

-----------------------------------------------------------------------------
(* Over every sequence of keys, up to a length.                            *)

After(options, keys, most) ==
  LET Reached[n \in 0..most] ==
        IF n = 0 THEN {Asked(options)}
        ELSE Reached[n - 1] \cup {Key(q, options, k) : q \in {r \in Reached[n - 1] : r.state = "open"}, k \in keys} IN
  Reached[most]

(* An answer is an option that was offered, with every note the user left  *)
(* standing; the option is the one shown as selected, and "None of the     *)
(* above" is only answered from the notes it asks for; Esc cancels only    *)
(* when it has no note to clear (_read_request_user_input_answer).         *)
AnswersAreMeant(options, keys, most) ==
  \A q \in After(options, keys, most) :
    /\ options # <<>> => q.selected < Len(options)
    /\ q.state = "answered" =>
         IF options = <<>> THEN q.answer = <<>> <=> Blank(q.notes)
         ELSE /\ q.answer[1] = options[q.selected + 1]
              /\ Len(q.answer) = 2 <=> ~Blank(q.notes)
              /\ q.answer[1] = Other => q.mode = "notes"
    /\ q.state = "cancelled" => q.mode = "options" \/ q.notes = <<>>

=============================================================================
