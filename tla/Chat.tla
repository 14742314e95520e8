-------------------------------- MODULE Chat --------------------------------
(***************************************************************************)
(* A conversation in a terminal (src/volley/cli.py): _run_chat, which reads*)
(* a prompt, runs the command or the turn it asks for and then the goal's  *)
(* turns; _run_session_human_interactive, which edits, submits and         *)
(* interrupts while another thread runs the turn; the question a tool asks *)
(* across the two threads; and _run_compact_human_interactive.             *)
(*                                                                         *)
(* A prompt is a sequence of lines, each with the number of the submission *)
(* it came from: more than one after an Esc gave some back.  The turn is   *)
(* what SessionTurn models in detail; here it has one stop for each thing  *)
(* that can happen to a prompt.                                            *)
(***************************************************************************)
EXTENDS Composer

CONSTANTS
  Menus,        \* what users type: sets of texts, one set for each behaviour
  DefaultName,  \* "/default", which is no entry of the table of commands
  InitPrompt,   \* the prompt of /init
  AskModes,     \* request_user_input_available_modes
  MaxPrompts    \* bound: submissions

VARIABLES
  menu,       \* the texts of this behaviour
  main,       \* the main thread: "loop", in a "turn", a "compact"ion, the
              \* "goals" of the session, or "over"
  prompt,     \* the prompt at hand
  queue,      \* queued_prompts
  kept,       \* composer_draft
  line,       \* the line in the reader of a turn or of a compaction
  thread,     \* the thread of the turn or compaction
  asked,      \* bound: the turn asked its question
  pending,    \* _pending_input: lines given to the turn
  taken,      \* pending_items, not yet recorded
  event,      \* _interrupt_event
  escaped,    \* interrupted: Esc took the input back, then interrupts
  mode,       \* collaboration_mode of the session and its tools
  goalMode,   \* collaboration_mode of its GoalRuntime
  goal,       \* the thread has an active goal
  said,       \* ghost: the texts submitted, in order
  sent,       \* ghost: submissions in the history of the session
  ran,        \* ghost: submissions that were commands, or no known command
  behind,     \* ghost: submissions merged behind a command
  unread,     \* ghost: submissions a turn took on and Esc did not take back
  cut         \* ghost: prompts of turns interrupted before they were recorded

place  == <<menu, main, prompt, queue>>
editor == <<kept, line>>
turn   == <<thread, asked, pending, taken, event, escaped>>
modes  == <<mode, goalMode, goal>>
chatGhosts == <<said, sent, ran, behind, unread, cut>>
chatVars   == <<place, editor, turn, modes, chatGhosts>>

Texts == UNION Menus
None == <<>>
Submitted(text) == <<[text |-> text, id |-> Len(said) + 1]>>
IdsOf(p) == {p[i].id : i \in DOMAIN p}
Ids(ps) == UNION {IdsOf(ps[i]) : i \in DOMAIN ps}

ChatInit ==
  /\ menu \in Menus /\ main = "loop" /\ prompt = None /\ queue = <<>>
  /\ kept = <<>> /\ line = <<>>
  /\ thread = "none" /\ asked = FALSE /\ pending = <<>> /\ taken = <<>>
  /\ event = FALSE /\ escaped = "no"
  /\ mode = "Default" /\ goalMode = "Default" /\ goal = FALSE
  /\ said = <<>> /\ sent = {} /\ ran = {} /\ behind = {} /\ unread = {} /\ cut = {}

-----------------------------------------------------------------------------
(* _run_chat: a prompt, from the queue first, is a command or a turn.      *)

NextQueued ==
  /\ main = "loop" /\ prompt = None /\ queue # <<>>
  /\ prompt' = Head(queue) /\ queue' = Tail(queue)
  /\ UNCHANGED <<menu, main, editor, turn, modes, chatGhosts>>

\* _read_interactive_prompt starts from the draft the last turn left
ReadPrompt ==
  /\ main = "loop" /\ prompt = None /\ queue = <<>> /\ Len(said) < MaxPrompts
  /\ \E text \in IF kept = <<>> THEN menu ELSE {kept} :
       prompt' = Submitted(text) /\ said' = Append(said, text)
  /\ kept' = <<>>
  /\ UNCHANGED <<menu, main, queue, line, turn, modes, sent, ran, behind, unread, cut>>

\* the end of the input
LeaveChat ==
  /\ main = "loop" /\ prompt = None /\ queue = <<>> /\ main' = "over"
  /\ UNCHANGED <<menu, prompt, queue, editor, turn, modes, chatGhosts>>

\* /default, with or without a rest
IsDefault(t) ==
  /\ IsPrefix(<<"/">> \o DefaultName, t)
  /\ Len(t) = Len(DefaultName) + 1 \/ t[Len(DefaultName) + 2] = " "
\* what _handle_interactive_slash_command makes of a line, what is left of it,
\* and whether _submit_turn_input has it wait: a command that must not run
\* beside a turn, or no command
Meaning(t) ==
  LET command == Parsed(t)
      default == IsDefault(Stripped(t)) IN
  [does |-> IF default THEN "default"
            ELSE IF command = NoCommand /\ ~Unknown(t) THEN "turn" ELSE command.does,
   rest |-> IF default THEN Stripped(From(Stripped(t), Len(DefaultName) + 1)) ELSE Stripped(Rest(Stripped(t))),
   waits |-> (command # NoCommand /\ ~command.during) \/ Unknown(t)]
OfTexts == [t \in Texts |-> Meaning(t)]
Meanings == [t \in Texts \cup {OfTexts[u].rest : u \in Texts} \cup {InitPrompt} |-> Meaning(t)]

\* only its first line tells what a prompt is; /default is followed by a blank
Does(p) ==
  LET m == Meanings[Head(p).text] IN
  IF m.does = "default" /\ m.rest = <<>> /\ Len(p) > 1 THEN "nothing" ELSE m.does

\* a command is done; what is left of its text is the next prompt
CommandDone(left) ==
  /\ prompt' = left
  /\ ran' = ran \cup {Head(prompt).id}
  /\ behind' = behind \cup (IdsOf(prompt) \ ({Head(prompt).id} \cup IdsOf(left)))
  /\ UNCHANGED <<said, sent, unread, cut>>
Left(t) == IF t = <<>> THEN None ELSE <<[text |-> t, id |-> Head(prompt).id]>>
RestOf == Left(Meanings[Head(prompt).text].rest)
Dispatched(does) == main = "loop" /\ prompt # None /\ Does(prompt) = does

Command ==
  /\ Dispatched("nothing") /\ CommandDone(None)
  /\ UNCHANGED <<menu, main, queue, editor, turn, modes>>

Exit ==
  /\ Dispatched("exit") /\ CommandDone(None) /\ main' = "over"
  /\ UNCHANGED <<menu, queue, editor, turn, modes>>

\* _set_session_collaboration_mode: not that of the GoalRuntime
SetMode ==
  /\ \/ /\ Dispatched("plan") /\ mode' = "Plan"
        /\ CommandDone(RestOf)
     \/ /\ Dispatched("default") /\ mode' = "Default"
        /\ CommandDone(RestOf \o Tail(prompt))
  /\ UNCHANGED <<menu, main, queue, editor, turn, goalMode, goal>>

\* /new, /clear, /resume and /fork: another session, maybe with a goal
Another ==
  /\ Dispatched("new") /\ CommandDone(None)
  /\ goalMode' = mode /\ goal' \in BOOLEAN /\ event' = FALSE
  /\ UNCHANGED <<menu, main, queue, editor, thread, asked, pending, taken, escaped, mode>>

\* /init, unless there is an AGENTS.md
InitFile ==
  /\ Dispatched("init") /\ \E left \in {None, Left(InitPrompt)} : CommandDone(left)
  /\ UNCHANGED <<menu, main, queue, editor, turn, modes>>

\* _handle_goal_slash: shows, sets or clears it; what it made active goes on
SetGoal ==
  /\ Dispatched("goal") /\ CommandDone(None) /\ goal' \in BOOLEAN
  /\ main' \in IF goal' THEN {"goals", "loop"} ELSE {"loop"}
  /\ UNCHANGED <<menu, queue, editor, turn, mode, goalMode>>

StartTurn ==
  /\ Dispatched("turn") /\ main' = "turn" /\ line' = kept
  /\ thread' = "start" /\ asked' = FALSE /\ escaped' = "no"
  /\ UNCHANGED <<menu, prompt, queue, kept, pending, taken, event, modes, chatGhosts>>

\* /compact: the reader gets no draft
StartCompact ==
  /\ Dispatched("compact") /\ CommandDone(None) /\ main' = "compact" /\ line' = <<>>
  /\ thread' = "compact" /\ escaped' = "no"
  /\ UNCHANGED <<menu, queue, kept, asked, pending, taken, event, modes>>

-----------------------------------------------------------------------------
(* The main thread while a turn or a compaction runs.                      *)

Reading == main \in {"turn", "compact"} /\ escaped # "taking"

Type ==
  /\ Reading /\ line = <<>> /\ Len(said) < MaxPrompts
  /\ line' \in menu
  /\ UNCHANGED <<place, kept, turn, modes, chatGhosts>>

\* steer_input: the session has an active regular turn
Steerable == thread \in {"open", "loop", "record", "ask", "after"}

\* _submit_turn_input
Submit ==
  /\ Reading /\ line # <<>> /\ Len(said) < MaxPrompts
  /\ line' = <<>> /\ kept' = IF main = "turn" THEN <<>> ELSE kept
  /\ said' = Append(said, line)
  /\ IF Meanings[line].waits \/ ~Steerable
     THEN queue' = Append(queue, Submitted(line)) /\ UNCHANGED <<pending, unread>>
     ELSE /\ pending' = pending \o Submitted(line)
          /\ unread' = unread \cup {Len(said) + 1} /\ UNCHANGED queue
  /\ UNCHANGED <<menu, main, prompt, thread, asked, taken, event, escaped, modes, sent, ran, behind, cut>>

\* a slip: only the newest steer comes back
NewestTakenBack == IF pending = <<>> THEN <<>> ELSE <<Last(pending)>>
\* pop_pending_input_prompts_for_interrupt
TakenBack == pending
\* a slip: what was taken back waits behind the commands of the queue
RequeuedLast(q, lines) == IF lines = <<>> THEN q ELSE Append(q, lines)
\* it becomes one prompt, the next one
Requeued(q, lines) == IF lines = <<>> THEN q ELSE <<lines>> \o q

\* Esc, once for each turn: first what waits comes back ...
PressEsc ==
  /\ main = "turn" /\ escaped = "no" /\ escaped' = "taking"
  /\ queue' = Requeued(queue, TakenBack) /\ pending' = <<>>
  /\ unread' = unread \ IdsOf(pending)
  /\ UNCHANGED <<menu, main, prompt, editor, thread, asked, taken, event, modes,
                 said, sent, ran, behind, cut>>
\* ... then session.interrupt()
Interrupted ==
  /\ escaped' = "done" /\ event' = TRUE
  /\ UNCHANGED <<place, editor, thread, asked, pending, taken, modes, chatGhosts>>
Interrupt == main = "turn" /\ escaped = "taking" /\ Interrupted
EscCompact == main = "compact" /\ escaped = "no" /\ Interrupted

\* take_pending and _prompt_request_user_input: the answer, or none
Answer ==
  /\ main = "turn" /\ escaped # "taking" /\ thread = "ask" /\ thread' = "loop"
  /\ UNCHANGED <<place, editor, asked, pending, taken, event, escaped, modes, chatGhosts>>

\* the thread is dead: the draft is kept, the goal goes on
EndTurn ==
  /\ main = "turn" /\ escaped # "taking" /\ thread = "dead"
  /\ main' = "goals" /\ prompt' = None /\ kept' = line /\ line' = <<>> /\ thread' = "none"
  /\ UNCHANGED <<menu, queue, asked, pending, taken, event, escaped, modes, chatGhosts>>

\* the draft is not kept
EndCompact ==
  /\ main = "compact" /\ thread = "dead"
  /\ main' = "loop" /\ line' = <<>> /\ thread' = "none"
  /\ UNCHANGED <<menu, prompt, queue, kept, asked, pending, taken, event, escaped, modes, chatGhosts>>

-----------------------------------------------------------------------------
(* The thread of a turn or compaction.                                     *)

\* stream() clears the event and begins the turn
Open ==
  /\ thread = "start" /\ thread' = "open"
  /\ event' = FALSE /\ pending' = <<>>
  /\ UNCHANGED <<place, editor, asked, taken, escaped, modes, chatGhosts>>

\* the prompt is recorded
Record ==
  /\ thread = "open" /\ ~event /\ thread' = "loop"
  /\ sent' = sent \cup IdsOf(prompt)
  /\ UNCHANGED <<place, editor, asked, pending, taken, event, escaped, modes, said,
                 ran, behind, unread, cut>>

TakePending ==
  /\ thread = "loop" /\ ~event /\ pending # <<>>
  /\ thread' = "record" /\ taken' = pending /\ pending' = <<>>
  /\ UNCHANGED <<place, editor, asked, event, escaped, modes, chatGhosts>>

RecordTaken ==
  /\ thread = "record" /\ ~event /\ thread' = "loop"
  /\ sent' = sent \cup IdsOf(taken) /\ taken' = <<>>
  /\ UNCHANGED <<place, editor, asked, pending, event, escaped, modes, said,
                 ran, behind, unread, cut>>

\* request_user_input; the answer comes from the main thread, which listens
\* in a turn and not in a goal's turn
Ask ==
  /\ thread \in {"loop", "goal"} /\ ~asked /\ mode \in AskModes
  /\ thread' = "ask" /\ asked' = TRUE
  /\ UNCHANGED <<place, editor, pending, taken, event, escaped, modes, chatGhosts>>

\* the last has_pending_input(), or a failed request; a tool may set the goal
Finish ==
  /\ thread = "loop" /\ ~event /\ thread' = "after"
  /\ goal' \in BOOLEAN
  /\ UNCHANGED <<place, editor, asked, pending, taken, event, escaped, mode, goalMode, chatGhosts>>

Abort ==
  /\ thread \in {"open", "loop", "record"} /\ event
  /\ thread' = "after" /\ taken' = <<>>
  /\ cut' = IF thread = "open" THEN cut \cup IdsOf(prompt) ELSE cut
  /\ UNCHANGED <<place, editor, asked, pending, event, escaped, modes, said, sent, ran, behind, unread>>

\* _end_active_turn
Close ==
  /\ thread = "after" /\ thread' = "dead" /\ pending' = <<>>
  /\ UNCHANGED <<place, editor, asked, taken, event, escaped, modes, chatGhosts>>

\* stream_compact does not clear the event: one set before ends it at once
CompactDone ==
  /\ thread = "compact" /\ thread' = "dead"
  /\ UNCHANGED <<place, editor, asked, pending, taken, event, escaped, modes, chatGhosts>>

-----------------------------------------------------------------------------
(* _run_goal_continuations_human, in the main thread and without a reader. *)

\* a slip: the loop does not look at the queue
GoesOnRegardless == goal /\ goalMode # "Plan"
GoesOn == queue = <<>> /\ goal /\ goalMode # "Plan"

GoalTurn ==
  /\ main = "goals" /\ thread = "none" /\ GoesOn
  /\ thread' = "goal" /\ asked' = FALSE /\ event' = FALSE
  /\ UNCHANGED <<place, editor, pending, taken, escaped, modes, chatGhosts>>

\* the turn leaves the goal active, or not, or fails
GoalTurnEnds ==
  /\ main = "goals" /\ thread = "goal" /\ thread' = "none" /\ goal' \in BOOLEAN
  /\ main' \in IF goal' THEN {"goals", "loop"} ELSE {"loop"}
  /\ UNCHANGED <<menu, prompt, queue, editor, asked, pending, taken, event, escaped, mode,
                 goalMode, chatGhosts>>

GoalsRest ==
  /\ main = "goals" /\ thread = "none" /\ ~GoesOn /\ main' = "loop"
  /\ UNCHANGED <<menu, prompt, queue, editor, turn, modes, chatGhosts>>

-----------------------------------------------------------------------------
Loop == NextQueued \/ Command \/ Exit \/ SetMode \/ Another \/ InitFile \/ SetGoal \/ StartTurn \/ StartCompact
Watch == Interrupt \/ Answer \/ EndTurn \/ EndCompact \/ GoalTurn \/ GoalTurnEnds \/ GoalsRest
TurnThread == Open \/ Record \/ TakePending \/ RecordTaken \/ Finish \/ Abort \/ Close \/ CompactDone
ChatNext ==
  \/ Loop \/ Watch \/ TurnThread \/ ReadPrompt \/ LeaveChat \/ Type \/ Submit \/ PressEsc \/ EscCompact \/ Ask

\* the main thread and the turn's go on, and a question is answered; nobody
\* has to type
ChatSpec ==
  /\ ChatInit /\ [][ChatNext]_chatVars
  /\ WF_chatVars(Loop) /\ WF_chatVars(Watch) /\ WF_chatVars(TurnThread)

-----------------------------------------------------------------------------
(* Properties.                                                             *)

Numbers == DOMAIN said
AtHand ==
  IF thread \in {"none", "start", "compact"} \/ (thread = "open" /\ main = "turn")
  THEN IdsOf(prompt) ELSE {}
Waiting == AtHand \cup Ids(queue) \cup IdsOf(pending) \cup IdsOf(taken)

(* A submission is in one place: at hand, in the queue, with the turn, or  *)
(* in the history.  It is lost only behind a command it was merged with,   *)
(* with a turn that ended before it took it up (late, failed, interrupted  *)
(* without Esc taking it back), or as the prompt of a turn that was        *)
(* interrupted before it began; never in the queue, and never when it was  *)
(* waiting as Esc was pressed (_run_session_human_interactive,             *)
(* pop_pending_input_prompts_for_interrupt).                               *)
EachPromptOnce ==
  LET places == <<Ids(queue), IdsOf(pending), IdsOf(taken), sent, AtHand>> IN
  /\ \A i, j \in DOMAIN places : i # j => places[i] \cap places[j] = {}
  /\ Numbers \subseteq Waiting \cup sent \cup ran \cup behind \cup unread \cup cut

(* A command that may not run beside a turn runs after everything the user *)
(* submitted before it, in whichever turn and by whichever way that went:  *)
(* /new does not throw a conversation away before its last prompt          *)
(* (_submit_turn_input, queued_prompts).                                   *)
CommandsWaitTheirTurn ==
  \A n \in ran, m \in Waiting : m < n => ~Meanings[said[n]].waits

(* A queued prompt leaves the queue, even while a goal wants to go on for  *)
(* ever (_run_chat, _run_goal_continuations_human), unless the chat ends.  *)
QueueDrains == \A n \in 1..MaxPrompts : n \in Ids(queue) ~> (n \notin Ids(queue) \/ main = "over")

=============================================================================
