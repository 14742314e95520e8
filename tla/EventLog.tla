------------------------------ MODULE EventLog ------------------------------
(***************************************************************************)
(* What a PersistentSessionWorker (src/volley/session_daemon.py) tells the *)
(* terminals attached to it: the states and events it numbers and keeps in *)
(* memory, while turns start, stream, ask, end or raise.                   *)
(*                                                                         *)
(* SessionDaemon has the locks, the queue and the commands of the clients; *)
(* here they are what any of them may cause: a turn that starts, a notice, *)
(* an answer, the end.  What matters is the order of the worker's flag and *)
(* of the messages about it, each a step of its own.                       *)
(***************************************************************************)
EXTENDS Integers, Sequences, FiniteSets

CONSTANTS
  MaxItems,    \* EVENT_LOG_MAX_ITEMS
  MaxTurns,    \* bound: turns
  Settings     \* bounds: turns, token_count events of a turn, notices, questions,
               \* attachments, whether the worker may be shut down; and what turns may be

ASSUME LogAssumption ==
  /\ MaxItems \in Nat \ {0} /\ MaxTurns \in Nat
  /\ Settings \subseteq [turns : 0..MaxTurns, tokens : Nat, notices : Nat, asks : Nat,
                         visits : Nat, stops : BOOLEAN, kinds : SUBSET {"prompt", "compact"},
                         outcomes : SUBSET {"completed", "interrupted", "failed", "raised"}]

TurnIds == 1..MaxTurns
None == "none"

VARIABLES
  bound,       \* the setting
  log,         \* _events
  nextSeq,     \* _next_seq
  turnRunning, \* _turn_running
  stopping,    \* _stop: "no", "set", or "told" to the clients as well
  doing,       \* where the turn thread is
  turn,        \* turns started
  turnKind,    \* what the turn is: "prompt" or "compact"
  tokens,      \* token_count events of the turn
  notices,
  asked,       \* turns that asked the user: a question has its turn's number
  pending,     \* _pending_request_input_questions
  answers,     \* _request_input_answers
  ended        \* how a turn went, and the number of the state that told its end

asking == <<asked, pending, answers>>
thread == <<turnKind, tokens>>
worker == <<bound, log, nextSeq, turnRunning, stopping, doing, turn, thread, notices, asking, ended>>

Stopped == stopping # "no"
State(n) == [seq |-> n, what |-> "state", running |-> turnRunning, turn |-> turn]

WorkerInit ==
  /\ bound \in Settings
  /\ turnRunning = FALSE /\ stopping = "no" /\ doing = "idle" /\ turn = 0
  /\ log = <<State(1)>> /\ nextSeq = 2
  /\ turnKind = "prompt" /\ tokens = 0 /\ notices = 0
  /\ asked = {} /\ pending = {} /\ answers = {}
  /\ ended = [k \in TurnIds |-> [seq |-> 0, outcome |-> None]]

-----------------------------------------------------------------------------
(* The log.                                                                *)

\* a slip: the log is full, so nothing more is kept
KeptOldest(l) == IF Len(l) > MaxItems THEN SubSeq(l, 1, MaxItems) ELSE l
\* the newest MaxItems messages
Kept(l) == IF Len(l) > MaxItems THEN SubSeq(l, Len(l) - MaxItems + 1, Len(l)) ELSE l

\* _append_message: what the worker says
Say(what) ==
  /\ log' = Kept(Append(log, [State(nextSeq) EXCEPT !.what = what]))
  /\ nextSeq' = nextSeq + 1

-----------------------------------------------------------------------------
(* The turn thread.                                                        *)

NowAt(l) == doing' = l

\* _start_turn_locked and _start_compact_locked: the flag, the state, the prompt
StartTurn ==
  /\ doing = "idle" /\ ~Stopped /\ turn < bound.turns
  /\ turnRunning' = TRUE /\ turn' = turn + 1 /\ turnKind' \in bound.kinds /\ tokens' = 0
  /\ NowAt("show")
  /\ UNCHANGED <<bound, log, nextSeq, stopping, notices, asking, ended>>
ShowStart ==
  /\ doing = "show"
  /\ Say("state")
  /\ NowAt(IF turnKind = "prompt" THEN "echo" ELSE "begin")
  /\ UNCHANGED <<bound, turnRunning, stopping, turn, thread, notices, asking, ended>>
EchoPrompt ==
  /\ doing = "echo"
  /\ Say("daemon.user_message")
  /\ NowAt("begin")
  /\ UNCHANGED <<bound, turnRunning, stopping, turn, thread, notices, asking, ended>>

\* _run_turn and _run_compact: what the session yields
Begin ==
  /\ doing = "begin"
  /\ Say("turn.started")
  /\ NowAt("stream")
  /\ UNCHANGED <<bound, turnRunning, stopping, turn, thread, notices, asking, ended>>

\* _emit_event: some events are followed by the state
Count ==
  /\ doing = "stream" /\ tokens < bound.tokens
  /\ Say("token_count")
  /\ tokens' = tokens + 1
  /\ NowAt("counted")
  /\ UNCHANGED <<bound, turnRunning, stopping, turn, turnKind, notices, asking, ended>>
ShowCount ==
  /\ doing = "counted"
  /\ Say("state")
  /\ NowAt("stream")
  /\ UNCHANGED <<bound, turnRunning, stopping, turn, thread, notices, asking, ended>>

\* _request_user_input: the question is entered, told, and waited for
Enter ==
  /\ doing = "stream" /\ turnKind = "prompt" /\ turn \notin asked /\ Cardinality(asked) < bound.asks
  /\ asked' = asked \cup {turn} /\ pending' = pending \cup {turn}
  /\ NowAt("ask")
  /\ UNCHANGED <<bound, log, nextSeq, turnRunning, stopping, turn, thread, notices, answers, ended>>
AskUser ==
  /\ doing = "ask"
  /\ Say("daemon.request_user_input")
  /\ NowAt("wait")
  /\ UNCHANGED <<bound, turnRunning, stopping, turn, thread, notices, asking, ended>>
AnswerTaken ==
  /\ doing = "wait"
  /\ turn \in answers \/ Stopped
  /\ pending' = pending \ {turn}
  /\ answers' = IF Stopped THEN answers ELSE answers \ {turn}
  /\ NowAt("stream")
  /\ UNCHANGED <<bound, log, nextSeq, turnRunning, stopping, turn, thread, notices, asked, ended>>

Ends(o) == ended' = [ended EXCEPT ![turn].outcome = o]

\* the last event of the session, unless it raises
Outcome == [completed |-> "turn.completed", interrupted |-> "turn.aborted", failed |-> "turn.failed"]
StreamOver ==
  /\ doing = "stream"
  /\ \E o \in DOMAIN Outcome \cap bound.outcomes : Say(Outcome[o]) /\ Ends(o)
  /\ NowAt("yielded")
  /\ UNCHANGED <<bound, turnRunning, stopping, turn, thread, notices, asking>>
Raise ==
  /\ doing \in {"begin", "stream", "yielded"} /\ "raised" \in bound.outcomes
  /\ Say("daemon.error") /\ Ends("failed")
  /\ NowAt("over")
  /\ UNCHANGED <<bound, turnRunning, stopping, turn, thread, notices, asking>>

\* _finish_turn_and_maybe_continue: the flag, then the state
Finish ==
  /\ doing \in {"yielded", "over"}
  /\ turnRunning' = FALSE
  /\ NowAt("tell")
  /\ UNCHANGED <<bound, log, nextSeq, stopping, turn, thread, notices, asking, ended>>
TellEnd ==
  /\ doing = "tell"
  /\ Say("state")
  /\ ended' = [ended EXCEPT ![turn].seq = nextSeq]
  /\ NowAt("idle")
  /\ UNCHANGED <<bound, turnRunning, stopping, turn, thread, notices, asking>>

-----------------------------------------------------------------------------
(* The other threads.                                                      *)

\* handle_slash, and submit into a running turn
Notice ==
  /\ notices < bound.notices
  /\ Say("daemon.notice")
  /\ notices' = notices + 1
  /\ UNCHANGED <<bound, turnRunning, stopping, doing, turn, thread, asking, ended>>

\* request_user_input_response for question k
Accept(k) == answers' = answers \cup ({k} \cap pending)
AnsweredElsewhere ==
  /\ \E k \in pending : Accept(k)
  /\ UNCHANGED <<bound, log, nextSeq, turnRunning, stopping, doing, turn, thread, notices, asked, pending, ended>>

\* shutdown: _stop first, the message last
BeginShutdown ==
  /\ ~Stopped /\ bound.stops
  /\ stopping' = "set"
  /\ UNCHANGED <<bound, log, nextSeq, turnRunning, doing, turn, thread, notices, asking, ended>>
SayShutdown ==
  /\ stopping = "set"
  /\ Say("daemon.shutdown") /\ stopping' = "told"
  /\ UNCHANGED <<bound, turnRunning, doing, turn, thread, notices, asking, ended>>

Thread ==
  \/ ShowStart \/ EchoPrompt \/ Begin \/ Count \/ ShowCount \/ Enter \/ AskUser \/ AnswerTaken
  \/ StreamOver \/ Raise \/ Finish \/ TellEnd
Worker == StartTurn \/ Thread \/ Notice \/ AnsweredElsewhere \/ BeginShutdown \/ SayShutdown
=============================================================================
