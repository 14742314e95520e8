------------------------------- MODULE Attach -------------------------------
(***************************************************************************)
(* A terminal attached to a worker: the worker's side of the connection    *)
(* (_handle_client, _client_event_writer), PersistentSessionClient, and    *)
(* _run_persistent_attach of src/volley/cli.py, which shows what happens.  *)
(*                                                                         *)
(* The greeting has the number of the last message and whether a turn runs,*)
(* read one after the other; then the writer replays the log and goes on.  *)
(* Sending a message and reading it (_read_loop) are one step: the socket  *)
(* keeps the order and loses nothing.                                      *)
(***************************************************************************)
EXTENDS EventLog

VARIABLES
  conn,          \* where the connection is
  mark,          \* replay_until_seq of the handler
  next,          \* next_seq of the writer
  batch,         \* what it took from the log and has yet to send
  inbox,         \* messages of the client
  closed,        \* closed of the client
  clientRunning, \* running of the client
  lastRunning,   \* the terminal: last_running,
  replayUntil,   \* replay_until_seq,
  outcome,       \* turn_outcome,
  handled,       \* handled_request_inputs,
  asks,          \* and the question it shows, 0 if none
  printed,       \* finished statuses: which turn, which outcome
  seen,          \* the last message handled
  gap,           \* the log lost something the client needed
  visits

handler  == <<conn, mark, next, batch>>
client   == <<inbox, closed, clientRunning>>
terminal == <<lastRunning, replayUntil, outcome, handled, asks, printed, seen>>
attachVars == <<worker, handler, client, terminal, gap, visits>>

\* nobody is attached; a new attachment starts from here
Fresh(c) ==
  /\ conn' = c /\ mark' = 0 /\ next' = 1 /\ batch' = <<>>
  /\ inbox' = <<>> /\ closed' = FALSE /\ clientRunning' = FALSE
  /\ lastRunning' = FALSE /\ replayUntil' = 0 /\ outcome' = None
  /\ handled' = {} /\ asks' = 0 /\ printed' = <<>> /\ seen' = 0 /\ gap' = FALSE

AttachInit ==
  /\ WorkerInit
  /\ conn = "away" /\ mark = 0 /\ next = 1 /\ batch = <<>>
  /\ inbox = <<>> /\ closed = FALSE /\ clientRunning = FALSE
  /\ lastRunning = FALSE /\ replayUntil = 0 /\ outcome = None
  /\ handled = {} /\ asks = 0 /\ printed = <<>> /\ seen = 0 /\ gap = FALSE /\ visits = 0

-----------------------------------------------------------------------------
(* The worker's side.                                                      *)

\* what _record_client_state does with a message, before it is put
Receive(m) ==
  /\ inbox' = Append(inbox, m)
  /\ clientRunning' = IF m.what \in {"hello", "state"} THEN m.running ELSE clientRunning
  /\ UNCHANGED closed

ConnectClient ==
  /\ conn = "away" /\ ~Stopped /\ visits < bound.visits
  /\ visits' = visits + 1
  /\ Fresh("register")
  /\ UNCHANGED worker

\* _handle_client
Mark ==
  /\ conn = "register"
  /\ mark' = nextSeq - 1
  /\ conn' = "greet"
  /\ UNCHANGED <<worker, next, batch, client, terminal, gap, visits>>
Greet ==
  /\ conn = "greet"
  /\ Receive([State(mark) EXCEPT !.what = "hello"])
  /\ conn' = "on"
  /\ UNCHANGED <<worker, mark, next, batch, terminal, gap, visits>>

\* _client_event_writer: it looks at _stop, takes what is new, sends it
Look ==
  /\ conn = "on" /\ ~Stopped
  /\ conn' = "take"
  /\ UNCHANGED <<worker, mark, next, batch, client, terminal, gap, visits>>

IsState(m) == m.what = "state"
\* the log is in the order of its numbers: what is new is behind the rest of it
Available == SubSeq(log, Cardinality({i \in DOMAIN log : log[i].seq < next}) + 1, Len(log))
Take ==
  /\ conn = "take"
  /\ batch' = Available
  /\ conn' = IF Available = <<>> THEN "on" ELSE "send"
  /\ gap' = (gap \/ IF next = 1 THEN \A m \in {Available[i] : i \in DOMAIN Available} :
                                        IsState(m) => m.seq > mark
                              ELSE Available # <<>> /\ Available[1].seq > next)
  /\ UNCHANGED <<worker, mark, next, client, terminal, visits>>

\* a slip: an answered question is what goes out
OnlyAnswered(m) == m.what = "daemon.request_user_input" => m.turn \notin pending
\* _should_send_message_to_client
ShouldSend(m) == m.what = "daemon.request_user_input" => m.turn \in pending

Send ==
  /\ conn = "send"
  /\ LET m == Head(batch) IN
     /\ next' = m.seq + 1
     /\ IF ShouldSend(m) THEN Receive(m) ELSE UNCHANGED client
  /\ batch' = Tail(batch)
  /\ conn' = IF Tail(batch) = <<>> THEN "on" ELSE "send"
  /\ UNCHANGED <<worker, mark, terminal, gap, visits>>

\* the process has ended: the client reads what was sent, then the end
Lost ==
  /\ Stopped /\ conn \notin {"away", "lost"}
  /\ conn' = "lost" /\ closed' = TRUE /\ batch' = <<>>
  /\ UNCHANGED <<worker, mark, next, inbox, clientRunning, terminal, gap, visits>>

-----------------------------------------------------------------------------
(* The terminal.                                                           *)

Outcomes == {Outcome[o] : o \in DOMAIN Outcome}
\* set_turn_outcome
OutcomeAfter(m) ==
  CASE m.what \in Outcomes -> CHOOSE o \in DOMAIN Outcome : Outcome[o] = m.what
    [] m.what = "daemon.error" -> "failed"
    [] m.what = "turn.started" -> None
    [] OTHER -> outcome

\* a slip: the states of the replay count
IsLiveOrReplayed(m) == TRUE
\* is_live_state
IsLive(m) == m.what = "hello" \/ m.seq > replayUntil'

\* a state that ends a turn the terminal knew of: the status line is final
FinishStatus(m) ==
  IF lastRunning /\ ~m.running /\ IsLive(m)
  THEN /\ printed' = Append(printed, [turn |-> m.turn,
                                      outcome |-> IF outcome = None THEN "completed" ELSE outcome])
       /\ outcome' = None
  ELSE UNCHANGED <<printed, outcome>>

HandleState(m) ==
  /\ m.what \in {"hello", "state"}
  /\ replayUntil' = IF m.what = "hello" THEN m.seq ELSE replayUntil
  /\ lastRunning' = m.running
  /\ FinishStatus(m)
  /\ UNCHANGED <<handled, asks, closed>>

\* _handle_persistent_client_message and _handle_persistent_daemon_event
HandleEvent(m) ==
  /\ m.what \notin {"hello", "state"}
  /\ outcome' = OutcomeAfter(m)
  /\ IF m.what = "daemon.request_user_input" /\ m.turn \notin handled
     THEN handled' = handled \cup {m.turn} /\ asks' = m.turn
     ELSE UNCHANGED <<handled, asks>>
  /\ closed' = (closed \/ m.what = "daemon.shutdown")
  /\ UNCHANGED <<replayUntil, lastRunning, printed>>

\* drain_messages, one message at a time; a question holds it up
Drain ==
  /\ inbox # <<>> /\ asks = 0
  /\ LET m == Head(inbox) IN
     /\ HandleState(m) \/ HandleEvent(m)
     /\ seen' = IF m.what = "hello" THEN seen ELSE m.seq
  /\ inbox' = Tail(inbox)
  /\ UNCHANGED <<worker, handler, clientRunning, gap, visits>>

\* the user answers; the question may be gone
Reply ==
  /\ asks # 0
  /\ IF closed THEN UNCHANGED answers ELSE Accept(asks)
  /\ asks' = 0
  /\ UNCHANGED <<bound, log, nextSeq, turnRunning, stopping, doing, turn, thread, notices, asked, pending, ended>>
  /\ UNCHANGED <<handler, client, lastRunning, replayUntil, outcome, handled, printed, seen, gap, visits>>

\* /detach, /quit or the end of the program
Detach ==
  /\ conn # "away" /\ asks = 0
  /\ Fresh("away")
  /\ UNCHANGED <<worker, visits>>

\* /resume of another session: refused while client.running, else the worker is
\* told to shut down
SwitchAway ==
  /\ conn \notin {"away", "lost"} /\ asks = 0 /\ ~closed /\ ~clientRunning
  /\ bound.stops
  /\ stopping' = IF Stopped THEN stopping ELSE "set"
  /\ Fresh("away")
  /\ UNCHANGED <<bound, log, nextSeq, turnRunning, doing, turn, thread, notices, asking, ended, visits>>

Writer == Mark \/ Greet \/ Look \/ Take \/ Send
Terminal == ConnectClient \/ Drain \/ Reply \/ Detach \/ SwitchAway
AttachNext ==
  \/ Worker /\ UNCHANGED <<handler, client, terminal, gap, visits>>
  \/ Writer \/ Lost \/ Terminal

\* the threads of the worker and the loop of the terminal; users are not fair
AttachFairness ==
  /\ WF_attachVars(Thread /\ UNCHANGED <<handler, client, terminal, gap, visits>>)
  /\ WF_attachVars(Mark \/ Greet) /\ WF_attachVars(Look \/ Take \/ Send) /\ WF_attachVars(Drain)
AttachSpec == AttachInit /\ [][AttachNext]_attachVars /\ AttachFairness

-----------------------------------------------------------------------------
(* Properties.                                                             *)

\* Once a terminal has everything the log has, it shows the worker's flag,
\* however late it attached, however slow it is and whatever the log dropped
\* (as long as a state is left in it).  The two places between the flag and its
\* message are excused.
CaughtUp ==
  /\ conn \in {"on", "take"} /\ Available = <<>> /\ inbox = <<>> /\ ~closed
  /\ doing \notin {"show", "tell"}
  /\ \E i \in 1..Len(log) : IsState(log[i])
  => clientRunning = turnRunning /\ lastRunning = turnRunning

\* A terminal that missed nothing prints a final status for exactly the turns
\* that ended behind its replay, each once, in order, with the outcome the turn
\* had: nothing for what is replayed, no outcome of an earlier turn.
FinishedOnce ==
  ~gap =>
    /\ {printed[i].turn : i \in DOMAIN printed}
         = {k \in TurnIds : ended[k].seq > replayUntil /\ ended[k].seq <= seen}
    /\ \A i, j \in DOMAIN printed : i < j => printed[i].turn < printed[j].turn
    /\ \A i \in DOMAIN printed : printed[i].outcome = ended[printed[i].turn].outcome

\* A question that is open while a terminal is attached is shown to its user,
\* unless it is answered elsewhere or the terminal shows another one.
QuestionsAreShown ==
  \A k \in TurnIds :
    (k \in pending /\ conn # "away") ~> (k \notin pending \/ asks # 0 \/ conn = "away" \/ Stopped)
=============================================================================
