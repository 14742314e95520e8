--------------------------- MODULE SessionDaemon ---------------------------
(***************************************************************************)
(* PersistentSessionWorker (src/volley/session_daemon.py): the process     *)
(* that keeps one VolleySession alive for the terminals that attach to it. *)
(* Every client has a handler thread, every turn a thread of its own, and  *)
(* the main thread accepts connections and handles signals.                *)
(*                                                                         *)
(* A step is a section under _turn_lock, _clients_lock or                  *)
(* _request_input_cond, or a call into the session.  The session is seen   *)
(* through what the worker relies on (SessionTurn has the whole of it):    *)
(* whether a regular turn is active, and the interrupt event.              *)
(***************************************************************************)
EXTENDS Ordering, FiniteSets

CONSTANTS
  Clients,      \* terminals that attach
  MaxPrompts,   \* bound: prompts ever submitted
  MaxCompacts   \* bound: /compact commands ever sent

ASSUME BoundsAssumption == MaxPrompts \in Nat /\ MaxCompacts \in Nat
ASSUME ClientsAssumption == Clients \cap Nat = {}

Turns == 1..(MaxPrompts + MaxCompacts)   \* turn threads, in the order started
Prompts == 1..MaxPrompts
Compact == 0                             \* "/compact" in the queue
Threads == Turns \cup Clients

VARIABLES
  at,          \* where a thread is
  running,     \* _turn_running
  flag,        \* _interrupt_requested
  queued,      \* _queued_prompts
  stop,        \* _stop
  active,      \* _active_turn_kind of the session
  interrupted, \* _interrupt_event of the session
  kind,        \* what a turn thread runs: a prompt, or Compact
  open,        \* turns with an entry in _pending_request_input_questions
  answered,    \* and those with one in _request_input_answers
  started,     \* turn threads started
  submitted,   \* prompts submitted
  compacts,    \* compactions asked for
  steered      \* prompts the session took into a running turn

session == <<active, interrupted>>
input   == <<open, answered>>
ghosts  == <<submitted, compacts, steered>>
vars    == <<at, running, flag, queued, stop, session, kind, input, started, ghosts>>

Init ==
  /\ at = [x \in Threads |-> IF x \in Turns THEN "none" ELSE "away"]
  /\ running = FALSE /\ flag = FALSE /\ queued = <<>> /\ stop = FALSE
  /\ active = "none" /\ interrupted = FALSE
  /\ kind = [k \in Turns |-> Compact] /\ open = {} /\ answered = {} /\ started = 0
  /\ submitted = 0 /\ compacts = 0 /\ steered = {}

Goto(x, l) == at' = [at EXCEPT ![x] = l]
\* a slip: a client is counted until its handler is done
NotAway == {c \in Clients : at[c] # "away"}
\* _client_count
Attached == {c \in Clients : at[c] \in {"on", "interrupting"}}

-----------------------------------------------------------------------------
(* Turn threads.                                                           *)

\* _start_turn_locked and _start_compact_locked, called by x, which goes to l
Start(what, x, l) ==
  /\ running' = TRUE
  /\ started' = started + 1
  /\ kind' = [kind EXCEPT ![started + 1] = what]
  /\ at' = [at EXCEPT ![started + 1] = "start", ![x] = l]

\* the beginning of stream() clears the event, that of stream_compact() does not
StreamStart(k) ==
  /\ at[k] = "start"
  /\ active' = IF kind[k] = Compact THEN "compact" ELSE "regular"
  /\ interrupted' = (interrupted /\ kind[k] = Compact)
  /\ Goto(k, "stream")
  /\ UNCHANGED <<running, flag, queued, stop, kind, input, started, ghosts>>

\* the turn completes, fails or is aborted; an interrupted compaction is left
\* by an exception and stays active
StreamEnd(k) ==
  /\ at[k] = "stream"
  /\ active' \in {"none"} \cup (IF interrupted /\ kind[k] = Compact THEN {active} ELSE {})
  /\ Goto(k, "over")
  /\ UNCHANGED <<running, flag, queued, stop, interrupted, kind, input, started, ghosts>>

\* _request_user_input, called by a tool of the turn
Ask(k) ==
  /\ at[k] = "stream" /\ kind[k] # Compact
  /\ open' = open \cup {k} /\ answered' = answered \ {k}
  /\ Goto(k, "ask")
  /\ UNCHANGED <<running, flag, queued, stop, session, kind, started, ghosts>>

\* a slip: the question stays when the worker stops
Leave(k) == open' = IF stop THEN open ELSE open \ {k}
Close(k) == open' = open \ {k}
TakeAnswer(k) ==
  /\ at[k] = "ask"
  /\ k \in answered \/ stop
  /\ Close(k) /\ answered' = IF stop THEN answered ELSE answered \ {k}
  /\ Goto(k, "stream")
  /\ UNCHANGED <<running, flag, queued, stop, session, kind, started, ghosts>>

\* a slip: a compaction does not look at the queue
ContinueTurn(k) == queued # <<>> /\ kind[k] # Compact
MayContinue(k) == queued # <<>>

\* _finish_turn_and_maybe_continue
FinishTurn(k) ==
  /\ at[k] = "over"
  /\ IF MayContinue(k)
     THEN Start(Head(queued), k, "done") /\ queued' = Tail(queued)
     ELSE /\ running' = FALSE
          /\ Goto(k, "left")
          /\ UNCHANGED <<queued, started, kind>>
  /\ flag' = FALSE
  /\ UNCHANGED <<stop, session, input, ghosts>>

-----------------------------------------------------------------------------
(* Clients.                                                                *)

Connect(c) ==
  /\ at[c] = "away"
  /\ Goto(c, "on")
  /\ UNCHANGED <<running, flag, queued, stop, session, kind, input, started, ghosts>>

\* a slip: what the session refuses goes before what waits
PutFirst(what) == queued' = <<what>> \o queued
\* _queued_prompts.put
Put(what) == queued' = Append(queued, what)

\* a slip: the session is asked whether a turn runs
SessionBusy == active # "none"
Busy == running
Steerable == ~flag /\ active = "regular"

\* submit
Submit(c) ==
  /\ at[c] = "on" /\ submitted < MaxPrompts
  /\ submitted' = submitted + 1
  /\ \/ /\ ~Busy
        /\ Start(submitted + 1, c, "on") /\ flag' = FALSE
        /\ UNCHANGED <<queued, steered>>
     \/ /\ Busy /\ Steerable
        /\ steered' = steered \cup {submitted + 1}
        /\ UNCHANGED <<at, running, flag, queued, started, kind>>
     \/ /\ Busy /\ ~Steerable
        /\ Put(submitted + 1)
        /\ UNCHANGED <<at, running, flag, started, kind, steered>>
  /\ UNCHANGED <<stop, session, input, compacts>>

\* handle_slash of "/compact"; the flag stays as it is
SlashCompact(c) ==
  /\ at[c] = "on" /\ compacts < MaxCompacts
  /\ compacts' = compacts + 1
  /\ \/ /\ ~Busy /\ Start(Compact, c, "on") /\ UNCHANGED queued
     \/ /\ Busy /\ Put(Compact) /\ UNCHANGED <<at, running, started, kind>>
  /\ UNCHANGED <<flag, stop, session, input, submitted, steered>>

\* _request_interrupt: the flag under the lock, then the session
RequestInterrupt(c) ==
  /\ at[c] = "on"
  /\ flag' = TRUE
  /\ Goto(c, "interrupting")
  /\ UNCHANGED <<running, queued, stop, session, kind, input, started, ghosts>>
SessionInterrupt(c) ==
  /\ at[c] = "interrupting"
  /\ interrupted' = TRUE
  /\ Goto(c, "on")
  /\ UNCHANGED <<running, flag, queued, stop, active, kind, input, started, ghosts>>

\* request_user_input_response, for a question that may be gone
Answer(c, k) ==
  /\ at[c] = "on" /\ k \in open
  /\ answered' = answered \cup {k}
  /\ UNCHANGED <<at, running, flag, queued, stop, session, kind, open, started, ghosts>>

\* _unregister_client, when the connection or the worker ends
Disconnect(c) ==
  /\ at[c] = "on"
  /\ Goto(c, "left")
  /\ UNCHANGED <<running, flag, queued, stop, session, kind, input, started, ghosts>>

-----------------------------------------------------------------------------
(* Stopping.                                                               *)

Gone(x) == IF x \in Turns THEN "done" ELSE "away"

\* _shutdown_if_idle_without_clients: two tests under two locks
TestTurn(x) ==
  /\ at[x] = "left"
  /\ Goto(x, IF running \/ queued # <<>> THEN Gone(x) ELSE "tested")
  /\ UNCHANGED <<running, flag, queued, stop, session, kind, input, started, ghosts>>

\* shutdown sets _stop, then interrupts the session
Halt(x) == stop' = TRUE /\ Goto(x, "halting")
TestClients(x) ==
  /\ at[x] = "tested"
  /\ IF Attached # {} THEN Goto(x, Gone(x)) /\ UNCHANGED stop ELSE Halt(x)
  /\ UNCHANGED <<running, flag, queued, session, kind, input, started, ghosts>>

\* the command of a client; a signal does the same in the main thread
Shutdown(c) ==
  /\ at[c] = "on"
  /\ Halt(c)
  /\ UNCHANGED <<running, flag, queued, session, kind, input, started, ghosts>>

HaltSession(x) ==
  /\ at[x] = "halting"
  /\ interrupted' = TRUE
  /\ Goto(x, Gone(x))
  /\ UNCHANGED <<running, flag, queued, stop, active, kind, input, started, ghosts>>

-----------------------------------------------------------------------------
TurnStep(k) == StreamStart(k) \/ StreamEnd(k) \/ Ask(k) \/ TakeAnswer(k) \/ FinishTurn(k)
ClientStep(c) ==
  \/ Connect(c) \/ Submit(c) \/ SlashCompact(c) \/ RequestInterrupt(c) \/ Disconnect(c)
  \/ Shutdown(c)
  \/ \E k \in Turns : Answer(c, k)
StopStep(x) == TestTurn(x) \/ TestClients(x) \/ HaltSession(x)

SomeTurn == \E k \in Turns : TurnStep(k)
\* the process ends soon after _stop is set: what clients still send is left out
SomeClient == \E c \in Clients : (~stop /\ ClientStep(c)) \/ SessionInterrupt(c)
SomeStop == \E x \in Threads : StopStep(x)
Next == SomeTurn \/ SomeClient \/ SomeStop

\* Threads that are not waiting for a person go on, and a turn ends: model
\* streams and tools have timeouts.
Fairness ==
  /\ \A k \in Turns : WF_vars(StreamStart(k)) /\ SF_vars(StreamEnd(k))
                      /\ WF_vars(TakeAnswer(k)) /\ WF_vars(FinishTurn(k))
  /\ \A x \in Threads : WF_vars(StopStep(x))
Spec == Init /\ [][Next]_vars /\ Fairness

-----------------------------------------------------------------------------
(* Properties.                                                             *)

Places == {"away", "on", "interrupting", "none", "start", "stream", "ask",
           "over", "left", "tested", "halting", "done"}

\* The worker's fields keep their types, and no question outlives its turn.
TypeOK ==
  /\ at \in [Threads -> Places]
  /\ running \in BOOLEAN /\ flag \in BOOLEAN /\ stop \in BOOLEAN
  /\ queued \in Seq(Prompts \cup {Compact})
  /\ active \in {"none", "regular", "compact"} /\ interrupted \in BOOLEAN
  /\ kind \in [Turns -> Prompts \cup {Compact}]
  /\ open \subseteq Turns /\ answered \subseteq Turns
  /\ started \in 0..(MaxPrompts + MaxCompacts)
  /\ submitted \in 0..MaxPrompts /\ compacts \in 0..MaxCompacts /\ steered \subseteq Prompts
  /\ \A k \in open : at[k] = "ask"

\* The session is not reentrant: never do two turn threads drive it, however
\* submissions, ends of turns and queued prompts meet.
OneTurnThread ==
  Cardinality({k \in Turns : at[k] \in {"start", "stream", "ask", "over"}}) <= 1

\* A prompt or a /compact that waits has a turn thread that will come for it.
NoPromptStranded == queued # <<>> => running

\* Prompts that become turns do so in the order they were submitted, whether
\* they started one at once or waited for an interrupt, a compaction or the
\* gap between two turns.
TurnsInOrder ==
  \A j, k \in 1..started : j < k /\ kind[j] # Compact /\ kind[k] # Compact => kind[j] < kind[k]

\* A prompt that waits becomes a turn, unless the worker is stopped or a turn
\* waits for an answer.
Waiting(i) == \E j \in 1..Len(queued) : queued[j] = i
PromptsSettle ==
  \A i \in Prompts : Waiting(i) ~> (~Waiting(i) \/ stop \/ open # {})

\* A worker that nobody is attached to and that has nothing to do does not
\* stay: whoever leaves last, the client or the turn, stops it.
Served == \E c \in Clients : at[c] \in {"on", "interrupting"}
Abandoned == ~Served /\ ~running /\ \E x \in Turns \cup Clients : at[x] = "left"
IdleWorkerStops == Abandoned ~> (stop \/ Served)
=============================================================================
