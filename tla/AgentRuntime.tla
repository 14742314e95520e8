---------------------------- MODULE AgentRuntime ----------------------------
(***************************************************************************)
(* One agent of _LocalAgentRuntime (src/volley/core.py): its record, the   *)
(* thread of the parent that runs the multi-agent tools one at a time, the *)
(* interface thread that interrupts the parent, and the loop threads that  *)
(* run prompts in the child session.  Agents share only the list of        *)
(* notifications, so one is enough.                                        *)
(*                                                                         *)
(* A step is a block under record.condition or what is done between two of *)
(* them.  Prompts are numbered in the order they are sent.                 *)
(***************************************************************************)
EXTENDS Naturals, Sequences, Functions

CONSTANTS
  MaxPrompts,     \* bound: prompts sent to the agent, the first by spawn_agent
  MaxStops        \* bound: closings and interrupts of the parent

ASSUME BoundsAssumption == MaxPrompts \in Nat \ {0} /\ MaxStops \in Nat

Prompts == 1..MaxPrompts
Loops == 1..MaxPrompts        \* each loop thread is started for a prompt
Final == {"interrupted", "errored", "completed", "aborted"}
Statuses == Final \cup {"shutdown", "running"}

VARIABLES
  running, shutdown, interrupted,   \* of the record
  result,       \* final_message and error: "completed", "errored", or
                \* "aborted", a completion with an empty message
  pending,      \* record.pending
  event,        \* _interrupt_event of the child session
  caller,       \* what the parent's tool thread does after its locked block
  stopper,      \* the same for the interface thread
  loop,         \* the loop threads
  notes,        \* _pending_notifications, as the statuses they say
  sent,         \* prompts sent so far
  stops,        \* closings and interrupts so far
  redirects,    \* prompts sent with interrupt=true
  startedAt,    \* prompts already started when each prompt was sent
  runLog,       \* prompts in the order they were started
  dropped       \* prompts cleared from the queue

record == <<running, shutdown, interrupted, result>>
ghosts == <<startedAt, redirects>>
vars == <<record, pending, event, caller, stopper, loop, notes, sent, stops, ghosts, runLog,
          dropped>>

Off == [at |-> "off", reached |-> "completed"]

Init ==
  /\ running = FALSE /\ shutdown = FALSE /\ interrupted = FALSE /\ result = "completed"
  /\ pending = <<>> /\ event = FALSE /\ notes = <<>>
  /\ caller = [do |-> "start", prompt |-> 1] /\ stopper = "none"   \* spawn_agent
  /\ loop = [l \in Loops |-> Off]
  /\ sent = 1 /\ stops = 0 /\ redirects = {} /\ startedAt = [p \in Prompts |-> 0]
  /\ runLog = <<>> /\ dropped = {}

\* _agent_status
Status ==
  IF shutdown THEN "shutdown"
  ELSE IF running THEN "running"
  ELSE IF interrupted THEN "interrupted" ELSE result

-----------------------------------------------------------------------------
(* The tools, in the parent's thread.                                      *)

Free == [do |-> "none", prompt |-> 0]

\* a slip: an agent that was told to stop counts as stopped
IdleOrStopping == ~running \/ interrupted
Idle == ~running

\* a slip: the prompt waits behind the others
EnqueueBehind(p, redirect) == pending' = Append(pending, p)
\* record.pending.appendleft or append
Enqueue(p, redirect) == pending' = IF redirect THEN <<p>> \o pending ELSE Append(pending, p)

SendInput(redirect) ==
  /\ caller = Free /\ sent < MaxPrompts
  /\ sent' = sent + 1
  /\ startedAt' = [startedAt EXCEPT ![sent + 1] = Len(runLog)]
  /\ shutdown' = FALSE
  /\ IF Idle
     THEN /\ caller' = [do |-> "start", prompt |-> sent + 1]
          /\ UNCHANGED <<pending, redirects>>
     ELSE /\ Enqueue(sent + 1, redirect)
          /\ caller' = IF redirect THEN [Free EXCEPT !.do = "interrupt"] ELSE Free
          /\ redirects' = IF redirect THEN redirects \cup {sent + 1} ELSE redirects
  /\ UNCHANGED <<running, interrupted, result, event, stopper, loop, notes, stops, runLog, dropped>>

\* _start_agent
StartAgent ==
  /\ caller.do = "start"
  /\ running' = TRUE /\ interrupted' = FALSE
  /\ result' = IF result = "errored" THEN "completed" ELSE result
  /\ loop' = [loop EXCEPT ![caller.prompt].at = "enter"]
  /\ runLog' = Append(runLog, caller.prompt)
  /\ caller' = Free
  /\ UNCHANGED <<shutdown, pending, event, stopper, notes, sent, stops, ghosts, dropped>>

ClearPending == pending' = <<>> /\ dropped' = dropped \cup Range(pending)

CloseAgent ==
  /\ caller = Free /\ stops < MaxStops
  /\ stops' = stops + 1
  /\ ClearPending /\ shutdown' = TRUE
  /\ caller' = IF running THEN [Free EXCEPT !.do = "interrupt"] ELSE Free
  /\ UNCHANGED <<running, interrupted, result, event, stopper, loop, notes, sent, ghosts, runLog>>

ResumeAgent ==
  /\ caller = Free /\ shutdown
  /\ shutdown' = FALSE
  /\ UNCHANGED <<running, interrupted, result, pending, event, caller, stopper, loop, notes,
                 sent, stops, ghosts, runLog, dropped>>

\* session.interrupt(), after the lock is released
CallerInterrupts ==
  /\ caller.do = "interrupt"
  /\ event' = TRUE /\ caller' = Free
  /\ UNCHANGED <<record, pending, stopper, loop, notes, sent, stops, ghosts, runLog, dropped>>

\* the parent's loop takes what has been posted
DrainNotifications ==
  /\ notes # <<>>
  /\ notes' = <<>>
  /\ UNCHANGED <<record, pending, event, caller, stopper, loop, sent, stops, ghosts, runLog, dropped>>

-----------------------------------------------------------------------------
(* The interface thread.                                                   *)

StopperFrame ==
  /\ stopper = "none" /\ stops < MaxStops
  /\ stops' = stops + 1 /\ stopper' = "interrupt"
  /\ interrupted' = (interrupted \/ running)
  /\ UNCHANGED <<running, result, event, caller, loop, notes, sent, ghosts, runLog>>

\* the parent was interrupted: its agents are, and keep what is queued
RequestInterrupt == StopperFrame /\ UNCHANGED <<shutdown, pending, dropped>>

\* the session is torn down
InterruptAll == StopperFrame /\ ClearPending /\ shutdown' = TRUE

StopperInterrupts ==
  /\ stopper = "interrupt"
  /\ event' = TRUE /\ stopper' = "none"
  /\ UNCHANGED <<record, pending, caller, loop, notes, sent, stops, ghosts, runLog, dropped>>

-----------------------------------------------------------------------------
(* A loop thread.                                                          *)

LoopFrame == UNCHANGED <<caller, stopper, sent, stops, ghosts, dropped>>

\* session.run: stream() clears the event before it does anything else
EnterTurn(l) ==
  /\ loop[l].at = "enter"
  /\ loop' = [loop EXCEPT ![l].at = "turn"]
  /\ event' = FALSE
  /\ UNCHANGED <<record, pending, notes, runLog>> /\ LoopFrame

\* the run returns an answer or raises; an interrupted turn returns "", and
\* one that was past its last check answers all the same
EndTurn(l) ==
  /\ loop[l].at = "turn"
  /\ \E r \in {"completed", "errored"} \cup (IF event THEN {"aborted"} ELSE {}) :
       loop' = [loop EXCEPT ![l] = [at |-> "leave", reached |-> r]]
  /\ UNCHANGED <<record, pending, event, notes, runLog>> /\ LoopFrame

\* a slip: an interrupted run is the last of its loop
MoreToRunUnlessAborted(l) == pending # <<>> /\ ~shutdown /\ loop[l].reached # "aborted"
MoreToRun(l) == pending # <<>> /\ ~shutdown

\* record.pending.popleft()
TakeNext == pending' = Tail(pending)

\* the block after the run: the next prompt, or the end of the loop
NextPrompt(l) ==
  /\ loop[l].at = "leave" /\ MoreToRun(l)
  /\ TakeNext /\ runLog' = Append(runLog, Head(pending))
  /\ running' = TRUE /\ interrupted' = FALSE
  /\ result' = IF loop[l].reached = "errored" THEN "completed" ELSE loop[l].reached
  /\ loop' = [loop EXCEPT ![l].at = "enter"]
  /\ UNCHANGED <<shutdown, event, notes>> /\ LoopFrame

LeaveLoop(l) ==
  /\ loop[l].at = "leave" /\ ~MoreToRun(l)
  /\ running' = FALSE /\ interrupted' = FALSE /\ result' = loop[l].reached
  /\ loop' = [loop EXCEPT ![l].at = IF shutdown THEN "off" ELSE "notify"]
  /\ UNCHANGED <<shutdown, pending, event, notes, runLog>> /\ LoopFrame

\* _notify_parent_agent_completed reads the status anew
Notify(l) ==
  /\ loop[l].at = "notify"
  /\ notes' = Append(notes, Status)
  /\ loop' = [loop EXCEPT ![l].at = "off"]
  /\ UNCHANGED <<record, pending, event, runLog>> /\ LoopFrame

LoopStep(l) == EnterTurn(l) \/ EndTurn(l) \/ NextPrompt(l) \/ LeaveLoop(l) \/ Notify(l)
SomeLoopStep == \E l \in Loops : LoopStep(l)
Send == \E redirect \in BOOLEAN : SendInput(redirect)

Next ==
  \/ Send \/ StartAgent \/ CloseAgent \/ ResumeAgent \/ CallerInterrupts \/ DrainNotifications
  \/ RequestInterrupt \/ InterruptAll \/ StopperInterrupts
  \/ SomeLoopStep

\* Every thread that has something to do goes on; a run of a child ends,
\* whether it answers, fails or is interrupted.  Nobody has to send or close.
Fairness ==
  /\ WF_vars(StartAgent) /\ WF_vars(CallerInterrupts) /\ WF_vars(StopperInterrupts)
  /\ \A l \in Loops : WF_vars(LoopStep(l))
Spec == Init /\ [][Next]_vars /\ Fairness

-----------------------------------------------------------------------------
(* Properties.                                                             *)

Places == {"off", "enter", "turn", "leave", "notify"}

\* Every field of the record and every thread keeps its type.
TypeOK ==
  /\ running \in BOOLEAN /\ shutdown \in BOOLEAN /\ interrupted \in BOOLEAN
  /\ result \in Final /\ event \in BOOLEAN
  /\ pending \in Seq(Prompts) /\ runLog \in Seq(Prompts) /\ dropped \subseteq Prompts
  /\ caller \in [do : {"none", "start", "interrupt"}, prompt : 0..MaxPrompts]
  /\ stopper \in {"none", "interrupt"}
  /\ loop \in [Loops -> [at : Places, reached : Final]]
  /\ notes \in Seq(Statuses)
  /\ sent \in Prompts /\ stops \in 0..MaxStops /\ redirects \subseteq Prompts
  /\ startedAt \in [Prompts -> 0..MaxPrompts]

InRun(l) == loop[l].at \in {"enter", "turn", "leave"}

\* The child session is only ever run by one thread, although send_input
\* decides to start one before it takes the lock again (core.py:1596-1611),
\* and record.running tells whether there is one.
OneRunner ==
  /\ \A k, l \in Loops : InRun(k) /\ InRun(l) => k = l
  /\ running <=> \E l \in Loops : InRun(l)

\* A prompt only waits in the queue of an agent that will look at it: a loop
\* that leaves, a closing and a reopening never strand one.
NoPromptStranded == pending # <<>> => running /\ ~shutdown

\* Prompts start in the order they were sent, but for those sent with
\* interrupt=true, which start before everything that was still waiting.
PromptOrder ==
  \A i, j \in DOMAIN runLog : i < j =>
    LET x == runLog[i]
        y == runLog[j]
    IN IF y < x THEN x \in redirects
       ELSE y \in redirects => startedAt[y] >= i

Settled(p) == p \in Range(runLog) \/ p \in dropped
\* A prompt that was sent is started, or dropped by a closing.
PromptsSettle == \A p \in Prompts : (sent >= p) ~> Settled(p)
=============================================================================
