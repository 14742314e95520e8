---------------------------- MODULE SessionTurn ----------------------------
(***************************************************************************)
(* One VolleySession (src/volley/core.py): the thread that consumes        *)
(* stream() or stream_compact(), and the threads of the user interface     *)
(* that steer it, queue input, take queued input back and interrupt it.    *)
(*                                                                         *)
(* A step of the turn thread is one stretch of code between two points     *)
(* where another thread can be seen: a take of _turn_state_lock or a test  *)
(* of _interrupt_event.  Hooks, model replies and token thresholds are     *)
(* nondeterministic choices.  Input items are numbered in the order they   *)
(* are handed to the session; a number is never reused.                    *)
(***************************************************************************)
EXTENDS Ordering

CONSTANTS
  MaxItems,        \* bound: input items ever submitted
  MaxTurns,        \* bound: turns and manual compactions ever started
  MaxIterations,   \* config.max_iterations, 0 for None
  MaxRetries,      \* config.resolved_model_stream_max_retries()
  MaxCompactions,  \* bound: automatic compactions in one turn
  RemoteModes      \* the values config.remote_compaction may have

ASSUME BoundsAssumption ==
  /\ MaxItems \in Nat /\ MaxTurns \in Nat /\ MaxIterations \in Nat
  /\ MaxRetries \in Nat /\ MaxCompactions \in Nat
ASSUME RemoteAssumption == RemoteModes \subseteq {"off", "auto", "required"}

Items == 1..MaxItems
CtxParts == 1..2            \* the developer and the user context message
Kinds    == {"none", "regular", "compact"}
Outcomes == {"none", "completed", "failed", "aborted"}

VARIABLES
  pc,           \* where the turn thread is
  turn,         \* state.turn_id
  activeTurn,   \* _active_turn_id, 0 for None
  activeKind,   \* _active_turn_kind
  outcome,      \* how the turn ends
  interrupted,  \* _interrupt_event
  sinceInt,     \* model requests opened in this turn with the event set
  idlePending,  \* _idle_pending_input
  pending,      \* _pending_input
  taken,        \* pending_items the hook has still to inspect
  accepted,     \* accepted_pending still to be recorded
  canDrain,     \* can_drain_pending_input
  iteration,    \* loop counter of stream(); without a limit it stops at 2,
                \* as the loop only asks whether it is above 1
  retry,        \* retry of _stream_model_output
  marked,       \* the marker of the history as it stands is one of
                \* auto_compaction_markers
  compactTo,    \* where _stream_compact returns to; "none" outside one
  compactions,  \* automatic compactions of this turn
  remoteMode,   \* config.remote_compaction
  ctxRecorded,  \* _initial_context_recorded
  ctxNext,      \* the next initial-context item the loop records
  ctxCopies,    \* copies of each initial-context item in state.history
  nextItem,     \* number of the next submitted item
  aim,          \* expected_turn_id each accepted item came with
  turnLog,      \* items this turn recorded in history, in order
  late          \* items steered after the last has_pending_input() check

ids     == <<turn, activeTurn, activeKind>>
flag    == <<interrupted, sinceInt>>
local   == <<taken, accepted>>
loop    == <<canDrain, iteration, retry, marked>>
compact == <<compactTo, compactions, remoteMode>>
context == <<ctxRecorded, ctxNext, ctxCopies>>
ghosts  == <<nextItem, aim, late>>
vars    == <<pc, ids, outcome, flag, idlePending, pending, local, loop, compact, context,
             turnLog, ghosts>>

Init ==
  /\ pc = "idle" /\ turn = 0 /\ outcome = "none"
  /\ activeTurn = 0 /\ activeKind = "none"
  /\ interrupted = FALSE /\ sinceInt = 0
  /\ idlePending = <<>> /\ pending = <<>> /\ taken = <<>> /\ accepted = <<>>
  /\ canDrain = FALSE /\ iteration = 0 /\ retry = 0 /\ marked = FALSE
  /\ compactTo = "none" /\ compactions = 0 /\ remoteMode \in RemoteModes
  /\ ctxRecorded = FALSE /\ ctxNext = 1 /\ ctxCopies = [p \in CtxParts |-> 0]
  /\ nextItem = 1 /\ aim = [i \in Items |-> 0] /\ turnLog = <<>> /\ late = {}

-----------------------------------------------------------------------------
(* The other threads.                                                      *)

Finishing == {"stop", "after", "end"}

\* a slip: the caller's expected_turn_id is not compared
SteerAcceptedAnyTurn(expected) == activeTurn # 0 /\ activeKind = "regular"
\* steer_input raises, and changes nothing, unless a regular turn is active
\* and is the one the caller expects
SteerAccepted(expected) ==
  /\ activeTurn # 0
  /\ expected \in {0, activeTurn}
  /\ activeKind = "regular"

\* inject_response_items, under _turn_state_lock
Inject(expected) ==
  /\ nextItem <= MaxItems
  /\ pending' = Append(pending, nextItem)
  /\ aim' = [aim EXCEPT ![nextItem] = expected]
  /\ nextItem' = nextItem + 1
  /\ late' = IF pc \in Finishing THEN late \cup {nextItem} ELSE late

SteerInput(expected) ==
  /\ SteerAccepted(expected)
  /\ Inject(expected)
  /\ UNCHANGED <<pc, ids, outcome, flag, idlePending, local, loop, compact, context, turnLog>>

QueueInputForNextTurn ==
  /\ nextItem <= MaxItems
  /\ idlePending' = Append(idlePending, nextItem)
  /\ nextItem' = nextItem + 1
  /\ UNCHANGED <<pc, ids, outcome, flag, pending, local, loop, compact, context, turnLog,
                 aim, late>>

\* pop_pending_input_prompts_for_interrupt: what is queued goes back to the
\* caller; what the loop has already taken does not
PopPendingForInterrupt ==
  /\ pending # <<>>
  /\ pending' = <<>>
  /\ UNCHANGED <<pc, ids, outcome, flag, idlePending, local, loop, compact, context, turnLog,
                 ghosts>>

\* interrupt(): a UI thread may also call it while no turn runs
Interrupt ==
  /\ ~interrupted
  /\ interrupted' = TRUE
  /\ UNCHANGED <<pc, ids, outcome, sinceInt, idlePending, pending, local, loop, compact,
                 context, turnLog, ghosts>>

-----------------------------------------------------------------------------
(* Beginning and ending a turn.                                            *)

Goto(l) == pc' = l /\ UNCHANGED <<ids, outcome>>
Finish(o) == pc' = "end" /\ outcome' = o /\ UNCHANGED ids
StepFrame == UNCHANGED <<flag, idlePending, turnLog, ghosts>>
Quiet == UNCHANGED <<pending, local>> /\ StepFrame
IterationsUsed == MaxIterations # 0 /\ iteration > MaxIterations

\* start_turn and _begin_active_turn: the idle queue becomes the pending one
BeginActiveTurn(kind, first) ==
  /\ pc = "idle" /\ turn < MaxTurns
  /\ pc' = first /\ turn' = turn + 1 /\ outcome' = "none"
  /\ activeTurn' = turn + 1 /\ activeKind' = kind
  /\ pending' = idlePending /\ idlePending' = <<>>
  /\ turnLog' = <<>> /\ late' = {} /\ sinceInt' = 0
  /\ UNCHANGED <<local, nextItem, aim>>

\* _end_active_turn
EndActiveTurn ==
  /\ pc' = "idle" /\ activeTurn' = 0 /\ activeKind' = "none"
  /\ pending' = <<>>

\* stream(prompt): the event is cleared before the turn becomes active
StreamStart ==
  /\ BeginActiveTurn("regular", "prelude")
  /\ interrupted' = FALSE
  /\ compactions' = 0 /\ iteration' = 0 /\ canDrain' = FALSE /\ marked' = FALSE
  /\ ctxNext' = 1
  /\ UNCHANGED <<retry, compactTo, remoteMode, ctxRecorded, ctxCopies>>

\* stream_compact(): clears the event of the tools, not the session's own
StreamCompactStart ==
  /\ BeginActiveTurn("compact", "c_pre")
  /\ compactTo' = "manual"
  /\ UNCHANGED <<interrupted, loop, compactions, remoteMode, context>>

\* the finally clause of stream(): taken and accepted are its locals
StreamFinally ==
  /\ pc = "end"
  /\ EndActiveTurn
  /\ taken' = <<>> /\ accepted' = <<>>
  /\ UNCHANGED <<turn, outcome, loop, compact, context>> /\ StepFrame

\* except TurnInterrupted: goal accounting, marker, turn.aborted
StreamAborted ==
  /\ pc = "abort"
  /\ Finish("aborted")
  /\ UNCHANGED <<pending, local, loop, compact, context>> /\ StepFrame

\* TurnInterrupted, or RuntimeError with o = "failed", leaves the code.  A
\* manual compaction has no handler: its turn stays active, as "compact".
Raise(o) ==
  /\ pc' = IF compactTo = "manual" THEN "idle" ELSE IF o = "aborted" THEN "abort" ELSE "end"
  /\ outcome' = o /\ compactTo' = "none"
  /\ UNCHANGED <<ids, compactions, remoteMode>>

\* a slip: the event is not looked at
Unchecked(l) == pc = l
\* _check_interrupted returns at l
Checked(l) == pc = l /\ ~interrupted
\* where the turn thread is about to call _check_interrupted
AtCheck ==
  \/ pc \in {"prelude", "request", "route", "backoff", "tools", "tooled"}
  \/ pc = "context" /\ ~ctxRecorded
  \/ pc = "top" /\ ~IterationsUsed
  \/ pc = "inspect" /\ taken # <<>>
  \/ pc = "record" /\ accepted # <<>>
CheckInterrupted ==
  /\ AtCheck /\ interrupted
  /\ Raise("aborted")
  /\ UNCHANGED <<loop, context>> /\ Quiet

-----------------------------------------------------------------------------
(* stream(): before the loop.                                              *)

\* on_turn_start and the session_start hook, which may stop the turn
Prelude ==
  /\ Checked("prelude")
  /\ Goto("downshift") \/ Finish("failed")
  /\ UNCHANGED <<loop, compact, context>> /\ Quiet

\* a slip: the markers are not looked at
MarkerIgnored == TRUE
\* the marker of the history is not in auto_compaction_markers
Unmarked == ~marked
\* anything recorded changes the marker
Recorded == marked' = FALSE
MayBeRecorded == marked' \in {marked, FALSE}

\* the two automatic compactions before sampling, if a threshold asks: the one
\* of a model downshift asks no marker, but leaves its own for the next
MayCompact(at, next, allowed) ==
  /\ pc = at
  /\ \/ /\ Goto(next) /\ UNCHANGED <<loop, compact, context>>
     \/ /\ allowed /\ compactions < MaxCompactions
        /\ Goto("c_pre") /\ compactTo' = next /\ compactions' = compactions + 1
        /\ UNCHANGED <<loop, remoteMode, context>>
  /\ Quiet
PreSamplingCompaction ==
  \/ MayCompact("downshift", "presample", TRUE)
  \/ MayCompact("presample", "context", Unmarked)

\* build_initial_context_items is recorded item by item, each after a check
RecordInitialContext ==
  /\ Checked("context") /\ ~ctxRecorded
  /\ ctxCopies' = [ctxCopies EXCEPT ![ctxNext] = @ + 1]
  /\ IF ctxNext + 1 \in CtxParts
     THEN ctxNext' = ctxNext + 1 /\ UNCHANGED ctxRecorded /\ Goto("context")
     ELSE ctxNext' = 1 /\ ctxRecorded' = TRUE /\ Goto("prompt")
  /\ Recorded
  /\ UNCHANGED <<canDrain, iteration, retry, compact>> /\ Quiet
ContextAlreadyRecorded ==
  /\ pc = "context" /\ ctxRecorded
  /\ Goto("prompt")
  /\ UNCHANGED <<loop, compact, context>> /\ Quiet

\* user_prompt_submit hook, then the prompt goes to the history
RecordPrompt ==
  /\ pc = "prompt"
  /\ \/ Goto("top") /\ iteration' = 1 /\ Recorded
     \/ Finish("failed") /\ UNCHANGED <<iteration, marked>>
  /\ UNCHANGED <<canDrain, retry, compact, context>> /\ Quiet

-----------------------------------------------------------------------------
(* stream(): the loop.                                                     *)

Bump == iteration' = IF MaxIterations = 0 THEN 2 ELSE iteration + 1
NextIteration == Goto("top") /\ Bump /\ UNCHANGED <<canDrain, retry, marked>>

IterationsExceeded ==
  /\ pc = "top" /\ IterationsUsed
  /\ Finish("failed")
  /\ UNCHANGED <<loop, compact, context>> /\ Quiet

LoopTop ==
  /\ Checked("top") /\ ~IterationsUsed
  /\ \/ Goto("drain") /\ UNCHANGED <<loop, compact>>
     \/ /\ iteration > 1 /\ Unmarked /\ compactions < MaxCompactions
        /\ Goto("c_pre") /\ compactTo' = "drain" /\ compactions' = compactions + 1
        /\ UNCHANGED <<loop, remoteMode>>
  /\ UNCHANGED context /\ Quiet

\* _take_pending_input, unless the loop may not drain yet
TakePendingInput ==
  /\ pc = "drain"
  /\ IF canDrain /\ pending # <<>>
     THEN Goto("inspect") /\ taken' = pending /\ pending' = <<>>
     ELSE Goto("request") /\ UNCHANGED <<taken, pending>>
  /\ UNCHANGED <<accepted, loop, compact, context>> /\ StepFrame

\* _inspect_pending_input lets the item through
AcceptPending ==
  /\ Checked("inspect") /\ taken # <<>>
  /\ accepted' = Append(accepted, Head(taken)) /\ taken' = Tail(taken)
  /\ Goto("inspect")
  /\ UNCHANGED <<pending, loop, compact, context>> /\ StepFrame

\* a slip: the items behind a blocked one are put behind newer steers
RequeueBehind(rest) == pending' = pending \o rest
\* prepend_pending_input(remaining)
Requeue(rest) == pending' = rest \o pending

\* the hook blocks the item: the ones behind it go back to the queue, and what
\* the hook has to say may be recorded
BlockPending ==
  /\ Checked("inspect") /\ taken # <<>>
  /\ Requeue(Tail(taken)) /\ taken' = <<>>
  /\ Goto(IF accepted = <<>> THEN "allBlocked" ELSE "record")
  /\ MayBeRecorded
  /\ UNCHANGED <<accepted, canDrain, iteration, retry, compact, context>> /\ StepFrame

InspectionDone ==
  /\ pc = "inspect" /\ taken = <<>>
  /\ Goto("record")
  /\ UNCHANGED <<loop, compact, context>> /\ Quiet

RecordPending ==
  /\ Checked("record") /\ accepted # <<>>
  /\ turnLog' = Append(turnLog, Head(accepted)) /\ accepted' = Tail(accepted)
  /\ Goto("record") /\ Recorded
  /\ UNCHANGED <<flag, idlePending, pending, taken, canDrain, iteration, retry, compact, context,
                 ghosts>>

RecordingDone ==
  /\ pc = "record" /\ accepted = <<>>
  /\ Goto("request")
  /\ UNCHANGED <<loop, compact, context>> /\ Quiet

\* nothing was accepted: look again, or fail the turn
AllPendingBlocked ==
  /\ pc = "allBlocked"
  /\ IF pending # <<>> THEN NextIteration ELSE Finish("failed") /\ UNCHANGED loop
  /\ UNCHANGED <<compact, context>> /\ Quiet

\* counted as far as InterruptStopsRequests asks, so that the count stays finite
CountRequest == sinceInt' = (IF interrupted /\ sinceInt <= 2 THEN sinceInt + 1 ELSE sinceInt)

StreamFrame == UNCHANGED <<idlePending, pending, local, turnLog, ghosts>>

\* the request is opened: history_snapshot is taken and the client streams
OpenRequest ==
  /\ Checked("request")
  /\ CountRequest
  /\ Goto("stream") /\ retry' = 0
  /\ UNCHANGED <<interrupted, canDrain, iteration, marked, compact, context>> /\ StreamFrame

\* a slip: what came before the loop may drain is not looked for
HasDrainableInput == canDrain /\ pending # <<>>
HasPendingInput == pending # <<>>
\* after the sampling: tool calls, another round for pending input, or the
\* stop hook
SamplingDone ==
  /\ Checked("route")
  /\ canDrain' = TRUE
  /\ \/ Goto("tools") /\ UNCHANGED iteration
     \/ HasPendingInput /\ Goto("top") /\ Bump
     \/ ~HasPendingInput /\ Goto("stop") /\ UNCHANGED iteration
  /\ UNCHANGED <<retry, marked, compact, context>> /\ Quiet

\* the stop hook may ask for another iteration or stop the turn
StopHook ==
  /\ pc = "stop"
  /\ \/ Goto("after") /\ UNCHANGED <<loop, late>>
     \/ Finish("failed") /\ UNCHANGED <<loop, late>>
     \/ /\ Goto("top") /\ Bump /\ Recorded /\ late' = {}
        /\ UNCHANGED <<canDrain, retry>>
  /\ UNCHANGED <<flag, idlePending, pending, local, compact, context, turnLog, nextItem, aim>>

\* the after_agent hook, on_turn_finished, turn.completed
AfterAgentHook ==
  /\ pc = "after"
  /\ Finish("completed") \/ Finish("failed")
  /\ UNCHANGED <<loop, compact, context>> /\ Quiet

\* _dispatch_tool_calls, the calls of one response as one: the result that
\* is there is recorded without another check
ToolAwaited ==
  /\ Checked("tools")
  /\ Goto("result")
  /\ UNCHANGED <<loop, compact, context>> /\ Quiet
\* _record_tool_result: accounting the goal may steer the turn
ToolFinished ==
  /\ pc = "result"
  /\ Goto("tooled")
  /\ \/ Inject(turn)
     \/ UNCHANGED <<pending, ghosts>>
  /\ Recorded
  /\ UNCHANGED <<flag, idlePending, local, canDrain, iteration, retry, compact, context, turnLog>>
ToolsDone ==
  /\ Checked("tooled")
  /\ NextIteration
  /\ UNCHANGED <<compact, context>> /\ Quiet

-----------------------------------------------------------------------------
(* _stream_model_output, for a sampling or for a local compaction prompt.  *)

Compacting == compactTo # "none"

\* the next event, or the exception of the cancelled client, meets the check
StreamInterrupted ==
  /\ pc \in {"stream", "tail"} /\ interrupted
  /\ Raise("aborted")
  /\ UNCHANGED <<loop, context>> /\ Quiet

\* a reply has at least one event, and each is checked
StreamEvent ==
  /\ Checked("stream")
  /\ Goto("tail")
  /\ UNCHANGED <<loop, compact, context>> /\ Quiet

\* a slip: the session still believes the context is in the history
ReplaceHistoryOnly ==
  /\ ctxCopies' = [p \in CtxParts |-> IF compactTo = "drain" THEN 1 ELSE 0]
  /\ UNCHANGED <<ctxRecorded, ctxNext>>
\* state.history is replaced by the summary, with or without the context
ReplaceHistory ==
  /\ ctxRecorded' = (compactTo = "drain")
  /\ ctxCopies' = [p \in CtxParts |-> IF compactTo = "drain" THEN 1 ELSE 0]
  /\ ctxNext' = 1

\* what a sampling records, with the agents' notifications before it, may be
\* nothing
StreamDone ==
  /\ pc = "tail"
  /\ IF Compacting
     THEN Goto("c_post") /\ ReplaceHistory /\ UNCHANGED marked
     ELSE Goto("route") /\ MayBeRecorded /\ UNCHANGED context
  /\ UNCHANGED <<canDrain, iteration, retry, compact>> /\ Quiet

\* a slip: one retry too many
MayRetryOnceMore == retry <= MaxRetries
MayRetry == retry < MaxRetries
\* a failure restores history_snapshot; a retryable one is tried again
StreamFailed ==
  /\ Checked("stream") \/ Checked("tail")
  /\ \/ MayRetry /\ Goto("backoff") /\ retry' = retry + 1 /\ UNCHANGED compact
     \/ Raise("failed") /\ UNCHANGED retry
  /\ UNCHANGED <<canDrain, iteration, marked, context>> /\ Quiet

RetryRequest ==
  /\ Checked("backoff")
  /\ Goto("stream")
  /\ UNCHANGED <<loop, compact, context>> /\ Quiet

-----------------------------------------------------------------------------
(* _stream_compact.                                                        *)

\* a hook or a required remote compaction stops it: a manual one ends its
\* turn itself, an automatic one makes stream() return
CompactStopped(o) ==
  IF compactTo = "manual"
  THEN EndActiveTurn /\ outcome' = o /\ compactTo' = "none" /\ UNCHANGED turn
  ELSE Finish(o) /\ compactTo' = "none" /\ UNCHANGED pending

PreCompactHook ==
  /\ pc = "c_pre"
  /\ \/ /\ Goto(IF remoteMode = "off" THEN "c_open" ELSE "c_remote")
        /\ UNCHANGED <<pending, compactTo>>
     \/ CompactStopped("aborted")
  /\ UNCHANGED <<local, loop, compactions, remoteMode, context>> /\ StepFrame

\* client.compact(): no check of the interrupt before, during or after it
RemoteCompaction ==
  /\ pc = "c_remote"
  /\ CountRequest
  /\ \/ Goto("c_post") /\ ReplaceHistory /\ UNCHANGED <<pending, compactTo>>
     \/ /\ IF remoteMode = "required"
           THEN CompactStopped("failed")
           ELSE Goto("c_open") /\ UNCHANGED <<pending, compactTo>>
        /\ UNCHANGED context
  /\ UNCHANGED <<interrupted, idlePending, local, loop, compactions, remoteMode, turnLog, ghosts>>

OpenCompactRequest ==
  /\ pc = "c_open"
  /\ CountRequest
  /\ Goto("stream") /\ retry' = 0
  /\ UNCHANGED <<interrupted, canDrain, iteration, marked, compact, context>> /\ StreamFrame

\* an automatic compaction that returns leaves the marker of the new history
PostCompactHook ==
  /\ pc = "c_post"
  /\ \/ CompactStopped("aborted") /\ UNCHANGED <<canDrain, marked>>
     \/ /\ compactTo = "manual"
        /\ CompactStopped("completed") /\ UNCHANGED <<canDrain, marked>>
     \/ /\ compactTo # "manual"
        /\ Goto(compactTo) /\ compactTo' = "none" /\ UNCHANGED pending
        /\ canDrain' = (canDrain /\ compactTo # "drain") /\ marked' = TRUE
  /\ UNCHANGED <<local, iteration, retry, compactions, remoteMode, context>> /\ StepFrame

-----------------------------------------------------------------------------
SteerSome == \E expected \in 0..MaxTurns : SteerInput(expected)

\* the threads of the interface
Others ==
  \/ SteerSome \/ QueueInputForNextTurn \/ PopPendingForInterrupt \/ Interrupt
  \/ StreamStart \/ StreamCompactStart

\* what the turn thread does by itself once a turn has begun
TurnStep ==
  \/ StreamFinally \/ StreamAborted \/ CheckInterrupted
  \/ Prelude \/ PreSamplingCompaction \/ RecordInitialContext \/ ContextAlreadyRecorded
  \/ RecordPrompt \/ IterationsExceeded \/ LoopTop
  \/ TakePendingInput \/ AcceptPending \/ BlockPending \/ InspectionDone
  \/ RecordPending \/ RecordingDone \/ AllPendingBlocked
  \/ OpenRequest \/ SamplingDone \/ StopHook \/ AfterAgentHook
  \/ ToolAwaited \/ ToolFinished \/ ToolsDone
  \/ StreamInterrupted \/ StreamEvent \/ StreamDone \/ StreamFailed \/ RetryRequest
  \/ PreCompactHook \/ RemoteCompaction \/ OpenCompactRequest \/ PostCompactHook

Next == Others \/ TurnStep

\* Whoever consumes the generator draws it to its end, so its thread keeps
\* running; nobody has to steer, interrupt or start a turn.
Fairness == WF_vars(TurnStep)
Spec == Init /\ [][Next]_vars /\ Fairness

-----------------------------------------------------------------------------
(* Properties.                                                             *)

PCs == {"idle", "end", "abort", "prelude", "downshift", "presample", "context", "prompt", "top",
        "drain", "inspect", "allBlocked", "record", "request", "stream", "tail", "route", "stop",
        "after", "tools", "result", "tooled", "backoff", "c_pre", "c_remote", "c_open", "c_post"}

\* Every variable of a session keeps its type (VolleySession's fields and the
\* locals of stream()).
TypeOK ==
  /\ pc \in PCs /\ turn \in 0..MaxTurns /\ activeTurn \in 0..MaxTurns
  /\ activeKind \in Kinds /\ outcome \in Outcomes
  /\ interrupted \in BOOLEAN /\ sinceInt \in Nat
  /\ idlePending \in Seq(Items) /\ pending \in Seq(Items)
  /\ taken \in Seq(Items) /\ accepted \in Seq(Items) /\ turnLog \in Seq(Items)
  /\ canDrain \in BOOLEAN /\ iteration \in Nat /\ retry \in 0..MaxRetries
  /\ marked \in BOOLEAN
  /\ compactTo \in {"none", "manual", "presample", "context", "drain"}
  /\ compactions \in 0..MaxCompactions /\ remoteMode \in RemoteModes
  /\ ctxRecorded \in BOOLEAN /\ ctxNext \in CtxParts /\ ctxCopies \in [CtxParts -> Nat]
  /\ nextItem \in 1..(MaxItems + 1) /\ aim \in [Items -> 0..MaxTurns] /\ late \subseteq Items

\* what the turn has made of the input given to it, oldest first
Pipeline == turnLog \o accepted \o taken \o pending

\* An input item reaches the history at most once and in the order it was
\* given, across the four places it passes through: the queue, the list the
\* hook inspects, the accepted list and the history (core.py:660-683).
PipelineOrdered == StrictlyIncreasing(Pipeline)

\* A steer that named the turn it expects is never seen by another turn
\* (inject_response_items against _begin_active_turn and _end_active_turn).
AimHonoured == \A i \in Range(Pipeline) : aim[i] \in {0, turn}

\* When no turn is active nothing is queued for one: what is left in the
\* queue when a turn ends cannot surprise the next (core.py:1304-1308).
QuietWhenIdle == pc = "idle" /\ activeKind = "none" => pending = <<>>

\* Steering as a whole.
SteeringSafe == PipelineOrdered /\ AimHonoured /\ QuietWhenIdle

\* A turn that completes leaves behind only input that was steered after its
\* last look at the queue (core.py:726): everything older was recorded,
\* blocked by the hook or handed back.
OnlyLateInputIsLost ==
  pc = "end" /\ outcome = "completed" => Range(accepted \o taken \o pending) \subseteq late

\* Whatever compactions, interrupts and earlier turns did to the history, a
\* sampling request carries both context messages, and the second of them
\* never twice (core.py:618-623 with 430).
RequestsCarryContext ==
  /\ pc \in {"stream", "tail"} /\ ~Compacting => \A p \in CtxParts : ctxCopies[p] >= 1
  /\ ctxCopies[2] <= 1

\* An interrupt stops a turn before it opens more than two model requests: a
\* remote compaction and its local fallback, neither of which looks at
\* _interrupt_event (core.py:368-411).  That no second compaction joins them is
\* the markers' doing (core.py:599-603, 638-640): once one has returned,
\* nothing is recorded before the next look at the markers.
InterruptStopsRequests == sinceInt <= 2

\* A turn that is interrupted ends, whatever it is waiting for and even when
\* config.max_iterations sets no limit.
InterruptEndsTurn == (interrupted /\ pc # "idle") ~> (pc = "idle")
=============================================================================
