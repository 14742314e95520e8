------------------------------ MODULE Rollout ------------------------------
(***************************************************************************)
(* The history of one session and its rollout file (state.py, core.py).    *)
(* An event that changes the history is followed by an append to the file; *)
(* the process may die before, inside or after the append.  A session that *)
(* is resumed or forked takes its history from the file.                   *)
(***************************************************************************)
EXTENDS History

CONSTANTS
  MaxItems, MaxTurns, MaxCompactions, MaxCrashes, MaxForks  \* bounds

ASSUME BoundsAssumption ==
  {MaxItems, MaxTurns, MaxCompactions, MaxCrashes, MaxForks} \subseteq Nat

VARIABLES
  file,         \* the history that reconstruction makes of the rollout's lines
  torn,         \* the rollout ends inside a line
  writing,      \* the lines of the append under way
  seed,         \* _rollout_seed_history, as lines
  history,      \* state.history
  ctxRecorded,  \* _initial_context_recorded
  pc,           \* where the turn is
  back,         \* where a compaction returns to
  snapshot,     \* history_snapshot of _stream_model_output
  calls,        \* calls of the last response that have no result yet
  kept,         \* history variable: file without the items that the history
                \* has dropped or never had
  halved,       \* history variable: resumed with half of the context
  next,         \* number of the next item
  turns, compactions, crashes, forks   \* counters for the bounds

live == <<history, ctxRecorded, snapshot, calls>>
disk == <<file, torn, seed, kept>>
counters == <<turns, compactions, crashes, forks>>
vars == <<live, disk, writing, pc, back, halved, next, counters>>

Items == [kind : Kinds, id : 0..MaxItems]

\* Lines: an item, an item that is not in the history (again), a compacted
\* history, and everything else (session_meta, turn_context, event_msg), which
\* reconstruction of the history passes over.
LinesOf(types) == [type : types, items : Seq(Items)]
Line(type, items) == [type |-> type, items |-> items]
ItemLine(e) == Line("item", <<e>>)
Other == Line("other", <<>>)

Init ==
  /\ file = <<>> /\ kept = <<>> /\ torn = FALSE /\ writing = <<>> /\ seed = <<>>
  /\ history = <<>> /\ ctxRecorded = FALSE
  /\ pc = "idle" /\ back = "idle" /\ snapshot = <<>> /\ calls = <<>>
  /\ halved = FALSE
  /\ next = 1 /\ turns = 0 /\ compactions = 0 /\ crashes = 0 /\ forks = 0

-----------------------------------------------------------------------------
(* The file.                                                               *)

\* What reconstruction finds of lines appended to the file: the first one is
\* glued to a torn one.
Landed(lines) ==
  Only(IF torn /\ lines # <<>> THEN Tail(lines) ELSE lines,
       LinesOf({"item", "echo", "compacted"}))

\* reconstruct_history_from_rollout, further from history h: items are
\* appended, a compacted line replaces what is before it (only the last of an
\* append can be one).
Read(h, lines) ==
  IF lines # <<>> /\ Last(lines).type = "compacted" THEN Last(lines).items
  ELSE h \o [i \in DOMAIN lines |-> Head(lines[i].items)]

\* The lines reach the file.
Store(lines) ==
  /\ file' = Read(file, Landed(lines))
  /\ kept' = Read(kept, Only(Landed(lines), LinesOf({"item", "compacted"})))

\* _persist_event: the first append of a session begins with its seed.
Emit(lines) == writing' = lines /\ UNCHANGED disk

EmitFirst(lines) ==
  /\ writing' = seed \o lines
  /\ seed' = <<>>
  /\ UNCHANGED <<file, torn, kept>>

Write ==
  /\ writing # <<>>
  /\ Store(writing)
  /\ torn' = FALSE
  /\ writing' = <<>>
  /\ UNCHANGED <<live, seed, pc, back, halved, next, counters>>

\* The session's thread takes a step: no append is under way.
At(places) == writing = <<>> /\ pc \in places

Goto(place) == pc' = place /\ UNCHANGED <<back, halved, counters>>

\* The turn ends, or a compaction returns.
Return(place) == pc' = place /\ back' = "idle" /\ UNCHANGED <<halved, counters>>

\* append_history and the event that persists the item.
Append1(e) ==
  /\ history' = Append(history, e)
  /\ Emit(<<ItemLine(e)>>)

Fresh(kind) == next <= MaxItems /\ next' = next + 1 /\ Append1(Item(kind, next))

-----------------------------------------------------------------------------
(* A turn up to its first request.                                         *)

\* A slip: the turn writes nothing of its own when it begins.
BeginSilently(place) ==
  /\ At({"idle"}) /\ turns < MaxTurns
  /\ turns' = turns + 1
  /\ EmitFirst(<<>>)
  /\ pc' = place
  /\ UNCHANGED <<live, back, halved, next, compactions, crashes, forks>>

Begin(place) ==
  /\ At({"idle"}) /\ turns < MaxTurns
  /\ turns' = turns + 1
  /\ EmitFirst(<<Other>>)
  /\ pc' = place
  /\ UNCHANGED <<live, back, halved, next, compactions, crashes, forks>>

StartTurn == Begin("begin")

\* Contexts of hooks and notifications of agents.
Note ==
  /\ At({"begin", "ready", "prompted", "top", "steer", "ask", "tools", "compact", "after"})
  /\ Fresh("note")
  /\ UNCHANGED <<ctxRecorded, snapshot, calls, pc, back, halved, counters>>

\* The initial context, one item after the other.
Developer ==
  /\ At({"begin"}) /\ ~ctxRecorded
  /\ Append1(Item("developer", 0))
  /\ Goto("context")
  /\ UNCHANGED <<ctxRecorded, snapshot, calls, next>>

Context ==
  /\ At({"context"})
  /\ Append1(Item("context", 0))
  /\ ctxRecorded' = TRUE
  /\ Goto("ready")
  /\ UNCHANGED <<snapshot, calls, next>>

Prompt ==
  /\ At({"begin", "ready"}) /\ ctxRecorded
  /\ Fresh("user")
  /\ Goto("prompted")
  /\ UNCHANGED <<ctxRecorded, snapshot, calls>>

\* The first iteration of the loop neither compacts nor takes steers.
EnterLoop ==
  /\ At({"prompted"})
  /\ Goto("ask")
  /\ UNCHANGED <<live, disk, writing, next>>

\* A hook stops the turn, or the turn is complete: nothing for the history.
EndTurn ==
  /\ At({"begin", "ready", "top", "steer"})
  /\ Return("idle")
  /\ UNCHANGED <<live, disk, writing, next>>

-----------------------------------------------------------------------------
(* The loop: steers, a request, the response, the tools.                   *)

Steer ==
  /\ At({"top", "steer"})
  /\ Fresh("user")
  /\ Goto("steer")
  /\ UNCHANGED <<ctxRecorded, snapshot, calls>>

Request ==
  /\ At({"top", "steer", "ask"})
  /\ snapshot' = history
  /\ Goto("stream")
  /\ UNCHANGED <<history, ctxRecorded, calls, disk, writing, next>>

Reply ==
  /\ At({"stream"})
  /\ Fresh("reply")
  /\ UNCHANGED <<ctxRecorded, snapshot, calls, pc, back, halved, counters>>

Call ==
  /\ At({"stream"})
  /\ Fresh("call")
  /\ calls' = Append(calls, next)
  /\ UNCHANGED <<ctxRecorded, snapshot, pc, back, halved, counters>>

StreamDone ==
  /\ At({"stream"})
  /\ snapshot' = <<>>
  /\ Goto(IF calls = <<>> THEN "top" ELSE "tools")
  /\ UNCHANGED <<history, ctxRecorded, calls, disk, writing, next>>

\* The response failed: its items leave the history and stay in the file.
\* The request is sent again, or the turn fails.
StreamFailed ==
  /\ At({"stream"})
  /\ history' = snapshot
  /\ kept' = SubSeq(kept, 1, Len(kept) - (Len(history) - Len(snapshot)))
  /\ calls' = <<>>
  /\ \/ Goto("stream") /\ UNCHANGED snapshot
     \/ Return("idle") /\ snapshot' = <<>>
  /\ UNCHANGED <<ctxRecorded, file, torn, seed, writing, next>>

ToolResult ==
  /\ At({"tools"})
  /\ Append1(Item("output", Head(calls)))
  /\ calls' = Tail(calls)
  /\ Goto(IF Tail(calls) = <<>> THEN "top" ELSE "tools")
  /\ UNCHANGED <<ctxRecorded, snapshot, next>>

\* TurnInterrupted: a marker, unless it comes out of a manual compaction.
Interrupt ==
  /\ At({"begin", "context", "top", "steer", "ask", "stream", "tools", "summarise"})
  /\ IF pc = "summarise" /\ back = "idle"
     THEN UNCHANGED <<history, disk, writing>>
     ELSE Append1(Item("marker", 0))
  /\ calls' = <<>> /\ snapshot' = <<>>
  /\ Return("idle")
  /\ UNCHANGED <<ctxRecorded, next>>

-----------------------------------------------------------------------------
(* Compaction: before the first request, in the loop, or on its own (from  *)
(* "idle").                                                                *)

AutoCompact ==
  /\ At({"begin", "top"}) /\ compactions < MaxCompactions
  /\ compactions' = compactions + 1
  /\ back' = pc
  /\ pc' = "compact"
  /\ UNCHANGED <<live, disk, writing, halved, next, turns, crashes, forks>>

ManualCompact ==
  /\ At({"idle"}) /\ turns < MaxTurns /\ compactions < MaxCompactions
  /\ turns' = turns + 1 /\ compactions' = compactions + 1
  /\ EmitFirst(<<Other>>)
  /\ back' = "idle"
  /\ pc' = "compact"
  /\ UNCHANGED <<live, halved, next, crashes, forks>>

\* A hook blocks it.  turn.aborted persists the marker the history ends with,
\* which an earlier interrupt has persisted already.
CompactBlocked ==
  /\ At({"compact", "after"})
  /\ IF history # <<>> /\ Last(history).kind = "marker"
     THEN Emit(<<Line("echo", <<Last(history)>>)>>)
     ELSE UNCHANGED <<writing, disk>>
  /\ Return("idle")
  /\ UNCHANGED <<live, next>>

\* Only a compaction in the loop brings the context back itself.
ContextToInject == IF back = "top" THEN InitialContext ELSE <<>>

\* Blocks that the budget may allow; none when they are switched off.
Blocks == {IF n = 0 THEN <<>> ELSE RecentBlock(history, n) :
             n \in 0..Len(Compressible(history))}

\* The latest text of the user is always kept.
Keeps == LET texts == Len(OfKinds(history, {"user"}))
         IN IF texts = 0 THEN {0} ELSE 1..texts

\* The new history and the line that persists it.
Compacted(h) ==
  /\ history' = h
  /\ ctxRecorded' = (ContextToInject # <<>>)
  /\ halved' = FALSE
  /\ next' = next + 1
  /\ Emit(<<Line("compacted", h)>>)
  /\ pc' = "after" /\ snapshot' = <<>>
  /\ UNCHANGED <<calls, back, counters>>

CompactRemotely ==
  /\ At({"compact"}) /\ next <= MaxItems
  /\ \E block \in Blocks :
       Compacted(Checkpointed(Item("checkpoint", next), ContextToInject, block))

\* The endpoint fails, and the session is set to have nothing else.
RemoteFailed ==
  /\ At({"compact"})
  /\ Return("idle")
  /\ UNCHANGED <<live, disk, writing, next>>

\* Also when the endpoint failed.
Summarise ==
  /\ At({"compact"})
  /\ snapshot' = history
  /\ Goto("summarise")
  /\ UNCHANGED <<history, ctxRecorded, calls, disk, writing, next>>

\* The summary arrives as an item: it is persisted, the history has it only
\* as part of what replaces it.
SummaryReply ==
  /\ At({"summarise"}) /\ next <= MaxItems
  /\ next' = next + 1
  /\ Emit(<<Line("echo", <<Item("reply", next)>>)>>)
  /\ UNCHANGED <<live, pc, back, halved, counters>>

SummaryFailed ==
  /\ At({"summarise"})
  /\ history' = snapshot
  /\ \/ Goto("summarise") /\ UNCHANGED snapshot
     \/ Return("idle") /\ snapshot' = <<>>
  /\ UNCHANGED <<ctxRecorded, calls, disk, writing, next>>

SummaryDone ==
  /\ At({"summarise"}) /\ next <= MaxItems
  /\ \E block \in Blocks, keep \in Keeps :
       Compacted(Summarised(history, Item("summary", next), ContextToInject,
                            block, keep))

\* Before the first request the turn goes on; in the loop it asks at once.
CompactReturn ==
  /\ At({"after"})
  /\ Return(IF back = "top" THEN "ask" ELSE back)
  /\ UNCHANGED <<live, disk, writing, next>>

-----------------------------------------------------------------------------
(* The process ends, the session is resumed or forked.                     *)

\* Part of what was being appended is in the file.
Crash ==
  /\ pc # "down" /\ crashes < MaxCrashes
  /\ \E k \in 0..Len(writing) :
       /\ Store(SubSeq(writing, 1, k))
       /\ torn' \in {torn /\ k = 0, k < Len(writing) \/ (torn /\ k = 0)}
  /\ history' = <<>> /\ ctxRecorded' = FALSE /\ snapshot' = <<>> /\ calls' = <<>>
  /\ writing' = <<>> /\ seed' = <<>>
  /\ pc' = "down" /\ back' = "idle" /\ halved' = FALSE
  /\ crashes' = crashes + 1
  /\ UNCHANGED <<next, turns, compactions, forks>>

\* The history a session begins with when it comes from a file.
Take(h) ==
  /\ history' = h
  /\ ctxRecorded' = HasContext(h)
  /\ halved' = (HasKind(h, "developer") # HasKind(h, "context"))

Resume ==
  /\ pc = "down"
  /\ Take(file)
  /\ kept' = file
  /\ pc' = "idle"
  /\ UNCHANGED <<file, torn, seed, writing, snapshot, calls, back, next, counters>>

\* /fork: the chat itself, or a saved one; the other file is left alone.  A fork
\* that was not gone on with has no file that could be chosen.
Fork ==
  /\ At({"idle"}) /\ forks < MaxForks
  /\ \/ UNCHANGED <<history, ctxRecorded, halved>>
     \/ seed = <<>> /\ Take(file)
  /\ file' = <<>> /\ torn' = FALSE /\ kept' = <<>>
  /\ seed' = [i \in DOMAIN history' |-> ItemLine(history'[i])]
  /\ forks' = forks + 1
  /\ UNCHANGED <<writing, snapshot, calls, pc, back, next, turns, compactions, crashes>>

Next ==
  \/ Write \/ StartTurn \/ Note \/ Developer \/ Context \/ Prompt \/ EnterLoop
  \/ EndTurn \/ Steer \/ Request \/ Reply \/ Call \/ StreamDone \/ StreamFailed
  \/ ToolResult \/ Interrupt
  \/ AutoCompact \/ ManualCompact \/ CompactBlocked \/ CompactRemotely
  \/ RemoteFailed \/ Summarise \/ SummaryReply \/ SummaryFailed \/ SummaryDone \/ CompactReturn
  \/ Crash \/ Resume \/ Fork

Spec == Init /\ [][Next]_vars

-----------------------------------------------------------------------------
(* Properties.                                                             *)

Lines == LinesOf({"item", "echo", "compacted", "other"})

\* The variables have their types.
TypeOK ==
  /\ {writing, seed} \subseteq Seq(Lines)
  /\ {file, kept, history, snapshot} \subseteq Seq(Items)
  /\ {torn, ctxRecorded, halved} \subseteq BOOLEAN
  /\ pc \in {"idle", "begin", "context", "ready", "prompted", "top", "steer", "ask",
             "stream", "tools", "compact", "summarise", "after", "down"}
  /\ back \in {"idle", "begin", "top"}
  /\ calls \in Seq(1..MaxItems)
  /\ next \in 1..MaxItems + 1
  /\ turns \in 0..MaxTurns /\ compactions \in 0..MaxCompactions
  /\ crashes \in 0..MaxCrashes /\ forks \in 0..MaxForks

Echoes == [kind : {"reply", "call", "marker"}, id : 0..MaxItems]

\* The file follows the history change by change (emit after append_history,
\* a compacted line for a replaced history): a process that dies, even inside
\* an append, loses its last change at most, nothing that was saved is lost
\* to a torn line later, and what resume brings back beyond the history are
\* replies, calls and markers only.
Durable == INSTANCE Conversation WITH
  live <- history, saved <- kept, up <- (pc # "down"),
  Echo <- Echoes

SurvivesItsProcess == Durable!Spec

\* Whatever interrupts, crashes, failed responses, resumes and blocks of
\* recent activity left in the history, a request made of it pairs calls with
\* outputs: the API rejects a prompt that does not (prepare_prompt_history).
Paired(p) ==
  /\ \A i \in DOMAIN p : p[i].kind = "call" =>
       \E j \in i+1..Len(p) : p[j] = Item("output", p[i].id)
  /\ \A i \in DOMAIN p : p[i].kind = "output" =>
       \E j \in 1..i-1 : p[j] = Item("call", p[i].id)
  /\ \A i, j \in DOMAIN p : p[i] = p[j] /\ p[i].kind = "output" => i = j

PromptWellFormed == Paired(Prepare(history))

\* Every request of a turn carries the developer message and the environment,
\* across compactions, forks and resumes, except after the session was
\* resumed with one of the two, when the other never comes
\* (_history_has_initial_context is content with either).
ContextKnown ==
  pc = "stream" => halved \/ (HasKind(history, "developer") /\ HasKind(history, "context"))

\* A text of the user is in the history once, in the kept prefix or in the
\* block of recent activity ("one place, no duplication", state.py:131).
TextsOnce ==
  \A i, j \in DOMAIN history :
    history[i] = history[j] /\ history[i].kind = "user" => i = j
=============================================================================
