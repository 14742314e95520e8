# Verification of volley

TLA+ models of volley's core, model-checked with TLC and, where the results should hold for every
size, proved with TLAPS.  volley is a coding agent: a process (or a background worker) holds a
session with a model, runs the tools the model asks for, records everything in an append-only file,
delegates to child agents, keeps goals for threads and distils memories of old ones.  What makes it
hard is that the interface, the turn, child agents, tools and other processes all act on the same
state, and that a turn can be steered, interrupted or killed between any two of its steps.

`PROJECT.json` lists the components, runs, mutants, the source lines behind each definition, the
hazards and the theorems.  This file explains them.

## 1. Inventory

Line numbers are of the files under `src/`.  "Hard" names what a unit test of the component would
hardly reach.

| component | state | operations | module |
|---|---|---|---|
| session turn loop (`core.py`) | queues of steered and queued input, the active turn, the interrupt event, whether the initial context is in the history | `stream`, `stream_compact`, `steer_input`, `queue_input_for_next_turn`, `pop_pending_input_prompts_for_interrupt`, `interrupt` | `SessionTurn` |
| multi-agent runtime (`core.py`) | a record for each agent, its queue, its loop thread, notifications for the parent | `spawn_agent`, `send_input`, `resume_agent`, `close_agent`, `wait_agent`, `request_interrupt`, `interrupt_all` | `AgentRuntime` |
| persistent session worker (`session_daemon.py`) | clients, the turn thread, queued prompts, open questions | submit, `/compact`, interrupt, answer, attach, leave, shutdown | `SessionDaemon` |
| memory pipeline (`memory.py`) | SQLite rows for threads, jobs and summaries; a workspace under git | claim, summarise, fail, prune, select, consolidate, reset the baseline | `MemoryJobs` |
| thread goals (`goal.py`, `cli.py`) | `thread_goals.json`, the accounting of each session, the loop that continues a goal | `create_goal`, `update_goal`, `/goal`, charge, continue | `Goals` |
| session state and rollout (`state.py`, `core.py`) | the history, the append-only rollout, token counts, the settings of the previous turn | emit, persist, reconstruct, resume, fork | `Rollout`, `Conversation` |
| prompt history normalisation (`state.py`) | none: a function of the history | pair calls with outputs, drop orphans, offload old activity | `History` |
| tools and processes (`tools.py`) | running commands, sessions of unified exec, output buffers, permissions kept for the session | exec, write to stdin, wait, approve, retry, interrupt, prune | `Commands`, `Approvals`, `Texts` |
| patches (`tools.py`, `state.py`) | the records of a turn's changes | parse, check, approve, apply, record, diff | `Patches`, `PatchText`, `TurnDiff` |
| model transports (`model.py`) | which of two accounts is in use, the probe of the other, open responses | stream, create, compact, retry, fall back, probe, cancel | `Transports`, `Gemini` |
| authentication (`auth.py`) | `auth.json`, rewritten by several processes | load, refresh, log in, read the limits | `Tokens` |
| event log and attached terminal (`session_daemon.py`, `cli.py`) | a bounded numbered log, the flag of the worker, what a terminal has seen | log, greet, replay, send, read, show, answer, detach | `EventLog`, `Attach` |
| terminal interface (`cli.py`) | the line that is edited, the queue of prompts, the turn's thread beside it | keys, commands, Esc, questions, goal turns, pickers, `/fast`, what is resumed | `Chat`, `Composer`, `Screen`, `Question`, `Keyboard`, `Resume`, `Picker`, `Settings` |
| prompts and assets, configuration and types | none | assembly of texts, defaults | not modelled |

How they interact:

* The interface (or the worker, for its clients) consumes the generator `VolleySession.stream()` in
  one thread and calls `steer_input`, `interrupt` and the queue operations from others.  They share
  `_turn_state_lock`, `_interrupt_event` and nothing else.
* A turn calls the model client, then the tools.  Tools may spawn agents: child sessions with loop
  threads of their own that post notifications to the parent, which takes them at its next look.
* Every event of a session passes through `SessionState.emit`, which appends to the rollout; a
  resumed or forked session is rebuilt from that file.
* Goals and memories live in files shared by processes: one JSON file rewritten as a whole, one
  SQLite file used without explicit transactions, one git workspace.
* A worker process outlives its terminals; which worker serves a thread is a matter of registry
  files and socket paths.

What is hard, and what correctness means, component by component:

* **Turn loop.**  Input passes through four places (queue, hook inspection, accepted list, history)
  under different locks or none, while an interrupt may come at any moment.  Input must reach the
  history at most once and in order, never in a turn it was not aimed at; a completed turn may leave
  behind only input that came after its last look; every request must carry the initial context
  whatever compactions did; an interrupt must end the turn after a bounded number of requests.
* **Agents.**  Decisions are made under the record's lock and carried out after it.  A child session
  must have one runner, no prompt may be stranded or overtaken, every prompt is started or dropped.
* **Worker.**  Between the start of a turn thread and the beginning of `stream()` the session looks
  idle.  One turn thread at a time, prompts in order, none stranded, and a worker nobody uses ends.
* **Memory.**  Leases lapse under workers that still work, claims are read and written apart, a
  thread goes on while it is summarised.  Watermarks must be earned, summaries must not go back, a
  change must not be forgotten by the next consolidation.
* **Goals.**  The file is read and replaced under locks that exclude nobody.  An active goal must
  have budget left, tokens are charged once, and the loop that continues a goal must end by it as long
  as the model reports what it uses.
* **Rollout.**  A process may die inside an append, a retry takes back history whose items were
  already persisted, a compaction replaces the history but not the file.  A resumed session must
  have the history the live one had, and every prompt built from it must be well formed.
* **Commands.**  Calls spawn, register, wait, read and stop processes while `/stop` collects its
  victims.  Somebody must hold every process; output must be delivered once and in order,
  and as it was written wherever its characters come whole; nothing that has to ask may run beyond what
  was granted.
* **Patches.**  Changes are made one by one in files others write too.  What was done must be in the
  diff of the turn, what the check of a patch can see must stop it before its first change, and chunks
  that were searched in the original must not disturb one another.
* **Transports and tokens.**  One client is shared by a session and its agents, one file by all
  processes.  An answer is one response, an interrupt closes its own, and the file keeps a token
  that still works.
* **Attached terminals.**  The flag of the worker and the messages about it are written apart, and
  read apart.  A terminal must end with the current state, print each end of a turn once and show
  every question.
* **Terminal.**  A prompt is typed beside a turn, steered into it, taken back by Esc, queued behind
  it.  It must run once, in order with the commands around it, and a goal must let it through.

## 2. Plan

Modules are written in the order of how much of a session's correctness depends on them.

| | module | abstract specification or theorem worth having | state |
|---|---|---|---|
| 1 | `SessionTurn` (with `Ordering`) | input in order, aim honoured, nothing lost, context in every request, for every bound | checked and proved |
| 2 | `AgentRuntime` | a FIFO mailbox with priority as abstract specification; `OneRunner`, `PromptOrder` proved | checked and proved; the abstract mailbox is open |
| 3 | `SessionDaemon` | `OneTurnThread`, `TurnsInOrder`, `NoPromptStranded` proved | checked and proved |
| 4 | `MemoryJobs` | `WatermarkEarned`, `SummaryCoversWatermark`, `DirtyIsVisible` proved | checked and proved |
| 5 | `Goals` | budget kept under lost updates; every token once; the loop is charged | checked and proved |
| 6 | `Rollout` (with `History`) | `Conversation`: a durable history that survives its process; the refinement, `PromptWellFormed` and `TextsOnce` proved | checked and proved |
| 7 | `Commands` (with `Approvals`, `Texts`) | every process is somebody's; `Owned`, `OutputOnce`, `RunsAreApproved` proved | checked and proved |
| 8 | `Transports` (with `Tokens`, `Gemini`) | an answer is one response of one account; the file keeps a token that works | checked and proved |
| 9 | `EventLog`, `Attach` | a terminal catches up, whatever it missed; `CaughtUp`, `FinishedOnce` proved | checked and proved |
| 10 | `Patches` (with `PatchText`, `TurnDiff`) | chunks and diffs against reference definitions; `TurnDiffIsNet`, `AllOrNothing` proved | checked and proved |
| 11 | `Chat` (with `Composer` and the forms) | a submission is in one place; the editor and the pickers as functions; `EachPromptOnce`, `CommandsWaitTheirTurn` proved | checked and proved |
| 12 | compositions | `SessionDaemon` over the interface of `SessionTurn`; `AgentRuntime` and `Chat` likewise | open |
| 13 | further proofs | `PatchedAsAsked`, from a lemma about splicing at places that lie apart | open (section 6) |

`SessionDaemon`, `AgentRuntime` and `Chat` each carry the few facts they use of the session (whether
a regular turn is active; that `stream()` clears the interrupt event; where a steer may be).  The
compositions of step 12 would replace these by instances of `SessionTurn` with its input forgotten.

## 3. The modules

A step of a model is a stretch of code between two points where another thread or process can be
seen: a block under one lock, one SQL transaction, one read or replacement of a file, or the code
between two of these.  Replies of the model, decisions of hooks, thresholds and time are
nondeterministic.  Counters that only exist to bound the state space are named as bounds in the
CONSTANTS of each module; everything else there is a value of volley's configuration.

### SessionTurn (`core.py`)

One `VolleySession`.  `pc` is where the thread that consumes the generator is; its values are the
calls of `_check_interrupted`, the takes of `_turn_state_lock` and the calls of hooks.  The actions
under "The other threads" are the methods the interface calls.  `pending`, `taken`, `accepted` and
`turnLog` are the four places of an input item: `_pending_input`, the local `pending_items`, the
local `accepted_pending` and the history.  Items are numbers in the order they were given, so order
and duplication are visible.  `ctxRecorded` is `_initial_context_recorded` and `ctxCopies` what is
really in `state.history`; the two differ when a turn is interrupted between the two items.
`compactTo` says where `_stream_compact` returns to; it is called from three places of `stream()`
and from `stream_compact`.  `marked` says whether the marker of the history as it stands (its length
and two token counts) is one of `auto_compaction_markers`: a compaction of `stream()` that returns
sets it, whatever is recorded afterwards clears it, and the compaction for the context limit asks it,
before sampling and in the loop; the one for a model downshift does not.  A history that changes and
meets an old marker by chance is a compaction that is not asked for, which the model allows anyway.

Abstracted: the calls of one response are dispatched in one step (`ToolAwaited`, `ToolFinished`);
texts of requests, hooks and notifications; the goal's steering message is an item of its own
(`Inject(turn)`).  `iteration` saturates at 2 when there is no limit, because the loop then only asks
whether it is above 1.

### AgentRuntime (`core.py`)

One record of `_LocalAgentRuntime`, with the parent's tool thread (`caller`), the interface's thread
(`stopper`) and one loop thread for each start.  Blocks under `record.condition` are steps;
`session.interrupt()` and `_notify_parent_agent_completed` are steps of their own because they come
after the block.  One agent is enough: agents share only the list of notifications.  The child's
session is represented by its interrupt event, which `stream()` clears when it begins.
Not modelled: the choice of the child's configuration, the forked
history of a child, `wait_agent`, which only reads.

### SessionDaemon (`session_daemon.py`)

`PersistentSessionWorker`: a handler thread for each client, a thread for each turn, sections under
`_turn_lock`, `_clients_lock` and `_request_input_cond` as steps.  The main thread's handling of a
signal does what a client's shutdown command does and adds no step of its own.  The event log and
its replay are `EventLog` and `Attach`.

### MemoryJobs (`memory.py`)

`MemoryStateStore` and the two phases of the pipeline, run by any number of processes on one SQLite
file.  The connection is in sqlite3's legacy transaction mode: a transaction begins at the first
write, so the SELECTs of a claim belong to no transaction.  A claim is therefore `ClaimRead` and,
later, `ClaimWrite`; a prune is `PruneRead` and `PruneWrite`, whose DELETEs go by `thread_id` alone,
whatever the rows have become since.  A process that dies, or whose pipeline raises, is `Leave`, from anywhere.  Time
is not counted: leases, delays and the cooldown may end at any moment (`Elapse`), so every real
duration is covered.  `base` and `ws` are the git baseline and the worktree as far as inputs go.
A consolidation that fails for its limit of iterations goes on like one that completed
(`SessionOver`), because `run()` returns normally from it.
Three ghosts belong to the properties and to no row: `finished`, the newest state of a thread some
worker is done with; `recorded`, what the last recorded consolidation chose and what it was offered;
`untold`, the threads whose chosen summary went while nothing was enqueued.  `DirtyIsVisible` compares
`recorded` with what a consolidation would be given now (`View`, `Stale`), so it does not depend on
where the code enqueues.
`clear_memory_data`, `set_thread_memory_mode` and `_run_claimed_stage1_startup_job` have no caller in
`src/volley` and are left out; prompts, redaction and rendering are not modelled.

### Goals (`goal.py`, `cli.py`)

`GoalStore` and `GoalRuntime`.  Every session has a `GoalStore` of its own, and the lock in it orders
nothing between sessions, so each operation reads the file in one step (`Read`, `Load`) and replaces
it in a later one (`Charge`, `Write`).  `/goal` and the loop that continues a goal are the
interface's (`_handle_goal_slash`, `_run_goal_continuations_human`); `/goal` only runs between turns,
and the worker never enters the loop.  A response may report tokens or none (`Usages` has 0): without
usage nothing is charged, and the loop goes on.  The ghost `metered` says that a response of the turn
had usage, which is what `LoopIsCharged` asks of the turns it counts.  Objectives, events, amounts of
time and Plan mode are abstracted; time appears only as "some has passed" (`Read` without tokens).

### Rollout, History, Conversation (`state.py`, `core.py`)

`Rollout` is one session as far as its history goes, together with the file the history is kept in.
`history` is `state.history`; `writing` is the append that one `emit` makes; `file` is not the lines
of the file but the history that `reconstruct_history_from_rollout` makes of them, which is all a
later process can know.  `append_history` and the `emit` after it are one step and the write another
(`Write`), and `Crash` may come before, between the lines or inside one of them: `torn` says that the
file ends inside a line, and the first line of the next append is then lost (`Landed`).  An item is a
kind and a number; the two items of the initial context, markers and the ends of a block have number
0.  The places of `pc` are coarser than those of `SessionTurn`: only what reads or changes the history
is told apart.

`History` has the functions of a history as operators: what is sent (`Prepare`), the block of recent
activity (`RecentBlock`, with any budget: any number of items from the end), what a compaction puts
in place of the history (`Summarised`, `Checkpointed`), and what a resume asks of it (`HasContext`).
`Selection` has `SelectSeq` in a form that can be proved about.

`Conversation` is the abstract specification: a live history, a saved one, and a process that may
end.  Every change is saved before the next one is made, a process that dies loses its last change at
most, and a session that is resumed has what was saved.  `Rollout` implements it with `saved <- kept`,
the file without the items a failed response left there, which no later history of that process has;
a resume brings them back (`Echo`): replies, calls and markers, never a text of the user or a result.

Abstracted: the remote endpoint returns its checkpoint alone, as the comment at `state.py:146-151`
says it does in practice; the initial context is never empty.  A line is cut only inside, so that what
is left does not parse.  Not modelled: token counts, the settings of the previous turn, records of
older formats, and rollback records, which nothing in `src/volley` writes; an append that fails while
the process lives on (`_rollout_initialized` is set and the seed cleared before the write); the cut of
a line between the two bytes of a character, after which `read_text` raises.  A complete line is
assumed to parse: a text with U+2028, U+2029 or U+0085 is written raw, split by `splitlines()` when
the file is read, and its item is missing after a resume.

### Commands, Approvals, Texts (`tools.py`, `core.py`)

`Commands` is the `ToolRuntime` of one session: the turn's thread (`Batch`), a thread for each call,
the readers, the processes and `/stop`.  A step is a block under `_session_lock` or under the lock of
a `RunningCommand`, or what a thread does between two of them.  `active` and `sessions` are the two
tables, `later` the order by `last_used` (who was used after whom), `fresh` the buffer of each command.  A wait may end at any
moment, so the interrupt event, which only shortens it, is not a variable.  `granted`, `delivered`,
`ends` (where reads ended) and `dropped` are history variables.

A byte of output is its process, its number and whether it is still the process's own.  `cfg.chars` says
which bytes make a character.  Each read takes up to `ReadBytes` from the stream and is decoded by
itself, and so is what is taken from the buffer, which cuts bytes (`Decode`): a byte of a character that
is not there as a whole is replaced, which stands for U+FFFD.  The replacement is given the room of the
bytes it replaces; in the code it has three bytes for one or more, so the buffer lets other bytes go than in
the model, which the property allows.

`Unsandboxed` says which processes have no sandbox around them: those of calls that were allowed out of
it, and every `shell_command`, which the code starts as it is and asks nobody about unless the call
itself says `require_escalated`.

`Approvals` has the decisions as operators: what a hook or a provider may answer and how it is read,
what has to be asked under which policy and sandbox, what a permission for the session covers.
`Texts` has the head and tail buffer and the shortening of outputs; their assumptions, which TLC
evaluates, say that both keep the beginning and the end and count what they leave out.

Abstracted: a process has one output stream; taking the output and leaving the table are one step;
events of partial output; bytes written between the last `select` and the end of a reader stay in the
pipe (`ReaderEnds`); a descriptor that `close()` frees is not reused.  The key of a permission to run
confined uses the directory of the session, as the code does.

### Patches, PatchText, TurnDiff (`tools.py`, `state.py`)

`PatchText` is the language of patches: parsing, the search for a chunk (exact, without trailing
blanks, without blanks, with punctuation in ASCII), replacement from the end.  A line is a record of
what the four searches tell apart.  `Patches` is `apply_patch`: verification of the whole patch,
approval, change by change, the record of what was done, with other writers between any two steps.
`TurnDiff` is the net diff that `state.py` computes from these records alone.

Abstracted: each file has one name, there are no directories or links; a text is lines each ended by
a newline; reading and writing the file of one change is one step; a `write_text` that fails is not
modelled, a directory that refuses is.  A text with a line that is not UTF-8 (`Garbled`) cannot be read:
the check of a patch reads what is updated or deleted, but not what is written over, which is only read
when its change is made (`MayWrite`).  The wrappers around a patch (heredocs, indented headers) are
left out; `git apply` and `patch` are external, and what they change is unrecorded as in the code.
`TurnDiffIsNet` excludes a file moved onto itself and one moved unchanged, which the code shows wrongly
or not at all; `PatchedAsAsked` claims nothing when two chunks can be placed over one another.

### Transports, Tokens, Gemini (`model.py`, `auth.py`)

`Tokens` is `auth.json` and everyone who refreshes it: a request to the server, then the file
emptied, filled and read again as four steps.  The server is external: it rotates the refresh token
each time, and a token is its number.  `Transports` adds the threads of one process and the client
they share: requests, retries, the fallback to the API key, the probe of the account, cancelling.
The shared flags are read and written in steps of their own (`Choose`, `Claim`); what a thread does
with one of them in a single statement is one step.  Each setting bounds one part.

Facts the models show and no property forbids: a login can be overwritten by a refresh in flight; a
process whose token another spent does not read the file again; `FallbackModelClient` has no `cancel`
of its own; a stream that ends without `response.completed` is accepted; an interrupt that comes late can
close the next turn's response of the same session.

`Gemini` is the translation both ways as operators; TLC evaluates that a streamed answer gives the
items of a whole one, that an answer goes back as what it said, and that a response is sent under the
name of its call.  Arguments and schemas are values.

### EventLog, Attach (`session_daemon.py`, `cli.py`)

`EventLog` is what a worker tells: `_set_running`, the messages and the log, each a step, while a
turn starts, streams, asks, ends or raises.  `Attach` is one terminal: the greeting, read in two
steps, the replay and the writer, the client's reader and the loop of `_run_persistent_attach`.  The
queue, the locks and the commands are in `SessionDaemon`; here they are what may happen (the next
queued prompt is a turn that starts).  Sending a message and reading it is one step, since the socket
keeps the order.  What an automatic compaction reports in the middle of a turn is abstracted.  Not
modelled: status metrics, `events.jsonl`, sockets and registry files.

`CaughtUp` leaves out the two places between the flag and its message, and needs a state message that
is still in the log; `FinishedOnce` leaves out a terminal for which the log dropped something.

### Chat, Composer and the forms (`cli.py`)

`Chat` is `_run_chat` with the two threads of `_run_session_human_interactive`: the main thread
edits, submits, escapes and answers while the other runs the turn, a compaction or a goal's turn.  A
prompt is a sequence of lines, each with the number of the submission it came from, so an Esc that
gives several back makes one prompt of them.  The turn is reduced to where a prompt can be (`pending`,
`taken`, `sent`); `SessionTurn` has it in detail.  `behind`, `unread` and `cut` name the three ways in
which the code loses a submission: behind a command it was merged with, with a turn that ended before
it took it up, as the prompt of a turn that was interrupted before it recorded it.

`Composer` is the line editor as a function of a key, in a turn (`Press`) and between turns (`Prompted`), with the palette of commands and the parsing of
a command.  `Screen` (what part of a long text is shown, where the cursor stands), `Question` (the
form of a tool's question), `Keyboard` (bytes to keys), `Resume` (which chat an id, `--last` or a row
means), `Picker` (the two lists) and `Settings` (`/fast` and its lines of `config.toml`) are functions
too.  Their correctness is stated as assumptions of `MCChat` and `MCForms`, which TLC evaluates before
the run: a key sequence arrives whatever the reads that deliver it, the cursor stays in the text and
is shown, what is cut can be put back, C-d between turns never throws a text away, Esc, Esc, Enter sends
exactly what was typed, an answer is the option that was marked, the row chosen is the
row shown, an id means the chat it names and `--last` the newest, a running worker is offered, and what
`/fast` writes is what the next start reads.

Abstracted: the loop without a terminal, Ctrl-C, the wording of `/help`; hooks and automatic
compactions, which are in `SessionTurn`; one question for each turn; what a line means is tabulated over
the menu of lines; keys by their names and escape codes by one symbol each; widths of 0 to 2; an Esc
followed at once by another key is ambiguous in the code and left out.  A registry has one file for
each thread; the removal of dead workers' files, comments and multi-line values of TOML, the
`--service-tier` argument and the inline arguments of `/model`, which nothing reaches, are left out.

### Ordering, MC modules, proof modules

`Ordering` has the three facts about sequences of numbers that the queues need.  `MC…` modules give TLC
what a configuration cannot write.  `SessionTurnProofs`, `AgentRuntimeProofs`, `SessionDaemonProofs`,
`MemoryJobsProofs`, `RolloutProofs`, `GoalsProofs`, `TransportsProofs` and `CommandsProofs` hold the
theorems about the component each is named after, below the lemmas about its operators.
`SessionDaemonProofs` is about the worker in both its models, `SessionDaemon` (its threads and its queue)
and `Attach` with `EventLog` (its event log and the terminals that read it); `CommandsProofs` is about
the tools in both theirs, `Commands` and `Patches`; `GoalsProofs` is about `Goals` and about the conversation
that works on them, `Chat`.  A module of proofs extends both its models, which is why `Attach`, `Patches` and
`Chat` name things differently that the others call `Init`, `Next`, `Spec`, `Ask` or `Leave` (`AttachInit`,
`PatchesInit`, `ChatInit`, `AskUser`, `AskApproval`, `LeaveChat`, ...).

## 4. Runs, bounds and what they show

| run | bounds | properties |
|---|---|---|
| `session_turn` | 3 items, 2 turns or compactions, 3 iterations, 1 retry, 2 automatic compactions, all remote modes | `TypeOK`, `PipelineOrdered`, `AimHonoured`, `OnlyLateInputIsLost`, `RequestsCarryContext`, `InterruptStopsRequests` |
| `session_interrupt` | 1 item, 2 turns, no limit of iterations, 1 retry, 1 compaction | `InterruptEndsTurn` (liveness) |
| `agent_runtime` | 3 prompts, 2 closings or interrupts | `OneRunner`, `PromptOrder`, `PromptsSettle` (liveness) |
| `session_daemon` | 2 clients, 2 prompts, 1 compaction | `OneTurnThread`, `TurnsInOrder`, `PromptsSettle`, `IdleWorkerStops` (liveness) |
| `memory_jobs` | 1 thread, 2 processes, 3 versions, 2 starts | `WatermarkEarned`, `SummaryCoversWatermark`, `DirtyIsVisible` |
| `rollout` | 3 items, 3 turns or manual compactions, 2 compactions, 2 crashes, 1 fork, any block and any number of kept texts | `PromptWellFormed`, `ContextKnown`, `TextsOnce`, `SurvivesItsProcess` (implements `Conversation`) |
| `goals` | 2 sessions on one thread or on two; one user turn and one continuation, 2 requests each, with usage 1 or none; 2 orders, 1 `create_goal`, budget 2 | `TypeOK`, `ActiveWithinBudget`, `EveryTokenOnce`, `LoopIsCharged` |
| `commands` | 3 calls, 2 in one batch; 2 processes, 3 bytes of which two are one character, reads and a buffer of 2 bytes, 1 session; 3 settings of policies, tools and bounds; 1 `/stop` | `Owned`, `OutputOnce`, `RunsAreApproved` |
| `patches` | 3 patches of one change on 3 files, all sequences; all pairs of chunks of a pool on all short texts; patches of 2 and 3 changes beside a file that is not UTF-8; 1 foreign write | `TurnDiffIsNet`, `AllOrNothing`, `PatchedAsAsked` |
| `transports` | a session and an agent, 3 tokens, 2 pieces for a response; 7 settings of calls, retries, interrupts, logins, faults and restarts | `TokenKept`, `OneResponse`, `CancelIsOwn` (action property) |
| `attach` | 1 terminal that attaches twice, 2 turns, a log of 4 messages; 4 settings of outcomes, questions, notices and the end | `CaughtUp`, `FinishedOnce`, `QuestionsAreShown` (liveness) |
| `chat` | 3 submissions from each of 4 menus of lines; the editor over 5 keys, the forms over small inputs | `EachPromptOnce`, `CommandsWaitTheirTurn`, `QueueDrains` (liveness) |

Why these are enough: with three items one can be recorded while one is inspected and one queued, a
block can put an item back before a later one, and a steer can name either of two turns.  Two
automatic compactions are the two before sampling, so that a first one that did not stop the second
would open a third request after an interrupt.  Three prompts give an agent one that runs, one that waits and one that redirects.  Two
processes give a claim that is taken over, three versions of a thread one that is claimed, one that
is summarised meanwhile and one to come.  One order of another session between the read and the write
of a charge is what can make a budget go wrong; a budget of two and requests of one or none put its
end in either of the two turns, or in neither; a session of another thread can still lose what this one wrote.

Three items are a text, a call and a summary (or a second text, a reply, a note), so a block can cut
between a call and its output; outputs cost no item.  Two crashes are one that tears a line and one
after the resume that wrote behind it; two compactions are one that makes a block and one that meets
it; the fork shows that a seed reaches a file of its own.

Two processes and a table of one session make the second prune the first while a third call uses it;
of three bytes a buffer of two keeps the first and the last, so both a read and the buffer can cut the
character of two.  Three changes on three files are a file added, moved and moved
back, or over another; two chunks are what can overlap.  Three tokens are the first, the one of a
refresh and the one of the process that raced it.  A log of four messages is shorter than one turn, so
a terminal that lags misses the beginning of it.  Three submissions are the prompt, a steer and what is
queued behind both.

Deadlock is not checked where the system may stop: sessions, agents, workers, pipelines, goals and
terminals all rest when nobody asks for anything, or when a bound is reached.

Where the code does something else than it says, the models do what the code does, and the hazard
says so; no property forbids it:

* a steer that `stream()` has taken but not recorded is dropped by an interrupt, although
  `pop_pending_input_prompts_for_interrupt` says it drains what is not committed (`core.py:185`);
* the notification of an agent's end can say "running", because the status is read again after the
  lock was released; `wait_agent`'s description promises the same status (`tools.py:1618`);
* a consolidation that gave up at its limit of iterations still becomes the baseline, so its inputs
  appear in no later diff (`consolidation.md:150`);
* two changes of the summaries are told to no later consolidation, and `DirtyIsVisible` excepts their
  threads by name (`untold`) until something else is enqueued: a prune deletes a summary that was made
  or selected after its SELECT (`memory.py:573-590`), and a thread is polluted while the first
  consolidation that chose it runs, before its mark is on the row (`memory.py:835-840`);
* a turn none of whose responses has usage is charged nothing (`core.py:890-893`, `goal.py:343-347`), so
  the loop that continues a goal does not end by its budget when the model reports none: Gemini without
  `usageMetadata` (`model.py:961`), a stream without `response.completed` (`model.py:1381-1383`);
* a character of a command's output that a read cuts comes out as U+FFFD for each part, although all its
  bytes arrived (`tools.py:1201`, `2139-2142`);
* `shell_command` runs outside the sandbox under every policy, and nobody is asked (`tools.py:461-475`);
* a patch that adds a file over one that is not UTF-8, or moves one there, is stopped in the middle
  (`tools.py:2578`, `2626`), since its check does not read that file (`tools.py:2669-2670`, `2687-2689`);
* a session of another thread can write a goal away, after which `create_goal` succeeds for a thread
  whose goal nobody cleared (`goal.py:574`).

The type invariants of the modules not named with one, and `NoPromptStranded` of `AgentRuntime` and
`SessionDaemon`, which `PromptsSettle` implies, are listed in no run: they are parts of the inductive
invariants of section 6.

Every property of a passing run has a mutant: a plausible slip in one definition, kept beside it
with a comment that begins "a slip", under which TLC finds the property violated.

## 5. Fairness

* `SessionTurn`: weak fairness of the turn thread as a whole.  Every consumer of `stream()` (the
  interface, the worker's turn thread, `run()`) draws the generator to its end.  Nothing is assumed
  of the interface.  `InterruptEndsTurn` is conditional on the interrupt.
* `AgentRuntime`: weak fairness of each thread that has left its locked block; a child's run ends
  because it answers, fails or is interrupted.
* `SessionDaemon`: weak fairness of the threads; strong fairness of the end of a turn, because a
  turn may go back to a question again and again.  Nobody has to answer: the properties excuse
  prompts that wait behind an open question.
* `Attach`: weak fairness of the worker's thread, the handler, the client and the terminal's drain,
  each of which loops until the connection ends.  Nobody has to type, answer or attach.
* `Chat`: weak fairness of the main thread's loop, of its watch beside a turn and of the turn's
  thread.  A question, once shown, is answered; nobody has to submit anything or press Esc.
* `MemoryJobs`, `Goals`, `Rollout`, `Commands`, `Patches` and `Transports` have no fairness and no
  liveness property: processes may end anywhere, and requests need not be answered.

## 6. Proofs

* `SessionTurnProofs`.  From `BoundsAssumption` and `RemoteAssumption`: `TypeCorrect`,
  `SteeringCorrect`, and from it `InputInOrder` and `SteersReachTheirTurn`.  `PipelineOrdered` is not
  inductive: it does not say that what waits in `_idle_pending_input` is younger than what was
  queued before it, nor that a number about to be given is above all given ones, nor which local
  lists are empty where.  `ControlInv` ties the place of the turn thread to the locals (`taken` is
  only non-empty during the inspection, `activeKind` is "regular" exactly while `stream()` runs);
  `OrderInv` adds the idle queue and the counter; `AimInv` says the same of the turns items name.
  `QueueEffects` reduces the thirty actions to the seven ways a step can change the four places, and
  the order is preserved by each of the seven with the lemmas about queues at the module's head.
  What can be lost depends on where the local lists are empty and on what the queue may hold after
  the last look: `InputInv` says so, and gives `OnlyLateLost`.  `ContextInv` compares the flag
  `_initial_context_recorded` with the copies in the history at every place, which gives
  `ContextInRequests`.  `InterruptStops` needs a measure: `InterruptInv` bounds the requests since an
  interrupt together with those (`Left`) the place of the turn thread can still open: two where a
  compaction may begin, none once one has left its marker.
* `AgentRuntimeProofs`.  From `BoundsAssumption`: `TypeCorrect`, `OneThread`, `NothingStranded`,
  `InOrder`.  `OneRunner` and `NoPromptStranded` need each other and `StartIsFree`: between the block
  that decides to start a thread and the start, nothing runs and the prompt is the youngest.
  `PromptOrder` speaks of prompts that have run; what has to be kept is the order of the queue among
  itself and against them (`Ordered`, with `After` for a redirect that may overtake), that all of them
  were sent (`Known`), and that no more were started than sent (`Counted`).
* `SessionDaemonProofs`.  From `BoundsAssumption` and `ClientsAssumption`: `TypeCorrect`, `OneThread`,
  `NothingStranded`, `InOrder`.  `Newest` says that `_running` is set exactly while one thread drives a
  turn, and that it is the one started last; with `Counted` there is always a thread left to start,
  and `Ordered` keeps the queue above what has started.  Any number of clients and prompts.
  From `LogAssumption`, of the worker's log and its terminals: `AttachSafe`, `TerminalCatchesUp` (`CaughtUp`) and
  `StatusesRight` (`FinishedOnce`), for any size of the log, any number of turns and all settings.
  `WorkerKind` reduces the worker's twenty steps to seven kinds by what they say of the turn, and `SayEffect`
  says once what saying it does to the log.  The numbers in log, batch and inbox follow one another, and
  a hole is only where the log dropped what was not yet taken (`LogNumbers`, `PipeNumbers`); the greeting comes
  first and has the number that divides what is replayed from what comes live (`GreetInv`).  `FlagInv`
  says that the newest state in the log, in what was sent and in the inbox is the one its flag has there, from
  which `CaughtUp` follows.  `FinishedOnce` needs the past: every message has one place in the history of the
  turns (`Fits`, `InStep`), a log that still has a state from before the end of a turn has one from its course
  and how it went behind it (`LogStory`), so a terminal knows, or will still hear, that the turn ran and
  how it went (`StoryInv`, `EndsArrive`).
* `MemoryJobsProofs`.  From `BoundsAssumption` and `NoOneAssumption`: `TypeCorrect`,
  `WatermarkIsEarned`, `SummaryIsCurrent`, `ChangesAreVisible`, for any number of threads and processes.
  The three properties relate rows of the database; what keeps them is what the claims outside any
  transaction still hold: a ticket read before the write (`Tickets`), the input of a job that one still
  owns (`OwnClaims`, `JobsRun`), the selection a consolidation made earlier (`BelowInput`), and, for
  `DirtyIsVisible`, that a consolidation that still holds its lease and is already stale for a thread will
  finish below the watermark of the input (`ChangeIsAbove`), so the row stays dirty once it is recorded.  A
  step of another process changes what can be seen and enqueues (`OwnStep`), or takes away only what is then in
  `untold` (`SilentStep`, `SilentViews`).
* `RolloutProofs`.  From `BoundsAssumption`: `TypeCorrect`, `ContextIsKnown` and `SurvivesCrashes`, which is
  `Spec => SurvivesItsProcess`: every step of `Rollout` is one of `Conversation` or none.  The refinement needs
  to know what may be under way when a process dies: `Appending` lists the six appends there are and how the
  saved history stands to the live one until each is written (the last item is missing; the whole history of a
  fork is; nothing is).  `TornIsSkipped` is what makes half a line harmless: as long as one ends the file, the
  next line is one that nothing depends on.  `Seeded` says that a fork that was not gone on with has no file,
  `SavedIsRead` that the file has what is saved and otherwise only replies, calls and markers; for the step that
  takes a failed response back this rests on `Snapshots`, that what is taken back came from the model.
  `StoreEffect` says once what any part of any append does to the file; `StepKinds` reduces the thirty
  actions to the ten ways a step can change the history and the file.  `ContextInv` follows
  `_initial_context_recorded` through compactions and resumes; that a compaction in the loop brings both items
  back comes from the lemmas about `InsertContext`.
  `PromptsWellFormed` and `TextsAreOnce` are about the order of the items, which is stated as a relation
  between each item and those behind it (`Orderly`).  It has to hold of the file as well as of the history,
  because a resume takes the file, and the file has calls that the history took back; `Fitting` says that what
  is being appended may come behind what the file has.  `Awaited` says that the calls a turn still waits for have
  no output anywhere, and `Waiting` that they are different from one another and gone where no
  stream or tool runs, so neither a compaction nor a resume can give one a second output.  The
  prompt itself is well-formed because `EnsureOutputs` fills in what is missing and orphans are removed.
  Any length of the history and of the blocks.
* `GoalsProofs`.  From `BudgetsAssumption`, `AssignmentsAssumption` and `SessionsAssumption`:
  `GoalTypeCorrect`, `BudgetHolds`, `LoopEnds` and `TokensOnce`.  For the budget the invariant speaks of every
  copy of the file an operation holds (`CallOK`), since a stale copy is what will be written, and of the goal a
  charge is made to.  `Places` ties an operation to the phase of its turn.  `LoopEnds` needs to know
  where the token of a turn is before the turn ends: it is still pending, or it has been charged, and then
  the session is one of those (`Paid`) that have a token of the goal to their name besides the turns that
  have ended (`LoopInv`).  A turn without usage counts for nothing there, and any number of them may pass.
  `TokensOnce` needs that goals have names of their own and that a runtime's clock runs for no goal of another
  thread (`OwnNames`), and that a session which goes on to the store has nothing pending for the goal it will mark
  afresh (`Own`, `create_goal` excepted, which finds no goal).  `EveryTokenOnce` adds up over all sessions; the
  module first proves how a sum over any finite set changes with one summand (`SumChange`).  Any number of
  sessions, threads, tokens and budgets; the bounds of the run play no part.
  Of the conversation, from no assumption: `PromptsOnce` (`EachPromptOnce`) and `CommandsWait`
  (`CommandsWaitTheirTurn`), for any menus, commands and number of submissions.  `EachPromptOnce` is not inductive:
  `Stages` adds where the two threads can be together and that something is pending only while the session
  takes steers, `Numbered` that nothing is anywhere that was not submitted, so a new submission is new
  everywhere, and `Kept` that what a turn has is `unread` and the prompt at hand is accounted for once its turn
  goes on.  For the commands, `WaitInOrder` says that in the queue a submission that had to wait comes before
  everything behind it, and that what steers the turn never had to wait: it is this that lets Esc put what it
  took back in front of a queued command.  The seven actions that carry out a command all leave some of
  its prompt or none (`DoneKeeps`); the steps of a turn move what they have into the history or drop it (`TurnKeeps`).
* `TransportsProofs`.  From `TokensAssumption` (which says also that the names of the status check and of
  the login are no requesters) and `TransportsAssumption`: `TypeCorrect`, `TokenIsKept`, `NothingMixed`, and the
  action property `CancelsOwn`.  A token that is being written must be held by nobody else (`OnlyCopy`),
  all tokens anywhere were issued (`Issued`), and a login never waits for the server (`LoginWrites`);
  `OneRefresh` says that a refresh belongs to a call that waits for it.  `CallsFit` ties the pieces a call
  has handed over to its attempts: an attempt that handed over something is not followed by another.
* `CommandsProofs`.  From `BoundsAssumption` and `CallsAssumption`: `CommandsTyped`, `CommandsOwned`,
  `CommandsOutput`, `CommandsApproved`.  For `Owned` the invariant (`OwnedInv`) follows the process of each call
  from step to step: between the wait and the snapshot it need not be active or a session, but then it is on
  somebody's list or killed (`Held`), and a list of a call's own is only there while it is at the snapshot
  (`ListOf`).  That a full table always has a session to prune rests on `Order`: `later` is a strict total order
  of the processes started, so the oldest of any set of them exists and has the fewest protectors; it is here
  that `Protected < MaxSessions` is used.  `RunsAreApproved` needs what a call that has not started its process
  yet was granted (`Entitled`) and that every key in the cache stands for a grant of its own kind, to the same
  tool: a permission given to one tool is never found by the other.  For
  `OutputOnce` the invariant (`BitsOf`) adds that no byte is known before it was written and that a buffer uses
  its tail only when its head is full (`Filled`): without it a chunk that fills the head would end up
  behind older bytes.  `CharsOf` follows the characters: the stream holds what was written since some read ended,
  so one that begins before it was cut there, and a byte that is still its own has its whole character beside
  it, in the buffer but for what that let go, in what was delivered without exception.  `PushKeeps` then shows for any limit, buffer and chunk that what `Push` keeps is part of
  what there was, in order; what it does not keep is what the model counts as dropped.
  Of the patches, from `ScriptsAssumption`: `DiffIsNet` (`TurnDiffIsNet`) and `PatchesWhole` (`AllOrNothing`), for
  any patches, files and texts.  The tracker and the parser fold over a sequence; `TracksRead` and `ParseRead` say
  that such a fold is the last value of a loop, and `TrackOneMore` what one more change does to it.  The
  invariant `Followed` says what the tracker knows of each path that nobody else wrote: the first text it
  saw there is the file's at the start of the turn and the last one is the file as it is, and a path it does not
  know is as it was.  Adding, deleting, updating and moving keep it, each by a lemma of its own, and
  `DiffShows` reads the net diff off it.  For `AllOrNothing`: before the first change nothing has been changed,
  and from then on what is left of the patch can still be made (`CanBeMade`), because changes that passed
  the verification touch different paths (`Onwards`).  So unless someone else wrote, only a file that is written
  over and is not UTF-8 can stop one; `Halfway` says that until then exactly the first changes are made and no
  path but theirs is touched.  That file is still as it was before the patch, for the same reason.

Every proof speaks of all values of the constants: the numbers of agents' prompts, clients, threads,
processes, sessions and tokens are those of the runs only there.

Only model-checked:

* liveness (`InterruptEndsTurn`, `PromptsSettle`, `IdleWorkerStops`, `QuestionsAreShown`,
  `QueueDrains`): it needs fairness and ENABLED, both outside the prover;
* `PatchedAsAsked` of `Patches`: it compares the changes a patch was written for with the texts, so it rests on
  how changes are written as lines, and on where the lines of a chunk stand after all chunks of a file were
  searched for and spliced in from the end: inductions over the lines, the chunks and the text, and
  `FlattenSeq`, which is recursive;
* what the functions of the editor, the forms, `Texts`, `PatchText` and `Gemini` compute for every input, for
  the same reason; `Keyboard` also uses recursive operators.  They are compared with reference definitions
  over bounded inputs.

Every other property of a run is stated by a theorem.

## 7. Not modelled

Rendering of events and tables, prompt texts and assets, configuration defaults, argument parsing, the
conversations in a browser before a login and the wire formats of the model APIs: they change no state
the properties speak of.  File, search, plan, image and web tools read or write what they are told and
keep no state.  Several workers of one thread, which a resume can start because it finds only workers
with a running turn: nothing in the code tells their files apart, so a model could only say that they
overwrite one another.  `PROJECT.json` gives the reason for each component, and for each hazard without
a property.
