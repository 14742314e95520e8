----------------------------- MODULE MemoryJobs -----------------------------
(***************************************************************************)
(* The memory pipeline of src/volley/memory.py: sessions of several        *)
(* processes share one SQLite file (MemoryStateStore) and one workspace    *)
(* under git.  A startup summarises idle threads (stage 1) and then        *)
(* consolidates the summaries in the workspace (phase 2).                  *)
(*                                                                         *)
(* A step is one transaction, or what is done between two of them.  The    *)
(* connection is in sqlite3's legacy mode: BEGIN is issued before the      *)
(* first write, so the SELECTs of a claim are not in its transaction and a *)
(* claim is a read and, later, a write; so is a prune.  Time is not        *)
(* counted: a lease, a retry delay and the cooldown may be over at any     *)
(* moment.                                                                 *)
(***************************************************************************)
EXTENDS Naturals, FiniteSets, FiniteSetsExt

CONSTANTS
  Threads,      \* threads a memory may be made of
  Procs,        \* processes with a session that runs the pipeline
  MaxVersion,   \* bound: values of updated_at of a thread
  MaxStarts,    \* bound: pipelines ever started
  MaxClaimed,   \* memory_max_rollouts_per_startup, also max_running_jobs
  Retries,      \* MEMORY_DEFAULT_RETRY_REMAINING
  Phase2Modes,  \* values of memory_run_phase2_on_startup
  NoOne         \* no ownership token, no thread

ASSUME BoundsAssumption ==
  /\ MaxVersion \in Nat \ {0} /\ MaxStarts \in Nat /\ MaxClaimed \in Nat \ {0}
  /\ Retries \in Nat \ {0} /\ Phase2Modes \subseteq BOOLEAN
ASSUME NoOneAssumption == NoOne \notin Procs /\ NoOne \notin Threads

Versions == 1..MaxVersion
Known == 0..MaxVersion            \* 0 for no row, NULL or nothing
Pages == [Threads -> Known]       \* one version of each thread, or none
Blank == [t \in Threads |-> 0]
Now == MaxVersion + 1             \* the clock is past every updated_at

VARIABLES
  updated,    \* threads.updated_at
  polluted,   \* threads whose memory_mode is 'polluted'
  out,        \* stage1_outputs: source_updated_at, and the version selected
  job,        \* the stage-1 row of each thread in jobs
  global,     \* the row of the global consolidation in jobs
  at,         \* where a process is in the pipeline
  rows,       \* rows its prune or its scan returned and it has not tried yet
  ticket,     \* what it read before the write of a claim
  claims,     \* versions it has claimed and not finished
  selection,  \* its phase-2 inputs, the watermark they complete, and all the
              \* summaries there were to choose from
  ws, base,   \* inputs in the worktree and in the git baseline of the workspace
  edited,     \* other changes in the worktree since the baseline
  starts,
  finished,   \* the newest state of each thread some worker is done with
  recorded,   \* what the last consolidation that was recorded chose, and from
              \* which summaries
  untold      \* threads whose chosen summary has gone with nothing enqueued

Unborn == [t \in Threads |-> MaxVersion + 1]    \* no usable git baseline

store == <<updated, polluted, out, job, global>>
work  == <<rows, ticket, claims, selection>>
space == <<ws, base, edited>>
ghosts == <<finished, recorded, untold>>
vars == <<store, at, work, space, starts, ghosts>>

NoTicket == [thread |-> NoOne, retries |-> 0, input |-> 0]
NoSelection == [inputs |-> Blank, completed |-> 0, offered |-> Blank]

Init ==
  /\ updated = [t \in Threads |-> 1] /\ polluted = {}
  /\ out = [t \in Threads |-> [src |-> 0, selected |-> 0]]
  /\ job = [t \in Threads |-> [status |-> "none", owner |-> NoOne, lease |-> FALSE,
              backoff |-> FALSE, retries |-> 0, input |-> 0, success |-> 0]]
  /\ global = [status |-> "none", owner |-> NoOne, lease |-> FALSE, backoff |-> FALSE,
               cooling |-> FALSE, input |-> 0, success |-> 0]
  /\ at = [p \in Procs |-> "off"] /\ rows = [p \in Procs |-> Blank]
  /\ ticket = [p \in Procs |-> NoTicket] /\ claims = [p \in Procs |-> Blank]
  /\ selection = [p \in Procs |-> NoSelection]
  /\ ws = Blank /\ base = Unborn /\ edited = FALSE
  /\ starts = 0 /\ finished = Blank
  /\ recorded = [inputs |-> Blank, offered |-> Blank] /\ untold = {}

Goto(p, l) == at' = [at EXCEPT ![p] = l]
\* the locals of a pipeline that has ended are gone
Forget(p) ==
  /\ rows' = [rows EXCEPT ![p] = Blank] /\ ticket' = [ticket EXCEPT ![p] = NoTicket]
  /\ claims' = [claims EXCEPT ![p] = Blank]
  /\ selection' = [selection EXCEPT ![p] = NoSelection]
Leaving(p) == Goto(p, "off") /\ Forget(p)
Holds(p, row) == row.status = "running" /\ row.owner = p

-----------------------------------------------------------------------------
(* The other writers of the store, and time.                               *)

\* upsert_thread, by the session of the thread with its clock, or by a backfill
\* with the time of the last line of the rollout, which may be earlier
Touch(t) ==
  /\ \E v \in Versions \ {updated[t]} : updated' = [updated EXCEPT ![t] = v]
  /\ UNCHANGED <<polluted, out, job, global, at, work, space, starts, ghosts>>

Selected == {"sync", "diff", "session", "reset", "commit", "done"}

\* a slip: the watermark only rises with the input's
EnqueueNewest(v) == IF v > global.input THEN v ELSE global.input
NextWatermark(v) == IF v > global.input THEN v ELSE global.input + 1

\* _enqueue_global_consolidation_tx: whatever has changed, it is told now
Enqueue(v) ==
  /\ global' = IF global.status = "none"
               THEN [global EXCEPT !.status = "pending", !.input = v]
               ELSE [global EXCEPT !.status = IF @ = "running" THEN @ ELSE "pending",
                                   !.backoff = (@ /\ global.status = "running"),
                                   !.input = NextWatermark(v)]
  /\ untold' = {}

\* the summary of a thread that a consolidation may choose, 0 for none
View(t) == IF t \in polluted THEN 0 ELSE out[t].src
\* a consolidation has chosen it: the last recorded one, or one under way
Chosen(t) ==
  /\ View(t) # 0
  /\ \/ recorded.inputs[t] = View(t)
     \/ \E p \in Procs : /\ at[p] \in Selected /\ Holds(p, global)
                        /\ selection[p].inputs[t] = View(t)
\* summaries go and nothing is enqueued
Silently(gone) == untold' = untold \cup {t \in gone : Chosen(t)} /\ UNCHANGED global

\* mark_thread_memory_mode_polluted
Pollute(t) ==
  /\ t \notin polluted
  /\ polluted' = polluted \cup {t}
  /\ IF out[t].selected # 0 THEN Enqueue(Now) ELSE Silently({t})
  /\ UNCHANGED <<updated, out, job, at, work, space, starts, finished, recorded>>

Elapse ==
  /\ \/ \E t \in Threads :
          /\ \/ job[t].lease /\ job' = [job EXCEPT ![t].lease = FALSE]
             \/ job[t].backoff /\ job' = [job EXCEPT ![t].backoff = FALSE]
          /\ UNCHANGED global
     \/ /\ \/ global.lease /\ global' = [global EXCEPT !.lease = FALSE]
           \/ global.backoff /\ global' = [global EXCEPT !.backoff = FALSE]
           \/ global.cooling /\ global' = [global EXCEPT !.cooling = FALSE]
        /\ UNCHANGED job
  /\ UNCHANGED <<updated, polluted, out, at, work, space, starts, ghosts>>

-----------------------------------------------------------------------------
(* Stage 1.                                                                *)

\* prune_stage1_outputs_for_retention, its SELECT: of the rows that are not
\* selected, some are old enough
PruneRead(p) ==
  /\ at[p] = "off" /\ starts < MaxStarts
  /\ starts' = starts + 1
  /\ \E old \in SUBSET {t \in Threads : out[t].src # 0 /\ out[t].selected = 0} :
       rows' = [rows EXCEPT ![p] = [t \in Threads |-> IF t \in old THEN out[t].src ELSE 0]]
  /\ Goto(p, "prune")
  /\ UNCHANGED <<store, ticket, claims, selection, space, ghosts>>

\* its DELETEs, by thread_id alone: whatever the rows have become
PruneWrite(p) ==
  /\ at[p] = "prune"
  /\ LET old == {t \in Threads : rows[p][t] # 0} IN
       /\ out' = [t \in Threads |-> IF t \in old THEN [src |-> 0, selected |-> 0] ELSE out[t]]
       /\ Silently(old)
  /\ rows' = [rows EXCEPT ![p] = Blank]
  /\ Goto(p, "scan")
  /\ UNCHANGED <<updated, polluted, job, ticket, claims, selection, space, starts, finished,
                 recorded>>

\* the SELECT of claim_stage1_jobs_for_startup; age and idleness choose among
\* the threads whose memory is behind
Scan(p) ==
  /\ at[p] = "scan"
  /\ \E idle \in SUBSET {t \in Threads \ polluted :
                          out[t].src < updated[t] /\ job[t].success < updated[t]} :
       rows' = [rows EXCEPT ![p] = [t \in Threads |-> IF t \in idle THEN updated[t] ELSE 0]]
  /\ Goto(p, "claim")
  /\ UNCHANGED <<store, ticket, claims, selection, space, starts, ghosts>>

MayRetry(t) == ~job[t].backoff /\ job[t].retries > 0
RunningBesides(t) ==
  Cardinality({u \in Threads \ {t} : job[u].status = "running" /\ job[u].lease})
\* try_claim_stage1_job, up to its INSERT
Claimable(t, v) ==
  /\ out[t].src < v /\ job[t].success < v
  /\ RunningBesides(t) < MaxClaimed
  /\ ~(job[t].status = "running" /\ job[t].lease)
  /\ v > job[t].input \/ MayRetry(t)

ClaimRead(p, t) ==
  /\ at[p] = "claim" /\ rows[p][t] # 0
  /\ Quantify(Threads, LAMBDA u : claims[p][u] # 0) < MaxClaimed
  /\ IF Claimable(t, rows[p][t])
     THEN /\ Goto(p, "write")
          /\ ticket' = [ticket EXCEPT ![p] = [thread |-> t, input |-> rows[p][t], retries |->
               IF rows[p][t] > job[t].input THEN Retries ELSE job[t].retries]]
     ELSE UNCHANGED <<at, ticket>>
  /\ rows' = [rows EXCEPT ![p][t] = 0]
  /\ UNCHANGED <<store, claims, selection, space, starts, ghosts>>

\* INSERT ... ON CONFLICT DO UPDATE, whatever the row has become
ClaimWrite(p) ==
  /\ at[p] = "write"
  /\ LET c == ticket[p] IN
       /\ job' = [job EXCEPT ![c.thread] = [@ EXCEPT !.status = "running", !.owner = p,
                    !.lease = TRUE, !.backoff = FALSE, !.retries = c.retries,
                    !.input = c.input]]
       /\ claims' = [claims EXCEPT ![p][c.thread] = c.input]
  /\ ticket' = [ticket EXCEPT ![p] = NoTicket]
  /\ Goto(p, "claim")
  /\ UNCHANGED <<updated, polluted, out, global, rows, selection, space, starts, ghosts>>

ClaimsDone(p) ==
  /\ at[p] = "claim"
  /\ \/ rows[p] = Blank
     \/ Quantify(Threads, LAMBDA u : claims[p][u] # 0) = MaxClaimed
  /\ Goto(p, "work") /\ rows' = [rows EXCEPT ![p] = Blank]
  /\ UNCHANGED <<store, ticket, claims, selection, space, starts, ghosts>>

\* a slip: whoever claimed the job since, it is marked
AnyRunning(p, t) == job[t].status = "running"
\* WHERE status = 'running' AND ownership_token = ?
Owns(p, t) == Holds(p, job[t])

MarkDone(t) ==
  job' = [job EXCEPT ![t] = [@ EXCEPT !.status = "done", !.lease = FALSE,
                                      !.success = job[t].input]]

\* ON CONFLICT DO UPDATE WHERE excluded.source_updated_at >= source_updated_at
Upsert(t, v) == out' = [out EXCEPT ![t].src = IF v >= @ THEN v ELSE @]

StageFrame == UNCHANGED <<updated, polluted, at, rows, ticket, selection, space, starts, recorded>>
FinishWork(p, t) ==
  /\ claims' = [claims EXCEPT ![p][t] = 0]
  /\ finished' = [finished EXCEPT ![t] = IF claims[p][t] > @ THEN claims[p][t] ELSE @]

\* mark_stage1_job_succeeded
Summarised(p, t) ==
  /\ at[p] = "work" /\ claims[p][t] # 0
  /\ FinishWork(p, t)
  /\ IF Owns(p, t)
     THEN MarkDone(t) /\ Upsert(t, claims[p][t]) /\ Enqueue(claims[p][t])
     ELSE UNCHANGED <<job, out, global, untold>>
  /\ StageFrame

\* a slip: an older summary stays
KeepOutput(t) == UNCHANGED <<out, global, untold>>
\* DELETE FROM stage1_outputs, and what it selected has changed
DropOutput(t) ==
  /\ out' = [out EXCEPT ![t] = [src |-> 0, selected |-> 0]]
  /\ IF out[t].src # 0 THEN Enqueue(job[t].input) ELSE UNCHANGED <<global, untold>>

\* mark_stage1_job_succeeded_no_output
NothingToSay(p, t) ==
  /\ at[p] = "work" /\ claims[p][t] # 0
  /\ FinishWork(p, t)
  /\ IF Owns(p, t)
     THEN MarkDone(t) /\ DropOutput(t)
     ELSE UNCHANGED <<job, out, global, untold>>
  /\ StageFrame

\* mark_stage1_job_failed
StageFailed(p, t) ==
  /\ at[p] = "work" /\ claims[p][t] # 0
  /\ claims' = [claims EXCEPT ![p][t] = 0]
  /\ job' = IF Owns(p, t)
            THEN [job EXCEPT ![t] = [@ EXCEPT !.status = "error", !.lease = FALSE,
                    !.backoff = TRUE, !.retries = job[t].retries - 1]]
            ELSE job
  /\ UNCHANGED <<out, global, finished, untold>> /\ StageFrame

StageDone(p) ==
  /\ at[p] = "work" /\ claims[p] = Blank
  /\ \E phase2 \in Phase2Modes : Goto(p, IF phase2 THEN "phase2" ELSE "inputs")
  /\ UNCHANGED <<store, work, space, starts, ghosts>>

\* the process ends, its quota is used up, or SQLite raises
Leave(p) ==
  /\ at[p] # "off"
  /\ Leaving(p)
  /\ UNCHANGED <<store, space, starts, ghosts>>

-----------------------------------------------------------------------------
(* Phase 2: run_memory_phase2_once.                                        *)

\* get_phase2_input_selection: retention and the limit choose among the
\* summaries of threads that are not polluted
Selections ==
  {[t \in Threads |-> IF t \in kept THEN out[t].src ELSE 0] :
      kept \in SUBSET {t \in Threads \ polluted : out[t].src # 0}}

\* without phase 2 the inputs are written all the same, and nobody is asked
SyncUnclaimed(p) ==
  /\ at[p] = "inputs"
  /\ ws' \in Selections
  /\ Leaving(p)
  /\ UNCHANGED <<store, base, edited, starts, ghosts>>

GlobalClaimable ==
  /\ global.status # "none" /\ ~global.backoff /\ ~global.cooling
  /\ ~(global.status = "running" /\ global.lease)
\* try_claim_global_phase2_job, up to its INSERT or UPDATE
GlobalRead(p) ==
  /\ at[p] = "phase2"
  /\ \/ global.status = "none" /\ Goto(p, "insert") /\ UNCHANGED work
     \/ GlobalClaimable /\ Goto(p, "update")
        /\ ticket' = [ticket EXCEPT ![p].input = global.input]
        /\ UNCHANGED <<rows, claims, selection>>
     \/ global.status # "none" /\ ~GlobalClaimable /\ Leaving(p)
  /\ UNCHANGED <<store, space, starts, ghosts>>

ClaimFrame == UNCHANGED <<updated, polluted, out, job, space, starts, ghosts>>
Claimed(p, input) ==
  /\ selection' = [selection EXCEPT ![p].completed = input]
  /\ ticket' = [ticket EXCEPT ![p] = NoTicket]
  /\ Goto(p, "prepare")
  /\ UNCHANGED <<rows, claims>>

\* a second INSERT violates the primary key
GlobalInsert(p) ==
  /\ at[p] = "insert"
  /\ IF global.status = "none"
     THEN /\ global' = [global EXCEPT !.status = "running", !.owner = p, !.lease = TRUE]
          /\ Claimed(p, 0)
     ELSE Leaving(p) /\ UNCHANGED global
  /\ ClaimFrame

GlobalUpdate(p) ==
  /\ at[p] = "update"
  /\ global' = [global EXCEPT !.status = "running", !.owner = p, !.lease = TRUE,
                              !.backoff = FALSE, !.cooling = FALSE]
  /\ Claimed(p, ticket[p].input)
  /\ ClaimFrame

\* reset_memory_workspace_baseline, but for its first half
Commit == base' = ws /\ edited' = FALSE

\* prepare_memory_workspace
Prepare(p) ==
  /\ at[p] = "prepare"
  /\ IF base = Unborn THEN Commit ELSE UNCHANGED <<base, edited>>
  /\ Goto(p, "select")
  /\ UNCHANGED <<store, work, ws, starts, ghosts>>

\* the selection, and _phase2_completed_watermark
Select(p) ==
  /\ at[p] = "select"
  /\ \E s \in Selections :
       selection' = [selection EXCEPT ![p] = [inputs |-> s,
         completed |-> Max({@.completed} \cup {s[t] : t \in Threads}),
         offered |-> [t \in Threads |-> View(t)]]]
  /\ Goto(p, "sync")
  /\ UNCHANGED <<store, rows, ticket, claims, space, starts, ghosts>>

\* sync_phase2_workspace_inputs
Sync(p) ==
  /\ at[p] = "sync"
  /\ ws' = selection[p].inputs
  /\ Goto(p, "diff")
  /\ UNCHANGED <<store, work, base, edited, starts, ghosts>>

\* memory_workspace_diff, which repairs a missing baseline; a change is given
\* to a session, after a heartbeat
Diff(p) ==
  /\ at[p] = "diff"
  /\ IF base = Unborn THEN Commit ELSE UNCHANGED <<base, edited>>
  /\ IF base = Unborn \/ (base = ws /\ ~edited)
     THEN Goto(p, "done") /\ UNCHANGED global
     ELSE /\ Goto(p, "session")
          /\ global' = IF Holds(p, global) THEN [global EXCEPT !.lease = TRUE] ELSE global
  /\ UNCHANGED <<updated, polluted, out, job, rows, ticket, claims, selection, ws, starts,
                 ghosts>>

\* run_memory_consolidation_session: the turn completes, or it fails for its limit
\* of iterations and run() returns all the same
SessionOver(p) ==
  /\ at[p] = "session"
  /\ edited' \in {edited, TRUE}
  /\ Goto(p, "reset")
  /\ UNCHANGED <<store, work, ws, base, starts, ghosts>>

\* reset_memory_workspace_baseline removes the old repository first
Reset(p) ==
  /\ at[p] = "reset"
  /\ base' = Unborn
  /\ Goto(p, "commit")
  /\ UNCHANGED <<store, work, ws, edited, starts, ghosts>>
CommitBaseline(p) ==
  /\ at[p] = "commit"
  /\ Commit
  /\ Goto(p, "done")
  /\ UNCHANGED <<store, work, ws, starts, ghosts>>

\* mark_global_phase2_job_succeeded
MarkSucceeded(p) ==
  /\ at[p] = "done"
  /\ IF Holds(p, global)
     THEN /\ global' = [global EXCEPT !.status = "done", !.lease = FALSE, !.cooling = TRUE,
                          !.success = Max({@, selection[p].completed})]
          /\ out' = [t \in Threads |-> [out[t] EXCEPT !.selected =
                       IF @ # 0 \/ out[t].src # 0
                       THEN IF out[t].src = selection[p].inputs[t] THEN out[t].src ELSE 0
                       ELSE 0]]
          /\ recorded' = [inputs |-> selection[p].inputs, offered |-> selection[p].offered]
     ELSE UNCHANGED <<global, out, recorded>>
  /\ Leaving(p)
  /\ UNCHANGED <<updated, polluted, job, space, starts, finished, untold>>

\* mark_global_phase2_job_failed, whichever step of phase 2 raised
MarkFailed(p) ==
  /\ at[p] \in {"prepare", "select", "sync", "diff", "session", "reset", "commit", "done"}
  /\ global' = IF Holds(p, global)
               THEN [global EXCEPT !.status = "error", !.lease = FALSE, !.backoff = TRUE]
               ELSE global
  /\ Leaving(p)
  /\ UNCHANGED <<updated, polluted, out, job, space, starts, ghosts>>

-----------------------------------------------------------------------------
Stage1Step(p) ==
  \/ PruneRead(p) \/ PruneWrite(p) \/ Scan(p) \/ ClaimWrite(p) \/ ClaimsDone(p) \/ StageDone(p)
  \/ \E t \in Threads :
       ClaimRead(p, t) \/ Summarised(p, t) \/ NothingToSay(p, t) \/ StageFailed(p, t)
Phase2Step(p) ==
  \/ SyncUnclaimed(p) \/ GlobalRead(p) \/ GlobalInsert(p) \/ GlobalUpdate(p)
  \/ Prepare(p) \/ Select(p) \/ Sync(p) \/ Diff(p) \/ SessionOver(p)
  \/ Reset(p) \/ CommitBaseline(p) \/ MarkSucceeded(p) \/ MarkFailed(p)
SomeTouch == \E t \in Threads : Touch(t)
SomePollute == \E t \in Threads : Pollute(t)
SomeStep == \E p \in Procs : Stage1Step(p) \/ Phase2Step(p) \/ Leave(p)

Next == SomeTouch \/ SomePollute \/ Elapse \/ SomeStep
Spec == Init /\ [][Next]_vars

-----------------------------------------------------------------------------
(* Properties.                                                             *)

Places == {"off", "prune", "scan", "claim", "write", "work", "inputs", "phase2", "insert", "update",
           "prepare", "select", "sync", "diff", "session", "reset", "commit", "done"}

\* Rows, local copies and the workspace keep their types; retry_remaining,
\* which a claim may restore from a stale read, never goes below zero
\* (memory.py:375-388 with 526).
TypeOK ==
  /\ updated \in [Threads -> Versions] /\ polluted \subseteq Threads
  /\ out \in [Threads -> [src : Known, selected : Known]]
  /\ job \in [Threads -> [status : {"none", "running", "done", "error"},
               owner : Procs \cup {NoOne}, lease : BOOLEAN, backoff : BOOLEAN,
               retries : 0..Retries, input : Known, success : Known]]
  /\ global \in [status : {"none", "pending", "running", "done", "error"},
                  owner : Procs \cup {NoOne}, lease : BOOLEAN, backoff : BOOLEAN,
                  cooling : BOOLEAN, input : Nat, success : Nat]
  /\ at \in [Procs -> Places] /\ rows \in [Procs -> Pages] /\ claims \in [Procs -> Pages]
  /\ ticket \in [Procs -> [thread : Threads \cup {NoOne}, retries : 0..Retries, input : Nat]]
  /\ selection \in [Procs -> [inputs : Pages, completed : Nat, offered : Pages]]
  /\ ws \in Pages /\ base \in Pages \cup {Unborn} /\ edited \in BOOLEAN
  /\ starts \in 0..MaxStarts /\ finished \in Pages
  /\ recorded \in [inputs : Pages, offered : Pages] /\ untold \subseteq Threads

\* The watermark of a thread was earned: some worker has finished that state
\* of it.  A worker whose claim was taken over cannot close the job in the
\* name of a later state it never read (memory.py:437-451, 480-494).
WatermarkEarned == \A t \in Threads : job[t].success <= finished[t]

\* A summary that is kept is not older than the watermark says, so that no
\* thread is skipped as up to date on the strength of an outdated summary
\* (memory.py:361, 368 with 444-464 and 487-504).
SummaryCoversWatermark ==
  \A t \in Threads : out[t].src # 0 => out[t].src >= job[t].success

\* What a consolidation left in the workspace for a thread is not what it would
\* leave now: the summary it chose has changed or gone, or there is one it was
\* not offered.
Stale(con, t) ==
  IF con.inputs[t] # 0 THEN View(t) # con.inputs[t] ELSE View(t) \notin {0, con.offered[t]}
Outdated(con) == \E t \in Threads \ untold : Stale(con, t)

\* As long as the last recorded consolidation is stale for a thread,
\* input_watermark is above last_success_watermark and another one is due, also
\* when the change came while it was running (memory.py:763, 882, 1620-1624).
\* Two changes are not told, and excepted: a prune deletes a summary that was
\* made or selected after its SELECT (memory.py:573-590), and a thread is
\* polluted while the first consolidation that chose it runs, whose mark on the
\* row is still to come (memory.py:829-843).
DirtyIsVisible == Outdated(recorded) => global.input > global.success
=============================================================================
