------------------------------- MODULE Goals -------------------------------
(***************************************************************************)
(* The goal of a thread (src/volley/goal.py): GoalStore, a JSON file that  *)
(* every session reads and rewrites as a whole, and GoalRuntime, which     *)
(* charges a session's tokens to the goal, with the turns of the session   *)
(* and the loop of the interface that continues an active goal.            *)
(*                                                                         *)
(* Each session has a GoalStore of its own, so its lock orders nothing     *)
(* between sessions: an operation reads the file in one step and replaces  *)
(* it in a later one.  Objectives are not modelled, and time only as far   *)
(* as some may have passed.                                                *)
(***************************************************************************)
EXTENDS Integers, FiniteSets, Functions

CONSTANTS
  Sessions,       \* the sessions of one volley home
  Threads,        \* their threads
  Assignments,    \* which session is on which thread: a set of functions
  Budgets,        \* the token budgets create_goal is called with
  Usages,         \* the tokens a model request may report, 0 for a response without usage
  MaxTurns,       \* bound, for each session: turns the user starts
  MaxRounds,      \* bound, for each session: turns that continue a goal
  MaxSamples,     \* max_iterations
  MaxOrders,      \* bound: /goal commands and /compact of the user
  MaxCreates      \* bound: calls of create_goal

NoBudget == 0
NoId == 0

\* _validate_goal_budget; goal_token_delta_for_usage is never negative
ASSUME BudgetsAssumption == Budgets \subseteq Nat \ {0} /\ Usages \subseteq Nat
ASSUME SessionsAssumption == IsFiniteSet(Sessions)
ASSUME AssignmentsAssumption == Assignments \subseteq [Sessions -> Threads]

Statuses == {"active", "paused", "blocked", "budget_limited", "complete"}

VARIABLES
  file,       \* thread_goals.json
  on,         \* the thread of each session
  rt,         \* the GoalRuntime of each session
  call,       \* what each session is doing to its goal
  phase,      \* of the session's turn: "out", "begin", "ask" the model, "act"
              \* on its answer
  sampled,    \* model requests of the turn
  byUser,     \* the turn was started by the user, not by the loop
  looping,    \* _run_goal_continuations_human is running
  created,    \* goals created so far
  turns, rounds, orders, creates,     \* counters for the bounds
  due,        \* ghost: tokens used while a session was at work on the thread's
              \* goal, without those that are given up
  metered,    \* ghost: a response of the turn had usage, since it took up its goal
              \* and last called create_goal
  continued,  \* ghost: metered turns that continued the thread's goal to their end
  raced       \* ghost: the file was replaced by one that lacks another's change

counters == <<created, turns, rounds, orders, creates>>
ghosts == <<due, metered, continued, raced>>
vars == <<file, on, rt, call, phase, sampled, byUser, looping, counters, ghosts>>

NoGoal == [id |-> NoId, status |-> "none", budget |-> NoBudget, used |-> 0]
Quiet == [op |-> "none", at |-> "idle", loaded |-> <<>>, id |-> NoId]

Init ==
  /\ file = [t \in Threads |-> NoGoal] /\ on \in Assignments
  /\ rt = [s \in Sessions |-> [pending |-> 0, active |-> NoId, wall |-> NoId, reported |-> NoId]]
  /\ call = [s \in Sessions |-> Quiet]
  /\ phase = [s \in Sessions |-> "out"] /\ sampled = [s \in Sessions |-> 0]
  /\ byUser = [s \in Sessions |-> TRUE] /\ looping = [s \in Sessions |-> FALSE]
  /\ created = 0 /\ turns = [s \in Sessions |-> 0]
  /\ rounds = [s \in Sessions |-> 0] /\ orders = 0 /\ creates = 0
  /\ due = [t \in Threads |-> 0] /\ continued = [t \in Threads |-> 0]
  /\ metered = [s \in Sessions |-> FALSE] /\ raced = FALSE

-----------------------------------------------------------------------------
(* Statuses and the fields of a GoalRuntime.                               *)

\* _status_after_budget_limit
AfterBudget(status, used, budget) ==
  IF status = "active" /\ budget # NoBudget /\ used >= budget THEN "budget_limited" ELSE status

\* _updated_status
Updated(goal, status) ==
  IF goal.status = "budget_limited" /\ status \in {"paused", "blocked"} THEN "budget_limited"
  ELSE AfterBudget(status, goal.used, goal.budget)

\* _status_allowed_for_accounting, in the mode each operation asks for
Chargeable(op) ==
  CASE op = "complete" -> {"active", "budget_limited", "complete"}
    [] op = "block" -> {"active", "paused", "blocked", "budget_limited"}
    [] OTHER -> {"active", "budget_limited"}

Working(goal) == goal.status \in {"active", "budget_limited"}

\* expected_goal_id of _account_progress
Holder(r) == IF r.active # NoId THEN r.active ELSE r.wall
\* pending is _cumulative_goal_tokens - _last_accounted_goal_tokens
Settled(r) == [r EXCEPT !.pending = 0]
\* a slip: the clock stops, and the turn goes on with the goal
Stopped(r) == [r EXCEPT !.wall = NoId]
\* _active_goal_id = None, and _clear_wall_clock
Released(r) == [r EXCEPT !.active = NoId, !.wall = NoId]
\* _mark_active_goal
Marked(r, id) ==
  [r EXCEPT !.active = id, !.wall = id, !.reported = IF @ = id THEN id ELSE NoId]

Mine(s) == file[on[s]]
Idle(s) == call[s] = Quiet

-----------------------------------------------------------------------------
(* Turns.                                                                  *)

\* The session's holder has n more, or fewer, tokens to account for.
Owe(s, n) ==
  due' = IF raced \/ Holder(rt[s]) # Mine(s).id \/ Mine(s) = NoGoal THEN due
         ELSE [due EXCEPT ![on[s]] = @ + n]

\* record_token_usage; nothing is added for a response without usage
Use(s, n) == rt' = [rt EXCEPT ![s].pending = @ + n] /\ Owe(s, n)

\* _run_chat, with a prompt
UserTurn(s) ==
  /\ phase[s] = "out" /\ Idle(s) /\ ~looping[s] /\ turns[s] < MaxTurns[s]
  /\ turns' = [turns EXCEPT ![s] = @ + 1]
  /\ byUser' = [byUser EXCEPT ![s] = TRUE] /\ phase' = [phase EXCEPT ![s] = "begin"]
  /\ UNCHANGED <<file, on, rt, call, sampled, looping, created, rounds, orders, creates, ghosts>>

\* _run_goal_continuations_human: goes on as long as the goal is active
Continue(s) ==
  /\ phase[s] = "out" /\ Idle(s) /\ looping[s]
  /\ \/ /\ Mine(s).status = "active"
        /\ rounds[s] < MaxRounds[s] /\ rounds' = [rounds EXCEPT ![s] = @ + 1]
        /\ byUser' = [byUser EXCEPT ![s] = FALSE] /\ phase' = [phase EXCEPT ![s] = "begin"]
        /\ UNCHANGED looping
     \/ /\ Mine(s).status # "active"
        /\ looping' = [looping EXCEPT ![s] = FALSE]
        /\ UNCHANGED <<byUser, phase, rounds>>
  /\ UNCHANGED <<file, on, rt, call, sampled, created, turns, orders, creates, ghosts>>

\* ... and no prompt is queued, and the last answer was not empty
Leave(s) ==
  /\ phase[s] = "out" /\ Idle(s) /\ looping[s]
  /\ looping' = [looping EXCEPT ![s] = FALSE]
  /\ UNCHANGED <<file, on, rt, call, phase, sampled, byUser, counters, ghosts>>

\* a slip: what was used between turns is charged to the goal of the next
StartKeeping(r) == [r EXCEPT !.active = NoId]
\* on_turn_start begins to count afresh
StartCounting(r) == Settled([r EXCEPT !.active = NoId])

\* on_turn_start
Start(s) ==
  LET r == StartCounting(rt[s]) IN
  /\ phase[s] = "begin" /\ Idle(s)
  /\ rt' = [rt EXCEPT ![s] = IF Working(Mine(s)) THEN Marked(r, Mine(s).id) ELSE Released(r)]
  /\ Owe(s, -rt[s].pending) /\ metered' = [metered EXCEPT ![s] = FALSE]
  /\ phase' = [phase EXCEPT ![s] = "ask"] /\ sampled' = [sampled EXCEPT ![s] = 0]
  /\ UNCHANGED <<file, on, call, byUser, looping, counters, continued, raced>>

\* A request of the turn, with what its response says it used, if it does.
Sample(s) ==
  /\ phase[s] = "ask" /\ Idle(s) /\ sampled[s] < MaxSamples
  /\ \E n \in Usages : Use(s, n) /\ metered' = [metered EXCEPT ![s] = @ \/ n > 0]
  /\ phase' = [phase EXCEPT ![s] = "act"] /\ sampled' = [sampled EXCEPT ![s] = @ + 1]
  /\ UNCHANGED <<file, on, call, byUser, looping, counters, continued, raced>>

\* /compact: its request belongs to no turn
Compact(s) ==
  /\ phase[s] = "out" /\ Idle(s) /\ ~looping[s] /\ orders < MaxOrders
  /\ orders' = orders + 1
  /\ \E n \in Usages : Use(s, n)
  /\ UNCHANGED <<file, on, call, phase, sampled, byUser, looping, created, turns, rounds, creates,
                 metered, continued, raced>>

\* turn.failed or an exception: the goal runtime is not told
Fail(s) ==
  /\ phase[s] \in {"ask", "act"} /\ Idle(s)
  /\ phase' = [phase EXCEPT ![s] = "out"] /\ looping' = [looping EXCEPT ![s] = byUser[s]]
  /\ UNCHANGED <<file, on, rt, call, sampled, byUser, counters, ghosts>>

Begin(s, op) == call' = [call EXCEPT ![s] = [Quiet EXCEPT !.op = op, !.at = "account"]]

\* A tool of the turn, its end, or its interruption.
InTurn(s) ==
  /\ Idle(s)
  /\ \E op \in {"tool", "create", "complete", "block", "finish", "abort"} :
       /\ phase[s] = "act" \/ (phase[s] = "ask" /\ op = "abort")
       /\ op = "create" => creates < MaxCreates
       /\ creates' = IF op = "create" THEN creates + 1 ELSE creates
       /\ Begin(s, op)
  /\ UNCHANGED <<file, on, rt, phase, sampled, byUser, looping, created, turns, rounds, orders, ghosts>>

\* _handle_goal_slash; a new objective replaces a goal there is
Order(s) ==
  /\ phase[s] = "out" /\ Idle(s) /\ ~looping[s] /\ orders < MaxOrders
  /\ orders' = orders + 1
  /\ \E op \in {"pause", "resume", "edit", "clear", IF Mine(s) = NoGoal THEN "set" ELSE "replace"} :
       Begin(s, op)
  /\ UNCHANGED <<file, on, rt, phase, sampled, byUser, looping, created, turns, rounds, creates, ghosts>>

-----------------------------------------------------------------------------
(* _account_progress, and what each operation does after it.               *)

Done(s) == call' = [call EXCEPT ![s] = Quiet]

Proceed(s, r) ==
  LET op == call[s].op
      next == IF op \in {"pause", "resume", "edit", "set"} THEN "get" ELSE "store" IN
  \/ /\ op = "tool"
     /\ Done(s) /\ rt' = [rt EXCEPT ![s] = r] /\ phase' = [phase EXCEPT ![s] = "ask"]
     /\ UNCHANGED looping
  \/ /\ op \in {"finish", "abort"}
     /\ Done(s) /\ rt' = [rt EXCEPT ![s] = [r EXCEPT !.active = NoId]]
     /\ phase' = [phase EXCEPT ![s] = "out"]
     /\ looping' = [looping EXCEPT ![s] = byUser[s] \/ op = "finish"]
  \/ /\ op \notin {"tool", "finish", "abort"}
     /\ call' = [call EXCEPT ![s].at = next] /\ rt' = [rt EXCEPT ![s] = r]
     /\ UNCHANGED <<phase, looping>>

\* a slip: the end of a turn charges the time only
DeltaOfTools(s) == IF call[s].op \in {"create", "finish"} THEN 0 ELSE rt[s].pending
\* create_goal charges the time only
Delta(s) == IF call[s].op = "create" THEN 0 ELSE rt[s].pending

\* A turn of the loop ends, with usage, while its goal is worked on.
Count(s) ==
  continued' = IF /\ call[s].op = "finish" /\ ~byUser[s] /\ metered[s] /\ ~raced
                  /\ Working(Mine(s)) /\ Holder(rt[s]) = Mine(s).id
               THEN [continued EXCEPT ![on[s]] = @ + 1] ELSE continued

\* Nothing to charge, or nobody to charge it to any more.
NotCharged(s) ==
  LET id == Holder(rt[s]) IN
  \/ /\ id = NoId \/ Delta(s) = 0
     /\ Proceed(s, rt[s]) /\ Count(s)
     /\ UNCHANGED <<file, due, metered, raced>>
  \/ /\ id # NoId /\ (Delta(s) > 0 \/ rt[s].wall = id)
     /\ Mine(s).id # id \/ Mine(s).status \notin Chargeable(call[s].op)
     /\ IF Working(Mine(s))
        THEN Proceed(s, rt[s]) /\ UNCHANGED due
        ELSE Proceed(s, Released(rt[s])) /\ Owe(s, -rt[s].pending)
     /\ UNCHANGED <<file, metered, continued, raced>>

\* account_thread_goal_usage reads the file; without tokens, because time passed
Read(s) ==
  LET id == Holder(rt[s]) IN
  /\ id # NoId /\ (Delta(s) > 0 \/ rt[s].wall = id)
  /\ Mine(s).id = id /\ Mine(s).status \in Chargeable(call[s].op)
  /\ call' = [call EXCEPT ![s].at = "charge", ![s].loaded = file]
  /\ UNCHANGED <<file, rt, phase, looping, ghosts>>

Account(s) ==
  /\ call[s].at = "account"
  /\ NotCharged(s) \/ Read(s)
  /\ UNCHANGED <<on, sampled, byUser, counters>>

\* a slip: the budget is not looked at
ChargedBlindly(goal, n) == [goal EXCEPT !.used = @ + n]
Charged(goal, n) ==
  [goal EXCEPT !.used = @ + n, !.status = AfterBudget(@, goal.used + n, goal.budget)]

\* should_steer
Reports(r, goal, op) ==
  op = "tool" /\ goal.status = "budget_limited" /\ r.reported # goal.id

\* what the charge leaves of the runtime's fields
AfterCharge(r, goal, op) ==
  LET counted == Settled(r)
      freed == IF goal.status \in {"paused", "blocked", "complete"}
                  \/ (goal.status = "budget_limited" /\ op # "tool")
               THEN Released(counted) ELSE counted IN
  [freed EXCEPT !.reported = IF goal.status # "budget_limited" THEN NoId
                             ELSE IF Reports(r, goal, op) THEN goal.id ELSE @]

Replace(s, goal) ==
  /\ file' = [call[s].loaded EXCEPT ![on[s]] = goal]
  /\ raced' = (raced \/ call[s].loaded # file)

\* the ghosts are of no use after a lost update
Forget == due' = [t \in Threads |-> 0] /\ continued' = [t \in Threads |-> 0]

Charge(s) ==
  LET op == call[s].op
      goal == Charged(call[s].loaded[on[s]], Delta(s)) IN
  /\ call[s].at = "charge"
  /\ Replace(s, goal)
  /\ Proceed(s, AfterCharge(rt[s], goal, op))
  /\ IF raced' THEN Forget ELSE Owe(s, Delta(s) - rt[s].pending) /\ Count(s)
  /\ metered' = [metered EXCEPT ![s] = @ /\ op # "create"]
  /\ UNCHANGED <<on, sampled, byUser, counters>>

-----------------------------------------------------------------------------
(* The store.                                                              *)

\* set_goal_external: the goal it finds is the one it will change
Get(s) ==
  LET op == call[s].op IN
  /\ call[s].at = "get"
  /\ \/ /\ Mine(s) # NoGoal
        /\ call' = [call EXCEPT ![s].at = "store", ![s].id = Mine(s).id]
     \/ /\ Mine(s) = NoGoal /\ op \in {"edit", "set"}
        /\ call' = [call EXCEPT ![s].at = "store", ![s].op = "replace"]
     \/ Mine(s) = NoGoal /\ op \in {"pause", "resume"} /\ Done(s)
  /\ UNCHANGED <<file, on, rt, phase, sampled, byUser, looping, counters, ghosts>>

\* The operation finds its goal, or in create_goal's case none.
Applies(s) ==
  CASE call[s].op = "create" -> Mine(s) = NoGoal
    [] call[s].op = "replace" -> TRUE
    [] call[s].op \in {"complete", "block", "clear"} -> Mine(s) # NoGoal
    [] OTHER -> Mine(s).id = call[s].id

Load(s) ==
  /\ call[s].at = "store" /\ Applies(s)
  /\ call' = [call EXCEPT ![s].at = "write", ![s].loaded = file]
  /\ UNCHANGED <<file, on, rt, phase, sampled, byUser, looping, counters, ghosts>>

Refused(s) ==
  LET op == call[s].op IN
  /\ call[s].at = "store" /\ ~Applies(s)
  /\ \/ /\ op = "create" /\ Begin(s, "tool") /\ UNCHANGED <<rt, phase>>
     \/ /\ op \in {"complete", "block"} /\ Done(s)
        /\ phase' = [phase EXCEPT ![s] = "ask"] /\ UNCHANGED rt
     \/ /\ op = "clear" /\ Done(s)
        /\ rt' = [rt EXCEPT ![s] = [Released(@) EXCEPT !.reported = NoId]] /\ UNCHANGED phase
     \/ op \in {"pause", "resume", "edit", "set"} /\ Done(s) /\ UNCHANGED <<rt, phase>>
  /\ UNCHANGED <<file, on, sampled, byUser, looping, counters, ghosts>>

Fresh(budget) == [id |-> created + 1, status |-> "active", budget |-> budget, used |-> 0]

\* insert_, replace_, update_ and delete_thread_goal
Changed(op, goal, budget) ==
  CASE op = "create" -> Fresh(budget)
    [] op = "replace" -> Fresh(NoBudget)
    [] op = "complete" -> [goal EXCEPT !.status = Updated(goal, "complete")]
    [] op = "block" -> [goal EXCEPT !.status = Updated(goal, "blocked")]
    [] op = "pause" -> [goal EXCEPT !.status = Updated(goal, "paused")]
    [] op = "resume" -> [goal EXCEPT !.status = Updated(goal, "active")]
    [] op = "edit" -> goal
    [] op = "set" -> [goal EXCEPT !.budget = NoBudget, !.status = "active"]
    [] OTHER -> NoGoal

\* _mark_active_goal with reset_token_baseline
MarkedAfresh(r, id) == Settled(Marked(r, id))

Write(s) ==
  LET op == call[s].op
      old == call[s].loaded[on[s]]
      r == IF op \in {"complete", "block"} THEN rt[s] ELSE [rt[s] EXCEPT !.reported = NoId]
      user == op \notin {"create", "complete", "block"} IN
  /\ call[s].at = "write"
  /\ \E budget \in IF op = "create" THEN Budgets \cup {NoBudget} ELSE {NoBudget} :
       LET new == Changed(op, old, budget)
           goesOn == new.status = "active" /\ op \notin {"complete", "block"} IN
       /\ Replace(s, new)
       /\ rt' = [rt EXCEPT ![s] = IF goesOn THEN MarkedAfresh(r, new.id) ELSE Released(r)]
       /\ looping' = IF user THEN [looping EXCEPT ![s] = goesOn] ELSE looping
  /\ IF op = "create" THEN Begin(s, "tool") ELSE Done(s)
  /\ phase' = IF op \in {"complete", "block"} THEN [phase EXCEPT ![s] = "ask"] ELSE phase
  /\ created' = IF op \in {"create", "replace"} THEN created + 1 ELSE created
  /\ IF raced' THEN Forget
     ELSE IF created' > created \/ op = "clear"
     THEN due' = [due EXCEPT ![on[s]] = 0] /\ continued' = [continued EXCEPT ![on[s]] = 0]
     ELSE UNCHANGED <<due, continued>>
  /\ metered' = [metered EXCEPT ![s] = FALSE]
  /\ UNCHANGED <<on, sampled, byUser, turns, rounds, orders, creates>>

-----------------------------------------------------------------------------

Work(s) ==
  \/ Continue(s) \/ Start(s) \/ Sample(s) \/ InTurn(s) \/ Fail(s)
  \/ Account(s) \/ Charge(s) \/ Get(s) \/ Load(s) \/ Refused(s) \/ Write(s)

Next == \E s \in Sessions : Work(s) \/ UserTurn(s) \/ Leave(s) \/ Compact(s) \/ Order(s)

Spec == Init /\ [][Next]_vars

-----------------------------------------------------------------------------
(* Properties.                                                             *)

Goal == [id : Nat, status : Statuses \cup {"none"}, budget : Nat, used : Nat]
Runtime == [pending : Nat, active : Nat, wall : Nat, reported : Nat]
Ops == {"none", "tool", "create", "complete", "block", "finish", "abort", "pause", "resume",
        "edit", "set", "replace", "clear"}
Files == [Threads -> Goal]
Calls == [op : Ops, at : {"idle", "account", "get", "store", "charge", "write"},
          loaded : Files \cup {<<>>}, id : Nat]

(* The types, and what the fields of a GoalRuntime say of each other: a    *)
(* turn works on the goal its clock runs for, and no clock runs for one    *)
(* goal while another's budget is the one reported as used up.             *)
TypeOK ==
  /\ file \in Files /\ on \in [Sessions -> Threads]
  /\ rt \in [Sessions -> Runtime] /\ call \in [Sessions -> Calls]
  /\ \A s \in Sessions :
       /\ call[s].at \in {"charge", "write"} => call[s].loaded \in Files
       /\ rt[s].active \in {NoId, rt[s].wall}
       /\ rt[s].reported # NoId /\ rt[s].wall # NoId => rt[s].reported = rt[s].wall
  /\ phase \in [Sessions -> {"out", "begin", "ask", "act"}]
  /\ created \in Nat

(* A goal that is active has budget left, in the file and in every copy of *)
(* it an operation is about to write back, whatever the sessions charge,   *)
(* resume, edit or overwrite: the loop of the interface and the prompt of  *)
(* continuation look at nothing but the status.                            *)
WithinBudget(goal) == goal.status = "active" /\ goal.budget # NoBudget => goal.used < goal.budget
ActiveWithinBudget ==
  /\ \A t \in Threads : WithinBudget(file[t])
  /\ \A s \in Sessions, t \in Threads :
       call[s].at \in {"charge", "write"} => WithinBudget(call[s].loaded[t])

(* Every token used while a session was at work on a goal is charged once, *)
(* or still to be charged, or given up: the model names the three places   *)
(* that give tokens up (what a failed turn or /compact left when a turn    *)
(* starts, create_goal when a goal exists, a goal another session stopped).*)
(* Tokens used before a goal was set are not charged to it.  Lost updates  *)
(* of the file excepted.                                                   *)
Share(id) == [s \in Sessions |-> IF Holder(rt[s]) = id THEN rt[s].pending ELSE 0]
PendingOn(id) == SumFunctionOnSet(Share(id), Sessions)
EveryTokenOnce ==
  raced \/ \A t \in Threads :
    file[t] # NoGoal => due[t] = file[t].used + PendingOn(file[t].id)

(* The budget ends the loop of a model that reports what it uses: a turn   *)
(* that continued the goal to its end, and one of whose responses had      *)
(* usage (after create_goal, if it was called: it gives up what is         *)
(* pending), was charged at least a token, whatever its tools and other    *)
(* sessions did to the goal meanwhile, so the status the loop looks at     *)
(* cannot stay active.  A turn none of whose responses has usage (Gemini's *)
(* without usageMetadata, a stream that ends without response.completed)   *)
(* is free, and the loop may go on for ever on such turns.                 *)
LoopIsCharged ==
  raced \/ \A t \in Threads : continued[t] <= file[t].used
=============================================================================
