---------------------------- MODULE GoalsProofs ----------------------------
(***************************************************************************)
(* Goals, and the conversation that works on them.  About Goals, for any   *)
(* number of sessions and threads and any interleaving of their reads and  *)
(* writes of the file: type correctness; an active goal has budget left;   *)
(* the loop of the interface is charged; every token is accounted for once.*)
(* About Chat, for any submissions and commands: none of them is lost or   *)
(* taken up twice on its way between the threads, and a command waits for  *)
(* what was submitted before it.                                           *)
(***************************************************************************)
EXTENDS Goals, Chat, SequenceTheorems, FiniteSetTheorems, WellFoundedInduction, TLAPS

-----------------------------------------------------------------------------
(* Sums over a finite set.                                                 *)

\* What is true of the empty set, and of a set when it is true of the set
\* without one of its elements, is true of all.
LEMMA SetInduction ==
  ASSUME NEW S, IsFiniteSet(S), NEW T, {} \in T,
         \A A \in SUBSET S : A # {} /\ (\A x \in A : A \ {x} \in T) => A \in T
  PROVE  SUBSET S \subseteq T
<1> DEFINE Sizes == {n \in Nat : \E A \in SUBSET S : Cardinality(A) = n /\ A \notin T}
<1>1. SUFFICES ASSUME NEW A \in SUBSET S, A \notin T PROVE FALSE OBVIOUS
<1>2. \A B \in SUBSET S : IsFiniteSet(B) /\ Cardinality(B) \in Nat BY FS_Subset, FS_CardinalityType
<1>3. Cardinality(A) \in Sizes BY <1>1, <1>2
<1>4. PICK n \in Sizes : \A y \in Sizes : ~ (<<y, n>> \in OpToRel(<, Nat))
  <2>1. Sizes \subseteq Nat /\ Sizes # {} BY <1>3
  <2> HIDE DEF Sizes
  <2> QED BY <2>1, NatLessThanWellFounded, WFMin
<1>5. PICK B \in SUBSET S : Cardinality(B) = n /\ B \notin T BY <1>4
<1>6. B # {} BY <1>5
<1>7. ASSUME NEW x \in B PROVE B \ {x} \in T
  <2>1. Cardinality(B \ {x}) = n - 1 BY <1>2, <1>5, FS_RemoveElement
  <2>2. n - 1 \in Nat /\ n \in Nat BY <1>2, <1>5, <2>1
  <2>3. <<n - 1, n>> \in OpToRel(<, Nat) BY <2>2 DEF OpToRel
  <2>4. n - 1 \notin Sizes BY <1>4, <2>3
  <2> QED BY <2>1, <2>2, <2>4
<1> QED BY <1>5, <1>6, <1>7

\* the function that a sum is read off
First(A) == CHOOSE x \in A : TRUE
Sums(g, f, D) ==
  g = [A \in D |-> IF A = {} THEN 0 ELSE f[First(A)] + g[A \ {First(A)}]]

\* There is one,
LEMMA SumsExist ==
  ASSUME NEW S, IsFiniteSet(S), NEW f
  PROVE  \E g : Sums(g, f, SUBSET S)
<1> DEFINE Small(n) == {A \in SUBSET S : Cardinality(A) <= n}
           Bad == {n \in Nat : ~\E g : Sums(g, f, Small(n))}
<1>1. \A B \in SUBSET S : IsFiniteSet(B) /\ Cardinality(B) \in Nat BY FS_Subset, FS_CardinalityType
<1>2. 0 \notin Bad
  <2> DEFINE g == [A \in Small(0) |-> 0]
  <2>1. \A A \in Small(0) : A = {} BY <1>1, FS_EmptySet
  <2>2. Sums(g, f, Small(0)) BY <2>1 DEF Sums
  <2> QED BY <2>2
<1>3. ASSUME NEW n \in Nat, n \notin Bad PROVE n + 1 \notin Bad
  <2>1. PICK g : Sums(g, f, Small(n)) BY <1>3
  <2> DEFINE h == [A \in Small(n + 1) |-> IF A = {} THEN 0 ELSE f[First(A)] + g[A \ {First(A)}]]
  <2>2. \A A \in Small(n) : g[A] = IF A = {} THEN 0 ELSE f[First(A)] + g[A \ {First(A)}] BY <2>1 DEF Sums
  <2>3. \A A \in Small(n) : A \in Small(n + 1) BY <1>1
  <2>4. \A A \in Small(n) : h[A] = g[A] BY <2>2, <2>3
  <2>5. \A A \in Small(n + 1) : A # {} => A \ {First(A)} \in Small(n)
    <3> TAKE A \in Small(n + 1)
    <3> HAVE A # {}
    <3>1. First(A) \in A BY DEF First
    <3>2. Cardinality(A \ {First(A)}) = Cardinality(A) - 1 BY <1>1, <3>1, FS_RemoveElement
    <3> QED BY <1>1, <3>2
  <2>6. \A A \in Small(n + 1) : h[A] = IF A = {} THEN 0 ELSE f[First(A)] + h[A \ {First(A)}]
    BY <2>4, <2>5
  <2>7. h = [A \in Small(n + 1) |-> h[A]] OBVIOUS
  <2> HIDE DEF h, Small
  <2>8. Sums(h, f, Small(n + 1)) BY <2>6, <2>7 DEF Sums
  <2> QED BY <2>8
<1>4. \A n \in Nat : n \notin Bad
  <2>1. SUFFICES ASSUME NEW m \in Bad PROVE FALSE OBVIOUS
  <2>2. PICK n \in Bad : \A y \in Bad : ~ (<<y, n>> \in OpToRel(<, Nat))
    <3>1. Bad \subseteq Nat /\ Bad # {} BY <2>1
    <3> HIDE DEF Bad
    <3> QED BY <3>1, NatLessThanWellFounded, WFMin
  <2>3. n \in Nat /\ n # 0 BY <1>2, <2>2
  <2>4. n - 1 \in Nat /\ <<n - 1, n>> \in OpToRel(<, Nat) BY <2>3 DEF OpToRel
  <2>5. n - 1 \notin Bad BY <2>2, <2>4
  <2> HIDE DEF Bad
  <2>6. (n - 1) + 1 \notin Bad BY <1>3, <2>4, <2>5
  <2>7. (n - 1) + 1 = n BY <2>3
  <2> QED BY <2>2, <2>6, <2>7
<1>5. Small(Cardinality(S)) = SUBSET S BY <1>1, FS_Subset
<1>6. Cardinality(S) \in Nat BY FS_CardinalityType
<1> QED BY <1>4, <1>5, <1>6

\* and the sum is its value at the whole set:
Summing(g, f, S) ==
  /\ SumFunctionOnSet(f, S) = g[S] /\ g[{}] = 0
  /\ \A A \in SUBSET S : A # {} => First(A) \in A /\ g[A] = f[First(A)] + g[A \ {First(A)}]
\* this one has the sum.
LEMMA SumIsRead ==
  ASSUME NEW S, IsFiniteSet(S), NEW f
  PROVE  \E g : Summing(g, f, S)
<1> DEFINE g == CHOOSE g : Sums(g, f, SUBSET S)
<1>1. Sums(g, f, SUBSET S) BY SumsExist
<1>2. SumFunctionOnSet(f, S) = g[S]
  BY DEF SumFunctionOnSet, FoldFunctionOnSet, MapThenFoldSet, Sums, First
<1> HIDE DEF g
<1>3. \A A \in SUBSET S : g[A] = IF A = {} THEN 0 ELSE f[First(A)] + g[A \ {First(A)}] BY <1>1 DEF Sums
<1>4. \A A \in SUBSET S : A # {} => First(A) \in A BY DEF First
<1> QED BY <1>2, <1>3, <1>4 DEF Summing

\* A sum of integers is one.
LEMMA SumType ==
  ASSUME NEW S, IsFiniteSet(S), NEW f \in [S -> Int]
  PROVE  SumFunctionOnSet(f, S) \in Int
<1>1. PICK g : Summing(g, f, S) BY SumIsRead
<1> DEFINE T == {A \in SUBSET S : g[A] \in Int}
<1>2. {} \in T BY <1>1 DEF Summing
<1>3. ASSUME NEW A \in SUBSET S, A # {}, \A x \in A : A \ {x} \in T PROVE A \in T
  <2>1. First(A) \in A /\ g[A] = f[First(A)] + g[A \ {First(A)}] BY <1>1, <1>3 DEF Summing
  <2>2. g[A \ {First(A)}] \in Int /\ f[First(A)] \in Int BY <1>3, <2>1
  <2> QED BY <2>1, <2>2
<1> HIDE DEF T
<1>4. S \in T BY <1>2, <1>3, SetInduction
<1> QED BY <1>1, <1>4 DEF T, Summing

\* A sum in which one summand changes changes with it.
LEMMA SumChange ==
  ASSUME NEW S, IsFiniteSet(S), NEW f \in [S -> Int], NEW h \in [S -> Int], NEW s \in S,
         \A x \in S : x # s => h[x] = f[x]
  PROVE  SumFunctionOnSet(h, S) = SumFunctionOnSet(f, S) + (h[s] - f[s])
<1>1. PICK g : Summing(g, f, S) BY SumIsRead
<1>2. PICK k : Summing(k, h, S) BY SumIsRead
<1> DEFINE T == {A \in SUBSET S : /\ g[A] \in Int /\ k[A] \in Int
                                  /\ k[A] = g[A] + (IF s \in A THEN h[s] - f[s] ELSE 0)}
<1>3. {} \in T BY <1>1, <1>2 DEF Summing
<1>4. ASSUME NEW A \in SUBSET S, A # {}, \A x \in A : A \ {x} \in T PROVE A \in T
  <2> DEFINE x == First(A)
             B == A \ {x}
  <2>1. /\ x \in A /\ x \in S /\ B \in T
        /\ g[A] = f[x] + g[B] /\ k[A] = h[x] + k[B]
    BY <1>1, <1>2, <1>4 DEF Summing
  <2>2. /\ f[x] \in Int /\ h[x] \in Int /\ f[s] \in Int /\ h[s] \in Int
        /\ g[B] \in Int /\ k[B] \in Int
        /\ k[B] = g[B] + (IF s \in B THEN h[s] - f[s] ELSE 0)
    BY <2>1
  <2>3. (x = s /\ s \in A /\ s \notin B) \/ (x # s /\ h[x] = f[x] /\ (s \in B <=> s \in A)) BY <2>1
  <2> HIDE DEF x, B
  <2>4. k[A] = g[A] + (IF s \in A THEN h[s] - f[s] ELSE 0) /\ g[A] \in Int /\ k[A] \in Int
    BY <2>1, <2>2, <2>3
  <2> QED BY <2>4
<1> HIDE DEF T
<1>5. S \in T BY <1>3, <1>4, SetInduction
<1> QED BY <1>1, <1>2, <1>5 DEF T, Summing

\* A sum of zeros is zero.
LEMMA SumZero ==
  ASSUME NEW S, IsFiniteSet(S), NEW f, \A x \in S : f[x] = 0
  PROVE  SumFunctionOnSet(f, S) = 0
<1>1. PICK g : Summing(g, f, S) BY SumIsRead
<1> DEFINE T == {A \in SUBSET S : g[A] = 0}
<1>2. {} \in T BY <1>1 DEF Summing
<1>3. ASSUME NEW A \in SUBSET S, A # {}, \A x \in A : A \ {x} \in T PROVE A \in T
  <2>1. First(A) \in A /\ g[A] = f[First(A)] + g[A \ {First(A)}] BY <1>1, <1>3 DEF Summing
  <2>2. g[A \ {First(A)}] = 0 /\ f[First(A)] = 0 BY <1>3, <2>1
  <2> QED BY <2>1, <2>2
<1> HIDE DEF T
<1>4. S \in T BY <1>2, <1>3, SetInduction
<1> QED BY <1>1, <1>4 DEF T, Summing

-----------------------------------------------------------------------------
(* The types, and the budget.                                              *)

\* What TypeOK and ActiveWithinBudget say of one runtime and of one file.
RuntimeOK(r) ==
  /\ r \in Runtime
  /\ r.active \in {NoId, r.wall}
  /\ r.reported # NoId /\ r.wall # NoId => r.reported = r.wall
FileOK(f) == f \in Files /\ \A t \in Threads : WithinBudget(f[t])

\* What an operation under way is about to write back, and for which goal.
CallOK(c, r, t) ==
  /\ c \in Calls
  /\ c.at \in {"charge", "write"} => FileOK(c.loaded)
  /\ c.at = "charge" => c.loaded[t].id = Holder(r) /\ Holder(r) # NoId

\* The inductive invariant: every copy of the file is as good as the file,
\* and a charge is made to the goal the runtime holds.
Phases == {"out", "begin", "ask", "act"}
Inv ==
  /\ FileOK(file)
  /\ on \in [Sessions -> Threads] /\ rt \in [Sessions -> Runtime] /\ call \in [Sessions -> Calls]
  /\ phase \in [Sessions -> Phases] /\ created \in Nat
  /\ \A s \in Sessions : RuntimeOK(rt[s]) /\ CallOK(call[s], rt[s], on[s])

-----------------------------------------------------------------------------
(* The operators on goals and runtimes.                                    *)

\* A charge leaves an active goal only when there is budget left.
LEMMA ChargedGoal ==
  ASSUME NEW g \in Goal, NEW n \in Nat
  PROVE  Charged(g, n) \in Goal /\ WithinBudget(Charged(g, n)) /\ Charged(g, n).id = g.id
<1> DEFINE u == g.used + n
           st == AfterBudget(g.status, u, g.budget)
<1>1. g.id \in Nat /\ g.budget \in Nat /\ u \in Nat /\ g.status \in Statuses \cup {"none"}
  BY DEF Goal
<1>2. st \in Statuses \cup {"none"}
  BY <1>1 DEF AfterBudget, Statuses
<1>3. Charged(g, n) = [id |-> g.id, status |-> st, budget |-> g.budget, used |-> u]
  <2>1. Charged(g, n) = [g EXCEPT !.used = u, !.status = st]
    BY DEF Charged
  <2> HIDE DEF u, st
  <2> QED BY <2>1 DEF Goal
<1>4. st = "active" /\ g.budget # NoBudget => u < g.budget
  BY <1>1 DEF AfterBudget
<1> HIDE DEF u, st
<1> QED BY <1>1, <1>2, <1>3, <1>4 DEF WithinBudget, Goal

\* A new goal has its whole budget.
LEMMA FreshGoal ==
  ASSUME created \in Nat, NEW b \in Nat
  PROVE  Fresh(b) \in Goal /\ WithinBudget(Fresh(b))
BY DEF Fresh, WithinBudget, Goal, Statuses, NoBudget

\* A change of status does not make a goal active whose budget is used up.
LEMMA UpdatedGoal ==
  ASSUME NEW g \in Goal, NEW status \in Statuses
  PROVE  LET h == [g EXCEPT !.status = Updated(g, status)] IN h \in Goal /\ WithinBudget(h)
BY DEF Updated, AfterBudget, WithinBudget, Goal, Statuses, NoBudget

\* Nor does any other operation of the store.
LEMMA ChangedGoal ==
  ASSUME created \in Nat, NEW g \in Goal, WithinBudget(g), NEW b \in Nat, NEW op \in Ops
  PROVE  Changed(op, g, b) \in Goal /\ WithinBudget(Changed(op, g, b))
<1>1. \A status \in Statuses :
        LET h == [g EXCEPT !.status = Updated(g, status)] IN h \in Goal /\ WithinBudget(h)
  BY UpdatedGoal
<1>2. \A c \in Nat : Fresh(c) \in Goal /\ WithinBudget(Fresh(c))
  BY FreshGoal
<1>3. NoGoal \in Goal /\ WithinBudget(NoGoal)
  BY DEF NoGoal, Goal, Statuses, WithinBudget, NoBudget, NoId
<1>4. LET h == [g EXCEPT !.budget = NoBudget, !.status = "active"] IN
      h \in Goal /\ WithinBudget(h)
  BY DEF Goal, Statuses, WithinBudget, NoBudget
<1>5. {"complete", "blocked", "paused", "active"} \subseteq Statuses /\ NoBudget \in Nat
  BY DEF Statuses, NoBudget
<1> QED BY <1>1, <1>2, <1>3, <1>4, <1>5 DEF Changed

\* The runtime's fields agree after each of the operators on them.
LEMMA RuntimeOps ==
  ASSUME NEW r, RuntimeOK(r), NEW id \in Nat
  PROVE  /\ RuntimeOK(Settled(r)) /\ RuntimeOK(Released(r)) /\ RuntimeOK(Marked(r, id))
         /\ RuntimeOK(StartCounting(r)) /\ RuntimeOK([r EXCEPT !.active = NoId])
         /\ RuntimeOK([r EXCEPT !.reported = NoId])
         /\ Holder(r) \in Nat /\ r.pending \in Nat
         /\ Holder(r) # NoId => Holder(r) = r.wall
BY DEF RuntimeOK, Runtime, Settled, Released, Marked, StartCounting, Holder, NoId

\* A charge to the goal the runtime holds reports no other goal.
LEMMA ChargedRuntime ==
  ASSUME NEW r, RuntimeOK(r), NEW g \in Goal, NEW op,
         g.id = Holder(r), Holder(r) # NoId
  PROVE  RuntimeOK(AfterCharge(r, g, op))
<1>1. RuntimeOK(Settled(r)) /\ RuntimeOK(Released(Settled(r))) /\ g.id = r.wall
  BY RuntimeOps
<1>2. /\ Settled(r).wall = r.wall /\ Settled(r).reported = r.reported
      /\ Released(Settled(r)).wall = NoId
  BY DEF Settled, Released, RuntimeOK, Runtime
<1>3. g.id \in Nat
  BY DEF Goal
<1> DEFINE freed == IF \/ g.status \in {"paused", "blocked", "complete"}
                       \/ (g.status = "budget_limited" /\ op # "tool")
                    THEN Released(Settled(r)) ELSE Settled(r)
           rep == IF g.status # "budget_limited" THEN NoId
                  ELSE IF Reports(r, g, op) THEN g.id ELSE freed.reported
<1>4. RuntimeOK(freed) /\ (freed.wall = NoId \/ freed.wall = g.id)
  BY <1>1, <1>2
<1>5. RuntimeOK([freed EXCEPT !.reported = rep])
  <2>1. rep \in Nat /\ (rep # NoId /\ freed.wall # NoId => rep = freed.wall)
    BY <1>3, <1>4 DEF RuntimeOK, Runtime, NoId
  <2> HIDE DEF freed, rep
  <2> QED BY <1>4, <2>1 DEF RuntimeOK, Runtime
<1>6. AfterCharge(r, g, op) = [freed EXCEPT !.reported = rep]
  BY <1>4 DEF AfterCharge, RuntimeOK, Runtime
<1> QED BY <1>5, <1>6

-----------------------------------------------------------------------------
(* Every step replaces the file, and one runtime and one call.             *)

\* What is shown of the invariant.
LEMMA InvImplies == Inv => TypeOK /\ ActiveWithinBudget
BY DEF Inv, FileOK, RuntimeOK, CallOK, TypeOK, ActiveWithinBudget, Phases

\* The state after a step of session s, put together from its parts.
LEMMA Step ==
  ASSUME Inv, NEW s \in Sessions, NEW r, NEW c,
         FileOK(file'), on' = on, created' \in Nat, phase' \in [Sessions -> Phases],
         RuntimeOK(r), rt' = [rt EXCEPT ![s] = r],
         CallOK(c, r, on[s]), call' = [call EXCEPT ![s] = c]
  PROVE  Inv'
<1>1. rt' \in [Sessions -> Runtime] /\ call' \in [Sessions -> Calls]
  BY DEF Inv, RuntimeOK, CallOK
<1>2. \A x \in Sessions : RuntimeOK(rt'[x]) /\ CallOK(call'[x], rt'[x], on'[x])
  <2> TAKE x \in Sessions
  <2>1. CASE x = s
    BY <2>1 DEF Inv
  <2>2. CASE x # s
    BY <2>2 DEF Inv
  <2> QED BY <2>1, <2>2
<1> QED BY <1>1, <1>2 DEF Inv

\* A call that holds no copy of the file says nothing about it.
LEMMA NoCopy ==
  ASSUME NEW c \in Calls, c.at \notin {"charge", "write"}, NEW r, NEW t
  PROVE  CallOK(c, r, t)
BY DEF CallOK

\* A session without an operation holds no copy of the file.
LEMMA QuietIsCall == Quiet \in Calls /\ Quiet.at \notin {"charge", "write"}
BY DEF Quiet, Calls, Ops, NoId

\* A step that leaves the runtimes and the calls alone.
LEMMA Elsewhere ==
  ASSUME Inv, UNCHANGED <<file, on, rt, call>>, created' \in Nat,
         phase' \in [Sessions -> Phases]
  PROVE  Inv'
BY DEF Inv

\* A step that leaves the calls alone.
LEMMA RuntimeStep ==
  ASSUME Inv, NEW s \in Sessions, NEW r, UNCHANGED <<file, on, call, created>>,
         phase' \in [Sessions -> Phases],
         call[s].at # "charge", RuntimeOK(r), rt' = [rt EXCEPT ![s] = r]
  PROVE  Inv'
<1>1. CallOK(call[s], r, on[s])
  BY DEF Inv, CallOK
<1>2. call' = [call EXCEPT ![s] = call[s]] /\ FileOK(file') /\ created' \in Nat
  BY DEF Inv
<1> QED BY <1>1, <1>2, Step

\* The step from the account to the rest of the operation.
LEMMA Proceeds ==
  ASSUME Inv, NEW s \in Sessions, NEW r, RuntimeOK(r), Proceed(s, r),
         FileOK(file'), UNCHANGED <<on, created>>
  PROVE  Inv'
<1> USE DEF Phases
<1>1. RuntimeOK([r EXCEPT !.active = NoId])
  BY RuntimeOps, 0 \in Nat
<1>2. \A x : CallOK(Quiet, x, on[s])
  BY QuietIsCall, NoCopy
<1>3. CASE call[s].op = "tool" /\ Done(s) /\ rt' = [rt EXCEPT ![s] = r]
             /\ phase' = [phase EXCEPT ![s] = "ask"]
  BY <1>2, <1>3, Step DEF Done, Inv
<1>4. CASE Done(s) /\ rt' = [rt EXCEPT ![s] = [r EXCEPT !.active = NoId]]
             /\ phase' = [phase EXCEPT ![s] = "out"]
  BY <1>1, <1>2, <1>4, Step DEF Done, Inv
<1>5. ASSUME NEW next \in {"get", "store"}, call' = [call EXCEPT ![s].at = next],
             rt' = [rt EXCEPT ![s] = r], phase' = phase
      PROVE  Inv'
  <2> DEFINE c == [call[s] EXCEPT !.at = next]
  <2>1. c \in Calls /\ c.at = next
    BY DEF Inv, Calls
  <2>2. CallOK(c, r, on[s])
    BY <2>1, NoCopy
  <2>3. call' = [call EXCEPT ![s] = c]
    BY <1>5 DEF Inv
  <2> HIDE DEF c
  <2> QED BY <1>5, <2>2, <2>3, Step DEF Inv
<1> QED BY <1>3, <1>4, <1>5 DEF Proceed

-----------------------------------------------------------------------------
(* The actions.                                                            *)

\* Turns begin and end.
LEMMA TurnActions ==
  ASSUME Inv, NEW s \in Sessions,
         \/ UserTurn(s) \/ Continue(s) \/ Leave(s) \/ Fail(s)
         \/ Start(s) \/ Sample(s) \/ Compact(s)
  PROVE  Inv'
<1> USE DEF Phases
<1>1. CASE UserTurn(s) \/ Continue(s) \/ Leave(s) \/ Fail(s)
  <2>1. UNCHANGED <<file, on, rt, call>> /\ created' \in Nat /\ phase' \in [Sessions -> Phases]
    BY <1>1 DEF Inv, UserTurn, Continue, Leave, Fail, counters, ghosts
  <2> QED BY <2>1, Elsewhere
<1>2. ASSUME Idle(s) PROVE call[s].at # "charge"
  BY <1>2 DEF Idle, Quiet
<1>3. CASE Start(s)
  <2> DEFINE r == StartCounting(rt[s])
             q == IF Working(Mine(s)) THEN Marked(r, Mine(s).id) ELSE Released(r)
  <2>1. Mine(s).id \in Nat
    BY DEF Inv, FileOK, Files, Goal, Mine
  <2>2. RuntimeOK(r)
    BY RuntimeOps, 0 \in Nat DEF Inv
  <2>3. RuntimeOK(q)
    BY <2>1, <2>2, RuntimeOps
  <2>4. rt' = [rt EXCEPT ![s] = q] /\ UNCHANGED <<file, on, call, created>> /\ Idle(s)
        /\ phase' = [phase EXCEPT ![s] = "ask"]
    BY <1>3 DEF Start, counters
  <2>5. phase' \in [Sessions -> Phases]
    BY <2>4 DEF Inv
  <2> HIDE DEF r, q
  <2> QED BY <1>2, <2>3, <2>4, <2>5, RuntimeStep
<1>4. CASE Sample(s) \/ Compact(s)
  <2>1. PICK n \in Usages : rt' = [rt EXCEPT ![s].pending = @ + n]
    BY <1>4 DEF Sample, Compact, Use
  <2> DEFINE r == [rt[s] EXCEPT !.pending = @ + n]
  <2>2. n \in Nat
    BY BudgetsAssumption
  <2>3. RuntimeOK(r)
    BY <2>2 DEF Inv, RuntimeOK, Runtime
  <2>4. rt' = [rt EXCEPT ![s] = r]
    BY <2>1
  <2>5. UNCHANGED <<file, on, call, created>> /\ Idle(s) /\ phase' \in [Sessions -> Phases]
    BY <1>4 DEF Inv, Sample, Compact, counters
  <2> HIDE DEF r
  <2> QED BY <1>2, <2>3, <2>4, <2>5, RuntimeStep
<1> QED BY <1>1, <1>3, <1>4

\* The start of an operation, and a look at the store that changes nothing.
LEMMA CallStep ==
  ASSUME Inv, NEW s \in Sessions, NEW c, UNCHANGED <<file, on, rt, phase>>, created' \in Nat,
         c \in Calls, c.at \notin {"charge", "write"}, call' = [call EXCEPT ![s] = c]
  PROVE  Inv'
<1>1. CallOK(c, rt[s], on[s]) /\ RuntimeOK(rt[s]) /\ rt' = [rt EXCEPT ![s] = rt[s]]
  BY NoCopy DEF Inv
<1> QED BY <1>1, Step DEF Inv

\* An operation begins.
LEMMA BeginActions ==
  ASSUME Inv, NEW s \in Sessions, InTurn(s) \/ Order(s)
  PROVE  Inv'
<1>1. PICK op \in Ops : Begin(s, op)
  BY DEF InTurn, Order, Ops
<1> DEFINE c == [Quiet EXCEPT !.op = op, !.at = "account"]
<1>2. c \in Calls /\ c.at = "account"
  BY DEF Quiet, Calls, NoId
<1>3. call' = [call EXCEPT ![s] = c]
  BY <1>1 DEF Begin
<1>4. UNCHANGED <<file, on, rt, phase, created>>
  BY DEF InTurn, Order
<1> HIDE DEF c
<1> QED BY <1>2, <1>3, <1>4, CallStep DEF Inv

\* It reads the file.
LEMMA GetActions ==
  ASSUME Inv, NEW s \in Sessions, Get(s)
  PROVE  Inv'
<1>1. Mine(s).id \in Nat /\ call[s] \in Calls
  BY DEF Inv, FileOK, Files, Goal, Mine
<1>2. UNCHANGED <<file, on, rt, phase>> /\ created' \in Nat
  BY DEF Get, Inv, counters
<1>3. CASE call' = [call EXCEPT ![s].at = "store", ![s].id = Mine(s).id]
  <2> DEFINE c == [call[s] EXCEPT !.at = "store", !.id = Mine(s).id]
  <2>1. call' = [call EXCEPT ![s] = c]
    BY <1>3 DEF Inv
  <2>2. c \in Calls /\ c.at = "store"
    BY <1>1 DEF Calls
  <2> HIDE DEF c
  <2> QED BY <1>2, <2>1, <2>2, CallStep
<1>4. CASE call' = [call EXCEPT ![s].at = "store", ![s].op = "replace"]
  <2> DEFINE c == [call[s] EXCEPT !.at = "store", !.op = "replace"]
  <2>1. call' = [call EXCEPT ![s] = c]
    BY <1>4 DEF Inv
  <2>2. c \in Calls /\ c.at = "store"
    BY <1>1 DEF Calls, Ops
  <2> HIDE DEF c
  <2> QED BY <1>2, <2>1, <2>2, CallStep
<1>5. CASE Done(s)
  BY <1>2, <1>5, QuietIsCall, CallStep DEF Done
<1> QED BY <1>3, <1>4, <1>5 DEF Get

\* A copy of the file is as good as the file.
LEMMA LoadActions ==
  ASSUME Inv, NEW s \in Sessions, Load(s)
  PROVE  Inv'
<1> DEFINE c == [call[s] EXCEPT !.at = "write", !.loaded = file]
<1>1. call' = [call EXCEPT ![s] = c] /\ UNCHANGED <<file, on, rt, phase, created>>
  BY DEF Load, Inv, counters
<1>2. c \in Calls /\ c.at = "write" /\ c.loaded = file
  BY DEF Inv, FileOK, Calls
<1>3. CallOK(c, rt[s], on[s])
  BY <1>2 DEF CallOK, Inv
<1> HIDE DEF c
<1>4. rt' = [rt EXCEPT ![s] = rt[s]]
  BY <1>1 DEF Inv
<1> QED BY <1>1, <1>3, <1>4, Step DEF Inv

\* It is refused.
LEMMA RefusedActions ==
  ASSUME Inv, NEW s \in Sessions, Refused(s)
  PROVE  Inv'
<1> USE DEF Phases
<1>1. UNCHANGED <<file, on>> /\ created' \in Nat /\ FileOK(file')
  BY DEF Refused, Inv, counters
<1>2. CASE Begin(s, "tool") /\ UNCHANGED <<rt, phase>>
  <2> DEFINE c == [Quiet EXCEPT !.op = "tool", !.at = "account"]
  <2>1. c \in Calls /\ c.at = "account" /\ call' = [call EXCEPT ![s] = c]
    BY <1>2 DEF Quiet, Calls, Ops, NoId, Begin
  <2> HIDE DEF c
  <2> QED BY <1>1, <1>2, <2>1, CallStep
<1>3. CASE Done(s) /\ phase' = [phase EXCEPT ![s] = "ask"] /\ UNCHANGED rt
  <2>1. rt' = [rt EXCEPT ![s] = rt[s]] /\ phase' \in [Sessions -> Phases]
    BY <1>3 DEF Inv
  <2>2. CallOK(Quiet, rt[s], on[s]) /\ RuntimeOK(rt[s])
    BY QuietIsCall, NoCopy DEF Inv
  <2> QED BY <1>1, <1>3, <2>1, <2>2, Step DEF Done
<1>4. CASE Done(s) /\ UNCHANGED phase
           /\ rt' = [rt EXCEPT ![s] = [Released(@) EXCEPT !.reported = NoId]]
  <2> DEFINE r == [Released(rt[s]) EXCEPT !.reported = NoId]
  <2>1. RuntimeOK(r)
    BY RuntimeOps, 0 \in Nat DEF Inv
  <2>2. rt' = [rt EXCEPT ![s] = r] /\ CallOK(Quiet, r, on[s])
    BY <1>4, QuietIsCall, NoCopy
  <2> HIDE DEF r
  <2> QED BY <1>1, <1>4, <2>1, <2>2, Step DEF Done, Inv
<1>5. CASE Done(s) /\ UNCHANGED <<rt, phase>>
  BY <1>1, <1>5, QuietIsCall, CallStep DEF Done
<1> QED BY <1>2, <1>3, <1>4, <1>5 DEF Refused

\* It reads the accounting of its session.
LEMMA AccountActions ==
  ASSUME Inv, NEW s \in Sessions, Account(s)
  PROVE  Inv'
<1>1. UNCHANGED <<on, created>>
  BY DEF Account, counters
<1>2. RuntimeOK(rt[s]) /\ RuntimeOK(Released(rt[s]))
  BY RuntimeOps, 0 \in Nat DEF Inv
<1>3. CASE NotCharged(s)
  <2>1. file' = file /\ (Proceed(s, rt[s]) \/ Proceed(s, Released(rt[s])))
    BY <1>3 DEF NotCharged
  <2>2. FileOK(file')
    BY <2>1 DEF Inv
  <2> QED BY <1>1, <1>2, <2>1, <2>2, Proceeds
<1>4. CASE Read(s)
  <2> DEFINE c == [call[s] EXCEPT !.at = "charge", !.loaded = file]
  <2>1. call' = [call EXCEPT ![s] = c] /\ UNCHANGED <<file, rt, phase>>
    BY <1>4 DEF Read, Inv
  <2>2. c \in Calls /\ c.at = "charge" /\ c.loaded = file
    BY DEF Inv, FileOK, Calls
  <2>3. file[on[s]].id = Holder(rt[s]) /\ Holder(rt[s]) # NoId
    BY <1>4 DEF Read, Mine
  <2>4. CallOK(c, rt[s], on[s])
    BY <2>2, <2>3 DEF CallOK, Inv
  <2> HIDE DEF c
  <2>5. rt' = [rt EXCEPT ![s] = rt[s]]
    BY <2>1 DEF Inv
  <2> QED BY <1>1, <1>2, <2>1, <2>4, <2>5, Step DEF Inv
<1> QED BY <1>3, <1>4 DEF Account

\* Writing a copy back with another goal in it.
LEMMA Replaced ==
  ASSUME Inv, NEW s \in Sessions, NEW given \in Goal, WithinBudget(given), Replace(s, given),
         call[s].at \in {"charge", "write"}
  PROVE  FileOK(file')
<1>1. FileOK(call[s].loaded)
  BY DEF Inv, CallOK
<1> QED BY <1>1 DEF Replace, FileOK, Files

\* It charges its copy.
LEMMA ChargeActions ==
  ASSUME Inv, NEW s \in Sessions, Charge(s)
  PROVE  Inv'
<1> DEFINE old == call[s].loaded[on[s]]
           given == Charged(old, Delta(s))
<1>1. call[s].at = "charge"
  BY DEF Charge
<1>2. RuntimeOK(rt[s]) /\ CallOK(call[s], rt[s], on[s]) /\ on[s] \in Threads
  BY DEF Inv
<1>3. old \in Goal /\ old.id = Holder(rt[s]) /\ Holder(rt[s]) # NoId
  BY <1>1, <1>2 DEF CallOK, FileOK, Files
<1>4. Delta(s) \in Nat
  BY <1>2 DEF Delta, RuntimeOK, Runtime
<1>5. given \in Goal /\ WithinBudget(given) /\ given.id = Holder(rt[s])
  BY <1>3, <1>4, ChargedGoal
<1>6. Replace(s, given) /\ Proceed(s, AfterCharge(rt[s], given, call[s].op))
      /\ UNCHANGED <<on, created>>
  BY DEF Charge, counters
<1> HIDE DEF old, given
<1>7. RuntimeOK(AfterCharge(rt[s], given, call[s].op))
  BY <1>2, <1>3, <1>5, ChargedRuntime
<1>8. FileOK(file')
  BY <1>1, <1>5, <1>6, Replaced
<1> QED BY <1>6, <1>7, <1>8, Proceeds

\* It writes its copy.
LEMMA WriteActions ==
  ASSUME Inv, NEW s \in Sessions, Write(s)
  PROVE  Inv'
<1> USE DEF Phases
<1> DEFINE op == call[s].op
           old == call[s].loaded[on[s]]
           r == IF op \in {"complete", "block"} THEN rt[s] ELSE [rt[s] EXCEPT !.reported = NoId]
<1>1. call[s].at = "write" /\ op \in Ops /\ created \in Nat
  BY DEF Write, Inv, Calls
<1>2. old \in Goal /\ WithinBudget(old)
  BY <1>1 DEF Inv, CallOK, FileOK, Files
<1>3. RuntimeOK(r)
  BY RuntimeOps, 0 \in Nat DEF Inv
<1>4. PICK budget \in Nat :
        LET new == Changed(op, old, budget)
            goesOn == new.status = "active" /\ op \notin {"complete", "block"} IN
        /\ Replace(s, new)
        /\ rt' = [rt EXCEPT ![s] = IF goesOn THEN MarkedAfresh(r, new.id) ELSE Released(r)]
  BY BudgetsAssumption DEF Write, NoBudget
<1> DEFINE new == Changed(op, old, budget)
           q == IF new.status = "active" /\ op \notin {"complete", "block"}
                THEN MarkedAfresh(r, new.id) ELSE Released(r)
<1>5. rt' = [rt EXCEPT ![s] = q] /\ Replace(s, new)
  BY <1>4
<1>6. new \in Goal /\ WithinBudget(new)
  BY <1>1, <1>2, ChangedGoal
<1>7. new.id \in Nat
  BY <1>6 DEF Goal
<1> DEFINE c == IF op = "create" THEN [Quiet EXCEPT !.op = "tool", !.at = "account"] ELSE Quiet
<1>8. call' = [call EXCEPT ![s] = c]
  BY DEF Write, Begin, Done
<1>9. c \in Calls /\ c.at \notin {"charge", "write"}
  BY DEF Quiet, Calls, Ops, NoId
<1>10. on' = on /\ created' \in Nat /\ phase' \in [Sessions -> Phases]
  BY <1>1 DEF Write, Inv
<1> HIDE DEF op, old, new, c, r
<1>11. RuntimeOK(q)
  BY <1>3, <1>7, RuntimeOps DEF MarkedAfresh
<1>12. FileOK(file')
  BY <1>1, <1>5, <1>6, Replaced
<1> HIDE DEF q
<1> QED BY <1>5, <1>8, <1>9, <1>10, <1>11, <1>12, NoCopy, Step

-----------------------------------------------------------------------------
(* They hold.                                                              *)

\* The invariant holds at first.
LEMMA InitInv == Init => Inv
<1> SUFFICES ASSUME Init PROVE Inv
  OBVIOUS
<1> DEFINE r == [pending |-> 0, active |-> NoId, wall |-> NoId, reported |-> NoId]
<1>1. NoGoal \in Goal /\ WithinBudget(NoGoal)
  BY DEF NoGoal, Goal, Statuses, WithinBudget, NoBudget, NoId
<1>2. FileOK(file)
  BY <1>1 DEF Init, FileOK, Files
<1>3. on \in [Sessions -> Threads]
  BY AssignmentsAssumption DEF Init
<1>4. RuntimeOK(r)
  BY DEF RuntimeOK, Runtime, NoId
<1>5. \A s \in Sessions : rt[s] = r /\ CallOK(call[s], r, on[s])
  BY QuietIsCall, NoCopy DEF Init
<1>6. rt \in [Sessions -> Runtime] /\ call \in [Sessions -> Calls]
  BY <1>4, QuietIsCall DEF Init, RuntimeOK
<1> QED BY <1>2, <1>3, <1>4, <1>5, <1>6 DEF Inv, Init, Phases

\* Every step keeps it.
LEMMA NextInv == Inv /\ [Next]_vars => Inv'
<1> SUFFICES ASSUME Inv, [Next]_vars PROVE Inv'
  OBVIOUS
<1>1. CASE UNCHANGED vars
  BY <1>1, Elsewhere DEF vars, counters, Inv
<1>2. ASSUME NEW s \in Sessions, Work(s) \/ UserTurn(s) \/ Leave(s) \/ Compact(s) \/ Order(s)
      PROVE  Inv'
  BY <1>2, TurnActions, BeginActions, GetActions, LoadActions, RefusedActions,
     AccountActions, ChargeActions, WriteActions DEF Work
<1> QED BY <1>1, <1>2 DEF Next

\* So it always holds.
LEMMA Invariance == Spec => []Inv
BY InitInv, NextInv, PTL DEF Spec

(* Whatever the sessions do to the file and in whichever order, it stays a *)
(* file of goals, and the fields of each GoalRuntime agree.                *)
THEOREM GoalTypeCorrect == Spec => []TypeOK
BY Invariance, InvImplies, PTL

(* No interleaving of the sessions' reads and writes, and no update that   *)
(* is lost among them, leaves a goal active whose budget is used up.       *)
THEOREM BudgetHolds == Spec => []ActiveWithinBudget
BY Invariance, InvImplies, PTL

-----------------------------------------------------------------------------
(* Where an operation is in its session.                                   *)

UserOps == {"pause", "resume", "edit", "set", "replace", "clear"}
GoalIds(f) == \A t \in Threads : f[t].id = NoId <=> f[t] = NoGoal

\* What the operation and the phase of the turn say of each other, and that an
\* operation that needs a goal has found one.
Placed(c, p, t) ==
  /\ c.at = "idle" <=> c = Quiet
  /\ c.at # "idle" => c.op # "none"
  /\ c.at # "idle" /\ c.op \in UserOps => p = "out"
  /\ c.at \in {"charge", "write"} => GoalIds(c.loaded)
  /\ c.at = "store" /\ c.op \in {"pause", "resume", "edit", "set"} => c.id # NoId
  /\ c.at = "write" /\ c.op \notin {"create", "replace", "clear"} => c.loaded[t].id # NoId
  /\ c.op \in {"tool", "finish", "abort"} => c.at \in {"account", "charge"}
  /\ c.at # "idle" /\ c.op \notin UserOps => p \in {"ask", "act"}
Places ==
  /\ GoalIds(file)
  /\ \A s \in Sessions : Placed(call[s], phase[s], on[s])

\* A step of one session leaves the others where they are.
OthersStay(s) ==
  /\ on' = on
  /\ \A x \in Sessions \ {s} : call'[x] = call[x] /\ phase'[x] = phase[x] /\ rt'[x] = rt[x]
StepOf(s) == Work(s) \/ UserTurn(s) \/ Leave(s) \/ Compact(s) \/ Order(s)

\* Every action is such a step.
LEMMA OneSession ==
  ASSUME Inv, NEW s \in Sessions, StepOf(s)
  PROVE  OthersStay(s)
<1> USE DEF OthersStay
<1>0. call \in [Sessions -> Calls] /\ phase \in [Sessions -> Phases] /\ rt \in [Sessions -> Runtime]
  BY DEF Inv
<1>1. ASSUME NEW r, Proceed(s, r), on' = on PROVE OthersStay(s)
  BY <1>0, <1>1 DEF Proceed, Done
<1>2. ASSUME NEW op, Begin(s, op), UNCHANGED <<on, rt, phase>> PROVE OthersStay(s)
  BY <1>0, <1>2 DEF Begin
<1>3. ASSUME NEW n, Use(s, n), UNCHANGED <<on, call>>,
             phase' = phase \/ phase' = [phase EXCEPT ![s] = "act"]
      PROVE  OthersStay(s)
  BY <1>0, <1>3 DEF Use
<1>4. CASE UserTurn(s) \/ Leave(s) \/ Continue(s) \/ Fail(s)
  <2>1. UNCHANGED <<on, rt, call>> /\ (phase' = phase \/ \E p : phase' = [phase EXCEPT ![s] = p])
    BY <1>4 DEF UserTurn, Leave, Continue, Fail
  <2> QED BY <1>0, <2>1
<1>5. CASE Sample(s) \/ Compact(s)
  BY <1>3, <1>5 DEF Sample, Compact
<1>6. CASE InTurn(s) \/ Order(s)
  BY <1>2, <1>6 DEF InTurn, Order
<1>7. CASE Start(s)
  <2>1. UNCHANGED <<on, call>> /\ phase' = [phase EXCEPT ![s] = "ask"]
        /\ \E r : rt' = [rt EXCEPT ![s] = r]
    BY <1>7 DEF Start
  <2> QED BY <1>0, <2>1
<1>8. CASE Account(s)
  <2>1. CASE NotCharged(s)
    BY <1>1, <1>8, <2>1 DEF Account, NotCharged
  <2>2. CASE Read(s)
    BY <1>0, <1>8, <2>2 DEF Account, Read
  <2> QED BY <1>8, <2>1, <2>2 DEF Account
<1>9. CASE Charge(s)
  BY <1>1, <1>9 DEF Charge
<1>10. CASE Get(s) \/ Load(s)
  BY <1>0, <1>10 DEF Get, Load, Done
<1>11. CASE Refused(s)
  <2>1. on' = on
    BY <1>11 DEF Refused
  <2>2. CASE Begin(s, "tool") /\ UNCHANGED <<rt, phase>>
    BY <1>2, <2>1, <2>2
  <2>3. CASE Done(s) /\ (phase' = phase \/ phase' = [phase EXCEPT ![s] = "ask"])
             /\ (rt' = rt \/ \E r : rt' = [rt EXCEPT ![s] = r])
    BY <1>0, <2>1, <2>3 DEF Done
  <2> QED BY <1>11, <2>2, <2>3 DEF Refused
<1>12. CASE Write(s)
  <2>1. PICK r : rt' = [rt EXCEPT ![s] = r]
    BY <1>12 DEF Write
  <2>2. PICK c : call' = [call EXCEPT ![s] = c]
    BY <1>12 DEF Write, Begin, Done
  <2>3. on' = on /\ (phase' = phase \/ phase' = [phase EXCEPT ![s] = "ask"])
    BY <1>12 DEF Write
  <2> QED BY <1>0, <2>1, <2>2, <2>3
<1> QED BY <1>4, <1>5, <1>6, <1>7, <1>8, <1>9, <1>10, <1>11, <1>12 DEF StepOf, Work

\* So it is enough to look at the session of the step.
LEMMA PlaceStep ==
  ASSUME Places, NEW s \in Sessions, OthersStay(s), GoalIds(file'),
         Placed(call'[s], phase'[s], on[s])
  PROVE  Places'
<1>1. \A x \in Sessions : Placed(call'[x], phase'[x], on'[x])
  BY DEF Places, OthersStay
<1> QED BY <1>1 DEF Places

\* A session between operations.
LEMMA PlacedQuiet ==
  ASSUME NEW p, NEW t
  PROVE  Placed(Quiet, p, t)
BY DEF Placed, Quiet, UserOps

\* One that begins an operation.
LEMMA PlacedBegun ==
  ASSUME NEW op \in Ops \ {"none"}, NEW p, NEW t,
         IF op \in UserOps THEN p = "out" ELSE p \in {"ask", "act"}
  PROVE  Placed([Quiet EXCEPT !.op = op, !.at = "account"], p, t)
BY DEF Placed, Quiet, UserOps

\* Turns.
LEMMA PlacedTurns ==
  ASSUME Inv, Places, NEW s \in Sessions,
         UserTurn(s) \/ Leave(s) \/ Continue(s) \/ Fail(s) \/ Start(s) \/ Sample(s) \/ Compact(s)
  PROVE  Places'
<1>1. UNCHANGED <<file, call>> /\ call[s] = Quiet
  BY DEF UserTurn, Leave, Continue, Fail, Start, Sample, Compact, Idle
<1>2. GoalIds(file') /\ OthersStay(s)
  BY <1>1, OneSession DEF Places, StepOf, Work
<1>3. Placed(call'[s], phase'[s], on[s])
  BY <1>1, PlacedQuiet
<1> QED BY <1>2, <1>3, PlaceStep

\* The beginning of an operation.
LEMMA PlacedBegin ==
  ASSUME Inv, Places, NEW s \in Sessions, InTurn(s) \/ Order(s)
  PROVE  Places'
<1>0. Placed(call[s], phase[s], on[s]) /\ call \in [Sessions -> Calls]
  BY DEF Places, Inv
<1>1. call[s] = Quiet /\ UNCHANGED <<file, phase, rt>>
  BY DEF InTurn, Order, Idle
<1>2. GoalIds(file') /\ OthersStay(s)
  BY <1>1, OneSession DEF Places, StepOf, Work
<1>3. PICK op \in Ops \ {"none"} : Begin(s, op)
      /\ IF op \in UserOps THEN phase[s] = "out" ELSE phase[s] \in {"ask", "act"}
  BY DEF InTurn, Order, Ops, UserOps
<1>5. call'[s] = [Quiet EXCEPT !.op = op, !.at = "account"]
  BY <1>0, <1>3 DEF Begin
<1>7. Placed([Quiet EXCEPT !.op = op, !.at = "account"], phase[s], on[s])
  BY <1>3, PlacedBegun, Zenon
<1> QED BY <1>1, <1>2, <1>5, <1>7, PlaceStep

\* From its account on.
LEMMA PlacedProceeds ==
  ASSUME Inv, Places, NEW s \in Sessions, NEW r, Proceed(s, r), call[s].at \in {"account", "charge"},
         OthersStay(s), GoalIds(file')
  PROVE  Places'
<1>0. Placed(call[s], phase[s], on[s]) /\ call \in [Sessions -> Calls]
      /\ phase \in [Sessions -> Phases]
  BY DEF Places, Inv
<1>1. CASE Done(s) /\ \E p \in {"ask", "out"} : phase' = [phase EXCEPT ![s] = p]
  <2>1. call'[s] = Quiet
    BY <1>0, <1>1 DEF Done
  <2> QED BY <2>1, PlacedQuiet, PlaceStep
<1>2. ASSUME NEW next \in {"get", "store"}, phase' = phase,
             call[s].op \notin {"tool", "finish", "abort"},
             next = "store" => call[s].op \notin {"pause", "resume", "edit", "set"},
             call' = [call EXCEPT ![s].at = next]
      PROVE  Places'
  <2> DEFINE c == [call[s] EXCEPT !.at = next]
  <2>1. call'[s] = c /\ c.op = call[s].op /\ c.at = next
    BY <1>0, <1>2 DEF Calls
  <2>2. c # Quiet
    BY <2>1 DEF Quiet
  <2> HIDE DEF c
  <2>3. Placed(c, phase[s], on[s])
    BY <1>0, <1>2, <2>1, <2>2 DEF Placed
  <2> QED BY <1>2, <2>1, <2>3, PlaceStep
<1> QED BY <1>1, <1>2 DEF Proceed

\* At the store.
LEMMA PlacedStore ==
  ASSUME Inv, Places, NEW s \in Sessions, Get(s) \/ Load(s) \/ Refused(s)
  PROVE  Places'
<1>0. Placed(call[s], phase[s], on[s]) /\ call \in [Sessions -> Calls]
      /\ phase \in [Sessions -> Phases] /\ call[s] \in Calls /\ on[s] \in Threads /\ GoalIds(file)
  BY DEF Places, Inv
<1>1. UNCHANGED file
  BY DEF Get, Load, Refused
<1>2. GoalIds(file') /\ OthersStay(s)
  BY <1>1, OneSession DEF Places, StepOf, Work
<1>3. call[s] # Quiet /\ call[s].at \in {"get", "store"} /\ call[s].op \notin {"none", "finish"}
  BY <1>0 DEF Placed, Get, Load, Refused
<1>4. CASE Done(s)
  BY <1>0, <1>2, <1>4, PlacedQuiet, PlaceStep DEF Done
<1>5. CASE Get(s) /\ ~Done(s)
  <2>1. PICK c : /\ call' = [call EXCEPT ![s] = c] /\ c.at = "store" /\ c.op \notin {"none", "finish"}
                 /\ c.op = call[s].op \/ (c.op = "replace" /\ call[s].op \in {"edit", "set"})
                 /\ c.op \in {"pause", "resume", "edit", "set"} => c.id # NoId
    <3>1. CASE Mine(s) # NoGoal /\ call' = [call EXCEPT ![s].at = "store", ![s].id = Mine(s).id]
      <4> DEFINE c == [call[s] EXCEPT !.at = "store", !.id = Mine(s).id]
      <4>1. call' = [call EXCEPT ![s] = c] /\ c.at = "store" /\ c.op = call[s].op /\ c.id = Mine(s).id
        BY <1>0, <3>1 DEF Calls
      <4>2. Mine(s).id # NoId
        BY <1>0, <3>1 DEF GoalIds, Mine
      <4> HIDE DEF c
      <4> QED BY <1>3, <4>1, <4>2
    <3>2. CASE call[s].op \in {"edit", "set"}
               /\ call' = [call EXCEPT ![s].at = "store", ![s].op = "replace"]
      <4> DEFINE c == [call[s] EXCEPT !.at = "store", !.op = "replace"]
      <4>1. call' = [call EXCEPT ![s] = c] /\ c.at = "store" /\ c.op = "replace"
        BY <1>0, <3>2 DEF Calls
      <4> HIDE DEF c
      <4> QED BY <3>2, <4>1
    <3> QED BY <1>5, <3>1, <3>2 DEF Get
  <2>2. phase' = phase /\ call[s].at = "get" /\ call'[s] = c /\ c # Quiet
    BY <1>0, <1>5, <2>1 DEF Get, Quiet
  <2>3. Placed(c, phase[s], on[s])
    BY <1>0, <1>3, <2>1, <2>2 DEF Placed, UserOps
  <2> QED BY <1>2, <2>2, <2>3, PlaceStep
<1>6. CASE Load(s)
  <2> DEFINE c == [call[s] EXCEPT !.at = "write", !.loaded = file]
  <2>1. call'[s] = c /\ c.at = "write" /\ c.op = call[s].op /\ c.loaded = file /\ c # Quiet
        /\ phase' = phase /\ call[s].at = "store"
    BY <1>0, <1>6 DEF Calls, Load, Quiet
  <2> HIDE DEF c
  <2>2. c.op \notin {"create", "replace", "clear"} => file[on[s]].id # NoId
    <3>1. CASE call[s].op \in {"complete", "block"}
      BY <1>0, <1>6, <3>1 DEF Load, Applies, Mine, GoalIds
    <3>2. CASE call[s].op \in {"pause", "resume", "edit", "set"}
      BY <1>0, <1>6, <3>2 DEF Load, Applies, Mine, Placed
    <3> QED BY <1>0, <2>1, <3>1, <3>2 DEF Placed, Calls, Ops
  <2>3. Placed(c, phase[s], on[s])
    BY <1>0, <1>3, <2>1, <2>2 DEF Placed
  <2> QED BY <1>2, <2>1, <2>3, PlaceStep
<1>7. CASE Refused(s) /\ Begin(s, "tool") /\ UNCHANGED <<rt, phase>>
  <2>1. call'[s] = [Quiet EXCEPT !.op = "tool", !.at = "account"]
    BY <1>0, <1>7 DEF Begin
  <2>2. phase[s] \in {"ask", "act"}
    BY <1>0, <1>7 DEF Refused, Placed, UserOps, Begin, Done, Quiet
  <2>3. Placed([Quiet EXCEPT !.op = "tool", !.at = "account"], phase[s], on[s])
    BY <2>2, PlacedBegun DEF Ops, UserOps
  <2> QED BY <1>2, <1>7, <2>1, <2>3, PlaceStep
<1>8. Refused(s) => Done(s) \/ (Begin(s, "tool") /\ UNCHANGED <<rt, phase>>)
  BY DEF Refused
<1> QED BY <1>4, <1>5, <1>6, <1>7, <1>8

\* The account.
LEMMA PlacedAccount ==
  ASSUME Inv, Places, NEW s \in Sessions, Account(s)
  PROVE  Places'
<1>0. Placed(call[s], phase[s], on[s]) /\ call \in [Sessions -> Calls]
      /\ call[s] \in Calls /\ call[s].at = "account" /\ GoalIds(file)
  BY DEF Places, Inv, Account
<1>1. UNCHANGED file /\ OthersStay(s)
  BY OneSession DEF StepOf, Work, Account, NotCharged, Read
<1>2. CASE NotCharged(s)
  BY <1>0, <1>1, <1>2, PlacedProceeds DEF NotCharged
<1>3. CASE Read(s)
  <2> DEFINE c == [call[s] EXCEPT !.at = "charge", !.loaded = file]
  <2>1. call'[s] = c /\ c.at = "charge" /\ c.op = call[s].op /\ c.loaded = file /\ c # Quiet
        /\ UNCHANGED <<phase, rt>>
    BY <1>0, <1>3 DEF Calls, Read, Quiet
  <2> HIDE DEF c
  <2>2. Placed(c, phase[s], on[s])
    BY <1>0, <2>1 DEF Placed, Quiet
  <2> QED BY <1>0, <1>1, <2>1, <2>2, PlaceStep
<1> QED BY <1>2, <1>3 DEF Account

\* The file after a change.
LEMMA ReplacedIds ==
  ASSUME NEW s \in Sessions, NEW given, Replace(s, given), on[s] \in Threads,
         call[s].loaded \in Files, GoalIds(call[s].loaded), given.id = NoId <=> given = NoGoal
  PROVE  GoalIds(file')
BY DEF Replace, GoalIds, Files

\* The charge.
LEMMA PlacedCharge ==
  ASSUME Inv, Places, NEW s \in Sessions, Charge(s)
  PROVE  Places'
<1> DEFINE old == call[s].loaded[on[s]]
           given == Charged(old, Delta(s))
<1>0. Placed(call[s], phase[s], on[s]) /\ call[s].at = "charge"
      /\ CallOK(call[s], rt[s], on[s]) /\ RuntimeOK(rt[s]) /\ on[s] \in Threads
  BY DEF Places, Inv, Charge
<1>1. call[s].loaded \in Files /\ GoalIds(call[s].loaded) /\ old \in Goal /\ old.id # NoId
  BY <1>0 DEF Placed, CallOK, FileOK, Files
<1>2. Delta(s) \in Nat
  BY <1>0 DEF Delta, RuntimeOK, Runtime
<1>3. given.id # NoId
  BY <1>1, <1>2, ChargedGoal
<1>4. Replace(s, given) /\ Proceed(s, AfterCharge(rt[s], given, call[s].op)) /\ OthersStay(s)
  BY OneSession DEF Charge, StepOf, Work
<1> HIDE DEF old, given
<1>5. GoalIds(file')
  BY <1>0, <1>1, <1>3, <1>4, ReplacedIds DEF NoGoal
<1> QED BY <1>0, <1>4, <1>5, PlacedProceeds

\* What a change of the store does to the goal's name.
LEMMA ChangedId ==
  ASSUME created \in Nat, NEW g \in Goal, NEW b, NEW op \in Ops \ {"none", "tool", "finish", "abort"},
         op \notin {"create", "replace", "clear"} => g.id # NoId
  PROVE  LET h == Changed(op, g, b) IN
         /\ h.id = NoId <=> h = NoGoal
         /\ op \in {"create", "replace"} => h.id = created + 1 /\ h.used = 0 /\ h.status = "active"
         /\ op = "clear" => h = NoGoal
         /\ op \notin {"create", "replace", "clear"} => h.id = g.id /\ h.used = g.used /\ h.id # NoId
<1>1. CASE op \in {"create", "replace"}
  BY <1>1 DEF Changed, Fresh, NoId, NoGoal
<1>2. CASE op = "clear"
  BY <1>2 DEF Changed, NoGoal
<1>3. CASE op \notin {"create", "replace", "clear"}
  <2>1. Changed(op, g, b).id = g.id /\ Changed(op, g, b).used = g.used
    BY <1>3 DEF Changed, Goal, Ops
  <2>2. NoGoal.id = NoId
    BY DEF NoGoal
  <2> QED BY <1>3, <2>1, <2>2
<1> QED BY <1>1, <1>2, <1>3

\* The write.
LEMMA PlacedWrite ==
  ASSUME Inv, Places, NEW s \in Sessions, Write(s)
  PROVE  Places'
<1> DEFINE old == call[s].loaded[on[s]]
           op == call[s].op
<1>0. Placed(call[s], phase[s], on[s]) /\ call[s].at = "write"
      /\ CallOK(call[s], rt[s], on[s]) /\ on[s] \in Threads /\ call \in [Sessions -> Calls]
      /\ call[s] \in Calls /\ phase \in [Sessions -> Phases] /\ created \in Nat
  BY DEF Places, Inv, Write
<1>1. call[s].loaded \in Files /\ GoalIds(call[s].loaded) /\ old \in Goal
      /\ op \in Ops \ {"none", "tool", "finish", "abort"}
      /\ (op \notin {"create", "replace", "clear"} => old.id # NoId)
  BY <1>0 DEF Placed, CallOK, FileOK, Files, Calls
<1>2. PICK b : Replace(s, Changed(op, old, b))
  BY DEF Write
<1> DEFINE new == Changed(op, old, b)
<1>3. new.id = NoId <=> new = NoGoal
  <2> HIDE DEF old, op
  <2> QED BY <1>0, <1>1, ChangedId
<1> HIDE DEF new
<1>4. GoalIds(file') /\ OthersStay(s)
  <2>1. Replace(s, new)
    BY <1>2 DEF new
  <2>2. OthersStay(s)
    BY OneSession DEF StepOf, Work
  <2> QED BY <1>0, <1>1, <1>3, <2>1, <2>2, ReplacedIds
<1>5. CASE op = "create"
  <2>1. call'[s] = [Quiet EXCEPT !.op = "tool", !.at = "account"]
    BY <1>0, <1>5 DEF Write, Begin
  <2>2. phase'[s] \in {"ask", "act"}
    BY <1>0, <1>5 DEF Write, Placed, UserOps
  <2>3. Placed([Quiet EXCEPT !.op = "tool", !.at = "account"], phase'[s], on[s])
    BY <2>2, PlacedBegun DEF Ops, UserOps
  <2> QED BY <1>4, <2>1, <2>3, PlaceStep
<1>6. CASE op # "create"
  <2>1. call'[s] = Quiet
    BY <1>0, <1>6 DEF Write, Done
  <2> QED BY <1>4, <2>1, PlacedQuiet, PlaceStep
<1> QED BY <1>5, <1>6

\* So every session always is where it should be.
LEMMA PlacesInvariance == Spec => [](Inv /\ Places)
<1>1. Init => Places
  <2> SUFFICES ASSUME Init PROVE Places
    OBVIOUS
  <2>1. GoalIds(file)
    BY DEF Init, GoalIds, NoGoal
  <2>2. \A s \in Sessions : call[s] = Quiet
    BY DEF Init
  <2> QED BY <2>1, <2>2, PlacedQuiet DEF Places
<1>2. Inv /\ Places /\ [Next]_vars => Places'
  <2> SUFFICES ASSUME Inv, Places, [Next]_vars PROVE Places'
    OBVIOUS
  <2>1. CASE UNCHANGED vars
    BY <2>1 DEF vars, Places
  <2>2. ASSUME NEW s \in Sessions, StepOf(s) PROVE Places'
    BY <2>2, PlacedTurns, PlacedBegin, PlacedStore, PlacedAccount, PlacedCharge, PlacedWrite
       DEF StepOf, Work
  <2> QED BY <2>1, <2>2 DEF Next, StepOf
<1> QED BY <1>1, <1>2, Invariance, PTL DEF Spec

-----------------------------------------------------------------------------
(* What a write leaves, when no update is lost.                            *)

\* The copy an operation writes back is the file, unless an update is lost.
LEMMA NotRaced ==
  ASSUME Inv, NEW s \in Sessions, NEW given, Replace(s, given), ~raced'
  PROVE  ~raced /\ call[s].loaded = file /\ file' = [file EXCEPT ![on[s]] = given]
BY DEF Replace

\* What a write of the store does to the goals, when no update is lost.
LEMMA Written ==
  ASSUME Inv, Places, NEW s \in Sessions, Write(s), ~raced'
  PROVE  \E h \in Goal, b \in Nat :
         LET op == call[s].op
             g == file[on[s]]
             r == IF op \in {"complete", "block"} THEN rt[s] ELSE [rt[s] EXCEPT !.reported = NoId] IN
         /\ ~raced /\ file' = [file EXCEPT ![on[s]] = h] /\ g \in Goal
         /\ op \in {"create", "replace"} =>
              /\ h.id = created + 1 /\ h.used = 0 /\ created' = created + 1
              /\ rt' = [rt EXCEPT ![s] = MarkedAfresh(r, h.id)]
         /\ op = "clear" => h = NoGoal
         /\ op \notin {"create", "replace", "clear"} => h.id = g.id /\ h.used = g.used /\ h.id # NoId
         /\ op \notin {"create", "replace"} => created' = created
         /\ rt' = [rt EXCEPT ![s] = MarkedAfresh(r, h.id)] \/ rt' = [rt EXCEPT ![s] = Released(r)]
         /\ IF op \in {"create", "replace", "clear"}
            THEN due' = [due EXCEPT ![on[s]] = 0] /\ continued' = [continued EXCEPT ![on[s]] = 0]
            ELSE UNCHANGED <<due, continued>>
<1> DEFINE op == call[s].op
           old == call[s].loaded[on[s]]
           r == IF op \in {"complete", "block"} THEN rt[s] ELSE [rt[s] EXCEPT !.reported = NoId]
<1>1. PICK b \in Nat :
        LET new == Changed(op, old, b)
            goesOn == new.status = "active" /\ op \notin {"complete", "block"} IN
        /\ Replace(s, new)
        /\ rt' = [rt EXCEPT ![s] = IF goesOn THEN MarkedAfresh(r, new.id) ELSE Released(r)]
  BY BudgetsAssumption DEF Write, NoBudget
<1> DEFINE h == Changed(op, old, b)
<1>2. Placed(call[s], phase[s], on[s]) /\ call[s].at = "write" /\ created \in Nat
      /\ call[s] \in Calls /\ on[s] \in Threads /\ FileOK(call[s].loaded)
  BY DEF Places, Inv, Write, CallOK
<1>3. old \in Goal /\ WithinBudget(old) /\ op \in Ops \ {"none", "tool", "finish", "abort"}
      /\ (op \notin {"create", "replace", "clear"} => old.id # NoId)
  BY <1>2 DEF Placed, Calls, FileOK, Files
<1>4. created' = IF op \in {"create", "replace"} THEN created + 1 ELSE created
  BY DEF Write
<1>5. IF created' > created \/ op = "clear"
      THEN due' = [due EXCEPT ![on[s]] = 0] /\ continued' = [continued EXCEPT ![on[s]] = 0]
      ELSE UNCHANGED <<due, continued>>
  BY DEF Write
<1>6. Replace(s, h)
  BY <1>1
<1> HIDE DEF old, op
<1>7. h \in Goal
  BY <1>2, <1>3, ChangedGoal
<1>8. /\ op \in {"create", "replace"} => h.id = created + 1 /\ h.used = 0 /\ h.status = "active"
      /\ op = "clear" => h = NoGoal
      /\ op \notin {"create", "replace", "clear"} => h.id = old.id /\ h.used = old.used /\ h.id # NoId
  BY <1>2, <1>3, ChangedId
<1> HIDE DEF h
<1>9. ~raced /\ call[s].loaded = file /\ file' = [file EXCEPT ![on[s]] = h]
  BY <1>6, NotRaced
<1>10. old = file[on[s]]
  BY <1>9 DEF old
<1>11. IF op \in {"create", "replace", "clear"}
       THEN due' = [due EXCEPT ![on[s]] = 0] /\ continued' = [continued EXCEPT ![on[s]] = 0]
       ELSE UNCHANGED <<due, continued>>
  BY <1>2, <1>4, <1>5
<1> HIDE DEF r
<1>12. rt' = [rt EXCEPT ![s] = IF h.status = "active" /\ op \notin {"complete", "block"}
                               THEN MarkedAfresh(r, h.id) ELSE Released(r)]
  BY <1>1 DEF h
<1>13. /\ ~raced /\ file' = [file EXCEPT ![on[s]] = h] /\ old \in Goal
       /\ op \in {"create", "replace"} =>
            /\ h.id = created + 1 /\ h.used = 0 /\ created' = created + 1
            /\ rt' = [rt EXCEPT ![s] = MarkedAfresh(r, h.id)]
       /\ op = "clear" => h = NoGoal
       /\ op \notin {"create", "replace", "clear"} => h.id = old.id /\ h.used = old.used /\ h.id # NoId
       /\ op \notin {"create", "replace"} => created' = created
       /\ rt' = [rt EXCEPT ![s] = MarkedAfresh(r, h.id)] \/ rt' = [rt EXCEPT ![s] = Released(r)]
  BY <1>3, <1>4, <1>8, <1>9, <1>12
<1> QED BY <1>7, <1>10, <1>11, <1>13 DEF op, r

-----------------------------------------------------------------------------
(* Every token once.                                                       *)

\* The tokens a runtime has still to account for to a goal, and all have.
Part(r, id) == IF Holder(r) = id THEN r.pending ELSE 0
Pend(r, id) == SumFunctionOnSet([x \in Sessions |-> Part(r[x], id)], Sessions)

\* What is so far due for a thread's goal is charged or pending.
Accounts == \A t \in Threads : file[t] # NoGoal => due[t] = file[t].used + Pend(rt, file[t].id)

\* Goals have names of their own, and a runtime's clock runs for the goal of
\* its thread, if for one there still is.
OwnNames ==
  /\ \A t \in Threads : file[t].id <= created
  /\ \A t, u \in Threads : file[t].id = file[u].id /\ t # u => file[t].id = NoId
  /\ \A s \in Sessions :
       /\ rt[s].wall <= created
       /\ \A t \in Threads : rt[s].wall = file[t].id /\ t # on[s] => file[t].id = NoId

\* A session that goes on to the store has accounted for its tokens.
Own(c, r, g) ==
  c.at \in {"get", "store", "write"} /\ c.op # "create" /\ r.wall # NoId /\ r.wall = g.id =>
    r.pending = 0
TokenInv ==
  /\ due \in [Threads -> Int]
  /\ raced \/ (OwnNames /\ Accounts /\ \A s \in Sessions : Own(call[s], rt[s], file[on[s]]))

\* A runtime holds the goal its clock runs for.
LEMMA HolderIsWall ==
  ASSUME NEW r, RuntimeOK(r)
  PROVE  Holder(r) = r.wall /\ \A id : Part(r, id) = (IF r.wall = id THEN r.pending ELSE 0)
BY DEF RuntimeOK, Holder, NoId, Part

\* What is pending changes with one session's part.
LEMMA PendChange ==
  ASSUME NEW r \in [Sessions -> Runtime], NEW q \in [Sessions -> Runtime], NEW s \in Sessions,
         \A x \in Sessions \ {s} : q[x] = r[x], NEW id
  PROVE  /\ Pend(r, id) \in Int
         /\ Pend(q, id) = Pend(r, id) + (Part(q[s], id) - Part(r[s], id))
<1> DEFINE f == [x \in Sessions |-> Part(r[x], id)]
           h == [x \in Sessions |-> Part(q[x], id)]
<1>1. f \in [Sessions -> Int] /\ h \in [Sessions -> Int]
  BY DEF Part, Runtime
<1>2. \A x \in Sessions : x # s => h[x] = f[x]
  OBVIOUS
<1>3. f[s] = Part(r[s], id) /\ h[s] = Part(q[s], id)
  OBVIOUS
<1>4. Pend(r, id) = SumFunctionOnSet(f, Sessions) /\ Pend(q, id) = SumFunctionOnSet(h, Sessions)
  BY DEF Pend
<1> HIDE DEF f, h
<1>5. SumFunctionOnSet(f, Sessions) \in Int
  BY <1>1, SumType, SessionsAssumption
<1>6. SumFunctionOnSet(h, Sessions) = SumFunctionOnSet(f, Sessions) + (h[s] - f[s])
  BY <1>1, <1>2, SumChange, SessionsAssumption
<1> QED BY <1>3, <1>4, <1>5, <1>6

\* Nothing is pending for a goal that no session holds.
LEMMA PendNothing ==
  ASSUME NEW r, NEW id, \A x \in Sessions : Part(r[x], id) = 0
  PROVE  Pend(r, id) = 0
<1> DEFINE f == [x \in Sessions |-> Part(r[x], id)]
<1>1. \A x \in Sessions : f[x] = 0
  OBVIOUS
<1>2. Pend(r, id) = SumFunctionOnSet(f, Sessions)
  BY DEF Pend
<1> HIDE DEF f
<1> QED BY <1>1, <1>2, SumZero, SessionsAssumption

\* The earlier invariant after a step.
LEMMA StepInv ==
  ASSUME Inv, NEW s \in Sessions, StepOf(s)
  PROVE  Inv'
BY NextInv DEF Next, StepOf

\* A step of a session changes the goal of its thread to g and what is due for
\* it to d: what is to be shown of them.
LEMMA TokenStep ==
  ASSUME Inv, Inv', Places, TokenInv, ~raced, NEW s \in Sessions, OthersStay(s),
         NEW g \in Goal, file' = [file EXCEPT ![on[s]] = g],
         NEW d \in Int, due' = [due EXCEPT ![on[s]] = d],
         \/ g.id \in {file[on[s]].id, NoId} /\ created' = created
         \/ g.id = created + 1 /\ created' = created + 1,
         rt'[s].wall \in {rt[s].wall, NoId, g.id},
         Own(call'[s], rt'[s], g),
         g # NoGoal => d = g.used + Pend(rt', g.id)
  PROVE  TokenInv'
<1>0. /\ OwnNames /\ Accounts /\ \A x \in Sessions : Own(call[x], rt[x], file[on[x]])
      /\ due \in [Threads -> Int]
  BY DEF TokenInv
<1>1. /\ file \in Files /\ on \in [Sessions -> Threads] /\ on' = on /\ created \in Nat
      /\ rt \in [Sessions -> Runtime] /\ rt' \in [Sessions -> Runtime] /\ on[s] \in Threads
      /\ \A x \in Sessions : RuntimeOK(rt[x]) /\ RuntimeOK(rt'[x])
      /\ \A x \in Sessions \ {s} : call'[x] = call[x] /\ rt'[x] = rt[x]
  BY DEF Inv, OthersStay, FileOK
<1>2. \A t \in Threads : file[t].id \in Nat /\ file'[t] = IF t = on[s] THEN g ELSE file[t]
  BY <1>1 DEF Files, Goal
<1>3. \A x \in Sessions : rt[x].wall \in Nat
  BY <1>1 DEF Runtime
<1>4. g.id \in Nat /\ NoId \in Nat
  BY DEF Goal, NoId
<1>5. OwnNames'
  <2>1. \A t \in Threads : file'[t].id <= created'
    BY <1>0, <1>1, <1>2, <1>4 DEF OwnNames, NoId
  <2>2. \A t, u \in Threads : file'[t].id = file'[u].id /\ t # u => file'[t].id = NoId
    BY <1>0, <1>1, <1>2, <1>4 DEF OwnNames
  <2>3. ASSUME NEW x \in Sessions
        PROVE  /\ rt'[x].wall <= created'
               /\ \A t \in Threads : rt'[x].wall = file'[t].id /\ t # on'[x] => file'[t].id = NoId
    <3>1. CASE x = s
      <4>1. rt'[s].wall <= created'
        BY <1>0, <1>1, <1>2, <1>3, <1>4 DEF OwnNames, NoId
      <4>2. \A t \in Threads : rt'[s].wall = file[t].id /\ t # on[s] => file[t].id = NoId
        BY <1>0, <1>1, <1>2, <1>3, <1>4 DEF OwnNames
      <4> QED BY <1>1, <1>2, <3>1, <4>1, <4>2
    <3>2. CASE x # s
      <4>1. rt'[x] = rt[x] /\ rt[x].wall <= created /\ rt[x].wall \in Nat
        BY <1>0, <1>1, <1>3, <3>2 DEF OwnNames
      <4>2. ASSUME NEW t \in Threads, rt[x].wall = file'[t].id, t # on[x] PROVE file'[t].id = NoId
        BY <1>0, <1>1, <1>2, <1>4, <4>1, <4>2 DEF OwnNames
      <4> QED BY <1>1, <4>1, <4>2
    <3> QED BY <3>1, <3>2
  <2> QED BY <2>1, <2>2, <2>3 DEF OwnNames
<1>6. Accounts'
  <2>1. SUFFICES ASSUME NEW t \in Threads, file'[t] # NoGoal
                 PROVE  due'[t] = file'[t].used + Pend(rt', file'[t].id)
    BY DEF Accounts
  <2>2. CASE t = on[s]
    <3>1. file'[t] = g /\ due'[t] = d
      BY <1>0, <1>1, <1>2, <2>2
    <3> QED BY <2>1, <3>1
  <2>3. CASE t # on[s]
    <3>1. file'[t] = file[t] /\ due'[t] = due[t]
      BY <1>0, <1>2, <2>3
    <3>2. file[t].id # NoId
      BY <2>1, <3>1 DEF Places, GoalIds
    <3>3. rt[s].wall # file[t].id /\ rt'[s].wall # file[t].id
      BY <1>0, <1>1, <1>5, <2>3, <3>1, <3>2 DEF OwnNames
    <3>4. Part(rt[s], file[t].id) = 0 /\ Part(rt'[s], file[t].id) = 0
      BY <1>1, <3>3, HolderIsWall
    <3>5. Pend(rt', file[t].id) = Pend(rt, file[t].id)
      BY <1>1, <3>4, PendChange
    <3>6. due[t] = file[t].used + Pend(rt, file[t].id)
      BY <1>0, <2>1, <3>1 DEF Accounts
    <3> QED BY <3>1, <3>5, <3>6
  <2> QED BY <2>2, <2>3
<1>7. ASSUME NEW x \in Sessions PROVE Own(call'[x], rt'[x], file'[on'[x]])
  <2>1. CASE x = s
    BY <1>1, <1>2, <2>1
  <2>2. CASE x # s
    <3>1. Own(call[x], rt[x], file[on[x]]) /\ rt[x].wall <= created /\ on[x] \in Threads
      BY <1>0, <1>1 DEF OwnNames
    <3>2. \/ file'[on[x]].id = file[on[x]].id \/ file'[on[x]].id = NoId
          \/ file'[on[x]].id = created + 1
      BY <1>1, <1>2, <3>1
    <3> QED BY <1>1, <1>3, <2>2, <3>1, <3>2 DEF Own
  <2> QED BY <2>1, <2>2
<1>8. due' \in [Threads -> Int]
  BY <1>0
<1> QED BY <1>5, <1>6, <1>7, <1>8 DEF TokenInv

\* ... when it stays the same goal.
LEMMA SameGoal ==
  ASSUME Inv, Inv', Places, TokenInv, ~raced, NEW s \in Sessions, OthersStay(s), created' = created,
         NEW g \in Goal, file' = [file EXCEPT ![on[s]] = g], g.id = file[on[s]].id,
         NEW d \in Int, due' = [due EXCEPT ![on[s]] = d],
         rt'[s].wall \in {rt[s].wall, NoId, g.id},
         Own(call'[s], rt'[s], g),
         g # NoGoal =>
           /\ file[on[s]] # NoGoal
           /\ d = due[on[s]] + (g.used - file[on[s]].used) + (Part(rt'[s], g.id) - Part(rt[s], g.id))
  PROVE  TokenInv'
<1>1. ASSUME g # NoGoal PROVE d = g.used + Pend(rt', g.id)
  <2>1. on[s] \in Threads /\ g.used \in Nat /\ file[on[s]].used \in Nat
    BY DEF Inv, FileOK, Files, Goal
  <2>2. /\ rt \in [Sessions -> Runtime] /\ rt' \in [Sessions -> Runtime]
        /\ \A x \in Sessions \ {s} : rt'[x] = rt[x]
    BY DEF Inv, OthersStay
  <2>3. Pend(rt, g.id) \in Int
        /\ Pend(rt', g.id) = Pend(rt, g.id) + (Part(rt'[s], g.id) - Part(rt[s], g.id))
    BY <2>2, PendChange
  <2>4. due[on[s]] = file[on[s]].used + Pend(rt, g.id)
    BY <1>1, <2>1 DEF TokenInv, Accounts
  <2>5. Part(rt'[s], g.id) \in Int /\ Part(rt[s], g.id) \in Int
    BY <2>2 DEF Part, Runtime
  <2> QED BY <1>1, <2>1, <2>3, <2>4, <2>5
<1> QED BY <1>1, TokenStep

\* What a session owes is due for its goal.
LEMMA Owed ==
  ASSUME Inv, Places, TokenInv, ~raced, NEW s \in Sessions, NEW n \in Int, Owe(s, n)
  PROVE  \E d \in Int :
           /\ due' = [due EXCEPT ![on[s]] = d]
           /\ Mine(s) # NoGoal => d = due[on[s]] + (IF rt[s].wall = Mine(s).id THEN n ELSE 0)
<1>1. due \in [Threads -> Int] /\ on[s] \in Threads /\ Holder(rt[s]) = rt[s].wall
  BY HolderIsWall DEF TokenInv, Inv
<1>2. CASE due' = due /\ (rt[s].wall # Mine(s).id \/ Mine(s) = NoGoal)
  BY <1>1, <1>2
<1>3. CASE due' = [due EXCEPT ![on[s]] = @ + n] /\ rt[s].wall = Mine(s).id
  <2> DEFINE d == due[on[s]] + n
  <2>1. d \in Int /\ due' = [due EXCEPT ![on[s]] = d]
    BY <1>1, <1>3
  <2>2. d = due[on[s]] + (IF rt[s].wall = Mine(s).id THEN n ELSE 0)
    BY <1>3
  <2> HIDE DEF d
  <2> QED BY <2>1, <2>2
<1> QED BY <1>1, <1>2, <1>3 DEF Owe

\* A step that leaves the goal of its thread alone.
LEMMA TokenElsewhere ==
  ASSUME Inv, Inv', Places, TokenInv, ~raced, NEW s \in Sessions, OthersStay(s),
         UNCHANGED <<file, created>>, NEW d \in Int, due' = [due EXCEPT ![on[s]] = d],
         rt'[s].wall \in {rt[s].wall, NoId, Mine(s).id},
         Own(call'[s], rt'[s], Mine(s)),
         Mine(s) # NoGoal =>
           d = due[on[s]] + (Part(rt'[s], Mine(s).id) - Part(rt[s], Mine(s).id))
  PROVE  TokenInv'
<1>1. file \in Files /\ on[s] \in Threads /\ Mine(s) = file[on[s]] /\ Mine(s) \in Goal
  BY DEF Inv, FileOK, Files, Mine
<1>2. file' = [file EXCEPT ![on[s]] = Mine(s)]
  BY <1>1 DEF Files
<1>3. Mine(s).used \in Nat /\ due[on[s]] \in Int
  BY <1>1 DEF Goal, TokenInv
<1>4. Part(rt'[s], Mine(s).id) \in Int /\ Part(rt[s], Mine(s).id) \in Int
  BY DEF Inv, Part, Runtime
<1>5. Mine(s) # NoGoal =>
        d = due[on[s]] + (Mine(s).used - file[on[s]].used)
            + (Part(rt'[s], Mine(s).id) - Part(rt[s], Mine(s).id))
  BY <1>1, <1>3, <1>4
<1> QED BY <1>1, <1>2, <1>5, SameGoal

\* A step that changes only what the session is at.
LEMMA TokenCall ==
  ASSUME Inv, Inv', Places, TokenInv, ~raced, NEW s \in Sessions, OthersStay(s),
         UNCHANGED <<file, created, due>>, rt'[s].wall \in {rt[s].wall, NoId},
         \/ rt'[s].wall = rt[s].wall /\ rt'[s].pending = rt[s].pending
         \/ rt[s].wall # Mine(s).id /\ rt'[s].wall # Mine(s).id
         \/ Mine(s) = NoGoal,
         Own(call'[s], rt'[s], Mine(s))
  PROVE  TokenInv'
<1>1. on[s] \in Threads /\ RuntimeOK(rt[s]) /\ RuntimeOK(rt'[s]) /\ due \in [Threads -> Int]
  BY DEF Inv, TokenInv
<1>2. Mine(s) # NoGoal => Part(rt'[s], Mine(s).id) = Part(rt[s], Mine(s).id)
  BY <1>1, HolderIsWall
<1>3. due' = [due EXCEPT ![on[s]] = due[on[s]]] /\ due[on[s]] \in Int
  BY <1>1
<1>4. Part(rt[s], Mine(s).id) \in Int
  BY DEF Inv, Part, Runtime
<1>5. Mine(s) # NoGoal =>
        due[on[s]] = due[on[s]] + (Part(rt'[s], Mine(s).id) - Part(rt[s], Mine(s).id))
  BY <1>2, <1>3, <1>4
<1> QED BY <1>3, <1>5, TokenElsewhere

\* An operation that is not at the store owns nothing.
LEMMA NotAtStore ==
  ASSUME NEW c, c.at \notin {"get", "store", "write"} \/ c.op = "create", NEW r, NEW g
  PROVE  Own(c, r, g)
BY DEF Own

\* Turns, with what their requests use and what a turn's start gives up.
LEMMA TokenTurns ==
  ASSUME Inv, Places, TokenInv, ~raced, NEW s \in Sessions,
         UserTurn(s) \/ Leave(s) \/ Continue(s) \/ Fail(s) \/ Start(s) \/ Sample(s) \/ Compact(s)
  PROVE  TokenInv'
<1>0. Inv' /\ OthersStay(s)
  BY StepInv, OneSession DEF StepOf, Work
<1>1. UNCHANGED <<file, call, created>> /\ call[s] = Quiet
  BY DEF UserTurn, Leave, Continue, Fail, Start, Sample, Compact, Idle, counters
<1>2. \A r, g : Own(call'[s], r, g)
  BY <1>1 DEF Own, Quiet
<1>3. CASE UserTurn(s) \/ Leave(s) \/ Continue(s) \/ Fail(s)
  <2>1. UNCHANGED <<rt, due>>
    BY <1>3 DEF UserTurn, Leave, Continue, Fail, ghosts
  <2> QED BY <1>0, <1>1, <1>2, <2>1, TokenCall
<1>4. /\ RuntimeOK(rt[s]) /\ RuntimeOK(rt'[s]) /\ rt \in [Sessions -> Runtime]
      /\ rt[s].pending \in Nat /\ rt[s].wall \in Nat /\ on[s] \in Threads
      /\ due[on[s]] \in Int
  BY <1>0 DEF Inv, RuntimeOK, Runtime, TokenInv
<1>5. CASE Start(s)
  <2>1. PICK d \in Int :
          /\ due' = [due EXCEPT ![on[s]] = d]
          /\ Mine(s) # NoGoal =>
               d = due[on[s]] + (IF rt[s].wall = Mine(s).id THEN -rt[s].pending ELSE 0)
    <3>1. -rt[s].pending \in Int /\ Owe(s, -rt[s].pending)
      BY <1>4, <1>5 DEF Start
    <3> QED BY <3>1, Owed
  <2>2. rt'[s].pending = 0 /\ rt'[s].wall \in {NoId, Mine(s).id}
    BY <1>4, <1>5 DEF Start, StartCounting, Settled, Marked, Released, Runtime
  <2>3. Mine(s) # NoGoal =>
          d = due[on[s]] + (Part(rt'[s], Mine(s).id) - Part(rt[s], Mine(s).id))
    BY <1>4, <2>1, <2>2, HolderIsWall
  <2> QED BY <1>0, <1>1, <1>2, <2>1, <2>2, <2>3, TokenElsewhere
<1>6. CASE Sample(s) \/ Compact(s)
  <2>1. PICK n \in Usages : Use(s, n)
    BY <1>6 DEF Sample, Compact
  <2>2. n \in Int /\ n \in Nat
    BY BudgetsAssumption
  <2>3. PICK d \in Int :
          /\ due' = [due EXCEPT ![on[s]] = d]
          /\ Mine(s) # NoGoal => d = due[on[s]] + (IF rt[s].wall = Mine(s).id THEN n ELSE 0)
    BY <2>1, <2>2, Owed DEF Use
  <2>4. rt'[s].pending = rt[s].pending + n /\ rt'[s].wall = rt[s].wall
    BY <1>4, <2>1, <2>2 DEF Use, Runtime
  <2>5. Mine(s) # NoGoal =>
          d = due[on[s]] + (Part(rt'[s], Mine(s).id) - Part(rt[s], Mine(s).id))
    BY <1>4, <2>2, <2>3, <2>4, HolderIsWall
  <2> QED BY <1>0, <1>1, <1>2, <2>3, <2>4, <2>5, TokenElsewhere
<1> QED BY <1>3, <1>5, <1>6

\* An operation begins.
LEMMA TokenBegin ==
  ASSUME Inv, Places, TokenInv, ~raced, NEW s \in Sessions, InTurn(s) \/ Order(s)
  PROVE  TokenInv'
<1>0. Inv' /\ OthersStay(s)
  BY StepInv, OneSession DEF StepOf, Work
<1>1. UNCHANGED <<file, rt, due, created>> /\ \E op : Begin(s, op)
  BY DEF InTurn, Order, ghosts
<1>2. PICK op : call' = [call EXCEPT ![s] = [Quiet EXCEPT !.op = op, !.at = "account"]]
  BY <1>1 DEF Begin
<1>3. call'[s].at = "account"
  BY <1>2 DEF Inv, Quiet
<1> QED BY <1>0, <1>1, <1>3, NotAtStore, TokenCall

\* It looks at the store.
LEMMA TokenStore ==
  ASSUME Inv, Places, TokenInv, ~raced, NEW s \in Sessions, Get(s) \/ Load(s) \/ Refused(s)
  PROVE  TokenInv'
<1>0. Inv' /\ OthersStay(s)
  BY StepInv, OneSession DEF StepOf, Work
<1>1. UNCHANGED <<file, due, created>>
  BY DEF Get, Load, Refused, ghosts, counters
<1>2. /\ call \in [Sessions -> Calls] /\ call[s] \in Calls
      /\ RuntimeOK(rt[s]) /\ rt \in [Sessions -> Runtime]
      /\ Own(call[s], rt[s], Mine(s))
  BY DEF Inv, TokenInv, Mine
<1>3. CASE UNCHANGED rt /\ call'[s].at \notin {"get", "store", "write"}
  BY <1>0, <1>1, <1>3, NotAtStore, TokenCall
<1>4. CASE UNCHANGED rt /\ call[s].at \in {"get", "store"} /\ call[s].op # "create"
  <2>1. Own(call'[s], rt[s], Mine(s))
    BY <1>2, <1>4 DEF Own
  <2> QED BY <1>0, <1>1, <1>4, <2>1, TokenCall
<1>5. CASE Load(s) /\ call[s].op = "create"
  <2>1. UNCHANGED rt /\ call'[s].op = "create"
    BY <1>2, <1>5 DEF Load, Calls
  <2> QED BY <1>0, <1>1, <2>1, NotAtStore, TokenCall
<1>6. CASE Get(s) /\ call[s].op = "create"
  <2>1. UNCHANGED rt /\ (call'[s].op = "create" \/ call'[s] = Quiet)
    BY <1>2, <1>6 DEF Get, Calls, Done
  <2>2. call'[s].op = "create" \/ call'[s].at \notin {"get", "store", "write"}
    BY <2>1 DEF Quiet
  <2> QED BY <1>0, <1>1, <2>1, <2>2, NotAtStore, TokenCall
<1>7. CASE Refused(s) /\ Begin(s, "tool") /\ UNCHANGED rt
  <2>1. call'[s].at = "account"
    BY <1>2, <1>7 DEF Begin, Quiet
  <2> QED BY <1>3, <1>7, <2>1
<1>8. CASE Refused(s) /\ call[s].op = "clear" /\ Done(s)
           /\ rt' = [rt EXCEPT ![s] = [Released(@) EXCEPT !.reported = NoId]]
  <2>1. Mine(s) = NoGoal /\ call'[s].at \notin {"get", "store", "write"}
    BY <1>2, <1>8 DEF Refused, Applies, Done, Quiet
  <2>2. rt'[s].wall = NoId
    BY <1>2, <1>8 DEF Released, Runtime
  <2> QED BY <1>0, <1>1, <2>1, <2>2, NotAtStore, TokenCall
<1> QED BY <1>4, <1>5, <1>6, <1>7, <1>8 DEF Get, Load, Refused

\* What the runtime and the call are after the account.
LEMMA ProceedsTo ==
  ASSUME Inv, NEW s \in Sessions, NEW r \in Runtime, Proceed(s, r)
  PROVE  /\ rt'[s].wall = r.wall /\ rt'[s].pending = r.pending
         /\ call'[s] = Quiet \/ call'[s].op = call[s].op
<1>1. rt \in [Sessions -> Runtime] /\ call \in [Sessions -> Calls] /\ call[s] \in Calls
  BY DEF Inv
<1>2. rt' = [rt EXCEPT ![s] = r] \/ rt' = [rt EXCEPT ![s] = [r EXCEPT !.active = NoId]]
  BY DEF Proceed
<1>3. rt'[s] = r \/ rt'[s] = [r EXCEPT !.active = NoId]
  BY <1>1, <1>2
<1>4. Done(s) \/ \E at : call' = [call EXCEPT ![s].at = at]
  BY DEF Proceed
<1>5. call'[s] = Quiet \/ call'[s].op = call[s].op
  BY <1>1, <1>4 DEF Done, Calls
<1> QED BY <1>3, <1>5 DEF Runtime

\* It reads the accounting of its session.
LEMMA TokenAccount ==
  ASSUME Inv, Places, TokenInv, ~raced, NEW s \in Sessions, Account(s)
  PROVE  TokenInv'
<1>0. Inv' /\ OthersStay(s)
  BY StepInv, OneSession DEF StepOf, Work
<1>1. /\ RuntimeOK(rt[s]) /\ RuntimeOK(rt'[s]) /\ rt[s] \in Runtime /\ Released(rt[s]) \in Runtime
      /\ Holder(rt[s]) = rt[s].wall /\ on[s] \in Threads /\ due[on[s]] \in Int
      /\ rt[s].pending \in Nat /\ Released(rt[s]).wall = NoId /\ call \in [Sessions -> Calls]
      /\ GoalIds(file)
  BY <1>0, HolderIsWall DEF Inv, RuntimeOK, Runtime, Released, TokenInv, NoId, Places
<1>2. UNCHANGED <<file, created>>
  BY DEF Account, NotCharged, Read, counters
<1>3. Own(Quiet, rt'[s], Mine(s))
  BY NotAtStore DEF Quiet
<1>4. CASE Read(s)
  <2>1. UNCHANGED <<rt, due>> /\ call'[s].at = "charge"
    BY <1>1, <1>4 DEF Read, ghosts
  <2> QED BY <1>0, <1>2, <2>1, NotAtStore, TokenCall
<1>5. CASE /\ Holder(rt[s]) = NoId \/ Delta(s) = 0
           /\ Proceed(s, rt[s]) /\ UNCHANGED due
  <2>1. /\ rt'[s].wall = rt[s].wall /\ rt'[s].pending = rt[s].pending
        /\ call'[s] = Quiet \/ call'[s].op = call[s].op
    BY <1>1, <1>5, ProceedsTo
  <2>2. rt[s].wall = NoId \/ rt[s].pending = 0 \/ call[s].op = "create"
    BY <1>1, <1>5 DEF Delta
  <2>3. Own(call'[s], rt'[s], Mine(s))
    BY <1>3, <2>1, <2>2 DEF Own
  <2> QED BY <1>0, <1>2, <1>5, <2>1, <2>3, TokenCall
<1>6. CASE /\ Mine(s).id # Holder(rt[s]) \/ Mine(s).status \notin Chargeable(call[s].op)
           /\ Working(Mine(s)) /\ Proceed(s, rt[s]) /\ UNCHANGED due
  <2>1. /\ rt'[s].wall = rt[s].wall /\ rt'[s].pending = rt[s].pending
    BY <1>1, <1>6, ProceedsTo
  <2>2. Mine(s).id # rt[s].wall
    BY <1>1, <1>6 DEF Chargeable, Working
  <2>3. Own(call'[s], rt'[s], Mine(s))
    BY <2>1, <2>2 DEF Own
  <2> QED BY <1>0, <1>2, <1>6, <2>1, <2>3, TokenCall
<1>7. CASE Proceed(s, Released(rt[s])) /\ Owe(s, -rt[s].pending)
  <2>1. rt'[s].wall = NoId
    BY <1>1, <1>7, ProceedsTo
  <2>2. PICK d \in Int :
          /\ due' = [due EXCEPT ![on[s]] = d]
          /\ Mine(s) # NoGoal =>
               d = due[on[s]] + (IF rt[s].wall = Mine(s).id THEN -rt[s].pending ELSE 0)
    <3>1. -rt[s].pending \in Int
      BY <1>1
    <3> QED BY <1>7, <3>1, Owed
  <2>3. Mine(s) # NoGoal => Mine(s).id # NoId
    BY <1>1 DEF GoalIds, Mine
  <2>4. Mine(s) # NoGoal =>
          d = due[on[s]] + (Part(rt'[s], Mine(s).id) - Part(rt[s], Mine(s).id))
    BY <1>1, <2>1, <2>2, <2>3, HolderIsWall
  <2>5. Own(call'[s], rt'[s], Mine(s))
    BY <2>1 DEF Own
  <2> QED BY <1>0, <1>2, <2>1, <2>2, <2>4, <2>5, TokenElsewhere
<1>8. Read(s) \/ NotCharged(s)
  BY DEF Account
<1> QED BY <1>4, <1>5, <1>6, <1>7, <1>8 DEF NotCharged

\* It charges what it read.
LEMMA TokenCharge ==
  ASSUME Inv, Places, TokenInv, ~raced, NEW s \in Sessions, Charge(s), ~raced'
  PROVE  TokenInv'
<1> DEFINE old == call[s].loaded[on[s]]
           given == Charged(old, Delta(s))
           r == AfterCharge(rt[s], given, call[s].op)
<1>0. Inv' /\ OthersStay(s)
  BY StepInv, OneSession DEF StepOf, Work
<1>1. /\ RuntimeOK(rt[s]) /\ RuntimeOK(rt'[s]) /\ rt[s] \in Runtime /\ on[s] \in Threads
      /\ Holder(rt[s]) = rt[s].wall /\ due[on[s]] \in Int /\ rt[s].pending \in Nat
      /\ Delta(s) \in Nat /\ GoalIds(file) /\ file[on[s]] \in Goal /\ file \in Files
      /\ CallOK(call[s], rt[s], on[s]) /\ call[s].at = "charge"
  BY <1>0, HolderIsWall DEF Inv, RuntimeOK, Runtime, TokenInv, Places, Delta, FileOK, Files, Charge
<1>2. Replace(s, given) /\ Proceed(s, r) /\ Owe(s, Delta(s) - rt[s].pending) /\ created' = created
  BY DEF Charge, counters
<1>3. old.id = rt[s].wall /\ rt[s].wall # NoId
  BY <1>1 DEF CallOK
<1> HIDE DEF r, given
<1>4. call[s].loaded = file /\ file' = [file EXCEPT ![on[s]] = given]
  BY <1>2, NotRaced
<1>5. old = Mine(s) /\ old = file[on[s]] /\ old # NoGoal
  BY <1>1, <1>3, <1>4 DEF Mine, GoalIds
<1> HIDE DEF old
<1>6. given \in Goal /\ given.id = old.id
  BY <1>1, <1>5, ChargedGoal DEF given
<1>7. given.used = old.used + Delta(s) /\ old.used \in Nat
  BY <1>1, <1>5 DEF given, Charged, Goal
<1>8. r \in Runtime /\ r.pending = 0 /\ r.wall \in {rt[s].wall, NoId}
  <2> DEFINE counted == Settled(rt[s])
             freed == IF \/ given.status \in {"paused", "blocked", "complete"}
                         \/ (given.status = "budget_limited" /\ call[s].op # "tool")
                      THEN Released(counted) ELSE counted
             rep == IF given.status # "budget_limited" THEN NoId
                    ELSE IF Reports(rt[s], given, call[s].op) THEN given.id ELSE freed.reported
  <2>1. freed \in Runtime /\ freed.pending = 0 /\ freed.wall \in {rt[s].wall, NoId}
    BY <1>1 DEF Settled, Released, Runtime, NoId
  <2>2. r = [freed EXCEPT !.reported = rep]
    BY <2>1 DEF r, AfterCharge
  <2>3. rep \in Nat
    BY <1>6, <2>1 DEF Goal, Runtime, NoId
  <2> HIDE DEF freed, rep
  <2> QED BY <2>1, <2>2, <2>3 DEF Runtime
<1>9. rt'[s].wall \in {rt[s].wall, NoId} /\ rt'[s].pending = 0
  BY <1>2, <1>8, ProceedsTo
<1>10. PICK d \in Int :
         /\ due' = [due EXCEPT ![on[s]] = d]
         /\ d = due[on[s]] + (Delta(s) - rt[s].pending)
  <2>1. Delta(s) - rt[s].pending \in Int
    BY <1>1
  <2>2. PICK d \in Int :
          /\ due' = [due EXCEPT ![on[s]] = d]
          /\ Mine(s) # NoGoal =>
               d = due[on[s]] + (IF rt[s].wall = Mine(s).id THEN Delta(s) - rt[s].pending ELSE 0)
    BY <1>2, <2>1, Owed
  <2> QED BY <1>3, <1>5, <2>2
<1>11. Part(rt'[s], given.id) = 0 /\ Part(rt[s], given.id) = rt[s].pending
  BY <1>1, <1>3, <1>6, <1>9, HolderIsWall
<1>12. d = due[on[s]] + (given.used - file[on[s]].used) + (Part(rt'[s], given.id) - Part(rt[s], given.id))
  BY <1>1, <1>5, <1>7, <1>10, <1>11
<1>13. Own(call'[s], rt'[s], given)
  BY <1>9 DEF Own
<1> QED BY <1>0, <1>2, <1>4, <1>5, <1>6, <1>9, <1>10, <1>12, <1>13, SameGoal

\* It writes the store.
LEMMA TokenWrite ==
  ASSUME Inv, Places, TokenInv, ~raced, NEW s \in Sessions, Write(s), ~raced'
  PROVE  TokenInv'
<1> DEFINE op == call[s].op
           r == IF op \in {"complete", "block"} THEN rt[s] ELSE [rt[s] EXCEPT !.reported = NoId]
<1>0. Inv' /\ OthersStay(s)
  BY StepInv, OneSession DEF StepOf, Work
<1>1. PICK h \in Goal, b \in Nat :
        /\ file' = [file EXCEPT ![on[s]] = h]
        /\ op \in {"create", "replace"} =>
             /\ h.id = created + 1 /\ h.used = 0 /\ created' = created + 1
             /\ rt' = [rt EXCEPT ![s] = MarkedAfresh(r, h.id)]
        /\ op = "clear" => h = NoGoal
        /\ op \notin {"create", "replace", "clear"} =>
             h.id = file[on[s]].id /\ h.used = file[on[s]].used /\ h.id # NoId
        /\ op \notin {"create", "replace"} => created' = created
        /\ rt' = [rt EXCEPT ![s] = MarkedAfresh(r, h.id)] \/ rt' = [rt EXCEPT ![s] = Released(r)]
        /\ IF op \in {"create", "replace", "clear"}
           THEN due' = [due EXCEPT ![on[s]] = 0] ELSE UNCHANGED due
  BY Written
<1>2. /\ RuntimeOK(rt[s]) /\ RuntimeOK(rt'[s]) /\ rt[s] \in Runtime /\ rt \in [Sessions -> Runtime]
      /\ call \in [Sessions -> Calls] /\ on[s] \in Threads /\ due \in [Threads -> Int]
      /\ h.id \in Nat /\ file[on[s]] \in Goal /\ GoalIds(file) /\ created \in Nat
      /\ Own(call[s], rt[s], file[on[s]]) /\ call[s].at = "write"
  BY <1>0 DEF Inv, RuntimeOK, TokenInv, FileOK, Files, Goal, Places, Write
<1>3. r \in Runtime /\ MarkedAfresh(r, h.id).pending = 0 /\ MarkedAfresh(r, h.id).wall = h.id
      /\ Released(r).wall = NoId /\ MarkedAfresh(r, h.id).pending = 0
  BY <1>2 DEF Runtime, MarkedAfresh, Settled, Marked, Released, NoId
<1> HIDE DEF r
<1>4. (rt'[s].wall = h.id /\ rt'[s].pending = 0) \/ rt'[s].wall = NoId
  BY <1>1, <1>2, <1>3
<1>5. Own(call'[s], rt'[s], h)
  BY <1>4 DEF Own
<1>6. CASE op \in {"create", "replace"}
  <2>1. rt'[s].wall = h.id /\ rt'[s].pending = 0
    BY <1>1, <1>2, <1>3, <1>6
  <2>2. ASSUME NEW x \in Sessions PROVE Part(rt'[x], h.id) = 0
    <3>1. CASE x = s
      BY <1>2, <2>1, <3>1, HolderIsWall
    <3>2. CASE x # s
      <4>1. rt'[x] = rt[x] /\ rt[x].wall <= created /\ rt[x].wall \in Nat /\ RuntimeOK(rt[x])
        BY <1>0, <3>2 DEF OthersStay, TokenInv, OwnNames, Inv, RuntimeOK, Runtime
      <4>2. rt[x].wall # h.id
        BY <1>1, <1>2, <1>6, <4>1
      <4> QED BY <4>1, <4>2, HolderIsWall
    <3> QED BY <3>1, <3>2
  <2>3. Pend(rt', h.id) = 0
    BY <2>2, PendNothing
  <2>4. 0 = h.used + Pend(rt', h.id) /\ 0 \in Int
    BY <1>1, <1>6, <2>3
  <2>5. due' = [due EXCEPT ![on[s]] = 0] /\ file' = [file EXCEPT ![on[s]] = h]
        /\ h.id = created + 1 /\ created' = created + 1
    BY <1>1, <1>6
  <2> HIDE DEF op
  <2> QED BY <1>0, <1>5, <2>1, <2>4, <2>5, TokenStep
<1>7. CASE op = "clear"
  <2>1. h.id = NoId
    BY <1>1, <1>7 DEF NoGoal
  <2>2. due' = [due EXCEPT ![on[s]] = 0] /\ file' = [file EXCEPT ![on[s]] = h] /\ 0 \in Int
        /\ h = NoGoal /\ created' = created
    BY <1>1, <1>7
  <2>3. rt'[s].wall \in {rt[s].wall, NoId, h.id}
    BY <1>4
  <2> HIDE DEF op
  <2> QED BY <1>0, <1>5, <2>1, <2>2, <2>3, TokenStep
<1>8. CASE op \notin {"create", "replace", "clear"}
  <2>1. due' = [due EXCEPT ![on[s]] = due[on[s]]] /\ due[on[s]] \in Int
    BY <1>1, <1>2, <1>8
  <2>2. Part(rt'[s], h.id) = 0
    BY <1>1, <1>2, <1>4, <1>8, HolderIsWall
  <2>3. Part(rt[s], h.id) = 0
    BY <1>1, <1>2, <1>8, HolderIsWall DEF Own
  <2>4. file[on[s]] # NoGoal /\ h.used \in Nat
    BY <1>1, <1>2, <1>8 DEF GoalIds, Goal
  <2>5. due[on[s]] = due[on[s]] + (h.used - file[on[s]].used) + (Part(rt'[s], h.id) - Part(rt[s], h.id))
    BY <1>1, <1>8, <2>1, <2>2, <2>3, <2>4
  <2> QED BY <1>0, <1>1, <1>4, <1>5, <1>8, <2>1, <2>4, <2>5, SameGoal
<1> QED BY <1>6, <1>7, <1>8

\* The accounts are kept.
LEMMA TokenInvariance == Spec => [](Inv /\ Places /\ TokenInv)
<1>1. Init => TokenInv
  <2> SUFFICES ASSUME Init PROVE TokenInv
    OBVIOUS
  <2>1. /\ \A t \in Threads : file[t] = NoGoal
        /\ \A s \in Sessions : rt[s].wall = NoId /\ call[s] = Quiet
        /\ created = 0 /\ due \in [Threads -> Int]
    BY DEF Init
  <2>2. NoGoal.id = NoId /\ NoId = 0 /\ Quiet.at = "idle"
    BY DEF NoGoal, NoId, Quiet
  <2>3. OwnNames
    BY <2>1, <2>2 DEF OwnNames
  <2>4. Accounts
    BY <2>1 DEF Accounts
  <2> QED BY <2>1, <2>2, <2>3, <2>4 DEF TokenInv, Own
<1>2. Inv /\ Places /\ TokenInv /\ [Next]_vars => TokenInv'
  <2> SUFFICES ASSUME Inv, Places, TokenInv, [Next]_vars PROVE TokenInv'
    OBVIOUS
  <2>1. CASE UNCHANGED vars
    BY <2>1 DEF vars, counters, ghosts, TokenInv, OwnNames, Accounts
  <2>2. ASSUME NEW s \in Sessions, StepOf(s) PROVE TokenInv'
    <3>1. CASE raced'
      <4>1. due' \in [Threads -> Int]
        <5>1. CASE due' = due
          BY <5>1 DEF TokenInv
        <5>2. CASE \E n \in Int : Owe(s, n)
          BY <5>2 DEF Owe, TokenInv, Inv
        <5>3. CASE Forget
          BY <5>3 DEF Forget
        <5>4. \A n \in Usages : n \in Int
          BY BudgetsAssumption
        <5>5. -rt[s].pending \in Int
          BY DEF Inv, Runtime
        <5> QED BY <2>2, <3>1, <5>1, <5>2, <5>3, <5>4, <5>5
               DEF StepOf, Work, ghosts, UserTurn, Leave, Continue, Fail, Start, Sample, Compact,
                   Use, InTurn, Order, Get, Load, Refused, Account, NotCharged, Read, Charge, Write
      <4> QED BY <3>1, <4>1 DEF TokenInv
    <3>2. CASE ~raced'
      <4>1. ~raced
        BY <2>2, <3>2 DEF StepOf, Work, ghosts, UserTurn, Leave, Continue, Fail, Start, Sample, Compact,
             InTurn, Order, Get, Load, Refused, Account, NotCharged, Read, Charge, Write, Replace
      <4> QED BY <2>2, <3>2, <4>1, TokenTurns, TokenBegin, TokenStore, TokenAccount, TokenCharge,
             TokenWrite DEF StepOf, Work
    <3> QED BY <3>1, <3>2
  <2> QED BY <2>1, <2>2 DEF Next, StepOf
<1> QED BY <1>1, <1>2, PlacesInvariance, PTL DEF Spec

(* In any interleaving of the sessions, and as long as no update of the    *)
(* file is lost, every token used at work on a goal is charged to it once, *)
(* or still pending, or given up at one of the three places.               *)
THEOREM TokensOnce == Spec => []EveryTokenOnce
<1>1. TokenInv => EveryTokenOnce
  BY DEF TokenInv, Accounts, EveryTokenOnce, PendingOn, Share, Pend, Part
<1> QED BY <1>1, TokenInvariance, PTL

-----------------------------------------------------------------------------
(* The loop is charged.                                                    *)

\* The sessions whose turn had usage and has been charged for all of it.
Paid(m, p, r, id) ==
  {s \in Sessions : m[s] /\ p[s] \in {"ask", "act"} /\ r[s].pending = 0 /\ Holder(r[s]) = id}

\* Each of them, and each turn of the loop that has ended, has its token.
LoopInv ==
  /\ continued \in [Threads -> Nat] /\ metered \in [Sessions -> BOOLEAN]
  /\ raced \/ \A t \in Threads :
       /\ continued[t] <= file[t].used
       /\ file[t] # NoGoal => continued[t] + Cardinality(Paid(metered, phase, rt, file[t].id)) <= file[t].used

\* Sessions are counted.
LEMMA PaidCount ==
  ASSUME NEW A \in SUBSET Sessions
  PROVE  /\ IsFiniteSet(A) /\ Cardinality(A) \in Nat
         /\ \A B \in SUBSET A : Cardinality(B) <= Cardinality(A)
         /\ \A x \in A : Cardinality(A \ {x}) = Cardinality(A) - 1
         /\ \A x \in Sessions : Cardinality(A \cup {x}) <= Cardinality(A) + 1
BY SessionsAssumption, FS_Subset, FS_CardinalityType, FS_RemoveElement, FS_AddElement

\* A step of one session changes what the others have paid for nothing.
LEMMA PaidElsewhere ==
  ASSUME NEW s \in Sessions, OthersStay(s), \A x \in Sessions \ {s} : metered'[x] = metered[x], NEW id
  PROVE  Paid(metered', phase', rt', id) \in SUBSET Sessions /\ Paid(metered', phase', rt', id) \ {s} = Paid(metered, phase, rt, id) \ {s}
BY DEF Paid, OthersStay, Holder

\* Sets that differ in one element at most.
LEMMA SameWithout ==
  ASSUME NEW A, NEW B, NEW x, A \ {x} = B \ {x}, x \in A <=> x \in B
  PROVE  A = B
<1>1. \A y : y \in A <=> y \in B
  <2> TAKE y
  <2>1. y \in A \ {x} <=> y \in B \ {x} OBVIOUS
  <2> QED BY <2>1
<1> QED BY <1>1

\* A step after which nobody else has paid, and that counts no turn.
LEMMA LoopSame ==
  ASSUME Inv, Places, LoopInv, NEW s \in Sessions, OthersStay(s),
         UNCHANGED <<file, continued, raced>>, metered' \in [Sessions -> BOOLEAN],
         \A x \in Sessions \ {s} : metered'[x] = metered[x],
         \A id : id # NoId => (s \in Paid(metered', phase', rt', id) => s \in Paid(metered, phase, rt, id))
  PROVE  LoopInv'
<1>1. CASE raced
  BY <1>1 DEF LoopInv
<1>2. CASE ~raced
  <2>1. SUFFICES ASSUME NEW t \in Threads, file[t] # NoGoal
                 PROVE  continued[t] + Cardinality(Paid(metered', phase', rt', file[t].id)) <= file[t].used
    BY <1>2 DEF LoopInv
  <2> DEFINE A == Paid(metered, phase, rt, file[t].id)
             B == Paid(metered', phase', rt', file[t].id)
  <2>1a. file[t].id # NoId
    BY <2>1 DEF Places, GoalIds
  <2>2. A \in SUBSET Sessions /\ B \in SUBSET A /\ B \in SUBSET Sessions
    <3>1. B \in SUBSET Sessions /\ B \ {s} = A \ {s}
      BY PaidElsewhere
    <3>2. s \in B => s \in A
      BY <2>1a
    <3>3. A \in SUBSET Sessions
      BY DEF Paid
    <3> HIDE DEF A, B
    <3> QED BY <3>1, <3>2, <3>3
  <2>3. continued[t] \in Nat /\ continued[t] + Cardinality(A) <= file[t].used
    BY <1>2, <2>1 DEF LoopInv
  <2>4. file[t].used \in Nat
    BY DEF Inv, FileOK, Files, Goal
  <2> HIDE DEF A, B
  <2>5. Cardinality(A) \in Nat /\ Cardinality(B) \in Nat /\ Cardinality(B) <= Cardinality(A)
    BY <2>2, PaidCount
  <2>6. continued[t] + Cardinality(B) <= file[t].used
    BY <2>3, <2>4, <2>5
  <2> QED BY <2>6 DEF B
<1> QED BY <1>1, <1>2

\* Turns: one that has used something since it took up its goal owes it.
LEMMA LoopTurns ==
  ASSUME Inv, Places, LoopInv, NEW s \in Sessions,
         UserTurn(s) \/ Leave(s) \/ Continue(s) \/ Fail(s) \/ Start(s) \/ Sample(s) \/ Compact(s)
  PROVE  LoopInv'
<1>0. OthersStay(s)
  BY OneSession DEF StepOf, Work
<1>1. UNCHANGED <<file, continued, raced>>
  BY DEF UserTurn, Leave, Continue, Fail, Start, Sample, Compact, ghosts
<1>2. /\ metered \in [Sessions -> BOOLEAN] /\ phase \in [Sessions -> Phases]
      /\ rt \in [Sessions -> Runtime] /\ rt[s].pending \in Nat
  BY DEF LoopInv, Inv, Runtime
<1>3. /\ metered' \in [Sessions -> BOOLEAN]
      /\ \A x \in Sessions \ {s} : metered'[x] = metered[x]
      /\ \A id : s \in Paid(metered', phase', rt', id) => s \in Paid(metered, phase, rt, id)
  <2>1. CASE UserTurn(s) \/ Leave(s) \/ Continue(s) \/ Fail(s)
    <3>1. UNCHANGED <<metered, rt>>
      BY <2>1 DEF UserTurn, Leave, Continue, Fail, ghosts
    <3>2. phase'[s] \in {"ask", "act"} => phase[s] \in {"ask", "act"}
      BY <1>2, <2>1 DEF UserTurn, Leave, Continue, Fail
    <3> QED BY <1>2, <3>1, <3>2 DEF Paid, Holder
  <2>2. CASE Start(s)
    <3>1. metered' = [metered EXCEPT ![s] = FALSE]
      BY <2>2 DEF Start
    <3> QED BY <1>2, <3>1 DEF Paid
  <2>3. CASE Sample(s)
    <3>1. PICK n \in Usages : /\ rt' = [rt EXCEPT ![s].pending = @ + n]
                              /\ metered' = [metered EXCEPT ![s] = @ \/ n > 0]
      BY <2>3 DEF Sample, Use
    <3>2. n \in Nat /\ phase[s] = "ask"
      BY <2>3, BudgetsAssumption DEF Sample
    <3>3. metered' \in [Sessions -> BOOLEAN] /\ \A x \in Sessions \ {s} : metered'[x] = metered[x]
      BY <1>2, <3>1
    <3>4. ASSUME rt'[s].pending = 0 PROVE rt[s].pending = 0 /\ n = 0
      BY <1>2, <3>1, <3>2, <3>4
    <3>5. metered'[s] = (metered[s] \/ n > 0) /\ Holder(rt'[s]) = Holder(rt[s])
      BY <1>2, <3>1 DEF Holder
    <3> QED BY <3>2, <3>3, <3>4, <3>5 DEF Paid
  <2>4. CASE Compact(s)
    <3>1. UNCHANGED <<metered, phase>> /\ phase[s] = "out"
      BY <2>4 DEF Compact
    <3> QED BY <1>2, <3>1 DEF Paid
  <2> QED BY <2>1, <2>2, <2>3, <2>4
<1> QED BY <1>0, <1>1, <1>3, LoopSame

\* Operations begin, and look at the store.
LEMMA LoopLooks ==
  ASSUME Inv, Places, LoopInv, NEW s \in Sessions,
         InTurn(s) \/ Order(s) \/ Get(s) \/ Load(s) \/ Refused(s)
  PROVE  LoopInv'
<1>0. OthersStay(s)
  BY OneSession DEF StepOf, Work
<1>1. UNCHANGED <<file, metered, continued, raced>>
  BY DEF InTurn, Order, Get, Load, Refused, ghosts
<1>2. /\ metered \in [Sessions -> BOOLEAN] /\ phase \in [Sessions -> Phases]
      /\ rt \in [Sessions -> Runtime] /\ Placed(call[s], phase[s], on[s])
  BY DEF LoopInv, Inv, Places
<1>3. phase'[s] \in {"ask", "act"} => phase[s] \in {"ask", "act"}
  BY <1>2 DEF InTurn, Order, Get, Load, Refused, Placed, UserOps
<1>4. rt'[s].pending = 0 /\ Holder(rt'[s]) # NoId
        => rt[s].pending = 0 /\ Holder(rt'[s]) = Holder(rt[s])
  <2>1. CASE UNCHANGED rt
    BY <2>1
  <2>2. CASE rt' = [rt EXCEPT ![s] = [Released(@) EXCEPT !.reported = NoId]]
    BY <1>2, <2>2 DEF Released, Runtime, Holder, NoId
  <2> QED BY <2>1, <2>2 DEF InTurn, Order, Get, Load, Refused
<1>5. \A id : id # NoId => (s \in Paid(metered', phase', rt', id) => s \in Paid(metered, phase, rt, id))
  BY <1>1, <1>3, <1>4 DEF Paid
<1> QED BY <1>0, <1>1, <1>2, <1>5, LoopSame

\* An operation that goes on to the store, or back into the turn.
LEMMA LoopProceeds ==
  ASSUME Inv, Places, NEW s \in Sessions, NEW r \in Runtime, Proceed(s, r),
         call[s].at \in {"account", "charge"}
  PROVE  /\ rt'[s].pending = r.pending /\ Holder(rt'[s]) \in {Holder(r), r.wall}
         /\ phase'[s] \in {"ask", "act"} => phase[s] \in {"ask", "act"}
         /\ call[s].op = "finish" => phase'[s] = "out" /\ phase[s] \in {"ask", "act"}
<1>1. rt \in [Sessions -> Runtime] /\ phase \in [Sessions -> Phases] /\ Placed(call[s], phase[s], on[s])
  BY DEF Inv, Places
<1>2. rt'[s] = r \/ rt'[s] = [r EXCEPT !.active = NoId]
  BY <1>1 DEF Proceed
<1>3. rt'[s].pending = r.pending /\ Holder(rt'[s]) \in {Holder(r), r.wall}
  BY <1>2 DEF Runtime, Holder
<1>4. phase'[s] \in {"ask", "act"} => phase[s] \in {"ask", "act"}
  BY <1>1 DEF Proceed, Placed, UserOps
<1>5. call[s].op = "finish" => phase'[s] = "out" /\ phase[s] \in {"ask", "act"}
  BY <1>1 DEF Proceed, Placed, UserOps
<1> QED BY <1>3, <1>4, <1>5

\* A session's step on the goal of its thread: what is to be shown of it.
LEMMA LoopOwn ==
  ASSUME Inv, Inv', Places, TokenInv, LoopInv, ~raced, NEW s \in Sessions, OthersStay(s),
         metered' \in [Sessions -> BOOLEAN], \A x \in Sessions \ {s} : metered'[x] = metered[x],
         NEW g \in Goal, g # NoGoal, file' = [file EXCEPT ![on[s]] = g], g.id = file[on[s]].id,
         file[on[s]] # NoGoal,
         NEW c \in Nat, continued' = [continued EXCEPT ![on[s]] = c],
         rt'[s].wall \in {rt[s].wall, NoId},
         NEW old \in Nat, old = continued[on[s]],
         NEW was \in 0..1, (s \in Paid(metered, phase, rt, g.id)) => was = 1, was = 1 => s \in Paid(metered, phase, rt, g.id),
         s \in Paid(metered', phase', rt', g.id) => was = 1 \/ c + 1 <= old + (g.used - file[on[s]].used),
         s \in Paid(metered', phase', rt', g.id) => c <= old + (g.used - file[on[s]].used),
         c <= old + was + (g.used - file[on[s]].used)
  PROVE  LoopInv'
<1>0. /\ continued \in [Threads -> Nat] /\ on[s] \in Threads /\ file \in Files
      /\ \A t \in Threads : /\ continued[t] <= file[t].used
                            /\ file[t] # NoGoal => continued[t] + Cardinality(Paid(metered, phase, rt, file[t].id)) <= file[t].used
      /\ OwnNames /\ GoalIds(file) /\ RuntimeOK(rt[s]) /\ RuntimeOK(rt'[s])
  BY DEF LoopInv, Inv, FileOK, TokenInv, Places
<1>1. continued' \in [Threads -> Nat]
  BY <1>0
<1>2. ASSUME NEW t \in Threads, t # on[s]
      PROVE  /\ continued'[t] <= file'[t].used
             /\ file'[t] # NoGoal => continued'[t] + Cardinality(Paid(metered', phase', rt', file'[t].id)) <= file'[t].used
  <2>1. continued'[t] = continued[t] /\ file'[t] = file[t]
    BY <1>0, <1>2 DEF Files
  <2>2. ASSUME file[t] # NoGoal PROVE Paid(metered', phase', rt', file[t].id) = Paid(metered, phase, rt, file[t].id)
    <3>1. file[t].id # NoId
      BY <1>0, <2>2 DEF GoalIds
    <3>2. rt[s].wall # file[t].id /\ rt'[s].wall # file[t].id
      BY <1>0, <1>2, <3>1 DEF OwnNames
    <3>3. s \notin Paid(metered, phase, rt, file[t].id) /\ s \notin Paid(metered', phase', rt', file[t].id)
      BY <1>0, <3>2, HolderIsWall DEF Paid
    <3>4. Paid(metered', phase', rt', file[t].id) \ {s} = Paid(metered, phase, rt, file[t].id) \ {s}
      BY PaidElsewhere
    <3> DEFINE before == Paid(metered, phase, rt, file[t].id)
               after == Paid(metered', phase', rt', file[t].id)
    <3>5. s \notin before /\ s \notin after /\ after \ {s} = before \ {s} BY <3>3, <3>4
    <3> HIDE DEF before, after
    <3>6. after = before BY <3>5, SameWithout
    <3> QED BY <3>6 DEF before, after
  <2> QED BY <1>0, <2>1, <2>2
<1>3. /\ continued'[on[s]] <= file'[on[s]].used
      /\ continued'[on[s]] + Cardinality(Paid(metered', phase', rt', file'[on[s]].id)) <= file'[on[s]].used
  <2> DEFINE A == Paid(metered, phase, rt, g.id)
             B == Paid(metered', phase', rt', g.id)
  <2>1. file'[on[s]] = g /\ continued'[on[s]] = c
    BY <1>0 DEF Files
  <2>2. Paid(metered', phase', rt', file'[on[s]].id) = B
    BY <2>1
  <2>3. B \in SUBSET Sessions /\ B \ {s} = A \ {s}
    BY PaidElsewhere
  <2>4. A \in SUBSET Sessions
    BY DEF Paid
  <2>5. g.used \in Nat /\ file[on[s]].used \in Nat
    BY <1>0 DEF Files, Goal
  <2>6. old + Cardinality(A) <= file[on[s]].used
    BY <1>0
  <2> HIDE DEF A, B
  <2>7. Cardinality(A) \in Nat /\ Cardinality(B) \in Nat
    BY <2>3, <2>4, PaidCount
  <2>8. c + Cardinality(B) <= g.used
    <3>1. CASE s \in B
      <4>1. CASE was = 1
        <5>0. s \in A
          BY <4>1 DEF A
        <5>1. A = B
          BY <2>3, <3>1, <5>0, SameWithout
        <5> QED BY <2>5, <2>6, <2>7, <3>1, <5>1 DEF B
      <4>2. CASE was # 1
        <5>1. B = A \cup {s}
          BY <2>3, <3>1
        <5>2. Cardinality(B) <= Cardinality(A) + 1
          BY <2>4, <5>1, PaidCount
        <5>3. c + 1 <= old + (g.used - file[on[s]].used)
          BY <3>1, <4>2 DEF B
        <5> QED BY <2>5, <2>6, <2>7, <5>2, <5>3
      <4> QED BY <4>1, <4>2
    <3>2. CASE s \notin B
      <4>1. B = A \ {s}
        BY <2>3, <3>2
      <4>2. Cardinality(B) <= Cardinality(A) - was
        <5>1. CASE was = 1
          <6>1. s \in A
            BY <5>1 DEF A
          <6> QED BY <2>4, <4>1, <5>1, <6>1, PaidCount
        <5>2. CASE was = 0
          <6>1. s \notin A
            BY <5>2 DEF A
          <6>2. B = A
            BY <4>1, <6>1
          <6> QED BY <2>7, <5>2, <6>2
        <5> QED BY <5>1, <5>2
      <4> QED BY <2>5, <2>6, <2>7, <4>2
    <3> QED BY <3>1, <3>2
  <2> QED BY <2>1, <2>2, <2>5, <2>7, <2>8
<1> QED BY <1>1, <1>2, <1>3 DEF LoopInv

\* What an account leaves: what is charged nothing counts for nothing.
LEMMA LoopAccount ==
  ASSUME Inv, Places, TokenInv, LoopInv, NEW s \in Sessions, Account(s)
  PROVE  LoopInv'
<1>0. /\ OthersStay(s) /\ Inv' /\ RuntimeOK(rt[s]) /\ rt[s] \in Runtime /\ on[s] \in Threads
      /\ file \in Files /\ GoalIds(file) /\ continued \in [Threads -> Nat]
      /\ metered \in [Sessions -> BOOLEAN] /\ call[s].at = "account"
  BY StepInv, OneSession DEF StepOf, Work, Inv, FileOK, Places, LoopInv, Account, Runtime
<1>1. UNCHANGED <<file, metered, raced>>
  BY DEF Account, NotCharged, Read, ghosts
<1>2. CASE UNCHANGED <<rt, phase, continued>>
  BY <1>0, <1>1, <1>2, LoopSame DEF Paid
<1>3. ASSUME NEW r \in {rt[s], Released(rt[s])}, Proceed(s, r), UNCHANGED continued PROVE LoopInv'
  <2>1. /\ r \in Runtime /\ r.pending = rt[s].pending /\ r.wall \in {rt[s].wall, NoId}
        /\ Holder(r) \in {Holder(rt[s]), NoId} /\ Holder(rt[s]) = rt[s].wall
    <3>1. Holder(rt[s]) = rt[s].wall
      BY <1>0, HolderIsWall
    <3>2. CASE r = rt[s]
      BY <1>0, <3>1, <3>2
    <3>3. CASE r = Released(rt[s])
      <4>1. NoId \in Nat
        BY DEF NoId
      <4>2. r.pending = rt[s].pending /\ r.wall = NoId
        BY <1>0, <3>3 DEF Released, Runtime
      <4>3. r \in Runtime
        BY <1>0, <3>3, <4>1 DEF Released, Runtime
      <4>4. Holder(r) = NoId
        BY <1>0, <3>3, <4>1 DEF Released, Runtime, Holder
      <4> QED BY <3>1, <4>2, <4>3, <4>4
    <3> QED BY <1>3, <3>2, <3>3
  <2>2. /\ rt'[s].pending = r.pending /\ Holder(rt'[s]) \in {Holder(r), r.wall}
        /\ phase'[s] \in {"ask", "act"} => phase[s] \in {"ask", "act"}
    BY <1>0, <1>3, <2>1, LoopProceeds
  <2>3. \A id : id # NoId => (s \in Paid(metered', phase', rt', id) => s \in Paid(metered, phase, rt, id))
    BY <1>1, <2>1, <2>2 DEF Paid
  <2> QED BY <1>0, <1>1, <1>3, <2>3, LoopSame
<1>4. CASE /\ Proceed(s, rt[s]) /\ Count(s) /\ (Holder(rt[s]) = NoId \/ Delta(s) = 0)
           /\ ~UNCHANGED continued
  <2>1. /\ call[s].op = "finish" /\ metered[s] /\ ~raced /\ Working(Mine(s))
        /\ Holder(rt[s]) = Mine(s).id /\ continued' = [continued EXCEPT ![on[s]] = @ + 1]
    BY <1>4 DEF Count
  <2>2. Mine(s) # NoGoal /\ Mine(s) = file[on[s]] /\ Mine(s) \in Goal /\ Mine(s).id # NoId
    BY <1>0, <2>1 DEF Working, NoGoal, Mine, Files, GoalIds
  <2>3. rt[s].pending = 0
    BY <1>4, <2>1, <2>2 DEF Delta
  <2>4. phase'[s] = "out" /\ phase[s] \in {"ask", "act"} /\ Holder(rt'[s]) \in {Holder(rt[s]), rt[s].wall}
    BY <1>0, <1>4, <2>1, LoopProceeds
  <2>5. s \in Paid(metered, phase, rt, Mine(s).id) /\ s \notin Paid(metered', phase', rt', Mine(s).id)
    BY <2>1, <2>3, <2>4 DEF Paid
  <2>6. file' = [file EXCEPT ![on[s]] = Mine(s)]
    BY <1>0, <1>1, <2>2 DEF Files
  <2>7. rt'[s].wall \in {rt[s].wall, NoId}
    BY <1>0, <1>4, ProceedsTo
  <2> DEFINE old == continued[on[s]]
             c == old + 1
  <2>8. old \in Nat /\ c \in Nat /\ continued' = [continued EXCEPT ![on[s]] = c]
    BY <1>0, <2>1
  <2>9. c <= old + 1 + (Mine(s).used - file[on[s]].used)
    BY <2>2, <2>8 DEF Goal
  <2> DEFINE was == 1
  <2>10. was \in 0..1 /\ was = 1
    OBVIOUS
  <2> HIDE DEF c, was
  <2>11. c <= old + was + (Mine(s).used - file[on[s]].used)
    BY <2>9, <2>10
  <2> QED BY <1>0, <1>1, <2>1, <2>2, <2>5, <2>6, <2>7, <2>8, <2>10, <2>11, LoopOwn
<1> QED BY <1>2, <1>3, <1>4 DEF Account, NotCharged, Read, ghosts

\* A charge pays for what the turn has used, and for the turn it ends.
LEMMA LoopCharge ==
  ASSUME Inv, Places, TokenInv, LoopInv, NEW s \in Sessions, Charge(s)
  PROVE  LoopInv'
<1> DEFINE given == Charged(call[s].loaded[on[s]], Delta(s))
           r == AfterCharge(rt[s], given, call[s].op)
<1>0. /\ OthersStay(s) /\ Inv' /\ RuntimeOK(rt[s]) /\ rt[s] \in Runtime /\ on[s] \in Threads
      /\ file \in Files /\ GoalIds(file) /\ continued \in [Threads -> Nat]
      /\ metered \in [Sessions -> BOOLEAN] /\ call[s].at = "charge" /\ CallOK(call[s], rt[s], on[s])
      /\ Delta(s) \in Nat
  BY StepInv, OneSession DEF StepOf, Work, Inv, FileOK, Places, LoopInv, Charge, Runtime, RuntimeOK, Delta
<1>1. /\ metered' = [metered EXCEPT ![s] = @ /\ call[s].op # "create"]
      /\ Replace(s, given) /\ Proceed(s, r)
      /\ IF raced' THEN Forget ELSE Count(s)
  BY DEF Charge
<1> HIDE DEF given
<1>2. CASE raced'
  <2>1. continued' = [t \in Threads |-> 0]
    BY <1>1, <1>2 DEF Forget
  <2> QED BY <1>0, <1>1, <1>2, <2>1 DEF LoopInv
<1>3. CASE ~raced'
  <2>1. ~raced /\ call[s].loaded = file /\ file' = [file EXCEPT ![on[s]] = given]
    BY <1>1, <1>3, NotRaced
  <2>2. file[on[s]] \in Goal /\ file[on[s]].id = Holder(rt[s]) /\ Holder(rt[s]) # NoId
        /\ file[on[s]] # NoGoal /\ Holder(rt[s]) = rt[s].wall
    BY <1>0, <2>1, HolderIsWall DEF CallOK, Files, NoGoal
  <2>3. given \in Goal /\ given.id = file[on[s]].id /\ given.used = file[on[s]].used + Delta(s)
    BY <1>0, <2>1, <2>2, ChargedGoal DEF given, Charged, Goal
  <2>4. given # NoGoal
    BY <2>2, <2>3 DEF NoGoal
  <2>5. r \in Runtime /\ r.wall \in {rt[s].wall, NoId}
    <3> DEFINE counted == Settled(rt[s])
               freed == IF \/ given.status \in {"paused", "blocked", "complete"}
                           \/ (given.status = "budget_limited" /\ call[s].op # "tool")
                        THEN Released(counted) ELSE counted
               rep == IF given.status # "budget_limited" THEN NoId
                      ELSE IF Reports(rt[s], given, call[s].op) THEN given.id ELSE freed.reported
    <3>1. freed \in Runtime /\ freed.wall \in {rt[s].wall, NoId}
      BY <1>0 DEF Settled, Released, Runtime, NoId
    <3>2. r = [freed EXCEPT !.reported = rep]
      BY <3>1 DEF r, AfterCharge
    <3>3. rep \in Nat
      BY <2>3, <3>1 DEF Goal, Runtime, NoId
    <3> HIDE DEF freed, rep
    <3> QED BY <3>1, <3>2, <3>3 DEF Runtime
  <2> HIDE DEF r
  <2>6. /\ phase'[s] \in {"ask", "act"} => phase[s] \in {"ask", "act"}
        /\ call[s].op = "finish" => phase'[s] = "out" /\ phase[s] \in {"ask", "act"}
        /\ rt'[s].wall \in {rt[s].wall, NoId}
    BY <1>0, <1>1, <2>5, LoopProceeds, ProceedsTo
  <2> DEFINE old == continued[on[s]]
             c == continued'[on[s]]
             was == IF s \in Paid(metered, phase, rt, given.id) THEN 1 ELSE 0
  <2>7. continued' = continued \/ (/\ continued' = [continued EXCEPT ![on[s]] = @ + 1]
                                   /\ call[s].op = "finish" /\ metered[s])
    BY <1>1, <1>3 DEF Count
  <2>8. /\ old \in Nat /\ c \in Nat /\ continued' = [continued EXCEPT ![on[s]] = c]
        /\ c = old \/ (c = old + 1 /\ call[s].op = "finish" /\ metered[s])
    BY <1>0, <2>7
  <2>9. was \in 0..1 /\ (was = 1 <=> s \in Paid(metered, phase, rt, given.id))
    OBVIOUS
  <2>10. metered' \in [Sessions -> BOOLEAN] /\ (\A x \in Sessions \ {s} : metered'[x] = metered[x])
         /\ metered'[s] = (metered[s] /\ call[s].op # "create")
    BY <1>0, <1>1
  <2>11. given.used \in Nat /\ file[on[s]].used \in Nat /\ given.used - file[on[s]].used = Delta(s)
    BY <1>0, <2>2, <2>3 DEF Goal
  <2>12. ASSUME metered[s], phase[s] \in {"ask", "act"}, call[s].op # "create"
         PROVE  was = 1 \/ Delta(s) >= 1
    <3>1. Delta(s) = rt[s].pending
      BY <2>12 DEF Delta
    <3>2. rt[s].pending = 0 => s \in Paid(metered, phase, rt, given.id)
      BY <2>2, <2>3, <2>12 DEF Paid
    <3> QED BY <1>0, <2>9, <3>1, <3>2
  <2>13. ASSUME s \in Paid(metered', phase', rt', given.id)
         PROVE  metered[s] /\ phase[s] \in {"ask", "act"} /\ call[s].op # "create" /\ call[s].op # "finish"
    BY <2>6, <2>10, <2>13 DEF Paid
  <2> HIDE DEF old, c, was
  <2>14. s \in Paid(metered', phase', rt', given.id) =>
           /\ was = 1 \/ c + 1 <= old + (given.used - file[on[s]].used)
           /\ c <= old + (given.used - file[on[s]].used)
    BY <1>0, <2>8, <2>11, <2>12, <2>13
  <2>15. c <= old + was + (given.used - file[on[s]].used)
    <3>1. CASE c = old
      BY <1>0, <2>8, <2>9, <2>11, <3>1
    <3>2. CASE c = old + 1 /\ call[s].op = "finish" /\ metered[s]
      BY <1>0, <2>6, <2>8, <2>9, <2>11, <2>12, <3>2
    <3> QED BY <2>8, <3>1, <3>2
  <2>16. old = continued[on[s]]
    BY DEF old
  <2> QED BY <1>0, <2>1, <2>2, <2>3, <2>4, <2>6, <2>8, <2>9, <2>10, <2>14, <2>15, <2>16, LoopOwn
<1> QED BY <1>2, <1>3

\* A new goal starts the count afresh, and a changed one keeps what it was charged.
LEMMA LoopWrite ==
  ASSUME Inv, Places, TokenInv, LoopInv, NEW s \in Sessions, Write(s)
  PROVE  LoopInv'
<1>0. /\ OthersStay(s) /\ Inv' /\ rt \in [Sessions -> Runtime] /\ on[s] \in Threads
      /\ file \in Files /\ GoalIds(file) /\ continued \in [Threads -> Nat]
      /\ metered \in [Sessions -> BOOLEAN] /\ created \in Nat
      /\ \A x \in Sessions : RuntimeOK(rt[x])
  BY StepInv, OneSession DEF StepOf, Work, Inv, FileOK, Places, LoopInv
<1>1. metered' = [metered EXCEPT ![s] = FALSE]
  BY DEF Write
<1>2. metered' \in [Sessions -> BOOLEAN] /\ \A x \in Sessions \ {s} : metered'[x] = metered[x]
  BY <1>0, <1>1
<1>3. ASSUME NEW id
      PROVE  /\ Paid(metered', phase', rt', id) \subseteq Paid(metered, phase, rt, id)
             /\ s \notin Paid(metered', phase', rt', id)
  <2>1. s \notin Paid(metered', phase', rt', id)
    BY <1>0, <1>1 DEF Paid
  <2> QED BY <1>0, <1>2, <2>1, PaidElsewhere
<1>4. CASE raced'
  <2>1. continued' = [t \in Threads |-> 0]
    BY <1>4 DEF Write, Forget
  <2> QED BY <1>2, <1>4, <2>1 DEF LoopInv
<1>5. CASE ~raced'
  <2>1. PICK h \in Goal :
          /\ ~raced /\ file' = [file EXCEPT ![on[s]] = h]
          /\ \/ /\ continued' = [continued EXCEPT ![on[s]] = 0]
                /\ h = NoGoal \/ h.id = created + 1
             \/ continued' = continued /\ h.used = file[on[s]].used /\ h.id = file[on[s]].id
    BY <1>5, Written
  <2>2. /\ OwnNames
        /\ \A t \in Threads : /\ continued[t] <= file[t].used
                              /\ file[t] # NoGoal =>
                                   continued[t] + Cardinality(Paid(metered, phase, rt, file[t].id)) <= file[t].used
    BY <2>1 DEF LoopInv, TokenInv
  <2>3. \A t \in Threads : file[t].used \in Nat /\ continued[t] \in Nat
    BY <1>0 DEF Files, Goal
  <2>4. h.used \in Nat
    BY DEF Goal
  <2>5. ASSUME NEW id
        PROVE  LET A == Paid(metered, phase, rt, id)
                   B == Paid(metered', phase', rt', id) IN
               Cardinality(A) \in Nat /\ Cardinality(B) \in Nat /\ Cardinality(B) <= Cardinality(A)
    <3> DEFINE A == Paid(metered, phase, rt, id)
               B == Paid(metered', phase', rt', id)
    <3>1. A \in SUBSET Sessions /\ B \in SUBSET Sessions /\ B \in SUBSET A
      BY <1>3 DEF Paid
    <3> HIDE DEF A, B
    <3>2. Cardinality(A) \in Nat /\ Cardinality(B) \in Nat /\ Cardinality(B) <= Cardinality(A)
      BY <3>1, PaidCount
    <3> QED BY <3>2 DEF A, B
  <2>6. ASSUME h.id = created + 1 PROVE Cardinality(Paid(metered', phase', rt', h.id)) = 0
    <3>1. ASSUME NEW x \in Sessions PROVE Holder(rt[x]) # h.id
      BY <1>0, <2>2, <2>6, HolderIsWall DEF OwnNames, Runtime
    <3>2. Paid(metered, phase, rt, h.id) = {}
      BY <3>1 DEF Paid
    <3>3. Paid(metered', phase', rt', h.id) = {}
      BY <1>3, <3>2
    <3> QED BY <3>3, FS_EmptySet
  <2>7. ASSUME NEW t \in Threads
        PROVE  /\ continued'[t] <= file'[t].used
               /\ file'[t] # NoGoal =>
                    continued'[t] + Cardinality(Paid(metered', phase', rt', file'[t].id)) <= file'[t].used
    <3>1. CASE t # on[s]
      <4>1. continued'[t] = continued[t] /\ file'[t] = file[t]
        BY <1>0, <2>1, <3>1 DEF Files
      <4> QED BY <2>2, <2>3, <2>5, <4>1
    <3>2. CASE t = on[s]
      <4>1. file'[t] = h
        BY <1>0, <2>1, <3>2 DEF Files
      <4>2. CASE continued'[t] = 0 /\ (h = NoGoal \/ h.id = created + 1)
        BY <2>4, <2>6, <4>1, <4>2
      <4>3. CASE continued' = continued /\ h.used = file[t].used /\ h.id = file[t].id
        <5>1. h # NoGoal => file[t] # NoGoal
          <6>1. GoalIds(file')
            BY <1>0, PlacedWrite DEF Places
          <6> QED BY <1>0, <3>2, <4>1, <4>3, <6>1 DEF GoalIds
        <5> QED BY <2>2, <2>3, <2>5, <4>1, <4>3, <5>1
      <4> QED BY <1>0, <2>1, <3>2, <4>2, <4>3
    <3> QED BY <3>1, <3>2
  <2>8. continued' \in [Threads -> Nat]
    BY <1>0, <2>1
  <2> QED BY <1>2, <2>7, <2>8 DEF LoopInv
<1> QED BY <1>4, <1>5

(* The budget ends the loop of the interface for a model that reports what *)
(* it uses: in any interleaving, a turn that continued a goal to its end,  *)
(* and one of whose responses had usage, has been charged at least a token *)
(* (record_token_usage, _account_progress, _run_goal_continuations_human). *)
THEOREM LoopEnds == Spec => []LoopIsCharged
<1>1. Init => LoopInv
  <2> SUFFICES ASSUME Init PROVE LoopInv
    OBVIOUS
  <2>1. \A t \in Threads : file[t] = NoGoal /\ continued[t] = 0 /\ NoGoal.used = 0
    BY DEF Init, NoGoal
  <2> QED BY <2>1 DEF Init, LoopInv
<1>2. Inv /\ Places /\ TokenInv /\ LoopInv /\ [Next]_vars => LoopInv'
  <2> SUFFICES ASSUME Inv, Places, TokenInv, LoopInv, [Next]_vars PROVE LoopInv'
    OBVIOUS
  <2>1. CASE UNCHANGED vars
    BY <2>1 DEF vars, ghosts, LoopInv, Paid
  <2>2. ASSUME NEW s \in Sessions, StepOf(s) PROVE LoopInv'
    BY <2>2, LoopTurns, LoopLooks, LoopAccount, LoopCharge, LoopWrite DEF StepOf, Work
  <2> QED BY <2>1, <2>2 DEF Next, StepOf
<1>3. LoopInv => LoopIsCharged
  BY DEF LoopInv, LoopIsCharged
<1> QED BY <1>1, <1>2, <1>3, TokenInvariance, PTL DEF Spec

-----------------------------------------------------------------------------
(* Chat.  Prompts, the queue and what is pending as sequences.             *)

\* A sequence, of whatever is in it.
Listing(x) == x \in Seq({x[i] : i \in DOMAIN x})

\* Every sequence is one of whatever is in it.
LEMMA ListingIs ==
  ASSUME NEW U, NEW x \in Seq(U)
  PROVE  Listing(x) /\ DOMAIN x = 1..Len(x) /\ Len(x) \in Nat
<1>1. x \in [1..Len(x) -> U] /\ Len(x) \in Nat BY LenProperties
<1>2. x \in [1..Len(x) -> {x[i] : i \in DOMAIN x}] BY <1>1
<1> QED BY <1>1, <1>2, SeqDef DEF Listing

\* The empty prompt, and the empty queue, hold no submission.
LEMMA NoIds == Listing(<<>>) /\ IdsOf(<<>>) = {} /\ Ids(<<>>) = {} /\ DOMAIN <<>> = {}
<1>1. <<>> \in Seq({}) /\ DOMAIN <<>> = {} BY EmptySeq
<1> QED BY <1>1, ListingIs DEF IdsOf, Ids

\* A prompt of one line (what _submit_turn_input appends) holds that line's submission.
LEMMA OneId ==
  ASSUME NEW l
  PROVE  Listing(<<l>>) /\ IdsOf(<<l>>) = {l.id} /\ Ids(<<l>>) = IdsOf(l)
<1>1. <<l>> \in Seq({l}) /\ DOMAIN <<l>> = {1} /\ <<l>>[1] = l OBVIOUS
<1>2. Listing(<<l>>) BY <1>1, ListingIs
<1> DEFINE x == <<l>>
<1>3. DOMAIN x = {1} /\ x[1] = l BY <1>1
<1> HIDE DEF x
<1>4. IdsOf(x) = {l.id} /\ Ids(x) = IdsOf(l) BY <1>3 DEF IdsOf, Ids
<1> QED BY <1>2, <1>4 DEF x

\* Prompts that are joined (Esc, or /default with lines behind it) hold what either held.
LEMMA JoinedIds ==
  ASSUME NEW x, NEW y, Listing(x), Listing(y)
  PROVE  /\ Listing(x \o y) /\ IdsOf(x \o y) = IdsOf(x) \cup IdsOf(y)
         /\ DOMAIN (x \o y) = 1..(Len(x) + Len(y))
         /\ \A i \in DOMAIN (x \o y) : (x \o y)[i] = IF i <= Len(x) THEN x[i] ELSE y[i - Len(x)]
<1> DEFINE U == {x[i] : i \in DOMAIN x} \cup {y[i] : i \in DOMAIN y}
<1>1. x \in Seq(U) /\ y \in Seq(U)
  <2>1. {x[i] : i \in DOMAIN x} \subseteq U /\ {y[i] : i \in DOMAIN y} \subseteq U OBVIOUS
  <2> HIDE DEF U
  <2> QED BY <2>1, SeqMonotonic DEF Listing
<1> HIDE DEF U
<1>2. /\ x \o y \in Seq(U) /\ Len(x \o y) = Len(x) + Len(y)
      /\ \A i \in 1..(Len(x) + Len(y)) : (x \o y)[i] = IF i <= Len(x) THEN x[i] ELSE y[i - Len(x)]
  BY <1>1, ConcatProperties
<1>3. /\ DOMAIN x = 1..Len(x) /\ DOMAIN y = 1..Len(y) /\ Len(x) \in Nat /\ Len(y) \in Nat
      /\ DOMAIN (x \o y) = 1..(Len(x) + Len(y)) /\ Listing(x \o y)
  BY <1>1, <1>2, ListingIs
<1>4. ASSUME NEW n \in IdsOf(x \o y) PROVE n \in IdsOf(x) \cup IdsOf(y)
  <2>1. PICK i \in 1..(Len(x) + Len(y)) : n = (x \o y)[i].id BY <1>3, <1>4 DEF IdsOf
  <2>2. CASE i <= Len(x)
    <3>1. i \in DOMAIN x /\ n = x[i].id BY <1>2, <1>3, <2>1, <2>2
    <3> QED BY <3>1 DEF IdsOf
  <2>3. CASE ~(i <= Len(x))
    <3>1. i - Len(x) \in DOMAIN y /\ n = y[i - Len(x)].id BY <1>2, <1>3, <2>1, <2>3
    <3> QED BY <3>1 DEF IdsOf
  <2> QED BY <2>2, <2>3
<1>5. ASSUME NEW n \in IdsOf(x) PROVE n \in IdsOf(x \o y)
  <2>1. PICK i \in DOMAIN x : n = x[i].id BY <1>5 DEF IdsOf
  <2>2. i \in 1..(Len(x) + Len(y)) /\ i <= Len(x) BY <1>3
  <2>3. i \in DOMAIN (x \o y) /\ (x \o y)[i] = x[i] BY <1>2, <1>3, <2>2
  <2> QED BY <2>1, <2>3 DEF IdsOf
<1>6. ASSUME NEW n \in IdsOf(y) PROVE n \in IdsOf(x \o y)
  <2>1. PICK i \in DOMAIN y : n = y[i].id BY <1>6 DEF IdsOf
  <2>2. /\ i + Len(x) \in 1..(Len(x) + Len(y)) /\ ~(i + Len(x) <= Len(x))
        /\ (i + Len(x)) - Len(x) = i
    BY <1>3
  <2>3. i + Len(x) \in DOMAIN (x \o y) /\ (x \o y)[i + Len(x)] = y[i] BY <1>2, <1>3, <2>2
  <2> QED BY <2>1, <2>3 DEF IdsOf
<1> QED BY <1>2, <1>3, <1>4, <1>5, <1>6

\* The head and the rest of a prompt or a queue.
LEMMA RestIds ==
  ASSUME NEW x, Listing(x), x # <<>>
  PROVE  /\ Listing(Tail(x)) /\ Head(x) = x[1] /\ 1 \in DOMAIN x
         /\ \A i \in DOMAIN Tail(x) : i + 1 \in DOMAIN x /\ i \in Nat /\ Tail(x)[i] = x[i + 1]
         /\ \A i \in DOMAIN x : i = 1 \/ (i - 1 \in DOMAIN Tail(x) /\ Tail(x)[i - 1] = x[i])
<1> DEFINE U == {x[i] : i \in DOMAIN x}
<1>1. x \in Seq(U) BY DEF Listing
<1> HIDE DEF U
<1>2. /\ Tail(x) \in Seq(U) /\ Len(Tail(x)) = Len(x) - 1 /\ Head(x) = x[1]
      /\ \A i \in 1..Len(Tail(x)) : Tail(x)[i] = x[i + 1]
  BY <1>1, HeadTailProperties
<1>3. Len(x) \in Nat /\ Len(x) # 0 /\ DOMAIN x = 1..Len(x) BY <1>1, ListingIs, EmptySeq
<1>4. DOMAIN Tail(x) = 1..Len(Tail(x)) /\ Listing(Tail(x)) BY <1>2, ListingIs
<1>5. \A i \in DOMAIN Tail(x) : i + 1 \in DOMAIN x /\ i \in Nat BY <1>2, <1>3, <1>4
<1>6. ASSUME NEW i \in DOMAIN x, i # 1 PROVE i - 1 \in DOMAIN Tail(x) /\ Tail(x)[i - 1] = x[i]
  <2>1. i - 1 \in 1..Len(Tail(x)) /\ (i - 1) + 1 = i BY <1>2, <1>3, <1>6
  <2> QED BY <1>2, <1>4, <2>1
<1> QED BY <1>2, <1>3, <1>4, <1>5, <1>6

\* The rest of a prompt holds nothing it did not hold.
LEMMA TailIds ==
  ASSUME NEW x, Listing(x), x # <<>>
  PROVE  IdsOf(Tail(x)) \subseteq IdsOf(x) /\ Head(x).id \in IdsOf(x)
BY RestIds DEF IdsOf

-----------------------------------------------------------------------------
(* The queue.                                                              *)

\* Whether the submission with this number had to wait for the turn.
WaitsAs(s, n) == Meanings[s[n]].waits
\* A submission is in one prompt of the queue, and one that had to wait is before
\* everything behind it.
InOrder(q, s) ==
  /\ Listing(q) /\ \A i \in DOMAIN q : Listing(q[i])
  /\ \A i, j \in DOMAIN q : i # j => IdsOf(q[i]) \cap IdsOf(q[j]) = {}
  /\ \A i, j \in DOMAIN q : i <= j =>
       \A n \in IdsOf(q[i]), m \in IdsOf(q[j]) : WaitsAs(s, n) => n <= m

\* One more submission gets the next number and changes nothing about the others.
LEMMA SaidMore ==
  ASSUME NEW s, Listing(s), NEW t
  PROVE  /\ Listing(Append(s, t)) /\ Len(Append(s, t)) = Len(s) + 1 /\ Len(s) \in Nat
         /\ DOMAIN Append(s, t) = DOMAIN s \cup {Len(s) + 1} /\ DOMAIN s = 1..Len(s)
         /\ Append(s, t)[Len(s) + 1] = t
         /\ \A n \in 1..Len(s) : Append(s, t)[n] = s[n]
         /\ \A n \in 1..Len(s) : WaitsAs(Append(s, t), n) <=> WaitsAs(s, n)
<1> DEFINE U == {s[i] : i \in DOMAIN s} \cup {t}
<1>1. s \in Seq(U) /\ t \in U
  <2>1. {s[i] : i \in DOMAIN s} \subseteq U OBVIOUS
  <2> QED BY <2>1, SeqMonotonic DEF Listing
<1> HIDE DEF U
<1>2. /\ Append(s, t) \in Seq(U) /\ Len(Append(s, t)) = Len(s) + 1
      /\ \A i \in 1..Len(s) : Append(s, t)[i] = s[i]
      /\ Append(s, t)[Len(s) + 1] = t
  BY <1>1, AppendProperties
<1>3. /\ Len(s) \in Nat /\ DOMAIN s = 1..Len(s) /\ DOMAIN Append(s, t) = 1..(Len(s) + 1)
      /\ Listing(Append(s, t))
  BY <1>1, <1>2, ListingIs
<1>4. 1..(Len(s) + 1) = 1..Len(s) \cup {Len(s) + 1} BY <1>3
<1>5. \A n \in 1..Len(s) : WaitsAs(Append(s, t), n) = WaitsAs(s, n) BY <1>2 DEF WaitsAs
<1> QED BY <1>2, <1>3, <1>4, <1>5

\* So the queue is in order still.
LEMMA SaidQueue ==
  ASSUME NEW q, NEW s, Listing(s), NEW t, InOrder(q, s), Ids(q) \subseteq 1..Len(s)
  PROVE  InOrder(q, Append(s, t))
<1>1. \A i \in DOMAIN q : \A n \in IdsOf(q[i]) : WaitsAs(Append(s, t), n) <=> WaitsAs(s, n)
  BY SaidMore DEF Ids
<1> QED BY <1>1 DEF InOrder

\* The queue is in order when the newest submission is appended to it (_submit_turn_input).
LEMMA QueueGrows ==
  ASSUME NEW q, NEW s, NEW p, Listing(p), InOrder(q, s),
         \A n \in Ids(q), m \in IdsOf(p) : n < m,
         Ids(q) \cup IdsOf(p) \subseteq Nat, \A n, m \in IdsOf(p) : n <= m
  PROVE  InOrder(Append(q, p), s) /\ Ids(Append(q, p)) = Ids(q) \cup IdsOf(p)
<1> DEFINE r == Append(q, p)
<1>1. /\ Listing(r) /\ Len(q) \in Nat /\ DOMAIN r = DOMAIN q \cup {Len(q) + 1} /\ DOMAIN q = 1..Len(q)
      /\ r[Len(q) + 1] = p /\ \A i \in DOMAIN q : r[i] = q[i]
  BY SaidMore DEF InOrder
<1> HIDE DEF r
<1>2. Ids(r) = Ids(q) \cup IdsOf(p) BY <1>1 DEF Ids
<1>3. \A i \in DOMAIN q : IdsOf(q[i]) \subseteq Ids(q) BY DEF Ids
<1>4. \A i \in DOMAIN r : Listing(r[i]) BY <1>1 DEF InOrder
<1>5. ASSUME NEW i \in DOMAIN r, NEW j \in DOMAIN r, i # j PROVE IdsOf(r[i]) \cap IdsOf(r[j]) = {}
  <2>1. CASE i \in DOMAIN q /\ j \in DOMAIN q BY <1>1, <1>5, <2>1 DEF InOrder
  <2>2. CASE i \in DOMAIN q /\ j = Len(q) + 1 BY <1>1, <1>3, <2>2
  <2>3. CASE j \in DOMAIN q /\ i = Len(q) + 1 BY <1>1, <1>3, <2>3
  <2> QED BY <1>1, <1>5, <2>1, <2>2, <2>3
<1>6. ASSUME NEW i \in DOMAIN r, NEW j \in DOMAIN r, i <= j,
             NEW n \in IdsOf(r[i]), NEW m \in IdsOf(r[j]), WaitsAs(s, n)
      PROVE  n <= m
  <2>1. CASE i \in DOMAIN q /\ j \in DOMAIN q BY <1>1, <1>6, <2>1 DEF InOrder
  <2>2. CASE i \in DOMAIN q /\ j = Len(q) + 1
    <3>1. n \in Ids(q) /\ m \in IdsOf(p) BY <1>1, <1>3, <1>6, <2>2
    <3>2. n \in Nat /\ m \in Nat /\ n < m BY <3>1
    <3> QED BY <3>2
  <2>3. CASE i = Len(q) + 1
    <3>1. j = Len(q) + 1 BY <1>1, <1>6, <2>3
    <3> QED BY <1>1, <1>6, <2>3, <3>1
  <2> QED BY <1>1, <1>6, <2>1, <2>2, <2>3
<1> QED BY <1>1, <1>2, <1>4, <1>5, <1>6 DEF InOrder, r

\* It is in order when what did not have to wait is put in front of it (Esc).
LEMMA QueueFront ==
  ASSUME NEW q, NEW s, NEW p, Listing(p), InOrder(q, s),
         IdsOf(p) \cap Ids(q) = {}, \A n \in IdsOf(p) : ~WaitsAs(s, n)
  PROVE  InOrder(<<p>> \o q, s) /\ Ids(<<p>> \o q) = Ids(q) \cup IdsOf(p)
<1> DEFINE r == <<p>> \o q
<1>0. Listing(<<p>>) /\ Len(<<p>>) = 1 /\ <<p>>[1] = p BY OneId
<1>1. /\ Listing(r) /\ DOMAIN r = 1..(1 + Len(q))
      /\ \A i \in DOMAIN r : r[i] = IF i <= 1 THEN p ELSE q[i - 1]
  <2>1. /\ Listing(r) /\ DOMAIN r = 1..(Len(<<p>>) + Len(q))
        /\ \A i \in DOMAIN r : r[i] = IF i <= Len(<<p>>) THEN <<p>>[i] ELSE q[i - Len(<<p>>)]
    BY <1>0, JoinedIds DEF InOrder
  <2> QED BY <1>0, <2>1
<1>2. DOMAIN q = 1..Len(q) /\ Len(q) \in Nat BY ListingIs DEF InOrder, Listing
<1> HIDE DEF r
<1>3. 1 \in DOMAIN r /\ r[1] = p /\ \A i \in DOMAIN q : i + 1 \in DOMAIN r /\ r[i + 1] = q[i]
  <2>1. 1 \in DOMAIN r /\ \A i \in DOMAIN q : i + 1 \in DOMAIN r /\ ~(i + 1 <= 1) /\ (i + 1) - 1 = i
    BY <1>1, <1>2
  <2> QED BY <1>1, <2>1
<1>4. \A i \in DOMAIN r : i = 1 \/ (i - 1 \in DOMAIN q /\ r[i] = q[i - 1])
  <2> TAKE i \in DOMAIN r
  <2>1. i = 1 \/ (~(i <= 1) /\ i - 1 \in DOMAIN q) BY <1>1, <1>2
  <2> QED BY <1>1, <2>1
<1>5. Ids(r) = Ids(q) \cup IdsOf(p)
  <2>1. Ids(r) \subseteq Ids(q) \cup IdsOf(p) BY <1>3, <1>4 DEF Ids
  <2>2. Ids(q) \cup IdsOf(p) \subseteq Ids(r) BY <1>3 DEF Ids
  <2> QED BY <2>1, <2>2
<1>6. \A i \in DOMAIN q : IdsOf(q[i]) \subseteq Ids(q) BY DEF Ids
<1>7. \A i \in DOMAIN r : Listing(r[i]) BY <1>3, <1>4 DEF InOrder
<1>8. ASSUME NEW i \in DOMAIN r, NEW j \in DOMAIN r, i # j PROVE IdsOf(r[i]) \cap IdsOf(r[j]) = {}
  <2>1. CASE i = 1
    <3>1. j - 1 \in DOMAIN q /\ r[j] = q[j - 1] BY <1>4, <1>8, <2>1
    <3> QED BY <1>3, <1>6, <2>1, <3>1
  <2>2. CASE j = 1
    <3>1. i - 1 \in DOMAIN q /\ r[i] = q[i - 1] BY <1>4, <1>8, <2>2
    <3> QED BY <1>3, <1>6, <2>2, <3>1
  <2>3. CASE i # 1 /\ j # 1
    <3>1. /\ i - 1 \in DOMAIN q /\ r[i] = q[i - 1] /\ j - 1 \in DOMAIN q /\ r[j] = q[j - 1]
          /\ i - 1 # j - 1
      BY <1>1, <1>2, <1>4, <1>8, <2>3
    <3> QED BY <3>1 DEF InOrder
  <2> QED BY <2>1, <2>2, <2>3
<1>9. ASSUME NEW i \in DOMAIN r, NEW j \in DOMAIN r, i <= j,
             NEW n \in IdsOf(r[i]), NEW m \in IdsOf(r[j]), WaitsAs(s, n)
      PROVE  n <= m
  <2>1. i # 1 BY <1>3, <1>9
  <2>2. j # 1 BY <1>1, <1>2, <1>9, <2>1
  <2>3. /\ i - 1 \in DOMAIN q /\ r[i] = q[i - 1] /\ j - 1 \in DOMAIN q /\ r[j] = q[j - 1]
        /\ i - 1 <= j - 1
    BY <1>1, <1>2, <1>4, <1>9, <2>1, <2>2
  <2> QED BY <1>9, <2>3 DEF InOrder
<1> QED BY <1>1, <1>5, <1>7, <1>8, <1>9 DEF InOrder, r

\* It is in order without its first prompt, which is before all that is left (_run_chat).
LEMMA QueueShrinks ==
  ASSUME NEW q, NEW s, InOrder(q, s), q # <<>>
  PROVE  /\ InOrder(Tail(q), s) /\ Listing(Head(q))
         /\ Ids(q) = IdsOf(Head(q)) \cup Ids(Tail(q))
         /\ IdsOf(Head(q)) \cap Ids(Tail(q)) = {}
         /\ \A n \in IdsOf(Head(q)), m \in IdsOf(Head(q)) \cup Ids(Tail(q)) : WaitsAs(s, n) => n <= m
<1> DEFINE r == Tail(q)
<1>1. /\ Listing(r) /\ Head(q) = q[1] /\ 1 \in DOMAIN q
      /\ \A i \in DOMAIN r : i + 1 \in DOMAIN q /\ i \in Nat /\ r[i] = q[i + 1]
      /\ \A i \in DOMAIN q : i = 1 \/ (i - 1 \in DOMAIN r /\ r[i - 1] = q[i])
  BY RestIds DEF InOrder
<1> HIDE DEF r
<1>2. Listing(Head(q)) /\ \A i \in DOMAIN r : Listing(r[i]) BY <1>1 DEF InOrder
<1>3. Ids(q) = IdsOf(Head(q)) \cup Ids(r)
  <2>1. Ids(q) \subseteq IdsOf(Head(q)) \cup Ids(r) BY <1>1 DEF Ids
  <2>2. IdsOf(Head(q)) \cup Ids(r) \subseteq Ids(q) BY <1>1 DEF Ids
  <2> QED BY <2>1, <2>2
<1>4. \A i \in DOMAIN r : i + 1 # 1 /\ 1 <= i + 1 BY <1>1
<1>5. IdsOf(Head(q)) \cap Ids(r) = {} BY <1>1, <1>4 DEF InOrder, Ids
<1>6. \A i, j \in DOMAIN r : i # j => IdsOf(r[i]) \cap IdsOf(r[j]) = {}
  <2>1. \A i, j \in DOMAIN r : i # j => i + 1 # j + 1 BY <1>1
  <2> QED BY <1>1, <2>1 DEF InOrder
<1>7. \A i, j \in DOMAIN r : i <= j =>
        \A n \in IdsOf(r[i]), m \in IdsOf(r[j]) : WaitsAs(s, n) => n <= m
  <2>1. \A i, j \in DOMAIN r : i <= j => i + 1 <= j + 1 BY <1>1
  <2> QED BY <1>1, <2>1 DEF InOrder
<1>8. \A n \in IdsOf(Head(q)), m \in IdsOf(Head(q)) \cup Ids(r) : WaitsAs(s, n) => n <= m
  <2>1. \A m \in Ids(r) : \E j \in DOMAIN q : 1 <= j /\ m \in IdsOf(q[j]) BY <1>1, <1>4 DEF Ids
  <2> QED BY <1>1, <2>1 DEF InOrder
<1> QED BY <1>1, <1>2, <1>3, <1>5, <1>6, <1>7, <1>8 DEF InOrder, r

-----------------------------------------------------------------------------
(* The invariant of the conversation.                                      *)

\* Where the two threads can be, and where prompts are then.
Stages ==
  /\ main \in {"loop", "turn", "compact", "goals", "over"}
  /\ main \in {"loop", "over"} => thread = "none"
  /\ main = "turn" => thread \in {"start", "open", "loop", "record", "ask", "after", "dead"}
  /\ main = "compact" => thread \in {"compact", "dead"}
  /\ main = "goals" => thread \in {"none", "goal", "ask"}
  /\ main \in {"compact", "goals", "over"} => prompt = None
  /\ pending # <<>> => main = "turn" /\ Steerable
  /\ taken # <<>> => main = "turn" /\ thread = "record"
\* What holds lines or texts is a sequence.
Listings == Listing(said) /\ Listing(prompt) /\ Listing(pending) /\ Listing(taken)
\* Only what was submitted is anywhere.
Numbered ==
  IdsOf(prompt) \cup Ids(queue) \cup IdsOf(pending) \cup IdsOf(taken) \cup sent \cup ran \subseteq DOMAIN said
\* Five sets that share nothing.
Apart(a, b, c, d, e) ==
  /\ a \cap b = {} /\ a \cap c = {} /\ a \cap d = {} /\ a \cap e = {} /\ b \cap c = {}
  /\ b \cap d = {} /\ b \cap e = {} /\ c \cap d = {} /\ c \cap e = {} /\ d \cap e = {}
\* No submission is in two of the places it can wait or end in.
Once == Apart(Ids(queue), IdsOf(pending), IdsOf(taken), sent, AtHand)
\* Each is accounted for, and so is what a turn has, should the turn end.
Kept ==
  /\ DOMAIN said \subseteq Waiting \cup sent \cup ran \cup behind \cup unread \cup cut
  /\ IdsOf(pending) \cup IdsOf(taken) \subseteq unread
  /\ IdsOf(prompt) \subseteq AtHand \cup sent \cup cut
\* One that had to wait is before all that is behind it; what steers the turn never had
\* to wait, so Esc may put it in front of the queue.
WaitInOrder ==
  /\ InOrder(queue, said)
  /\ \A n \in IdsOf(pending) : ~WaitsAs(said, n)
  /\ main = "loop" =>
       \A n \in IdsOf(prompt), m \in IdsOf(prompt) \cup Ids(queue) : WaitsAs(said, n) => n <= m
\* The property, as a part of the invariant.
RanInTurn == \A n \in ran, m \in Waiting : m < n => ~WaitsAs(said, n)
ChatInv == Stages /\ Listings /\ Numbered /\ Once /\ Kept /\ WaitInOrder /\ RanInTurn

\* Five places share nothing when no two of them do.
LEMMA OnceIs ==
  ASSUME NEW a, NEW b, NEW c, NEW d, NEW e
  PROVE  LET places == <<a, b, c, d, e>> IN
         (\A i, j \in DOMAIN places : i # j => places[i] \cap places[j] = {}) <=> Apart(a, b, c, d, e)
<1> DEFINE s == <<a, b, c, d, e>>
<1>1. DOMAIN s = 1..5 /\ s[1] = a /\ s[2] = b /\ s[3] = c /\ s[4] = d /\ s[5] = e OBVIOUS
<1> HIDE DEF s
<1>2. ASSUME Apart(a, b, c, d, e), NEW i \in DOMAIN s, NEW j \in DOMAIN s, i # j
      PROVE  s[i] \cap s[j] = {}
  <2>1. i \in {1, 2, 3, 4, 5} /\ j \in {1, 2, 3, 4, 5} BY <1>1, <1>2
  <2> QED BY <1>1, <1>2, <2>1 DEF Apart
<1>3. ASSUME \A i, j \in DOMAIN s : i # j => s[i] \cap s[j] = {} PROVE Apart(a, b, c, d, e)
  <2>1. \A i, j \in 1..5 : i # j => s[i] \cap s[j] = {} BY <1>1, <1>3
  <2>2. /\ s[1] \cap s[2] = {} /\ s[1] \cap s[3] = {} /\ s[1] \cap s[4] = {} /\ s[1] \cap s[5] = {}
        /\ s[2] \cap s[3] = {} /\ s[2] \cap s[4] = {} /\ s[2] \cap s[5] = {} /\ s[3] \cap s[4] = {}
        /\ s[3] \cap s[5] = {} /\ s[4] \cap s[5] = {}
    BY <2>1
  <2> QED BY <1>1, <2>2 DEF Apart
<1> QED BY <1>2, <1>3 DEF s

\* Before the first prompt nothing was submitted.
LEMMA ChatStart == ChatInit => ChatInv
<1> SUFFICES ASSUME ChatInit PROVE ChatInv OBVIOUS
<1>1. /\ main = "loop" /\ thread = "none" /\ prompt = <<>> /\ queue = <<>> /\ pending = <<>> /\ taken = <<>>
      /\ said = <<>> /\ sent = {} /\ ran = {}
  BY DEF ChatInit, None
<1>2. /\ Listing(<<>>) /\ IdsOf(prompt) = {} /\ IdsOf(pending) = {} /\ IdsOf(taken) = {} /\ Ids(queue) = {}
      /\ DOMAIN said = {} /\ DOMAIN queue = {}
  BY <1>1, NoIds
<1>3. AtHand = {} BY <1>1, <1>2 DEF AtHand
<1>4. Stages /\ Listings BY <1>1, <1>2 DEF Stages, Listings, None
<1>5. Numbered /\ Kept BY <1>1, <1>2 DEF Numbered, Kept
<1>6. Once BY <1>1, <1>2, <1>3 DEF Once, Apart
<1>7. WaitInOrder /\ RanInTurn BY <1>1, <1>2 DEF WaitInOrder, InOrder, RanInTurn
<1> QED BY <1>4, <1>5, <1>6, <1>7 DEF ChatInv

-----------------------------------------------------------------------------
(* Steps.                                                                  *)

\* A step that moves no submission.
LEMMA QuietChat ==
  ASSUME ChatInv, Stages', AtHand' = AtHand,
         UNCHANGED <<prompt, queue, pending, taken, said, sent, ran, behind, unread, cut>>,
         main' = "loop" => main = "loop" \/ prompt = None
  PROVE  ChatInv'
<1>1. /\ IdsOf(prompt)' = IdsOf(prompt) /\ Ids(queue)' = Ids(queue) /\ IdsOf(pending)' = IdsOf(pending)
      /\ IdsOf(taken)' = IdsOf(taken)
  BY DEF IdsOf, Ids
<1>2. Waiting' = Waiting BY <1>1 DEF Waiting
<1>3. Listings' /\ Numbered' BY <1>1 DEF ChatInv, Listings, Numbered
<1>4. Once' /\ Kept' BY <1>1, <1>2 DEF ChatInv, Once, Kept
<1>5. IdsOf(prompt) = {} \/ (main' = "loop" => main = "loop") BY NoIds DEF None
<1>6. WaitInOrder' BY <1>1, <1>5 DEF ChatInv, WaitInOrder
<1>7. RanInTurn' BY <1>2 DEF ChatInv, RanInTurn
<1> QED BY <1>3, <1>4, <1>6, <1>7 DEF ChatInv

\* _run_chat takes the first prompt of the queue.
LEMMA NextQueuedKeeps ==
  ASSUME ChatInv, NextQueued
  PROVE  ChatInv'
<1>1. /\ main = "loop" /\ prompt = <<>> /\ queue # <<>> /\ prompt' = Head(queue) /\ queue' = Tail(queue)
      /\ UNCHANGED <<main, thread, pending, taken, said, sent, ran, behind, unread, cut>>
  BY DEF NextQueued, turn, chatGhosts, None
<1>2. thread = "none" /\ pending = <<>> /\ taken = <<>> BY <1>1 DEF ChatInv, Stages
<1> DEFINE H == IdsOf(Head(queue))
           Q == Ids(Tail(queue))
<1>3. /\ InOrder(Tail(queue), said) /\ Listing(Head(queue)) /\ Ids(queue) = H \cup Q /\ H \cap Q = {}
      /\ \A n \in H, m \in H \cup Q : WaitsAs(said, n) => n <= m
  BY <1>1, QueueShrinks DEF ChatInv, WaitInOrder
<1>4. /\ IdsOf(prompt)' = H /\ Ids(queue)' = Q
      /\ IdsOf(pending)' = IdsOf(pending) /\ IdsOf(taken)' = IdsOf(taken)
  BY <1>1 DEF IdsOf, Ids
<1> HIDE DEF H, Q
<1>5. IdsOf(prompt) = {} /\ IdsOf(pending) = {} /\ IdsOf(taken) = {} BY <1>1, <1>2, NoIds
<1>6. AtHand = {} /\ AtHand' = H BY <1>1, <1>2, <1>4, <1>5 DEF AtHand
<1>7. Waiting' = Waiting BY <1>3, <1>4, <1>5, <1>6 DEF Waiting
<1>8. Stages' BY <1>1, <1>2 DEF ChatInv, Stages, None
<1>9. Listings' /\ Numbered' BY <1>1, <1>3, <1>4, <1>5 DEF ChatInv, Listings, Numbered
<1>10. Once' BY <1>1, <1>3, <1>4, <1>5, <1>6 DEF ChatInv, Once, Apart
<1>11. Kept' BY <1>1, <1>4, <1>5, <1>6, <1>7 DEF ChatInv, Kept
<1>12. WaitInOrder' BY <1>1, <1>3, <1>4, <1>5 DEF ChatInv, WaitInOrder
<1>13. RanInTurn' BY <1>1, <1>7 DEF ChatInv, RanInTurn
<1> QED BY <1>8, <1>9, <1>10, <1>11, <1>12, <1>13 DEF ChatInv

\* _read_interactive_prompt: a prompt typed while nothing runs and nothing waits.
LEMMA ReadPromptKeeps ==
  ASSUME ChatInv, ReadPrompt
  PROVE  ChatInv'
<1> DEFINE N == Len(said) + 1
<1>1. PICK t : /\ prompt' = <<[text |-> t, id |-> N]>> /\ said' = Append(said, t)
               /\ main = "loop" /\ prompt = <<>> /\ queue = <<>>
               /\ UNCHANGED <<main, thread, queue, pending, taken, sent, ran, behind, unread, cut>>
  BY DEF ReadPrompt, turn, None, Submitted
<1>2. thread = "none" /\ pending = <<>> /\ taken = <<>> BY <1>1 DEF ChatInv, Stages
<1>3. /\ Listing(said') /\ DOMAIN said' = DOMAIN said \cup {N} /\ DOMAIN said = 1..Len(said)
      /\ Len(said) \in Nat /\ \A n \in 1..Len(said) : WaitsAs(said', n) <=> WaitsAs(said, n)
  BY <1>1, SaidMore DEF ChatInv, Listings
<1>4. Listing(prompt') /\ IdsOf(prompt)' = {N} BY <1>1, OneId DEF IdsOf
<1>5. /\ Ids(queue)' = {} /\ IdsOf(pending)' = {} /\ IdsOf(taken)' = {}
      /\ Ids(queue) = {} /\ IdsOf(pending) = {} /\ IdsOf(taken) = {} /\ IdsOf(prompt) = {}
  BY <1>1, <1>2, NoIds DEF IdsOf, Ids
<1>6. AtHand = {} /\ AtHand' = {N} BY <1>1, <1>2, <1>4, <1>5 DEF AtHand
<1>7. Waiting = {} /\ Waiting' = {N} BY <1>5, <1>6 DEF Waiting
<1>8. sent \cup ran \subseteq 1..Len(said) BY <1>3 DEF ChatInv, Numbered
<1>9. N \notin sent /\ \A n \in ran : ~(N < n) BY <1>3, <1>8
<1> HIDE DEF N
<1>10. Stages' BY <1>1, <1>2 DEF ChatInv, Stages, None
<1>11. Listings' /\ Numbered' BY <1>1, <1>3, <1>4, <1>5, <1>8 DEF ChatInv, Listings, Numbered
<1>12. Once' BY <1>1, <1>5, <1>6, <1>9 DEF Once, Apart
<1>13. Kept' BY <1>1, <1>3, <1>4, <1>5, <1>6, <1>7 DEF ChatInv, Kept
<1>14. WaitInOrder'
  <2>1. InOrder(queue', said') BY <1>1, NoIds DEF InOrder
  <2>2. N <= N BY <1>3 DEF N
  <2> QED BY <1>4, <1>5, <2>1, <2>2 DEF WaitInOrder
<1>15. RanInTurn' BY <1>1, <1>7, <1>9 DEF RanInTurn
<1> QED BY <1>10, <1>11, <1>12, <1>13, <1>14, <1>15 DEF ChatInv

\* A command is done: what is left of it comes from the prompt at hand.
LEMMA DoneKeeps ==
  ASSUME ChatInv, main = "loop", prompt # None, NEW left, CommandDone(left), Stages', main' # "turn",
         Listing(left), IdsOf(left) \subseteq IdsOf(prompt), UNCHANGED <<queue, pending, taken>>
  PROVE  ChatInv'
<1> DEFINE n == Head(prompt).id
<1>1. /\ prompt' = left /\ ran' = ran \cup {n}
      /\ behind' = behind \cup (IdsOf(prompt) \ ({n} \cup IdsOf(left)))
      /\ UNCHANGED <<said, sent, unread, cut>>
  BY DEF CommandDone
<1>2. thread = "none" /\ pending = <<>> /\ taken = <<>> BY DEF ChatInv, Stages
<1>3. IdsOf(pending) = {} /\ IdsOf(taken) = {} BY <1>2, NoIds
<1>4. /\ IdsOf(prompt)' = IdsOf(left) /\ Ids(queue)' = Ids(queue)
      /\ IdsOf(pending)' = {} /\ IdsOf(taken)' = {}
  BY <1>1, <1>2, NoIds DEF IdsOf, Ids
<1>5. AtHand = IdsOf(prompt) BY <1>2 DEF AtHand
<1>6. AtHand' = IdsOf(left)
  <2>1. CASE main' \in {"loop", "over"}
    <3>1. thread' = "none" BY <2>1 DEF Stages
    <3> QED BY <1>4, <3>1 DEF AtHand
  <2>2. CASE main' \in {"compact", "goals"}
    <3>1. IdsOf(left) = {} BY <1>1, <2>2, NoIds DEF Stages, None
    <3>2. AtHand' = IdsOf(prompt)' \/ AtHand' = {} BY DEF AtHand
    <3> QED BY <1>4, <3>1, <3>2
  <2> QED BY <2>1, <2>2 DEF Stages
<1>7. n \in IdsOf(prompt) BY TailIds DEF ChatInv, Listings, None
<1>8. Waiting' \subseteq Waiting BY <1>3, <1>4, <1>5, <1>6 DEF Waiting
<1> HIDE DEF n
<1>9. Listings' /\ Numbered' BY <1>1, <1>4, <1>7 DEF ChatInv, Listings, Numbered
<1>10. Once' BY <1>1, <1>3, <1>4, <1>5, <1>6 DEF ChatInv, Once, Apart
<1>11. Kept'
  <2>1. Waiting = IdsOf(prompt) \cup Ids(queue) /\ Waiting' = IdsOf(left) \cup Ids(queue)
    BY <1>3, <1>4, <1>5, <1>6 DEF Waiting
  <2> QED BY <1>1, <1>4, <1>6, <2>1 DEF ChatInv, Kept
<1>12. WaitInOrder' BY <1>1, <1>4 DEF ChatInv, WaitInOrder
<1>13. RanInTurn'
  <2>1. ASSUME NEW m \in Waiting', m < n PROVE ~WaitsAs(said, n)
    <3>1. m \in IdsOf(prompt) \cup Ids(queue) BY <1>3, <1>4, <1>6, <2>1 DEF Waiting
    <3>2. WaitsAs(said, n) => n <= m BY <1>7, <3>1 DEF ChatInv, WaitInOrder
    <3>3. n \in Nat /\ m \in Nat
      <4>1. DOMAIN said = 1..Len(said) BY SaidMore DEF ChatInv, Listings
      <4> QED BY <1>7, <3>1, <4>1 DEF ChatInv, Numbered
    <3> QED BY <2>1, <3>2, <3>3
  <2> QED BY <1>1, <1>8, <2>1 DEF ChatInv, RanInTurn
<1> QED BY <1>9, <1>10, <1>11, <1>12, <1>13 DEF ChatInv

\* What is left of a command's text is of the command's submission.
LEMMA LeftIds ==
  ASSUME ChatInv, prompt # None, NEW t
  PROVE  Listing(Left(t)) /\ IdsOf(Left(t)) \subseteq IdsOf(prompt)
<1>1. Head(prompt).id \in IdsOf(prompt) BY TailIds DEF ChatInv, Listings, None
<1>2. CASE t = <<>> BY <1>2, NoIds DEF Left, None
<1>3. CASE t # <<>>
  <2> DEFINE l == [text |-> t, id |-> Head(prompt).id]
  <2>1. Left(t) = <<l>> /\ l.id = Head(prompt).id BY <1>3 DEF Left
  <2> HIDE DEF l
  <2> QED BY <1>1, <2>1, OneId
<1> QED BY <1>2, <1>3

\* Every command of _handle_interactive_slash_command ends by leaving some of its prompt, or none.
LEMMA CommandsKeep ==
  ASSUME ChatInv, Command \/ Exit \/ SetMode \/ Another \/ InitFile \/ SetGoal \/ StartCompact
  PROVE  ChatInv'
<1>0. Listing(None) /\ IdsOf(None) \subseteq IdsOf(prompt) BY NoIds DEF None
<1>1. main = "loop" /\ prompt # None /\ UNCHANGED <<queue, pending, taken>>
  BY DEF Command, Exit, SetMode, Another, InitFile, SetGoal, StartCompact, Dispatched, turn
<1>2. thread = "none" /\ pending = <<>> /\ taken = <<>> BY <1>1 DEF ChatInv, Stages
<1>3. /\ Listing(RestOf) /\ IdsOf(RestOf) \subseteq IdsOf(prompt)
      /\ Listing(RestOf \o Tail(prompt)) /\ IdsOf(RestOf \o Tail(prompt)) \subseteq IdsOf(prompt)
  <2>1. Listing(RestOf) /\ IdsOf(RestOf) \subseteq IdsOf(prompt) BY <1>1, LeftIds DEF RestOf
  <2>2. Listing(Tail(prompt)) /\ IdsOf(Tail(prompt)) \subseteq IdsOf(prompt)
    BY <1>1, RestIds, TailIds DEF ChatInv, Listings, None
  <2> QED BY <2>1, <2>2, JoinedIds
<1>4. CASE Command \/ Another
  <2>1. CommandDone(None) /\ UNCHANGED <<main, thread>> BY <1>4 DEF Command, Another, turn
  <2>2. Stages' BY <1>1, <1>2, <2>1 DEF Stages
  <2> QED BY <1>0, <1>1, <2>1, <2>2, DoneKeeps
<1>5. CASE Exit
  <2>1. CommandDone(None) /\ main' = "over" /\ UNCHANGED thread BY <1>5 DEF Exit, turn
  <2>2. Stages' BY <1>1, <1>2, <2>1 DEF Stages, CommandDone
  <2> QED BY <1>0, <1>1, <2>1, <2>2, DoneKeeps
<1>6. CASE SetGoal
  <2>1. CommandDone(None) /\ main' \in {"loop", "goals"} /\ UNCHANGED thread BY <1>6 DEF SetGoal, turn
  <2>2. Stages' BY <1>1, <1>2, <2>1 DEF Stages, CommandDone
  <2> QED BY <1>0, <1>1, <2>1, <2>2, DoneKeeps
<1>7. CASE StartCompact
  <2>1. CommandDone(None) /\ main' = "compact" /\ thread' = "compact" BY <1>7 DEF StartCompact
  <2>2. Stages' BY <1>1, <1>2, <2>1 DEF Stages, CommandDone
  <2> QED BY <1>0, <1>1, <2>1, <2>2, DoneKeeps
<1>8. CASE SetMode
  <2>1. (CommandDone(RestOf) \/ CommandDone(RestOf \o Tail(prompt))) /\ UNCHANGED <<main, thread>>
    BY <1>8 DEF SetMode, turn
  <2>2. Stages' BY <1>1, <1>2, <2>1 DEF Stages
  <2> QED BY <1>1, <1>3, <2>1, <2>2, DoneKeeps
<1>9. CASE InitFile
  <2>1. PICK left \in {None, Left(InitPrompt)} : CommandDone(left) BY <1>9 DEF InitFile
  <2>2. UNCHANGED <<main, thread>> BY <1>9 DEF InitFile, turn
  <2>3. Stages' BY <1>1, <1>2, <2>2 DEF Stages
  <2>4. Listing(left) /\ IdsOf(left) \subseteq IdsOf(prompt) BY <1>0, <1>1, LeftIds
  <2> QED BY <1>1, <1>9, <2>1, <2>2, <2>3, <2>4, DoneKeeps
<1> QED BY <1>4, <1>5, <1>6, <1>7, <1>8, <1>9

\* Steps that change only where the threads are.
LEMMA QuietKeeps ==
  ASSUME ChatInv,
         \/ LeaveChat \/ StartTurn \/ Type \/ Interrupt \/ EscCompact \/ Answer \/ EndCompact \/ Open \/ Ask
         \/ Finish \/ CompactDone \/ GoalTurn \/ GoalTurnEnds \/ GoalsRest \/ UNCHANGED chatVars
  PROVE  ChatInv'
<1>0. Stages BY DEF ChatInv
<1>a. IdsOf(prompt)' = IdsOf(prompt) \/ prompt' # prompt BY DEF IdsOf
<1>n. prompt = None => IdsOf(prompt) = {} BY NoIds DEF None
<1>1. CASE UNCHANGED chatVars
  <2>1. UNCHANGED <<main, thread, prompt, queue, pending, taken, said, sent, ran, behind, unread, cut>>
    BY <1>1 DEF chatVars, place, turn, chatGhosts
  <2>2. Stages' /\ AtHand' = AtHand BY <1>0, <1>a, <2>1 DEF Stages, AtHand, Steerable
  <2> QED BY <2>1, <2>2, QuietChat
<1>2. CASE Type \/ Interrupt \/ EscCompact
  <2>1. UNCHANGED <<main, thread, prompt, queue, pending, taken, said, sent, ran, behind, unread, cut>>
    BY <1>2 DEF Type, Interrupt, EscCompact, Interrupted, place, turn, chatGhosts
  <2>2. Stages' /\ AtHand' = AtHand BY <1>0, <1>a, <2>1 DEF Stages, AtHand, Steerable
  <2> QED BY <2>1, <2>2, QuietChat
<1>3. CASE LeaveChat \/ EndCompact \/ GoalTurn \/ GoalTurnEnds \/ GoalsRest
  <2>1. UNCHANGED <<prompt, queue, pending, taken, said, sent, ran, behind, unread, cut>> /\ prompt = None
    BY <1>0, <1>3 DEF LeaveChat, EndCompact, GoalTurn, GoalTurnEnds, GoalsRest, place, turn, chatGhosts, Stages
  <2>2. pending = <<>> /\ taken = <<>>
    BY <1>0, <1>3 DEF LeaveChat, EndCompact, GoalTurn, GoalTurnEnds, GoalsRest, Stages
  <2>3. Stages'
    BY <1>0, <1>3, <2>1, <2>2 DEF LeaveChat, EndCompact, GoalTurn, GoalTurnEnds, GoalsRest, Stages,
      place, turn
  <2>4. AtHand = {} /\ AtHand' = {} BY <1>a, <1>n, <2>1 DEF AtHand
  <2> QED BY <2>1, <2>3, <2>4, QuietChat
<1>4. CASE StartTurn
  <2>1. /\ main = "loop" /\ main' = "turn" /\ thread' = "start"
        /\ UNCHANGED <<prompt, queue, pending, taken, said, sent, ran, behind, unread, cut>>
    BY <1>4 DEF StartTurn, Dispatched, chatGhosts
  <2>2. thread = "none" /\ pending = <<>> /\ taken = <<>> BY <1>0, <2>1 DEF Stages
  <2>3. Stages' /\ AtHand' = AtHand BY <1>0, <1>a, <2>1, <2>2 DEF Stages, AtHand
  <2> QED BY <2>1, <2>3, QuietChat
<1>5. CASE Open
  <2>1. /\ thread = "start" /\ thread' = "open" /\ pending' = <<>>
        /\ UNCHANGED <<main, prompt, queue, taken, said, sent, ran, behind, unread, cut>>
    BY <1>5 DEF Open, place, chatGhosts
  <2>2. pending = <<>> /\ taken = <<>> /\ main = "turn" BY <1>0, <2>1 DEF Stages, Steerable
  <2>3. Stages' /\ AtHand' = AtHand BY <1>0, <1>a, <2>1, <2>2 DEF Stages, AtHand, Steerable
  <2> QED BY <2>1, <2>2, <2>3, QuietChat
<1>6. CASE Answer
  <2>1. /\ main = "turn" /\ thread = "ask" /\ thread' = "loop"
        /\ UNCHANGED <<main, prompt, queue, pending, taken, said, sent, ran, behind, unread, cut>>
    BY <1>6 DEF Answer, place, chatGhosts
  <2>2. Stages' /\ AtHand' = AtHand BY <1>0, <2>1 DEF Stages, AtHand, Steerable
  <2> QED BY <2>1, <2>2, QuietChat
<1>7. CASE Ask \/ Finish
  <2>1. /\ thread \in {"loop", "goal"} /\ ((thread = "loop" /\ thread' = "after") \/ thread' = "ask")
        /\ UNCHANGED <<main, prompt, queue, pending, taken, said, sent, ran, behind, unread, cut>>
    BY <1>7 DEF Ask, Finish, place, chatGhosts
  <2>2. Stages' /\ AtHand' = AtHand BY <1>0, <2>1 DEF Stages, AtHand, Steerable
  <2> QED BY <2>1, <2>2, QuietChat
<1>8. CASE CompactDone
  <2>1. /\ thread = "compact" /\ thread' = "dead"
        /\ UNCHANGED <<main, prompt, queue, pending, taken, said, sent, ran, behind, unread, cut>>
    BY <1>8 DEF CompactDone, place, chatGhosts
  <2>2. main = "compact" /\ prompt = None /\ pending = <<>> /\ taken = <<>> BY <1>0, <2>1 DEF Stages
  <2>3. Stages' BY <1>0, <2>1, <2>2 DEF Stages
  <2>4. AtHand = {} /\ AtHand' = {} BY <1>n, <2>1, <2>2 DEF AtHand
  <2> QED BY <2>1, <2>3, <2>4, QuietChat
<1> QED BY <1>1, <1>2, <1>3, <1>4, <1>5, <1>6, <1>7, <1>8

\* _submit_turn_input: the new submission goes to the end of the queue, or steers the turn.
LEMMA SubmitKeeps ==
  ASSUME ChatInv, Submit
  PROVE  ChatInv'
<1> DEFINE N == Len(said) + 1
           p == <<[text |-> line, id |-> N]>>
<1>1. /\ main \in {"turn", "compact"} /\ said' = Append(said, line)
      /\ UNCHANGED <<main, thread, prompt, taken, sent, ran, behind, cut>>
  BY DEF Submit, Reading
<1>2. /\ Listing(said') /\ DOMAIN said' = DOMAIN said \cup {N} /\ DOMAIN said = 1..Len(said)
      /\ Len(said) \in Nat /\ said'[N] = line
      /\ \A n \in 1..Len(said) : WaitsAs(said', n) <=> WaitsAs(said, n)
  BY <1>1, SaidMore DEF ChatInv, Listings
<1>3. Listing(p) /\ IdsOf(p) = {N} BY OneId
<1>4. \/ queue' = Append(queue, p) /\ UNCHANGED <<pending, unread>>
      \/ /\ ~WaitsAs(said', N) /\ Steerable
         /\ pending' = pending \o p /\ unread' = unread \cup {N} /\ UNCHANGED queue
  BY <1>2 DEF Submit, Submitted, WaitsAs
<1>5. /\ IdsOf(prompt)' = IdsOf(prompt) /\ IdsOf(taken)' = IdsOf(taken) /\ AtHand' = AtHand
  BY <1>1 DEF IdsOf, AtHand
<1>6. /\ IdsOf(prompt) \cup Ids(queue) \cup IdsOf(pending) \cup IdsOf(taken) \cup sent \cup ran
           \subseteq 1..Len(said)
  BY <1>2 DEF ChatInv, Numbered
<1>7. AtHand \subseteq IdsOf(prompt) BY DEF AtHand
<1>8. /\ N \notin Ids(queue) \cup IdsOf(pending) \cup IdsOf(taken) \cup sent \cup AtHand
      /\ \A n \in ran : ~(N < n)
  BY <1>2, <1>6, <1>7
<1>9. InOrder(queue, said') BY <1>1, <1>6, SaidQueue DEF ChatInv, WaitInOrder, Listings
<1>10. \A n \in IdsOf(pending) : ~WaitsAs(said', n) BY <1>2, <1>6 DEF ChatInv, WaitInOrder
<1>11. CASE queue' = Append(queue, p) /\ UNCHANGED <<pending, unread>>
  <2>1. InOrder(queue', said') /\ Ids(queue)' = Ids(queue) \cup {N}
    <3>1. /\ Ids(queue) \cup IdsOf(p) \subseteq Nat /\ \A n, m \in IdsOf(p) : n <= m
          /\ \A n \in Ids(queue), m \in IdsOf(p) : n < m
      BY <1>2, <1>3, <1>6
    <3>2. InOrder(Append(queue, p), said') /\ Ids(Append(queue, p)) = Ids(queue) \cup IdsOf(p)
      BY <1>3, <1>9, <3>1, QueueGrows
    <3>3. Ids(queue)' = Ids(queue') BY DEF Ids
    <3> QED BY <1>3, <1>11, <3>2, <3>3
  <2>2. IdsOf(pending)' = IdsOf(pending) BY <1>11 DEF IdsOf
  <2>3. Waiting' = Waiting \cup {N} BY <1>5, <2>1, <2>2 DEF Waiting
  <2> HIDE DEF N, p
  <2>4. Stages' BY <1>1, <1>11 DEF ChatInv, Stages, Steerable
  <2>5. Listings' /\ Numbered' BY <1>1, <1>2, <1>5, <1>11, <2>1, <2>2 DEF ChatInv, Listings, Numbered
  <2>6. Once' BY <1>1, <1>5, <1>8, <2>1, <2>2 DEF ChatInv, Once, Apart
  <2>7. Kept' BY <1>1, <1>2, <1>5, <1>11, <2>2, <2>3 DEF ChatInv, Kept
  <2>8. WaitInOrder' BY <1>1, <1>10, <2>1, <2>2 DEF WaitInOrder
  <2>9. RanInTurn' BY <1>1, <1>2, <1>6, <1>8, <2>3 DEF ChatInv, RanInTurn
  <2> QED BY <2>4, <2>5, <2>6, <2>7, <2>8, <2>9 DEF ChatInv
<1>12. CASE /\ ~WaitsAs(said', N) /\ Steerable
            /\ pending' = pending \o p /\ unread' = unread \cup {N} /\ UNCHANGED queue
  <2>1. Listing(pending') /\ IdsOf(pending)' = IdsOf(pending) \cup {N}
    <3>1. Listing(pending \o p) /\ IdsOf(pending \o p) = IdsOf(pending) \cup IdsOf(p)
      BY <1>3, JoinedIds DEF ChatInv, Listings
    <3>2. IdsOf(pending)' = IdsOf(pending') BY DEF IdsOf
    <3> QED BY <1>3, <1>12, <3>1, <3>2
  <2>2. Ids(queue)' = Ids(queue) BY <1>12 DEF Ids
  <2>3. Waiting' = Waiting \cup {N} BY <1>5, <2>1, <2>2 DEF Waiting
  <2>a. main = "turn" BY <1>1, <1>12 DEF ChatInv, Stages, Steerable
  <2> HIDE DEF N, p
  <2>4. Stages' BY <1>1, <1>12, <2>a DEF ChatInv, Stages, Steerable
  <2>5. Listings' /\ Numbered' BY <1>1, <1>2, <1>5, <2>1, <2>2 DEF ChatInv, Listings, Numbered
  <2>6. Once' BY <1>1, <1>5, <1>8, <2>1, <2>2 DEF ChatInv, Once, Apart
  <2>7. Kept' BY <1>1, <1>2, <1>5, <1>12, <2>1, <2>3 DEF ChatInv, Kept
  <2>8. WaitInOrder' BY <1>1, <1>9, <1>10, <1>12, <2>1, <2>2, <2>a DEF WaitInOrder
  <2>9. RanInTurn' BY <1>1, <1>2, <1>6, <1>8, <2>3 DEF ChatInv, RanInTurn
  <2> QED BY <2>4, <2>5, <2>6, <2>7, <2>8, <2>9 DEF ChatInv
<1> QED BY <1>4, <1>11, <1>12

\* Esc: what waits becomes the first prompt of the queue.
LEMMA PressEscKeeps ==
  ASSUME ChatInv, PressEsc
  PROVE  ChatInv'
<1>1. /\ main = "turn" /\ queue' = Requeued(queue, pending) /\ pending' = <<>>
      /\ unread' = unread \ IdsOf(pending)
      /\ UNCHANGED <<main, thread, prompt, taken, said, sent, ran, behind, cut>>
  BY DEF PressEsc, TakenBack
<1>2. /\ IdsOf(prompt)' = IdsOf(prompt) /\ IdsOf(taken)' = IdsOf(taken) /\ IdsOf(pending)' = {}
      /\ AtHand' = AtHand
      /\ Listing(pending')
  BY <1>1, NoIds DEF IdsOf, AtHand
<1>3. InOrder(queue', said) /\ Ids(queue)' = Ids(queue) \cup IdsOf(pending)
  <2>0. Ids(queue)' = Ids(queue') BY DEF Ids
  <2>1. CASE pending = <<>> BY <1>1, <2>0, <2>1, NoIds DEF ChatInv, WaitInOrder, Requeued
  <2>2. CASE pending # <<>>
    <3>1. queue' = <<pending>> \o queue BY <1>1, <2>2 DEF Requeued
    <3>2. /\ Listing(pending) /\ InOrder(queue, said) /\ IdsOf(pending) \cap Ids(queue) = {}
          /\ \A n \in IdsOf(pending) : ~WaitsAs(said, n)
      BY DEF ChatInv, Listings, WaitInOrder, Once, Apart
    <3> QED BY <2>0, <3>1, <3>2, QueueFront
  <2> QED BY <2>1, <2>2
<1>4. Waiting' = Waiting BY <1>2, <1>3 DEF Waiting
<1>5. Stages' BY <1>1 DEF ChatInv, Stages, Steerable
<1>6. Listings' /\ Numbered' BY <1>1, <1>2, <1>3 DEF ChatInv, Listings, Numbered
<1>7. Once' BY <1>1, <1>2, <1>3 DEF ChatInv, Once, Apart
<1>8. Kept'
  <2>1. IdsOf(pending) \subseteq Waiting BY DEF Waiting
  <2>2. IdsOf(taken) \cap IdsOf(pending) = {} BY DEF ChatInv, Once, Apart
  <2> QED BY <1>1, <1>2, <1>4, <2>1, <2>2 DEF ChatInv, Kept
<1>9. WaitInOrder' BY <1>1, <1>2, <1>3 DEF WaitInOrder
<1>10. RanInTurn' BY <1>1, <1>4 DEF ChatInv, RanInTurn
<1> QED BY <1>5, <1>6, <1>7, <1>8, <1>9, <1>10 DEF ChatInv

\* The other steps of a turn move what it has into the history, or drop it.
LEMMA TurnKeeps ==
  ASSUME ChatInv, Stages', main = "turn", main' # "loop",
         UNCHANGED <<queue, said, ran, behind, unread>>,
         Listing(prompt'), Listing(pending'), Listing(taken'),
         sent \subseteq sent', cut \subseteq cut',
         IdsOf(prompt)' \subseteq IdsOf(prompt), IdsOf(pending)' \subseteq IdsOf(pending),
         IdsOf(taken)' \subseteq IdsOf(taken) \cup IdsOf(pending), IdsOf(taken)' \cap IdsOf(pending)' = {},
         AtHand' \subseteq AtHand, AtHand \subseteq AtHand' \cup sent' \cup cut',
         sent' \subseteq sent \cup AtHand \cup IdsOf(taken),
         sent' \cap (AtHand' \cup IdsOf(pending)' \cup IdsOf(taken)') = {}
  PROVE  ChatInv'
<1>1. Ids(queue)' = Ids(queue) BY DEF Ids
<1>2. Waiting' \subseteq Waiting /\ Waiting \subseteq Waiting' \cup unread \cup sent' \cup cut'
  BY <1>1 DEF Waiting, ChatInv, Kept
<1>3. AtHand \subseteq IdsOf(prompt) BY DEF AtHand
<1>4. Listings' /\ Numbered' BY <1>1, <1>3 DEF ChatInv, Listings, Numbered
<1>5. Once' BY <1>1 DEF ChatInv, Once, Apart
<1>6. Kept' BY <1>2 DEF ChatInv, Kept
<1>7. WaitInOrder' BY DEF ChatInv, WaitInOrder
<1>8. RanInTurn' BY <1>2 DEF ChatInv, RanInTurn
<1> QED BY <1>4, <1>5, <1>6, <1>7, <1>8 DEF ChatInv

\* So do recording, taking up what is pending, aborting and closing a turn, and its end in the interface.
LEMMA TurnStepsKeep ==
  ASSUME ChatInv, EndTurn \/ Record \/ TakePending \/ RecordTaken \/ Abort \/ Close
  PROVE  ChatInv'
<1>0. Stages /\ Listing(prompt) /\ Listing(pending) /\ Listing(taken) /\ Listing(<<>>) /\ IdsOf(<<>>) = {}
  BY NoIds DEF ChatInv, Listings
<1>a. Apart(Ids(queue), IdsOf(pending), IdsOf(taken), sent, AtHand) BY DEF ChatInv, Once
<1>b. /\ IdsOf(prompt)' = IdsOf(prompt') /\ IdsOf(pending)' = IdsOf(pending') /\ IdsOf(taken)' = IdsOf(taken')
  BY DEF IdsOf
<1>1. CASE EndTurn
  <2>1. /\ main = "turn" /\ thread = "dead" /\ main' = "goals" /\ thread' = "none" /\ prompt' = <<>>
        /\ UNCHANGED <<queue, pending, taken, said, sent, ran, behind, unread, cut>>
    BY <1>1 DEF EndTurn, chatGhosts, None
  <2>2. pending = <<>> /\ taken = <<>> BY <1>0, <2>1 DEF Stages, Steerable
  <2>3. Stages' BY <2>1, <2>2 DEF Stages, None
  <2>4. AtHand = {} /\ AtHand' = {} BY <1>0, <1>b, <2>1 DEF AtHand
  <2> QED BY <1>0, <1>a, <1>b, <2>1, <2>2, <2>3, <2>4, TurnKeeps DEF Apart
<1>2. CASE Record
  <2>1. /\ thread = "open" /\ thread' = "loop" /\ sent' = sent \cup IdsOf(prompt)
        /\ UNCHANGED <<main, prompt, queue, pending, taken, said, ran, behind, unread, cut>>
    BY <1>2 DEF Record, place
  <2>2. main = "turn" /\ taken = <<>> BY <1>0, <2>1 DEF Stages
  <2>3. Stages' BY <1>0, <2>1, <2>2 DEF Stages, Steerable
  <2>4. AtHand = IdsOf(prompt) /\ AtHand' = {} BY <1>b, <2>1, <2>2 DEF AtHand
  <2> QED BY <1>0, <1>a, <1>b, <2>1, <2>2, <2>3, <2>4, TurnKeeps DEF Apart
<1>3. CASE TakePending
  <2>1. /\ thread = "loop" /\ thread' = "record" /\ taken' = pending /\ pending' = <<>>
        /\ UNCHANGED <<main, prompt, queue, said, sent, ran, behind, unread, cut>>
    BY <1>3 DEF TakePending, place, chatGhosts
  <2>2. main = "turn" BY <1>0, <2>1 DEF Stages
  <2>3. Stages' BY <1>0, <2>1, <2>2 DEF Stages, Steerable
  <2>4. AtHand = {} /\ AtHand' = {} BY <2>1, <2>2 DEF AtHand
  <2> QED BY <1>0, <1>a, <1>b, <2>1, <2>2, <2>3, <2>4, TurnKeeps DEF Apart
<1>4. CASE RecordTaken
  <2>1. /\ thread = "record" /\ thread' = "loop" /\ sent' = sent \cup IdsOf(taken) /\ taken' = <<>>
        /\ UNCHANGED <<main, prompt, queue, pending, said, ran, behind, unread, cut>>
    BY <1>4 DEF RecordTaken, place
  <2>2. main = "turn" BY <1>0, <2>1 DEF Stages
  <2>3. Stages' BY <1>0, <2>1, <2>2 DEF Stages, Steerable
  <2>4. AtHand = {} /\ AtHand' = {} BY <2>1, <2>2 DEF AtHand
  <2> QED BY <1>0, <1>a, <1>b, <2>1, <2>2, <2>3, <2>4, TurnKeeps DEF Apart
<1>5. CASE Abort
  <2>1. /\ thread \in {"open", "loop", "record"} /\ thread' = "after" /\ taken' = <<>>
        /\ cut' = (IF thread = "open" THEN cut \cup IdsOf(prompt) ELSE cut)
        /\ UNCHANGED <<main, prompt, queue, pending, said, sent, ran, behind, unread>>
    BY <1>5 DEF Abort, place
  <2>2. main = "turn" BY <1>0, <2>1 DEF Stages
  <2>3. Stages' BY <1>0, <2>1, <2>2 DEF Stages, Steerable
  <2>4. AtHand = (IF thread = "open" THEN IdsOf(prompt) ELSE {}) /\ AtHand' = {} BY <2>1, <2>2 DEF AtHand
  <2> QED BY <1>0, <1>a, <1>b, <2>1, <2>2, <2>3, <2>4, TurnKeeps DEF Apart
<1>6. CASE Close
  <2>1. /\ thread = "after" /\ thread' = "dead" /\ pending' = <<>>
        /\ UNCHANGED <<main, prompt, queue, taken, said, sent, ran, behind, unread, cut>>
    BY <1>6 DEF Close, place, chatGhosts
  <2>2. main = "turn" BY <1>0, <2>1 DEF Stages
  <2>3. Stages' BY <1>0, <2>1, <2>2 DEF Stages, Steerable
  <2>4. AtHand = {} /\ AtHand' = {} BY <2>1, <2>2 DEF AtHand
  <2> QED BY <1>0, <1>a, <1>b, <2>1, <2>2, <2>3, <2>4, TurnKeeps DEF Apart
<1> QED BY <1>1, <1>2, <1>3, <1>4, <1>5, <1>6

\* Every step of the conversation preserves the invariant.
LEMMA ChatGoesOn == ChatInv /\ [ChatNext]_chatVars => ChatInv'
<1> SUFFICES ASSUME ChatInv, [ChatNext]_chatVars PROVE ChatInv' OBVIOUS
<1> QED
  BY QuietKeeps, NextQueuedKeeps, ReadPromptKeeps, CommandsKeep, SubmitKeeps, PressEscKeeps, TurnStepsKeep
  DEF ChatNext, Loop, Watch, TurnThread

\* So the invariant holds always.
LEMMA ChatInvHolds == ChatSpec => []ChatInv
BY ChatStart, ChatGoesOn, PTL DEF ChatSpec

(* A submission is in one place only, and is lost only where EachPromptOnce *)
(* allows: behind a command it was merged with, or with a turn that ended   *)
(* before taking it up (_run_session_human_interactive, queued_prompts,     *)
(* pop_pending_input_prompts_for_interrupt), for any number of submissions. *)
THEOREM PromptsOnce == ChatSpec => []EachPromptOnce
<1>1. ChatInv => EachPromptOnce
  <2> SUFFICES ASSUME ChatInv PROVE EachPromptOnce OBVIOUS
  <2>1. DOMAIN said \subseteq Waiting \cup sent \cup ran \cup behind \cup unread \cup cut
    BY DEF ChatInv, Kept
  <2>2. Apart(Ids(queue), IdsOf(pending), IdsOf(taken), sent, AtHand) BY DEF ChatInv, Once
  <2> QED BY <2>1, <2>2, OnceIs DEF EachPromptOnce, Numbers
<1> QED BY <1>1, ChatInvHolds, PTL

(* A command that may not run beside a turn runs after all that was         *)
(* submitted before it, though Esc puts what it took back in front of it    *)
(* (_submit_turn_input), for any number of submissions and any commands.    *)
THEOREM CommandsWait == ChatSpec => []CommandsWaitTheirTurn
<1>1. ChatInv => CommandsWaitTheirTurn BY DEF ChatInv, RanInTurn, WaitsAs, CommandsWaitTheirTurn
<1> QED BY <1>1, ChatInvHolds, PTL

=============================================================================
