-------------------------- MODULE MemoryJobsProofs --------------------------
(***************************************************************************)
(* For every set of threads and processes and any bounds: a thread's       *)
(* watermark was earned and its summary is not older, and a change that no *)
(* consolidation has selected shows in the global watermarks.              *)
(***************************************************************************)
EXTENDS MemoryJobs, WellFoundedInduction, TLAPS

-----------------------------------------------------------------------------
(* The greatest of a bounded set of numbers.                               *)

\* a set of natural numbers has a least element
LEMMA Least ==
  ASSUME NEW T, T \subseteq Nat, T # {}
  PROVE  \E x \in T : \A y \in T : x <= y
<1>1. PICK x \in T : \A y \in T : ~ (<<y, x>> \in OpToRel(<, Nat))
  BY NatLessThanWellFounded, WFMin
<1>2. \A y \in T : ~(y < x) BY <1>1 DEF OpToRel
<1> QED BY <1>2

\* and one that is bounded a greatest, which is its Max
LEMMA MaxIs ==
  ASSUME NEW S, S \subseteq Nat, S # {}, NEW b \in Nat, \A x \in S : x <= b
  PROVE  Max(S) \in S /\ \A y \in S : y <= Max(S)
<1> DEFINE T == {b - x : x \in S}
<1>0. \A x \in S : b - x \in Nat OBVIOUS
<1>1. T \subseteq Nat /\ T # {} BY <1>0, Zenon
<1>2. PICK m \in T : \A y \in T : m <= y BY <1>1, Least
<1>3. PICK x \in S : m = b - x BY <1>2
<1>4. \A y \in S : b - x <= b - y BY <1>2, <1>3
<1>5. \A y \in S : x >= y BY <1>4
<1>6. Max(S) \in S /\ \A y \in S : Max(S) >= y BY <1>5 DEF Max
<1> QED BY <1>6

-----------------------------------------------------------------------------
(* The inductive invariant.                                                *)

\* What a claim has read is what its write needs.
Tickets == \A p \in Procs :
  /\ at[p] = "write" => /\ ticket[p].thread \in Threads /\ ticket[p].retries > 0
                        /\ ticket[p].input \in Versions
  /\ at[p] = "update" => ticket[p].input <= global.input

\* A job that runs is for a version and may still fail once.
JobsRun == \A t \in Threads : job[t].status = "running" => job[t].retries > 0 /\ job[t].input # 0

\* Whoever owns the job of a thread and still works at it claimed the version
\* that the row says: the later claim of another would have taken the row over.
OwnClaims == \A p \in Procs, t \in Threads :
  Owns(p, t) /\ claims[p][t] # 0 => job[t].input = claims[p][t]

\* Before the global row there is no watermark.
NoRow == global.status = "none" => global.input = 0 /\ global.success = 0

\* Nothing is above input_watermark: no summary, no success, and nothing that a
\* consolidation under way will record.
Consolidates(p) == at[p] \in Selected \cup {"prepare", "select"}
BelowInput ==
  /\ global.success <= global.input
  /\ \A t \in Threads : out[t].src <= global.input
  /\ \A p \in Procs : Consolidates(p) => selection[p].completed <= global.input

\* The owner of the global job whose choice is outdated will record less than the
\* change left in input_watermark; who lost the job records nothing.
Consolidating(p) == at[p] \in Selected /\ Holds(p, global)
ChangeIsAbove == \A p \in Procs :
  Consolidating(p) /\ Outdated(selection[p]) =>
    selection[p].completed < global.input /\ global.success < global.input

IInv ==
  /\ TypeOK /\ Tickets /\ JobsRun /\ OwnClaims /\ NoRow /\ BelowInput /\ ChangeIsAbove
  /\ WatermarkEarned /\ SummaryCoversWatermark /\ DirtyIsVisible

-----------------------------------------------------------------------------
(* Types.                                                                  *)

\* the bounds, and the values built from them
LEMMA Constants ==
  /\ MaxVersion \in Nat \ {0} /\ MaxClaimed \in Nat \ {0} /\ Retries \in Nat \ {0} /\ MaxStarts \in Nat
  /\ Versions \subseteq Known /\ Known \subseteq Nat /\ 0 \in Known /\ 0 \notin Versions
  /\ \A v \in Known : v # 0 => v \in Versions
  /\ Retries \in 0..Retries /\ \A f \in Pages, t \in Threads : f[t] \in Known /\ f[t] \in Nat
  /\ Blank \in Pages /\ Blank \in [Threads -> Nat] /\ NoTicket \in [thread : Threads \cup {NoOne}, retries : 0..Retries, input : Nat]
  /\ NoSelection \in [inputs : Pages, completed : Nat, offered : Pages] /\ Now \in Nat \ {0}
BY BoundsAssumption DEF Versions, Known, Blank, Pages, NoTicket, NoSelection, Now

\* the rows of the store, and what processes and the workspace have
JobRows == [status : {"none", "running", "done", "error"}, owner : Procs \cup {NoOne},
            lease : BOOLEAN, backoff : BOOLEAN, retries : 0..Retries, input : Known, success : Known]
StoreTypes ==
  /\ updated \in [Threads -> Versions] /\ polluted \subseteq Threads
  /\ out \in [Threads -> [src : Known, selected : Known]]
  /\ job \in [Threads -> JobRows]
GlobalTypes ==
  /\ global \in [status : {"none", "pending", "running", "done", "error"},
                  owner : Procs \cup {NoOne}, lease : BOOLEAN, backoff : BOOLEAN,
                  cooling : BOOLEAN, input : Nat, success : Nat]
  /\ untold \subseteq Threads
WorkTypes ==
  /\ at \in [Procs -> Places] /\ rows \in [Procs -> Pages] /\ claims \in [Procs -> Pages]
  /\ ticket \in [Procs -> [thread : Threads \cup {NoOne}, retries : 0..Retries, input : Nat]]
  /\ selection \in [Procs -> [inputs : Pages, completed : Nat, offered : Pages]]
SpaceTypes ==
  /\ ws \in Pages /\ base \in Pages \cup {Unborn} /\ edited \in BOOLEAN
  /\ starts \in 0..MaxStarts /\ finished \in Pages /\ recorded \in [inputs : Pages, offered : Pages]

\* the four groups of TypeOK, so that a step is asked for one at a time
LEMMA TypeGroups ==
  /\ TypeOK <=> StoreTypes /\ GlobalTypes /\ WorkTypes /\ SpaceTypes
  /\ TypeOK' <=> StoreTypes' /\ GlobalTypes' /\ WorkTypes' /\ SpaceTypes'
BY DEF TypeOK, StoreTypes, JobRows, GlobalTypes, WorkTypes, SpaceTypes

\* a process that leaves forgets its locals, of whatever type they were
LEMMA LeavingTypes ==
  ASSUME WorkTypes, NEW p \in Procs, Leaving(p)
  PROVE  WorkTypes' /\ at'[p] = "off" /\ \A q \in Procs \ {p} : /\ at'[q] = at[q] /\ ticket'[q] = ticket[q]
                                                /\ claims'[q] = claims[q] /\ selection'[q] = selection[q]
                    /\ claims'[p] = Blank
BY Constants DEF WorkTypes, Leaving, Forget, Goto, Places

\* an enqueued change raises the watermark, to its own version at least
LEMMA EnqueueRaises ==
  ASSUME GlobalTypes, NoRow, NEW v \in Nat \ {0}, Enqueue(v)
  PROVE  /\ GlobalTypes' /\ global'.input > global.input /\ global'.input >= v
         /\ global'.success = global.success /\ global'.owner = global.owner
         /\ global'.status # "none" /\ (global'.status = "running" <=> global.status = "running")
         /\ untold' = {}
<1>1. global.input \in Nat /\ NextWatermark(v) \in Nat /\ NextWatermark(v) > global.input /\ NextWatermark(v) >= v
  BY DEF GlobalTypes, NextWatermark
<1>2. CASE global.status = "none"
  <2> DEFINE g == [global EXCEPT !.status = "pending", !.input = v]
  <2>1. global' = g BY <1>2 DEF Enqueue
  <2>2. /\ g \in [status : {"none", "pending", "running", "done", "error"},
                  owner : Procs \cup {NoOne}, lease : BOOLEAN, backoff : BOOLEAN,
                  cooling : BOOLEAN, input : Nat, success : Nat]
        /\ g.input = v /\ g.success = global.success /\ g.owner = global.owner /\ g.status = "pending"
    BY DEF GlobalTypes
  <2>3. v > global.input BY <1>2 DEF NoRow
  <2> HIDE DEF g
  <2> QED BY <1>2, <2>1, <2>2, <2>3 DEF Enqueue, GlobalTypes
<1>3. CASE global.status # "none"
  <2> DEFINE g == [global EXCEPT !.status = IF global.status = "running" THEN "running" ELSE "pending",
                                 !.backoff = (global.backoff /\ global.status = "running"),
                                 !.input = NextWatermark(v)]
  <2>1. global' = g
    <3>1. (IF global.status = "running" THEN global.status ELSE "pending")
            = IF global.status = "running" THEN "running" ELSE "pending" OBVIOUS
    <3> QED BY <1>3, <3>1 DEF Enqueue
  <2>2. (global.backoff /\ global.status = "running") \in BOOLEAN OBVIOUS
  <2>3. /\ g \in [status : {"none", "pending", "running", "done", "error"},
                  owner : Procs \cup {NoOne}, lease : BOOLEAN, backoff : BOOLEAN,
                  cooling : BOOLEAN, input : Nat, success : Nat]
        /\ g.input = NextWatermark(v) /\ g.success = global.success /\ g.owner = global.owner
        /\ g.status = IF global.status = "running" THEN "running" ELSE "pending"
    BY <1>1, <2>2 DEF GlobalTypes
  <2> QED BY <1>1, <2>1, <2>3, ZenonT(60) DEF Enqueue, GlobalTypes
<1> QED BY <1>2, <1>3

\* the row of one job is written
JobBecomes(t, status, owner, retries, input, success) ==
  /\ job' \in [Threads -> JobRows] /\ \A u \in Threads \ {t} : job'[u] = job[u]
  /\ job'[t].status = status /\ job'[t].owner = owner /\ job'[t].retries = retries
  /\ job'[t].input = input /\ job'[t].success = success

\* A claim makes the row its own, for what was read before.
LEMMA ClaimEffect ==
  ASSUME StoreTypes, WorkTypes, Tickets, NEW p \in Procs, ClaimWrite(p)
  PROVE  LET c == ticket[p] IN
         /\ c.thread \in Threads /\ c.retries > 0 /\ c.input \in Versions
         /\ JobBecomes(c.thread, "running", p, c.retries, c.input, job[c.thread].success)
<1> DEFINE c == ticket[p]
           r == [job[c.thread] EXCEPT !.status = "running", !.owner = p, !.lease = TRUE,
                   !.backoff = FALSE, !.retries = c.retries, !.input = c.input]
<1>1. /\ at[p] = "write" /\ c.thread \in Threads /\ c.retries \in 0..Retries /\ c.retries > 0
      /\ c.input \in Versions /\ c.input \in Known
  BY Constants DEF ClaimWrite, Tickets, WorkTypes
<1>2. job' = [job EXCEPT ![c.thread] = r] BY <1>1 DEF ClaimWrite, StoreTypes
<1>3. job[c.thread] \in JobRows BY <1>1 DEF StoreTypes
<1>4. /\ r \in JobRows /\ r.status = "running" /\ r.owner = p /\ r.retries = c.retries
      /\ r.input = c.input /\ r.success = job[c.thread].success
  BY <1>1, <1>3 DEF JobRows
<1> HIDE DEF c, r
<1>5. JobBecomes(c.thread, "running", p, c.retries, c.input, job[c.thread].success)
  BY <1>1, <1>2, <1>4 DEF JobBecomes, StoreTypes
<1> QED BY <1>1, <1>5 DEF c

\* A job that is done has reached what its row was for.
LEMMA DoneEffect ==
  ASSUME StoreTypes, NEW t \in Threads, MarkDone(t)
  PROVE  JobBecomes(t, "done", job[t].owner, job[t].retries, job[t].input, job[t].input)
<1> DEFINE r == [job[t] EXCEPT !.status = "done", !.lease = FALSE, !.success = job[t].input]
<1>1. job' = [job EXCEPT ![t] = r] BY DEF MarkDone
<1>2. job[t] \in JobRows BY DEF StoreTypes
<1>3. /\ r \in JobRows /\ r.status = "done" /\ r.owner = job[t].owner /\ r.retries = job[t].retries
      /\ r.input = job[t].input /\ r.success = job[t].input
  BY <1>2 DEF JobRows
<1> HIDE DEF r
<1> QED BY <1>1, <1>3 DEF JobBecomes, StoreTypes

\* A job that fails has one retry less, and had one.
LEMMA FailEffect ==
  ASSUME StoreTypes, JobsRun, NEW p \in Procs, NEW t \in Threads, Owns(p, t), StageFailed(p, t)
  PROVE  JobBecomes(t, "error", job[t].owner, job[t].retries - 1, job[t].input, job[t].success)
<1> DEFINE r == [job[t] EXCEPT !.status = "error", !.lease = FALSE, !.backoff = TRUE,
                               !.retries = job[t].retries - 1]
<1>1. job' = [job EXCEPT ![t] = r] BY DEF StageFailed
<1>2. job[t] \in JobRows /\ job[t].retries \in 0..Retries /\ job[t].retries > 0
  BY DEF StoreTypes, JobRows, JobsRun, Owns, Holds
<1>3. job[t].retries - 1 \in 0..Retries BY <1>2, Constants
<1>4. /\ r \in JobRows /\ r.status = "error" /\ r.owner = job[t].owner /\ r.retries = job[t].retries - 1
      /\ r.input = job[t].input /\ r.success = job[t].success
  BY <1>2, <1>3 DEF JobRows
<1> HIDE DEF r
<1> QED BY <1>1, <1>4 DEF JobBecomes, StoreTypes

\* time changes neither whose a row is nor what it is for
LEMMA ElapseEffect ==
  ASSUME StoreTypes, GlobalTypes, Elapse
  PROVE  /\ job' \in [Threads -> JobRows]
         /\ \A t \in Threads : /\ job'[t].status = job[t].status /\ job'[t].owner = job[t].owner
                               /\ job'[t].retries = job[t].retries /\ job'[t].input = job[t].input
                               /\ job'[t].success = job[t].success
         /\ GlobalTypes'
         /\ global'.status = global.status /\ global'.owner = global.owner
         /\ global'.input = global.input /\ global'.success = global.success
<1>1. /\ job' \in [Threads -> JobRows]
      /\ \A t \in Threads : /\ job'[t].status = job[t].status /\ job'[t].owner = job[t].owner
                            /\ job'[t].retries = job[t].retries /\ job'[t].input = job[t].input
                            /\ job'[t].success = job[t].success
  <2>1. CASE UNCHANGED job BY <2>1 DEF StoreTypes
  <2>2. ASSUME NEW t \in Threads, NEW r \in {[job[t] EXCEPT !.lease = FALSE], [job[t] EXCEPT !.backoff = FALSE]},
               job' = [job EXCEPT ![t] = r]
        PROVE  /\ job' \in [Threads -> JobRows]
               /\ \A u \in Threads : /\ job'[u].status = job[u].status /\ job'[u].owner = job[u].owner
                                     /\ job'[u].retries = job[u].retries /\ job'[u].input = job[u].input
                                     /\ job'[u].success = job[u].success
    <3>1. job[t] \in JobRows BY DEF StoreTypes
    <3>2. /\ r \in JobRows /\ r.status = job[t].status /\ r.owner = job[t].owner
          /\ r.retries = job[t].retries /\ r.input = job[t].input /\ r.success = job[t].success
      BY <3>1, <2>2 DEF JobRows
    <3> QED BY <3>2, <2>2 DEF StoreTypes
  <2> QED BY <2>1, <2>2 DEF Elapse
<1>2. /\ GlobalTypes'
      /\ global'.status = global.status /\ global'.owner = global.owner
      /\ global'.input = global.input /\ global'.success = global.success
  BY DEF Elapse, GlobalTypes, ghosts
<1> QED BY <1>1, <1>2

\* what phase 2 may select are versions of the summaries that there are
LEMMA SelectionsTypes ==
  ASSUME StoreTypes, NEW s \in Selections
  PROVE  s \in Pages /\ \A t \in Threads : s[t] \in {0, out[t].src} /\ s[t] \in {0, View(t)}
<1>1. PICK kept \in SUBSET (Threads \ polluted) : s = [t \in Threads |-> IF t \in kept THEN out[t].src ELSE 0]
  BY DEF Selections
<1>2. \A t \in Threads : out[t].src \in Known BY DEF StoreTypes
<1>3. s \in Pages BY <1>1, <1>2, Constants DEF Pages
<1>4. \A t \in Threads : s[t] \in {0, out[t].src} /\ s[t] \in {0, View(t)} BY <1>1 DEF View
<1> QED BY <1>3, <1>4

\* The watermark that a selection completes is one of those that it is the
\* greatest of.
LEMMA SelectEffect ==
  ASSUME StoreTypes, WorkTypes, NEW p \in Procs, Select(p)
  PROVE  /\ selection' \in [Procs -> [inputs : Pages, completed : Nat, offered : Pages]]
         /\ \A q \in Procs \ {p} : selection'[q] = selection[q]
         /\ \/ selection'[p].completed = selection[p].completed
            \/ selection'[p].completed = 0
            \/ \E t \in Threads : selection'[p].completed = out[t].src
         /\ \A t \in Threads : /\ selection'[p].inputs[t] \in {0, View(t)}
                               /\ selection'[p].offered[t] = View(t)
<1>1. PICK s \in Selections : selection' = [selection EXCEPT ![p] = [inputs |-> s,
         completed |-> Max({selection[p].completed} \cup {s[t] : t \in Threads}),
         offered |-> [t \in Threads |-> View(t)]]]
  BY DEF Select
<1> DEFINE c == selection[p].completed
           S == {c} \cup {s[t] : t \in Threads}
<1>2. s \in Pages /\ (\A t \in Threads : s[t] \in {0, out[t].src} /\ s[t] \in {0, View(t)}) /\ c \in Nat
  BY SelectionsTypes DEF WorkTypes
<1>3. S \subseteq Nat /\ S # {}
  <2>1. \A t \in Threads : s[t] \in Nat BY <1>2, Constants
  <2> QED BY <1>2, <2>1
<1>4. c + MaxVersion \in Nat /\ \A x \in S : x <= c + MaxVersion
  <2>1. \A t \in Threads : s[t] \in 0..MaxVersion BY <1>2 DEF Pages, Known
  <2> QED BY <1>2, <2>1, Constants
<1>5. Max(S) \in S BY <1>3, <1>4, MaxIs
<1>6. Max(S) \in Nat /\ (Max(S) = c \/ \E t \in Threads : Max(S) = s[t]) BY <1>3, <1>5
<1> DEFINE m == Max(S)
           o == [t \in Threads |-> View(t)]
           r == [inputs |-> s, completed |-> m, offered |-> o]
<1>7. selection' = [selection EXCEPT ![p] = r] BY <1>1
<1>8. m \in Nat /\ (m = c \/ m = 0 \/ \E t \in Threads : m = out[t].src) BY <1>2, <1>6
<1>9. o \in Pages /\ \A t \in Threads : o[t] = View(t)
  <2>1. \A t \in Threads : View(t) \in Known BY Constants DEF View, StoreTypes
  <2> QED BY <2>1 DEF Pages
<1> HIDE DEF m, o
<1>10. r \in [inputs : Pages, completed : Nat, offered : Pages] /\ r.inputs = s /\ r.completed = m /\ r.offered = o
  BY <1>2, <1>8, <1>9
<1> HIDE DEF r
<1>11. selection' \in [Procs -> [inputs : Pages, completed : Nat, offered : Pages]] /\ selection'[p] = r
       /\ \A q \in Procs \ {p} : selection'[q] = selection[q]
  BY <1>7, <1>10 DEF WorkTypes
<1> QED BY <1>2, <1>8, <1>9, <1>10, <1>11

\* The greater of two watermarks is one of them.
LEMMA SucceededEffect ==
  ASSUME StoreTypes, GlobalTypes, WorkTypes, NEW p \in Procs, MarkSucceeded(p), Holds(p, global)
  PROVE  /\ GlobalTypes' /\ out' \in [Threads -> [src : Known, selected : Known]]
         /\ \A t \in Threads : out'[t].src = out[t].src
         /\ global'.success \in {global.success, selection[p].completed}
         /\ global'.input = global.input /\ global'.status = "done"
<1> DEFINE c == selection[p].completed
           m == Max({global.success, c})
           g == [global EXCEPT !.status = "done", !.lease = FALSE, !.cooling = TRUE, !.success = m]
<1>1. global.success \in Nat /\ c \in Nat BY DEF GlobalTypes, WorkTypes
<1>2. m \in {global.success, c}
  <2>1. global.success + c \in Nat /\ \A x \in {global.success, c} : x <= global.success + c BY <1>1
  <2> QED BY <1>1, <2>1, MaxIs
<1>3. global' = g /\ untold' = untold BY DEF MarkSucceeded
<1> HIDE DEF m
<1>4. GlobalTypes' /\ g.success = m /\ g.input = global.input /\ g.status = "done"
  <2>1. m \in Nat BY <1>1, <1>2
  <2>2. /\ g \in [status : {"none", "pending", "running", "done", "error"},
                  owner : Procs \cup {NoOne}, lease : BOOLEAN, backoff : BOOLEAN,
                  cooling : BOOLEAN, input : Nat, success : Nat]
        /\ g.success = m /\ g.input = global.input /\ g.status = "done"
    BY <2>1 DEF GlobalTypes
  <2>3. untold' \subseteq Threads BY <1>3 DEF GlobalTypes
  <2> QED BY <1>3, <2>2, <2>3 DEF GlobalTypes
<1>5. /\ out' \in [Threads -> [src : Known, selected : Known]]
      /\ \A t \in Threads : out'[t].src = out[t].src
  <2> DEFINE n(t) == IF out[t].selected # 0 \/ out[t].src # 0
                     THEN IF out[t].src = selection[p].inputs[t] THEN out[t].src ELSE 0
                     ELSE 0
  <2>1. out' = [t \in Threads |-> [out[t] EXCEPT !.selected = n(t)]] BY DEF MarkSucceeded
  <2>2. \A t \in Threads : out[t] \in [src : Known, selected : Known] BY DEF StoreTypes
  <2>3. \A t \in Threads : n(t) \in Known BY <2>2, Constants
  <2> HIDE DEF n
  <2> QED BY <2>1, <2>2, <2>3
<1> QED BY <1>2, <1>3, <1>4, <1>5

\* Every step keeps the types.
LEMMA TypeStep == IInv /\ [Next]_vars => TypeOK'
<1> SUFFICES ASSUME IInv, [Next]_vars PROVE StoreTypes' /\ GlobalTypes' /\ WorkTypes' /\ SpaceTypes'
  BY TypeGroups
<1>a. StoreTypes /\ GlobalTypes /\ WorkTypes /\ SpaceTypes BY TypeGroups DEF IInv
<1>b. NoRow /\ Tickets /\ JobsRun BY DEF IInv
<1>l. \A l \in {"off", "prune", "scan", "claim", "write", "work", "inputs", "phase2", "insert", "update",
           "prepare", "select", "sync", "diff", "session", "reset", "commit", "done"} : l \in Places
  BY DEF Places
<1> USE DEF store, work, space, ghosts
<1>1. CASE UNCHANGED vars
  BY <1>1, <1>a DEF vars, StoreTypes, GlobalTypes, WorkTypes, SpaceTypes
<1>2. CASE SomeTouch
  BY <1>2, <1>a DEF SomeTouch, Touch, StoreTypes, GlobalTypes, WorkTypes, SpaceTypes
<1>3. CASE SomePollute
  <2>1. PICK t \in Threads : Pollute(t) BY <1>3 DEF SomePollute
  <2>2. GlobalTypes' BY <2>1, <1>a, <1>b, Constants, EnqueueRaises DEF Pollute, Silently, GlobalTypes
  <2> QED BY <2>1, <2>2, <1>a DEF Pollute, StoreTypes, WorkTypes, SpaceTypes
<1>4. CASE Elapse
  <2>1. StoreTypes' BY <1>4, <1>a, ElapseEffect DEF Elapse, StoreTypes
  <2>2. GlobalTypes' BY <1>4, <1>a, ElapseEffect
  <2> QED BY <1>4, <2>1, <2>2, <1>a DEF Elapse, WorkTypes, SpaceTypes
<1>5. ASSUME NEW p \in Procs, PruneRead(p) \/ PruneWrite(p)
      PROVE  StoreTypes' /\ GlobalTypes' /\ WorkTypes' /\ SpaceTypes'
  <2>1. CASE PruneRead(p)
    <3>1. ASSUME NEW old PROVE [t \in Threads |-> IF t \in old THEN out[t].src ELSE 0] \in Pages
      BY <1>a, Constants DEF StoreTypes, Pages
    <3>f. PICK f \in Pages : rows' = [rows EXCEPT ![p] = f] BY <2>1, <3>1 DEF PruneRead
    <3>2. rows' \in [Procs -> Pages] BY <3>f, <1>a DEF WorkTypes
    <3>3. WorkTypes' BY <2>1, <3>2, <1>a, <1>l DEF PruneRead, Goto, WorkTypes
    <3>4. SpaceTypes' BY <2>1, <1>a, Constants DEF PruneRead, SpaceTypes
    <3> QED BY <2>1, <3>3, <3>4, <1>a DEF PruneRead, StoreTypes, GlobalTypes
  <2>2. CASE PruneWrite(p)
    <3>1. StoreTypes' BY <2>2, <1>a, Constants DEF PruneWrite, StoreTypes
    <3>2. GlobalTypes' BY <2>2, <1>a DEF PruneWrite, Silently, GlobalTypes
    <3>3. WorkTypes' BY <2>2, <1>a, <1>l, Constants DEF PruneWrite, Goto, WorkTypes
    <3> QED BY <2>2, <3>1, <3>2, <3>3, <1>a DEF PruneWrite, SpaceTypes
  <2> QED BY <1>5, <2>1, <2>2
<1>6. ASSUME NEW p \in Procs, Scan(p) PROVE StoreTypes' /\ GlobalTypes' /\ WorkTypes' /\ SpaceTypes'
  <2>1. ASSUME NEW idle PROVE [t \in Threads |-> IF t \in idle THEN updated[t] ELSE 0] \in Pages
    BY <1>a, Constants DEF StoreTypes, Pages
  <2>f. PICK f \in Pages : rows' = [rows EXCEPT ![p] = f] BY <1>6, <2>1 DEF Scan
  <2>2. rows' \in [Procs -> Pages] BY <2>f, <1>a DEF WorkTypes
  <2>3. WorkTypes' BY <1>6, <2>2, <1>a, <1>l DEF Scan, Goto, WorkTypes
  <2> QED BY <1>6, <2>3, <1>a DEF Scan, StoreTypes, GlobalTypes, SpaceTypes
<1>7. ASSUME NEW p \in Procs, NEW t \in Threads, ClaimRead(p, t)
      PROVE  StoreTypes' /\ GlobalTypes' /\ WorkTypes' /\ SpaceTypes'
  <2>1. rows' \in [Procs -> Pages] BY <1>7, <1>a, Constants DEF ClaimRead, WorkTypes, Pages
  <2>2. at' \in [Procs -> Places] BY <1>7, <1>a, <1>l DEF ClaimRead, Goto, WorkTypes
  <2>3. ticket' \in [Procs -> [thread : Threads \cup {NoOne}, retries : 0..Retries, input : Nat]]
    <3>1. rows[p][t] \in Nat /\ Retries \in 0..Retries /\ job[t].retries \in 0..Retries
      BY <1>a, Constants DEF WorkTypes, StoreTypes, JobRows
    <3> QED BY <1>7, <3>1, <1>a DEF ClaimRead, WorkTypes
  <2> QED BY <1>7, <2>1, <2>2, <2>3, <1>a DEF ClaimRead, StoreTypes, GlobalTypes, WorkTypes, SpaceTypes
<1>8. ASSUME NEW p \in Procs, ClaimWrite(p) PROVE StoreTypes' /\ GlobalTypes' /\ WorkTypes' /\ SpaceTypes'
  <2>1. /\ at[p] = "write" /\ ticket[p].thread \in Threads /\ ticket[p].retries \in 0..Retries
        /\ ticket[p].input \in Versions /\ ticket[p].input \in Known
    BY <1>8, <1>a, <1>b, Constants DEF ClaimWrite, Tickets, WorkTypes
  <2>2. StoreTypes' BY <1>8, <1>a, <1>b, ClaimEffect DEF ClaimWrite, StoreTypes, JobBecomes
  <2>3. WorkTypes' BY <1>8, <2>1, <1>a, <1>l, Constants DEF ClaimWrite, Goto, WorkTypes, Pages
  <2> QED BY <1>8, <2>2, <2>3, <1>a DEF ClaimWrite, GlobalTypes, SpaceTypes
<1>9. ASSUME NEW p \in Procs, ClaimsDone(p) PROVE StoreTypes' /\ GlobalTypes' /\ WorkTypes' /\ SpaceTypes'
  <2>1. WorkTypes' BY <1>9, <1>a, <1>l, Constants DEF ClaimsDone, Goto, WorkTypes
  <2> QED BY <1>9, <2>1, <1>a DEF ClaimsDone, StoreTypes, GlobalTypes, SpaceTypes
<1>10. ASSUME NEW p \in Procs, NEW t \in Threads, Summarised(p, t)
      PROVE  StoreTypes' /\ GlobalTypes' /\ WorkTypes' /\ SpaceTypes'
  <2>1. claims[p][t] \in Known /\ claims[p][t] \in Nat \ {0} BY <1>10, <1>a, Constants DEF Summarised, WorkTypes
  <2>2. GlobalTypes' BY <1>10, <2>1, <1>a, <1>b, EnqueueRaises DEF Summarised, GlobalTypes, StageFrame
  <2>3. StoreTypes'
    <3>1. CASE Owns(p, t)
      <4>1. job' \in [Threads -> JobRows] BY <1>10, <3>1, <1>a, DoneEffect DEF Summarised, JobBecomes
      <4>2. out' \in [Threads -> [src : Known, selected : Known]]
        BY <1>10, <3>1, <2>1, <1>a DEF Summarised, Upsert, StoreTypes
      <4> QED BY <1>10, <4>1, <4>2, <1>a DEF Summarised, StageFrame, StoreTypes
    <3>2. CASE ~Owns(p, t) BY <1>10, <3>2, <1>a DEF Summarised, StageFrame, StoreTypes
    <3> QED BY <3>1, <3>2
  <2>4. claims' \in [Procs -> Pages] /\ finished' \in Pages
    BY <1>10, <2>1, <1>a, Constants DEF Summarised, FinishWork, WorkTypes, SpaceTypes, Pages
  <2> QED BY <1>10, <2>2, <2>3, <2>4, <1>a DEF Summarised, StageFrame, WorkTypes, SpaceTypes
<1>11. ASSUME NEW p \in Procs, NEW t \in Threads, NothingToSay(p, t)
      PROVE  StoreTypes' /\ GlobalTypes' /\ WorkTypes' /\ SpaceTypes'
  <2>1. claims[p][t] \in Known BY <1>11, <1>a, Constants DEF NothingToSay, WorkTypes
  <2>2. Owns(p, t) => job[t].input \in Nat \ {0}
    BY <1>a, <1>b, Constants DEF Owns, Holds, JobsRun, StoreTypes, JobRows
  <2>3. GlobalTypes'
    BY <1>11, <2>2, <1>a, <1>b, EnqueueRaises DEF NothingToSay, DropOutput, GlobalTypes, StageFrame
  <2>4. StoreTypes'
    <3>1. CASE Owns(p, t)
      <4>1. job' \in [Threads -> JobRows] BY <1>11, <3>1, <1>a, DoneEffect DEF NothingToSay, JobBecomes
      <4>2. out' \in [Threads -> [src : Known, selected : Known]]
        BY <1>11, <3>1, <1>a, Constants DEF NothingToSay, DropOutput, StoreTypes
      <4> QED BY <1>11, <4>1, <4>2, <1>a DEF NothingToSay, StageFrame, StoreTypes
    <3>2. CASE ~Owns(p, t) BY <1>11, <3>2, <1>a DEF NothingToSay, StageFrame, StoreTypes
    <3> QED BY <3>1, <3>2
  <2>5. claims' \in [Procs -> Pages] /\ finished' \in Pages
    BY <1>11, <2>1, <1>a, Constants DEF NothingToSay, FinishWork, WorkTypes, SpaceTypes, Pages
  <2> QED BY <1>11, <2>3, <2>4, <2>5, <1>a DEF NothingToSay, StageFrame, WorkTypes, SpaceTypes
<1>12. ASSUME NEW p \in Procs, NEW t \in Threads, StageFailed(p, t)
      PROVE  StoreTypes' /\ GlobalTypes' /\ WorkTypes' /\ SpaceTypes'
  <2>1. job' \in [Threads -> JobRows]
    <3>1. CASE Owns(p, t) BY <1>12, <3>1, <1>a, <1>b, FailEffect DEF JobBecomes
    <3>2. CASE ~Owns(p, t) BY <1>12, <3>2, <1>a DEF StageFailed, StoreTypes
    <3> QED BY <3>1, <3>2
  <2>2. claims' \in [Procs -> Pages] BY <1>12, <1>a, Constants DEF StageFailed, WorkTypes, Pages
  <2> QED BY <1>12, <2>1, <2>2, <1>a DEF StageFailed, StageFrame, StoreTypes, GlobalTypes, WorkTypes, SpaceTypes
<1>13. ASSUME NEW p \in Procs, StageDone(p) \/ SessionOver(p) \/ Prepare(p) \/ Sync(p) \/ Reset(p) \/ CommitBaseline(p)
      PROVE  StoreTypes' /\ GlobalTypes' /\ WorkTypes' /\ SpaceTypes'
  <2>1. WorkTypes' BY <1>13, <1>a, <1>l, ZenonT(60) DEF StageDone, SessionOver, Prepare, Sync, Reset, CommitBaseline, Goto, WorkTypes
  <2>2. selection[p].inputs \in Pages BY <1>a DEF WorkTypes
  <2>3. SpaceTypes' BY <1>13, <2>2, <1>a DEF StageDone, SessionOver, Prepare, Sync, Reset, CommitBaseline, Commit, SpaceTypes
  <2> QED BY <1>13, <2>1, <2>3, <1>a
    DEF StageDone, SessionOver, Prepare, Sync, Reset, CommitBaseline, StoreTypes, GlobalTypes
<1>14. ASSUME NEW p \in Procs, Leave(p) \/ SyncUnclaimed(p) PROVE StoreTypes' /\ GlobalTypes' /\ WorkTypes' /\ SpaceTypes'
  <2>1. WorkTypes' BY <1>14, <1>a, LeavingTypes DEF Leave, SyncUnclaimed
  <2>2. ws' \in Pages BY <1>14, <1>a, SelectionsTypes DEF Leave, SyncUnclaimed, SpaceTypes
  <2> QED BY <1>14, <2>1, <2>2, <1>a DEF Leave, SyncUnclaimed, StoreTypes, GlobalTypes, SpaceTypes
<1>15. ASSUME NEW p \in Procs, GlobalRead(p) PROVE StoreTypes' /\ GlobalTypes' /\ WorkTypes' /\ SpaceTypes'
  <2>1. WorkTypes'
    <3>1. CASE Goto(p, "insert") /\ UNCHANGED work BY <3>1, <1>a, <1>l DEF Goto, WorkTypes
    <3>2. CASE /\ Goto(p, "update") /\ ticket' = [ticket EXCEPT ![p].input = global.input]
               /\ UNCHANGED <<rows, claims, selection>>
      BY <3>2, <1>a, <1>l, SMTT(40) DEF Goto, WorkTypes, GlobalTypes
    <3>3. CASE Leaving(p) BY <3>3, <1>a, LeavingTypes
    <3> QED BY <1>15, <3>1, <3>2, <3>3 DEF GlobalRead
  <2> QED BY <1>15, <2>1, <1>a DEF GlobalRead, StoreTypes, GlobalTypes, SpaceTypes
<1>16. ASSUME NEW p \in Procs, GlobalInsert(p) \/ GlobalUpdate(p)
      PROVE  StoreTypes' /\ GlobalTypes' /\ WorkTypes' /\ SpaceTypes'
  <2>1. ASSUME NEW n \in Nat, Claimed(p, n) PROVE WorkTypes'
    BY <2>1, <1>a, <1>l, Constants DEF Claimed, Goto, WorkTypes
  <2>2. ticket[p].input \in Nat BY <1>a DEF WorkTypes
  <2>3. WorkTypes' BY <1>16, <1>a, <2>1, <2>2, LeavingTypes DEF GlobalInsert, GlobalUpdate
  <2>4. GlobalTypes'
    <3>1. CASE GlobalInsert(p)
      BY <3>1, <1>a, ZenonT(60) DEF GlobalInsert, ClaimFrame, GlobalTypes
    <3>2. CASE GlobalUpdate(p)
      BY <3>2, <1>a, ZenonT(60) DEF GlobalUpdate, ClaimFrame, GlobalTypes
    <3> QED BY <1>16, <3>1, <3>2
  <2> QED BY <1>16, <2>3, <2>4, <1>a DEF GlobalInsert, GlobalUpdate, ClaimFrame, StoreTypes, SpaceTypes
<1>17. ASSUME NEW p \in Procs, Select(p) PROVE StoreTypes' /\ GlobalTypes' /\ WorkTypes' /\ SpaceTypes'
  <2>1. WorkTypes' BY <1>17, <1>a, <1>l, SelectEffect DEF Select, Goto, WorkTypes
  <2> QED BY <1>17, <2>1, <1>a DEF Select, StoreTypes, GlobalTypes, SpaceTypes
<1>18. ASSUME NEW p \in Procs, Diff(p) PROVE StoreTypes' /\ GlobalTypes' /\ WorkTypes' /\ SpaceTypes'
  <2>1. WorkTypes' BY <1>18, <1>a, <1>l DEF Diff, Goto, WorkTypes
  <2>2. GlobalTypes' BY <1>18, <1>a DEF Diff, GlobalTypes
  <2> QED BY <1>18, <2>1, <2>2, <1>a DEF Diff, Commit, StoreTypes, SpaceTypes
<1>19. ASSUME NEW p \in Procs, MarkSucceeded(p) PROVE StoreTypes' /\ GlobalTypes' /\ WorkTypes' /\ SpaceTypes'
  <2>1. WorkTypes' BY <1>19, <1>a, LeavingTypes DEF MarkSucceeded
  <2>2. GlobalTypes' /\ out' \in [Threads -> [src : Known, selected : Known]]
    BY <1>19, <1>a, SucceededEffect DEF MarkSucceeded, GlobalTypes, StoreTypes
  <2>3. recorded' \in [inputs : Pages, offered : Pages] BY <1>19, <1>a DEF MarkSucceeded, WorkTypes, SpaceTypes
  <2> QED BY <1>19, <2>1, <2>2, <2>3, <1>a DEF MarkSucceeded, StoreTypes, SpaceTypes
<1>20. ASSUME NEW p \in Procs, MarkFailed(p) PROVE StoreTypes' /\ GlobalTypes' /\ WorkTypes' /\ SpaceTypes'
  <2>1. WorkTypes' BY <1>20, <1>a, LeavingTypes DEF MarkFailed
  <2>2. GlobalTypes' BY <1>20, <1>a DEF MarkFailed, GlobalTypes
  <2> QED BY <1>20, <2>1, <2>2, <1>a DEF MarkFailed, StoreTypes, SpaceTypes
<1> QED BY <1>1, <1>2, <1>3, <1>4, <1>5, <1>6, <1>7, <1>8, <1>9, <1>10, <1>11, <1>12, <1>13, <1>14,
           <1>15, <1>16, <1>17, <1>18, <1>19, <1>20 DEF Next, SomeStep, Stage1Step, Phase2Step

-----------------------------------------------------------------------------
(* The jobs of stage 1.                                                    *)

\* a row that is written for nobody and for nothing else leaves the jobs as they are
SameJob(t) ==
  /\ job'[t].status = job[t].status /\ job'[t].owner = job[t].owner
  /\ job'[t].retries = job[t].retries /\ job'[t].input = job[t].input
  /\ job'[t].success = job[t].success

\* Steps that write no row of stage 1, drop summaries at most and claim nothing.
LEMMA JobsFrame ==
  ASSUME IInv, \A t \in Threads : SameJob(t) /\ out'[t].src \in {0, out[t].src},
         UNCHANGED finished,
         \A q \in Procs : claims'[q] = claims[q] \/ claims'[q] = Blank
  PROVE  JobsRun' /\ OwnClaims' /\ WatermarkEarned' /\ SummaryCoversWatermark'
<1>1. JobsRun' BY DEF IInv, JobsRun, SameJob
<1>2. OwnClaims' BY DEF IInv, OwnClaims, Owns, Holds, SameJob, Blank
<1>3. WatermarkEarned' BY DEF IInv, WatermarkEarned, SameJob
<1>4. SummaryCoversWatermark' BY DEF IInv, SummaryCoversWatermark, SameJob
<1> QED BY <1>1, <1>2, <1>3, <1>4

\* Steps of a process that works at one job.
LEMMA JobsStep ==
  IInv /\ [Next]_vars => JobsRun' /\ OwnClaims' /\ WatermarkEarned' /\ SummaryCoversWatermark'
<1> SUFFICES ASSUME IInv, [Next]_vars
             PROVE  JobsRun' /\ OwnClaims' /\ WatermarkEarned' /\ SummaryCoversWatermark'
  OBVIOUS
<1>a. StoreTypes /\ GlobalTypes /\ WorkTypes /\ SpaceTypes BY TypeGroups DEF IInv
<1>b. JobsRun /\ OwnClaims /\ WatermarkEarned /\ SummaryCoversWatermark /\ Tickets BY DEF IInv
<1>c. \A t \in Threads : job[t].input \in Nat /\ job[t].success \in Nat /\ finished[t] \in Nat /\ out[t].src \in Nat
  BY <1>a, Constants DEF StoreTypes, JobRows, SpaceTypes
<1>d. \A p \in Procs, t \in Threads : claims[p][t] \in Nat
  BY <1>a, Constants DEF WorkTypes
<1> USE DEF store, work, space, ghosts
<1>1. CASE UNCHANGED vars \/ SomeTouch \/ SomePollute
  <2>1. UNCHANGED <<job, out, finished, claims>>
    BY <1>1 DEF vars, SomeTouch, SomePollute, Touch, Pollute
  <2> QED BY <2>1, JobsFrame DEF SameJob
<1>2. CASE Elapse
  <2>1. UNCHANGED <<out, finished, claims>> /\ \A t \in Threads : SameJob(t)
    BY <1>2, <1>a, ElapseEffect DEF Elapse, SameJob
  <2> QED BY <2>1, JobsFrame
<1>3. ASSUME NEW p \in Procs, PruneWrite(p) PROVE JobsRun' /\ OwnClaims' /\ WatermarkEarned' /\ SummaryCoversWatermark'
  <2>1. UNCHANGED <<job, finished, claims>> /\ \A t \in Threads : out'[t].src \in {0, out[t].src}
    BY <1>3 DEF PruneWrite
  <2> QED BY <2>1, JobsFrame DEF SameJob
<1>4. ASSUME NEW p \in Procs,
             \/ PruneRead(p) \/ Scan(p) \/ (\E t \in Threads : ClaimRead(p, t)) \/ ClaimsDone(p) \/ StageDone(p)
             \/ GlobalRead(p) \/ GlobalInsert(p) \/ GlobalUpdate(p)
             \/ Prepare(p) \/ Select(p) \/ Sync(p) \/ Diff(p) \/ SessionOver(p) \/ Reset(p) \/ CommitBaseline(p)
             \/ MarkFailed(p) \/ Leave(p) \/ SyncUnclaimed(p)
      PROVE  JobsRun' /\ OwnClaims' /\ WatermarkEarned' /\ SummaryCoversWatermark'
  <2>1. UNCHANGED <<job, out, finished>>
    BY <1>4 DEF PruneRead, Scan, ClaimRead, ClaimsDone, StageDone, GlobalRead, GlobalInsert, GlobalUpdate, ClaimFrame,
       Prepare, Select, Sync, Diff, SessionOver, Reset, CommitBaseline, MarkFailed, Leave, SyncUnclaimed
  <2>2. UNCHANGED claims \/ claims' = [claims EXCEPT ![p] = Blank]
    BY <1>4 DEF PruneRead, Scan, ClaimRead, ClaimsDone, StageDone, GlobalRead, GlobalInsert, GlobalUpdate, ClaimFrame, Claimed,
       Prepare, Select, Sync, Diff, SessionOver, Reset, CommitBaseline, MarkFailed, Leave, SyncUnclaimed,
       Leaving, Forget
  <2>3. \A q \in Procs : claims'[q] = claims[q] \/ claims'[q] = Blank BY <2>2, <1>a DEF WorkTypes
  <2> QED BY <2>1, <2>3, JobsFrame DEF SameJob
<1>5. ASSUME NEW p \in Procs, MarkSucceeded(p) PROVE JobsRun' /\ OwnClaims' /\ WatermarkEarned' /\ SummaryCoversWatermark'
  <2>1. UNCHANGED <<job, finished>> /\ \A t \in Threads : out'[t].src = out[t].src
    BY <1>5, <1>a, SucceededEffect DEF MarkSucceeded
  <2>2. \A q \in Procs : claims'[q] = claims[q] \/ claims'[q] = Blank
    <3>1. Leaving(p) BY <1>5 DEF MarkSucceeded
    <3>2. claims' = [claims EXCEPT ![p] = Blank] BY <3>1 DEF Leaving, Forget
    <3> QED BY <3>2, <1>a DEF WorkTypes
  <2> QED BY <2>1, <2>2, JobsFrame DEF SameJob
<1>6. ASSUME NEW p \in Procs, ClaimWrite(p) PROVE JobsRun' /\ OwnClaims' /\ WatermarkEarned' /\ SummaryCoversWatermark'
  <2> DEFINE c == ticket[p]
  <2>1. /\ c.thread \in Threads /\ c.retries > 0 /\ c.input \in Versions
        /\ JobBecomes(c.thread, "running", p, c.retries, c.input, job[c.thread].success)
    BY <1>6, <1>a, <1>b, ClaimEffect
  <2>2. /\ claims'[p][c.thread] = c.input /\ UNCHANGED <<out, finished>>
        /\ \A q \in Procs, t \in Threads : <<q, t>> # <<p, c.thread>> => claims'[q][t] = claims[q][t]
    BY <1>6, <2>1, <1>a DEF ClaimWrite, WorkTypes, Pages
  <2>3. JobsRun' BY <2>1, <1>b, Constants DEF JobsRun, JobBecomes
  <2>4. OwnClaims' BY <2>1, <2>2, <1>b DEF OwnClaims, Owns, Holds, JobBecomes
  <2>5. WatermarkEarned' BY <2>1, <2>2, <1>b DEF WatermarkEarned, JobBecomes
  <2>6. SummaryCoversWatermark' BY <2>1, <2>2, <1>b DEF SummaryCoversWatermark, JobBecomes
  <2> QED BY <2>3, <2>4, <2>5, <2>6
<1>7. ASSUME NEW p \in Procs, NEW t \in Threads, Summarised(p, t) \/ NothingToSay(p, t)
      PROVE  JobsRun' /\ OwnClaims' /\ WatermarkEarned' /\ SummaryCoversWatermark'
  <2>1. claims[p][t] # 0 /\ FinishWork(p, t) BY <1>7 DEF Summarised, NothingToSay
  <2>2. /\ \A q \in Procs, u \in Threads : claims'[q][u] \in {0, claims[q][u]}
        /\ finished'[t] >= claims[p][t] /\ \A u \in Threads : finished'[u] >= finished[u] /\ finished'[u] \in Nat
    <3>1. \A q \in Procs, u \in Threads : claims'[q][u] \in {0, claims[q][u]}
      BY <2>1, <1>a DEF FinishWork, WorkTypes, Pages
    <3>2. /\ finished'[t] = IF claims[p][t] > finished[t] THEN claims[p][t] ELSE finished[t]
          /\ \A u \in Threads \ {t} : finished'[u] = finished[u]
      BY <2>1, <1>a DEF FinishWork, SpaceTypes, Pages
    <3> QED BY <3>1, <3>2, <1>c, <1>d
  <2>3. CASE ~Owns(p, t)
    <3>1. UNCHANGED <<job, out>> BY <1>7, <2>3 DEF Summarised, NothingToSay
    <3>2. JobsRun' BY <3>1, <1>b DEF JobsRun
    <3>3. OwnClaims' BY <3>1, <2>2, <1>b DEF OwnClaims, Owns, Holds
    <3>4. WatermarkEarned' BY <3>1, <2>2, <1>b, <1>c DEF WatermarkEarned
    <3>5. SummaryCoversWatermark' BY <3>1, <1>b DEF SummaryCoversWatermark
    <3> QED BY <3>2, <3>3, <3>4, <3>5
  <2>4. CASE Owns(p, t)
    <3>1. /\ job[t].input = claims[p][t]
          /\ JobBecomes(t, "done", job[t].owner, job[t].retries, job[t].input, job[t].input)
      BY <1>7, <2>1, <2>4, <1>a, <1>b, DoneEffect DEF Summarised, NothingToSay, OwnClaims
    <3>2. /\ \A u \in Threads \ {t} : out'[u] = out[u]
          /\ out'[t].src # 0 => out'[t].src >= claims[p][t]
      <4>1. CASE Summarised(p, t)
        <5>1. Upsert(t, claims[p][t]) BY <4>1, <2>4 DEF Summarised
        <5> QED BY <5>1, <1>a, <1>c, <1>d DEF Upsert, StoreTypes
      <4>2. CASE NothingToSay(p, t)
        <5>1. DropOutput(t) BY <4>2, <2>4 DEF NothingToSay
        <5> QED BY <5>1, <1>a DEF DropOutput, StoreTypes
      <4> QED BY <1>7, <4>1, <4>2
    <3>3. JobsRun' BY <3>1, <1>b DEF JobsRun, JobBecomes
    <3>4. OwnClaims' BY <3>1, <2>2, <1>b DEF OwnClaims, Owns, Holds, JobBecomes
    <3>5. WatermarkEarned' BY <3>1, <2>2, <1>b, <1>c, <1>d DEF WatermarkEarned, JobBecomes
    <3>6. SummaryCoversWatermark' BY <3>1, <3>2, <1>b DEF SummaryCoversWatermark, JobBecomes
    <3> QED BY <3>3, <3>4, <3>5, <3>6
  <2> QED BY <2>3, <2>4
<1>8. ASSUME NEW p \in Procs, NEW t \in Threads, StageFailed(p, t)
      PROVE  JobsRun' /\ OwnClaims' /\ WatermarkEarned' /\ SummaryCoversWatermark'
  <2>1. /\ UNCHANGED <<out, finished>>
        /\ \A q \in Procs, u \in Threads : claims'[q][u] \in {0, claims[q][u]}
    BY <1>8, <1>a DEF StageFailed, WorkTypes, Pages
  <2>2. \/ UNCHANGED job
        \/ JobBecomes(t, "error", job[t].owner, job[t].retries - 1, job[t].input, job[t].success)
    BY <1>8, <1>a, <1>b, FailEffect DEF StageFailed
  <2>3. JobsRun' BY <2>2, <1>b DEF JobsRun, JobBecomes
  <2>4. OwnClaims' BY <2>1, <2>2, <1>b DEF OwnClaims, Owns, Holds, JobBecomes
  <2>5. WatermarkEarned' BY <2>1, <2>2, <1>b DEF WatermarkEarned, JobBecomes
  <2>6. SummaryCoversWatermark' BY <2>1, <2>2, <1>b DEF SummaryCoversWatermark, JobBecomes
  <2> QED BY <2>3, <2>4, <2>5, <2>6
<1> QED BY <1>1, <1>2, <1>3, <1>4, <1>5, <1>6, <1>7, <1>8 DEF Next, SomeStep, Stage1Step, Phase2Step

-----------------------------------------------------------------------------
(* The global job.                                                         *)

\* a change that is enqueued by the step
Enqueues == \E v \in Nat \ {0} :
  /\ Enqueue(v)
  /\ \A t \in Threads : out'[t].src <= v \/ out'[t].src <= global.input
  /\ UNCHANGED <<at, ticket, selection>>

\* a step that writes nothing into the two watermarks, brings no summary and
\* makes nothing outdated that was not
Settles ==
  /\ global'.input = global.input /\ global'.success = global.success
  /\ global'.status = "none" => global.status = "none"
  /\ \A t \in Threads : out'[t].src \in {0, out[t].src}
  /\ Outdated(recorded)' => Outdated(recorded)
  /\ \A q \in Procs : Consolidates(q)' => selection'[q].completed <= global.input
  /\ \A q \in Procs : Consolidating(q)' /\ Outdated(selection[q])' =>
       /\ Consolidating(q) /\ Outdated(selection[q])
       /\ selection'[q].completed = selection[q].completed

GlobalInv == NoRow /\ BelowInput /\ ChangeIsAbove /\ DirtyIsVisible

\* A change is above everything a consolidation under way will record.
LEMMA EnqueuesKeeps == IInv /\ StoreTypes' /\ Enqueues => GlobalInv' /\ global'.input >= global.input
<1> SUFFICES ASSUME IInv, StoreTypes', Enqueues PROVE GlobalInv' /\ global'.input >= global.input OBVIOUS
<1>a. StoreTypes /\ GlobalTypes /\ WorkTypes BY TypeGroups DEF IInv
<1>1. PICK v \in Nat \ {0} :
        /\ Enqueue(v)
        /\ \A t \in Threads : out'[t].src <= v \/ out'[t].src <= global.input
        /\ UNCHANGED <<at, ticket, selection>>
  BY DEF Enqueues
<1>2. /\ GlobalTypes' /\ global'.input > global.input /\ global'.input >= v
      /\ global'.success = global.success /\ global'.owner = global.owner
      /\ global'.status # "none" /\ (global'.status = "running" <=> global.status = "running")
  BY <1>1, <1>a, EnqueueRaises DEF IInv
<1>3. /\ global.input \in Nat /\ global'.input \in Nat /\ global.success \in Nat
      /\ \A q \in Procs : selection[q].completed \in Nat
  BY <1>2, <1>a DEF GlobalTypes, WorkTypes
<1>4. \A t \in Threads : out'[t].src \in Nat BY Constants DEF StoreTypes
<1>5. NoRow' BY <1>2 DEF NoRow
<1>6. BelowInput'
  <2>1. \A t \in Threads : out'[t].src <= global'.input BY <1>1, <1>2, <1>3, <1>4
  <2>2. \A q \in Procs : Consolidates(q)' => selection'[q].completed <= global'.input
    BY <1>1, <1>2, <1>3 DEF IInv, BelowInput, Consolidates
  <2>3. global'.success <= global'.input BY <1>2, <1>3 DEF IInv, BelowInput
  <2> QED BY <2>1, <2>2, <2>3 DEF BelowInput
<1>7. global'.success < global'.input BY <1>2, <1>3 DEF IInv, BelowInput
<1>8. ChangeIsAbove'
  <2>1. \A q \in Procs : at'[q] \in Selected => selection'[q].completed < global'.input
    BY <1>1, <1>2, <1>3 DEF IInv, BelowInput, Consolidates
  <2> QED BY <2>1, <1>7 DEF ChangeIsAbove, Consolidating
<1>9. DirtyIsVisible' BY <1>3, <1>7 DEF DirtyIsVisible
<1> QED BY <1>2, <1>3, <1>5, <1>6, <1>8, <1>9 DEF GlobalInv

\* Steps that enqueue nothing keep what is below the watermark below it.
LEMMA SettlesKeeps == IInv /\ Settles => GlobalInv' /\ global'.input >= global.input
<1> SUFFICES ASSUME IInv, Settles PROVE GlobalInv' /\ global'.input >= global.input OBVIOUS
<1>a. StoreTypes /\ GlobalTypes /\ WorkTypes BY TypeGroups DEF IInv
<1>1. global.input \in Nat /\ 0 <= global.input BY <1>a DEF GlobalTypes
<1>2. NoRow' BY DEF IInv, NoRow, Settles
<1>3. BelowInput' BY <1>1 DEF IInv, BelowInput, Settles
<1>4. ChangeIsAbove'
  <2>1. \A q \in Procs : Consolidating(q) /\ Outdated(selection[q]) =>
          selection[q].completed < global.input /\ global.success < global.input
    BY DEF IInv, ChangeIsAbove
  <2>2. \A q \in Procs : Consolidating(q)' /\ Outdated(selection[q])' =>
          selection'[q].completed < global'.input /\ global'.success < global'.input
    BY <2>1 DEF Settles
  <2> QED BY <2>2 DEF ChangeIsAbove
<1>5. DirtyIsVisible' BY DEF IInv, DirtyIsVisible, Settles
<1> QED BY <1>1, <1>2, <1>3, <1>4, <1>5 DEF GlobalInv, Settles

\* no summary changes
SameSummaries ==
  /\ UNCHANGED <<untold, recorded, polluted>>
  /\ \A t \in Threads : out'[t].src = out[t].src

\* Then what is outdated is what was.
LEMMA SameViews ==
  ASSUME SameSummaries
  PROVE  /\ \A t \in Threads : View(t)' = View(t)
         /\ Outdated(recorded)' <=> Outdated(recorded)
         /\ \A q \in Procs : selection'[q] = selection[q] =>
              (Outdated(selection[q])' <=> Outdated(selection[q]))
<1>1. \A t \in Threads : View(t)' = View(t) BY DEF SameSummaries, View
<1> QED BY <1>1 DEF SameSummaries, Outdated, Stale

\* A summary that goes silently makes a choice outdated only where it was
\* chosen, and there it is among the untold.
LEMMA SilentViews ==
  ASSUME NEW gone \in SUBSET Threads, Silently(gone), UNCHANGED recorded,
         \A t \in gone : View(t)' = 0, \A t \in Threads \ gone : View(t)' = View(t)
  PROVE  /\ Outdated(recorded)' => Outdated(recorded)
         /\ \A q \in Procs : Consolidating(q) /\ selection'[q] = selection[q] /\ Outdated(selection[q])'
              => Outdated(selection[q])
<1>1. untold' = untold \cup {t \in gone : Chosen(t)} BY DEF Silently
<1>2. ASSUME Outdated(recorded)' PROVE Outdated(recorded)
  <2>1. PICK t \in Threads \ untold' : Stale(recorded, t)' BY <1>2 DEF Outdated
  <2>2. CASE t \in gone
    <3>1. ~Chosen(t) /\ recorded.inputs[t] # 0 BY <2>1, <2>2, <1>1 DEF Stale
    <3>2. View(t) # recorded.inputs[t] BY <3>1 DEF Chosen
    <3> QED BY <2>1, <3>1, <3>2, <1>1 DEF Outdated, Stale
  <2>3. CASE t \notin gone BY <2>1, <2>3, <1>1 DEF Outdated, Stale
  <2> QED BY <2>2, <2>3
<1>3. ASSUME NEW q \in Procs, Consolidating(q), selection'[q] = selection[q], Outdated(selection[q])'
      PROVE  Outdated(selection[q])
  <2>1. PICK t \in Threads \ untold' : Stale(selection[q], t)' BY <1>3 DEF Outdated
  <2>2. CASE t \in gone
    <3>1. ~Chosen(t) /\ selection[q].inputs[t] # 0 BY <2>1, <2>2, <1>1, <1>3 DEF Stale
    <3>2. View(t) # selection[q].inputs[t] BY <3>1, <1>3 DEF Chosen, Consolidating
    <3> QED BY <2>1, <3>1, <3>2, <1>1 DEF Outdated, Stale
  <2>3. CASE t \notin gone BY <2>1, <2>3, <1>1, <1>3 DEF Outdated, Stale
  <2> QED BY <2>2, <2>3
<1> QED BY <1>2, <1>3

\* A step of one process that changes no summary and neither watermark, and
\* leaves the choice it may record as it is or as the summaries are.
LEMMA OwnStep ==
  ASSUME IInv, NEW p \in Procs, SameSummaries,
         global'.input = global.input, global'.success = global.success,
         global'.status = "none" => global.status = "none",
         \A q \in Procs \ {p} : /\ at'[q] = at[q] /\ selection'[q] = selection[q]
                                /\ Holds(q, global') => Holds(q, global),
         Consolidates(p)' => selection'[p].completed <= global.input,
         at'[p] \in Selected => \/ ~Outdated(selection[p])'
                                \/ /\ at[p] \in Selected /\ selection'[p] = selection[p]
                                   /\ Holds(p, global') => Holds(p, global)
  PROVE  GlobalInv' /\ global'.input >= global.input
<1>1. \A t \in Threads : out'[t].src \in {0, out[t].src} BY DEF SameSummaries
<1>2. Outdated(recorded)' => Outdated(recorded) BY SameViews
<1>3. \A q \in Procs : Consolidates(q)' => selection'[q].completed <= global.input
  BY DEF IInv, BelowInput, Consolidates
<1>4. ASSUME NEW q \in Procs, Consolidating(q)', Outdated(selection[q])'
      PROVE  /\ Consolidating(q) /\ Outdated(selection[q])
             /\ selection'[q].completed = selection[q].completed
  <2>1. at'[q] \in Selected /\ Holds(q, global') BY <1>4 DEF Consolidating, Holds
  <2>2. at[q] \in Selected /\ selection'[q] = selection[q] /\ Holds(q, global)
    <3>1. CASE q = p BY <3>1, <2>1, <1>4
    <3>2. CASE q # p BY <3>2, <2>1
    <3> QED BY <3>1, <3>2
  <2> QED BY <2>2, <1>4, SameViews DEF Consolidating
<1>5. Settles BY <1>1, <1>2, <1>3, <1>4 DEF Settles
<1> QED BY <1>5, SettlesKeeps

\* A step that takes summaries away silently, by a process that is in no
\* consolidation or by none.
LEMMA SilentStep ==
  ASSUME IInv, NEW gone \in SUBSET Threads, Silently(gone), UNCHANGED <<recorded, selection>>,
         \A t \in gone : View(t)' = 0, \A t \in Threads \ gone : View(t)' = View(t),
         \A t \in Threads : out'[t].src \in {0, out[t].src},
         \A q \in Procs : at'[q] = at[q] \/ at'[q] = "scan"
  PROVE  GlobalInv' /\ global'.input >= global.input
<1>1. global' = global BY DEF Silently
<1>2. Outdated(recorded)' => Outdated(recorded) BY SilentViews
<1>3. \A q \in Procs : Consolidates(q)' => selection'[q].completed <= global.input
  BY DEF IInv, BelowInput, Consolidates, Selected
<1>4. ASSUME NEW q \in Procs, Consolidating(q)', Outdated(selection[q])'
      PROVE  /\ Consolidating(q) /\ Outdated(selection[q])
             /\ selection'[q].completed = selection[q].completed
  <2>1. Consolidating(q) BY <1>1, <1>4 DEF Consolidating, Holds, Selected
  <2> QED BY <2>1, <1>4, SilentViews
<1>5. Settles BY <1>1, <1>2, <1>3, <1>4 DEF Settles
<1> QED BY <1>5, SettlesKeeps

\* A consolidation that has recorded leaves input_watermark above what it
\* recorded if its choice is outdated.
LEMMA SucceededKeeps ==
  ASSUME IInv, NEW p \in Procs, MarkSucceeded(p), Holds(p, global)
  PROVE  GlobalInv' /\ global'.input >= global.input
<1>a. StoreTypes /\ GlobalTypes /\ WorkTypes BY TypeGroups DEF IInv
<1>b. NoRow /\ BelowInput /\ ChangeIsAbove /\ DirtyIsVisible BY DEF IInv
<1>1. /\ \A t \in Threads : out'[t].src = out[t].src
      /\ global'.success \in {global.success, selection[p].completed}
      /\ global'.input = global.input /\ global'.status = "done"
  BY <1>a, SucceededEffect
<1>2. /\ at[p] = "done" /\ Leaving(p) /\ UNCHANGED <<untold, polluted>>
      /\ recorded' = [inputs |-> selection[p].inputs, offered |-> selection[p].offered]
  BY DEF MarkSucceeded
<1>3. at'[p] = "off" /\ \A q \in Procs \ {p} : at'[q] = at[q] /\ selection'[q] = selection[q]
  BY <1>2, <1>a, LeavingTypes
<1>4. /\ global.input \in Nat /\ global.success <= global.input /\ selection[p].completed <= global.input
  BY <1>2, <1>a, <1>b DEF GlobalTypes, BelowInput, Consolidates, Selected
<1>5. NoRow' BY <1>1 DEF NoRow
<1>6. BelowInput'
  <2>1. \A q \in Procs : Consolidates(q)' => selection'[q].completed <= global.input
    BY <1>3, <1>b DEF BelowInput, Consolidates, Selected
  <2> QED BY <1>1, <1>4, <2>1, <1>b DEF BelowInput
<1>7. ChangeIsAbove' BY <1>1 DEF ChangeIsAbove, Consolidating, Holds
<1>8. DirtyIsVisible'
  <2>1. \A t \in Threads : View(t)' = View(t) BY <1>1, <1>2 DEF View
  <2>2. Outdated(recorded)' => Outdated(selection[p]) BY <1>2, <2>1 DEF Outdated, Stale
  <2>3. Consolidating(p) BY <1>2 DEF Consolidating, Selected
  <2>4. Outdated(selection[p]) => selection[p].completed < global.input /\ global.success < global.input
    BY <2>3, <1>b DEF ChangeIsAbove
  <2> QED BY <1>1, <2>2, <2>4 DEF DirtyIsVisible
<1> QED BY <1>1, <1>4, <1>5, <1>6, <1>7, <1>8 DEF GlobalInv

\* Every step of the processes keeps what is said of the global row, and its
\* input_watermark never falls.
LEMMA GlobalStep == IInv /\ [Next]_vars => GlobalInv' /\ global'.input >= global.input
<1> SUFFICES ASSUME IInv, [Next]_vars PROVE GlobalInv' /\ global'.input >= global.input OBVIOUS
<1>a. StoreTypes /\ GlobalTypes /\ WorkTypes /\ SpaceTypes BY TypeGroups DEF IInv
<1>b. NoRow /\ BelowInput /\ Tickets /\ JobsRun BY DEF IInv
<1>c. StoreTypes' BY TypeStep, TypeGroups
<1>d. \A t \in Threads : out[t].src \in Nat /\ out[t].src <= global.input
  BY <1>a, <1>b, Constants DEF StoreTypes, BelowInput
<1>s. Enqueues \/ Settles => GlobalInv' /\ global'.input >= global.input
  BY <1>c, EnqueuesKeeps, SettlesKeeps
<1> USE DEF store, work, space, ghosts
\* steps that touch nothing of the global job
<1>1. ASSUME SameSummaries, UNCHANGED <<at, selection>>, global'.input = global.input,
             global'.success = global.success, global'.status = global.status, global'.owner = global.owner
      PROVE  GlobalInv' /\ global'.input >= global.input
  <2>1. Outdated(recorded)' => Outdated(recorded) BY <1>1, SameViews
  <2>2. \A q \in Procs : Outdated(selection[q])' => Outdated(selection[q]) BY <1>1, SameViews
  <2>3. Settles BY <2>1, <2>2, <1>1, <1>b
    DEF Settles, SameSummaries, BelowInput, Consolidates, Consolidating, Holds
  <2> QED BY <2>3, <1>s
<1>2. CASE UNCHANGED vars \/ SomeTouch
  <2>1. UNCHANGED <<global, at, selection, polluted, untold, recorded, out>>
    BY <1>2 DEF vars, SomeTouch, Touch
  <2> QED BY <2>1, <1>1 DEF SameSummaries
<1>3. CASE SomePollute
  <2>1. PICK t \in Threads : Pollute(t) BY <1>3 DEF SomePollute
  <2>2. UNCHANGED <<out, at, ticket, selection, recorded>> BY <2>1 DEF Pollute
  <2>3. CASE out[t].selected # 0
    <3>1. Enqueue(Now) /\ Now \in Nat \ {0} BY <2>1, <2>3, Constants DEF Pollute
    <3>2. Enqueues BY <2>2, <3>1, <1>d DEF Enqueues
    <3> QED BY <3>2, <1>s
  <2>4. CASE out[t].selected = 0
    <3>1. Silently({t}) BY <2>1, <2>4 DEF Pollute
    <3>2. View(t)' = 0 /\ \A u \in Threads \ {t} : View(u)' = View(u) BY <2>1, <2>2 DEF Pollute, View
    <3> QED BY <2>2, <3>1, <3>2, SilentStep
  <2> QED BY <2>3, <2>4
<1>4. CASE Elapse
  <2>1. UNCHANGED <<out, at, selection, polluted, untold, recorded>> BY <1>4 DEF Elapse
  <2>2. /\ global'.status = global.status /\ global'.owner = global.owner
        /\ global'.input = global.input /\ global'.success = global.success
    BY <1>4, <1>a, ElapseEffect
  <2> QED BY <2>1, <2>2, <1>1 DEF SameSummaries
\* steps of a process before it has a claim on the global job
<1>5. ASSUME NEW p \in Procs, PruneWrite(p) PROVE GlobalInv' /\ global'.input >= global.input
  <2> DEFINE old == {t \in Threads : rows[p][t] # 0}
  <2>1. Silently(old) /\ UNCHANGED <<recorded, selection, polluted>> /\ Goto(p, "scan")
    BY <1>5 DEF PruneWrite
  <2>2. /\ \A t \in old : out'[t].src = 0
        /\ \A t \in Threads \ old : out'[t].src = out[t].src
    BY <1>5 DEF PruneWrite
  <2>3. \A q \in Procs : at'[q] = at[q] \/ at'[q] = "scan" BY <2>1, <1>a DEF Goto, WorkTypes
  <2>4. old \in SUBSET Threads OBVIOUS
  <2> HIDE DEF old
  <2>5. (\A t \in old : View(t)' = 0) /\ \A t \in Threads \ old : View(t)' = View(t)
    BY <2>1, <2>2, <2>4 DEF View
  <2>6. \A t \in Threads : out'[t].src \in {0, out[t].src} BY <2>2
  <2> QED BY <2>1, <2>3, <2>4, <2>5, <2>6, SilentStep
<1>6. ASSUME NEW p \in Procs,
             \/ PruneRead(p) \/ Scan(p) \/ (\E t \in Threads : ClaimRead(p, t)) \/ ClaimWrite(p)
             \/ ClaimsDone(p) \/ StageDone(p) \/ GlobalRead(p) \/ Leave(p) \/ SyncUnclaimed(p)
      PROVE  GlobalInv' /\ global'.input >= global.input
  <2>1. UNCHANGED <<global, out, polluted, untold, recorded>>
    <3>1. CASE PruneRead(p) BY <3>1 DEF PruneRead
    <3>2. CASE Scan(p) \/ \E t \in Threads : ClaimRead(p, t) BY <3>2 DEF Scan, ClaimRead
    <3>3. CASE ClaimWrite(p) BY <3>3 DEF ClaimWrite
    <3>4. CASE ClaimsDone(p) BY <3>4 DEF ClaimsDone
    <3>5. CASE StageDone(p) BY <3>5 DEF StageDone
    <3>6. CASE GlobalRead(p) \/ Leave(p) \/ SyncUnclaimed(p) BY <3>6 DEF GlobalRead, Leave, SyncUnclaimed
    <3> QED BY <1>6, <3>1, <3>2, <3>3, <3>4, <3>5, <3>6
  <2>2. /\ at'[p] \in {"off", "prune", "scan", "claim", "write", "work", "inputs", "phase2", "insert", "update"}
        /\ \A q \in Procs \ {p} : at'[q] = at[q] /\ selection'[q] = selection[q]
    <3>1. CASE Leaving(p) BY <3>1, <1>a, LeavingTypes
    <3>2. CASE /\ UNCHANGED selection
               /\ \/ UNCHANGED at /\ at[p] = "claim"
                  \/ \E l \in {"prune", "scan", "claim", "write", "work", "inputs", "phase2", "insert", "update"} : Goto(p, l)
      BY <3>2, <1>a DEF Goto, WorkTypes
    <3>3. CASE PruneRead(p) \/ Scan(p)
      <4>1. UNCHANGED selection /\ (Goto(p, "prune") \/ Goto(p, "claim")) BY <3>3 DEF PruneRead, Scan
      <4> QED BY <3>2, <4>1
    <3>4. CASE \E t \in Threads : ClaimRead(p, t)
      <4>1. UNCHANGED selection /\ (Goto(p, "write") \/ (UNCHANGED at /\ at[p] = "claim"))
        BY <3>4 DEF ClaimRead
      <4> QED BY <3>2, <4>1
    <3>5. CASE ClaimWrite(p) \/ ClaimsDone(p)
      <4>1. UNCHANGED selection /\ (Goto(p, "claim") \/ Goto(p, "work"))
        BY <3>5 DEF ClaimWrite, ClaimsDone
      <4> QED BY <3>2, <4>1
    <3>6. CASE StageDone(p)
      <4>1. PICK b \in Phase2Modes : Goto(p, IF b THEN "phase2" ELSE "inputs")
        BY <3>6 DEF StageDone
      <4>2. UNCHANGED selection BY <3>6 DEF StageDone
      <4>3. Goto(p, "phase2") \/ Goto(p, "inputs")
        <5>1. CASE b BY <4>1, <5>1
        <5>2. CASE ~b BY <4>1, <5>2
        <5> QED BY <5>1, <5>2
      <4> QED BY <3>2, <4>2, <4>3
    <3>7. CASE GlobalRead(p)
      <4>1. Leaving(p) \/ (UNCHANGED selection /\ (Goto(p, "insert") \/ Goto(p, "update")))
        BY <3>7 DEF GlobalRead
      <4> QED BY <3>1, <3>2, <4>1
    <3>8. CASE Leave(p) \/ SyncUnclaimed(p) BY <3>1, <3>8 DEF Leave, SyncUnclaimed
    <3> QED BY <1>6, <3>3, <3>4, <3>5, <3>6, <3>7, <3>8
  <2>3. at'[p] \notin Selected /\ ~Consolidates(p)' BY <2>2 DEF Consolidates, Selected
  <2>4. SameSummaries BY <2>1 DEF SameSummaries
  <2> QED BY <2>1, <2>2, <2>3, <2>4, OwnStep
<1>7. ASSUME NEW p \in Procs, NEW t \in Threads, Summarised(p, t)
      PROVE  GlobalInv' /\ global'.input >= global.input
  <2>1. /\ UNCHANGED <<at, ticket, selection, polluted, recorded>>
        /\ claims[p][t] # 0 /\ claims[p][t] \in Nat \ {0}
    BY <1>7, <1>a, Constants DEF Summarised, StageFrame, WorkTypes
  <2>2. CASE Owns(p, t)
    <3>1. Enqueue(claims[p][t]) /\ Upsert(t, claims[p][t]) BY <1>7, <2>2 DEF Summarised
    <3>2. \A u \in Threads : out'[u].src \in {out[u].src, claims[p][t]}
      BY <3>1, <1>a DEF Upsert, StoreTypes
    <3>3. Enqueues BY <2>1, <3>1, <3>2, <1>d DEF Enqueues
    <3> QED BY <3>3, <1>s
  <2>3. CASE ~Owns(p, t)
    <3>1. UNCHANGED <<out, global, untold>> BY <1>7, <2>3 DEF Summarised
    <3> QED BY <2>1, <3>1, <1>1 DEF SameSummaries
  <2> QED BY <2>2, <2>3
<1>8. ASSUME NEW p \in Procs, NEW t \in Threads, NothingToSay(p, t)
      PROVE  GlobalInv' /\ global'.input >= global.input
  <2>1. UNCHANGED <<at, ticket, selection, polluted, recorded>> BY <1>8 DEF NothingToSay, StageFrame
  <2>2. CASE Owns(p, t) /\ out[t].src # 0
    <3>1. job[t].input \in Nat \ {0}
      BY <2>2, <1>a, <1>b, Constants DEF Owns, Holds, JobsRun, StoreTypes, JobRows
    <3>2. Enqueue(job[t].input) /\ \A u \in Threads : out'[u].src \in {0, out[u].src}
      BY <1>8, <2>2, <1>a DEF NothingToSay, DropOutput, StoreTypes
    <3>3. \A u \in Threads : out'[u].src <= global.input
      <4>1. 0 <= global.input BY <1>a DEF GlobalTypes
      <4> QED BY <3>2, <4>1, <1>d
    <3>4. Enqueues BY <2>1, <3>1, <3>2, <3>3 DEF Enqueues
    <3> QED BY <3>4, <1>s
  <2>3. CASE ~(Owns(p, t) /\ out[t].src # 0)
    <3>1. UNCHANGED <<global, untold>> /\ \A u \in Threads : out'[u].src = out[u].src
      BY <1>8, <2>3, <1>a DEF NothingToSay, DropOutput, StoreTypes
    <3> QED BY <2>1, <3>1, <1>1 DEF SameSummaries
  <2> QED BY <2>2, <2>3
<1>9. ASSUME NEW p \in Procs, NEW t \in Threads, StageFailed(p, t)
      PROVE  GlobalInv' /\ global'.input >= global.input
  <2>1. UNCHANGED <<global, at, selection, untold, recorded, polluted, out>> BY <1>9 DEF StageFailed, StageFrame
  <2> QED BY <2>1, <1>1 DEF SameSummaries
\* steps from the claim of the global job on
<1>10. ASSUME NEW p \in Procs, GlobalInsert(p) \/ GlobalUpdate(p)
      PROVE  GlobalInv' /\ global'.input >= global.input
  <2>1. SameSummaries BY <1>10 DEF GlobalInsert, GlobalUpdate, ClaimFrame, SameSummaries
  <2>2. ASSUME NEW n \in Nat, n <= global.input, Claimed(p, n)
        PROVE  /\ at'[p] = "prepare" /\ selection'[p].completed <= global.input
               /\ \A q \in Procs \ {p} : at'[q] = at[q] /\ selection'[q] = selection[q]
    BY <2>2, <1>a DEF Claimed, Goto, WorkTypes
  <2>3. /\ at'[p] \in {"off", "prepare"} /\ (at'[p] = "prepare" => selection'[p].completed <= global.input)
        /\ \A q \in Procs \ {p} : at'[q] = at[q] /\ selection'[q] = selection[q]
    <3>1. CASE Leaving(p) BY <3>1, <1>a, LeavingTypes
    <3>2. CASE Claimed(p, 0)
      <4>1. 0 <= global.input BY <1>a DEF GlobalTypes
      <4> QED BY <3>2, <4>1, <2>2
    <3>3. CASE GlobalUpdate(p)
      <4>1. ticket[p].input \in Nat /\ ticket[p].input <= global.input /\ Claimed(p, ticket[p].input)
        BY <3>3, <1>a, <1>b DEF GlobalUpdate, Tickets, WorkTypes
      <4> QED BY <4>1, <2>2
    <3> QED BY <1>10, <3>1, <3>2, <3>3 DEF GlobalInsert
  <2>4. /\ global'.input = global.input /\ global'.success = global.success
        /\ global'.status = "none" => global.status = "none"
        /\ global' = global \/ global'.owner = p
    BY <1>10, <1>a DEF GlobalInsert, GlobalUpdate, GlobalTypes
  <2>5. \A q \in Procs \ {p} : Holds(q, global') => Holds(q, global)
    BY <2>4 DEF Holds
  <2>6. at'[p] \notin Selected /\ (Consolidates(p)' => selection'[p].completed <= global.input)
    BY <2>3 DEF Consolidates, Selected
  <2> QED BY <2>1, <2>3, <2>4, <2>5, <2>6, OwnStep
<1>11. ASSUME NEW p \in Procs, Select(p) PROVE GlobalInv' /\ global'.input >= global.input
  <2>1. /\ UNCHANGED <<out, global, polluted, untold, recorded>> /\ at[p] = "select"
        /\ \A q \in Procs \ {p} : at'[q] = at[q]
    BY <1>11, <1>a DEF Select, Goto, WorkTypes
  <2>2. selection'[p].completed <= global.input /\ \A q \in Procs \ {p} : selection'[q] = selection[q]
    <3>1. selection[p].completed <= global.input /\ 0 <= global.input
      BY <2>1, <1>a, <1>b DEF BelowInput, Consolidates, GlobalTypes
    <3> QED BY <1>11, <3>1, <1>a, <1>d, SelectEffect
  <2>3. SameSummaries BY <2>1 DEF SameSummaries
  <2>4. ~Outdated(selection[p])'
    <3>1. \A t \in Threads : View(t)' = View(t) BY <2>3, SameViews
    <3>2. \A t \in Threads : selection'[p].inputs[t] \in {0, View(t)} /\ selection'[p].offered[t] = View(t)
      BY <1>11, <1>a, SelectEffect
    <3> QED BY <3>1, <3>2 DEF Outdated, Stale
  <2> QED BY <2>1, <2>2, <2>3, <2>4, OwnStep
<1>12. ASSUME NEW p \in Procs,
              Prepare(p) \/ Sync(p) \/ Diff(p) \/ SessionOver(p) \/ Reset(p) \/ CommitBaseline(p)
       PROVE  GlobalInv' /\ global'.input >= global.input
  <2>1. UNCHANGED <<out, polluted, untold, recorded, selection>>
    BY <1>12 DEF Prepare, Sync, Diff, SessionOver, Reset, CommitBaseline
  <2>2. /\ Consolidates(p) /\ at'[p] \in Selected \cup {"select"}
        /\ at'[p] \in Selected => at[p] \in Selected
        /\ \A q \in Procs \ {p} : at'[q] = at[q]
    BY <1>12, <1>a DEF Prepare, Sync, Diff, SessionOver, Reset, CommitBaseline, Goto, WorkTypes, Consolidates, Selected
  <2>3. /\ global'.input = global.input /\ global'.success = global.success
        /\ global'.status = global.status /\ global'.owner = global.owner
    BY <1>12, <1>a DEF Prepare, Sync, Diff, SessionOver, Reset, CommitBaseline, GlobalTypes
  <2>4. SameSummaries BY <2>1 DEF SameSummaries
  <2>5. selection'[p].completed <= global.input BY <2>1, <2>2, <1>b DEF BelowInput
  <2>6. \A q \in Procs : Holds(q, global') <=> Holds(q, global) BY <2>3 DEF Holds
  <2> QED BY <2>1, <2>2, <2>3, <2>4, <2>5, <2>6, OwnStep
<1>13. ASSUME NEW p \in Procs, MarkSucceeded(p) PROVE GlobalInv' /\ global'.input >= global.input
  <2>1. CASE Holds(p, global) BY <1>13, <2>1, SucceededKeeps
  <2>2. CASE ~Holds(p, global)
    <3>1. UNCHANGED <<global, out, polluted, untold, recorded>> /\ Leaving(p) BY <1>13, <2>2 DEF MarkSucceeded
    <3>2. at'[p] = "off" /\ \A q \in Procs \ {p} : at'[q] = at[q] /\ selection'[q] = selection[q]
      BY <3>1, <1>a, LeavingTypes
    <3>3. at'[p] \notin Selected /\ ~Consolidates(p)' BY <3>2 DEF Consolidates, Selected
    <3>4. SameSummaries BY <3>1 DEF SameSummaries
    <3> QED BY <3>1, <3>2, <3>3, <3>4, OwnStep
  <2> QED BY <2>1, <2>2
<1>14. ASSUME NEW p \in Procs, MarkFailed(p) PROVE GlobalInv' /\ global'.input >= global.input
  <2>1. UNCHANGED <<out, polluted, untold, recorded>> /\ Leaving(p) BY <1>14 DEF MarkFailed
  <2>2. at'[p] = "off" /\ \A q \in Procs \ {p} : at'[q] = at[q] /\ selection'[q] = selection[q]
    BY <2>1, <1>a, LeavingTypes
  <2>3. /\ global'.input = global.input /\ global'.success = global.success /\ global'.owner = global.owner
        /\ global'.status \in {"error", global.status}
    BY <1>14, <1>a DEF MarkFailed, GlobalTypes
  <2>4. at'[p] \notin Selected /\ ~Consolidates(p)' BY <2>2 DEF Consolidates, Selected
  <2>5. SameSummaries BY <2>1 DEF SameSummaries
  <2>6. \A q \in Procs : Holds(q, global') => Holds(q, global) BY <2>3 DEF Holds
  <2> QED BY <2>2, <2>3, <2>4, <2>5, <2>6, OwnStep
<1> QED BY <1>2, <1>3, <1>4, <1>5, <1>6, <1>7, <1>8, <1>9, <1>10, <1>11, <1>12, <1>13, <1>14
        DEF Next, SomeStep, Stage1Step, Phase2Step

\* A claim reads, before it writes: a thread and a version of its row, with at
\* least one retry left, or the watermark of the global job, which never falls.
LEMMA TicketsStep == IInv /\ [Next]_vars => Tickets'
<1> SUFFICES ASSUME IInv, [Next]_vars PROVE Tickets' OBVIOUS
<1>a. StoreTypes /\ GlobalTypes /\ WorkTypes /\ SpaceTypes BY TypeGroups DEF IInv
<1>b. Tickets BY DEF IInv
<1>c. global'.input >= global.input BY GlobalStep
<1>d. GlobalTypes' /\ WorkTypes' BY TypeStep, TypeGroups
<1>n. /\ global.input \in Nat /\ global'.input \in Nat
      /\ \A q \in Procs : ticket[q].input \in Nat /\ ticket'[q].input \in Nat
  BY <1>a, <1>d DEF GlobalTypes, WorkTypes
<1> DEFINE Kept(q) == at'[q] = at[q] /\ ticket'[q] = ticket[q]
           Others(p) == \A q \in Procs \ {p} : Kept(q)
           NoClaim(p) == at'[p] # "write" /\ at'[p] # "update"
\* it is enough to look at the process that moves
<1>k. ASSUME \A q \in Procs : Kept(q) PROVE Tickets' BY <1>k, <1>b, <1>c, <1>n DEF Tickets
<1>p. ASSUME NEW p \in Procs, Others(p), NoClaim(p) PROVE Tickets'
  BY <1>p, <1>b, <1>c, <1>n DEF Tickets
<1>q. ASSUME NEW p \in Procs, NEW l \in Places \ {"write", "update"}, Goto(p, l),
             \A q \in Procs \ {p} : ticket'[q] = ticket[q]
      PROVE  Tickets'
  <2>1. Others(p) /\ NoClaim(p) BY <1>q, <1>a DEF Goto, WorkTypes
  <2> QED BY <2>1, <1>p
<1>r. ASSUME NEW p \in Procs, Leaving(p) PROVE Tickets'
  <2>1. Others(p) /\ NoClaim(p) BY <1>r, <1>a, LeavingTypes
  <2> QED BY <2>1, <1>p
<1> HIDE DEF Kept, Others, NoClaim
<1>l. \A l \in {"off", "prune", "scan", "claim", "work", "inputs", "phase2", "insert", "prepare", "select", "sync",
                "diff", "session", "reset", "commit", "done"} : l \in Places \ {"write", "update"}
  BY DEF Places
<1> USE DEF store, work, space, ghosts
<1>1. CASE UNCHANGED vars \/ SomeTouch \/ SomePollute \/ Elapse
  <2>1. UNCHANGED <<at, ticket>> BY <1>1 DEF vars, SomeTouch, Touch, SomePollute, Pollute, Elapse
  <2> QED BY <2>1, <1>k DEF Kept
<1>2. ASSUME NEW p \in Procs, NEW t \in Threads, Summarised(p, t) \/ NothingToSay(p, t) \/ StageFailed(p, t)
      PROVE  Tickets'
  <2>1. UNCHANGED <<at, ticket>> BY <1>2 DEF Summarised, NothingToSay, StageFailed, StageFrame
  <2> QED BY <2>1, <1>k DEF Kept
<1>3. ASSUME NEW p \in Procs, PruneRead(p) \/ PruneWrite(p) \/ Scan(p) \/ ClaimsDone(p) PROVE Tickets'
  <2>1. UNCHANGED ticket /\ \E l \in {"prune", "scan", "claim", "work"} : Goto(p, l)
    BY <1>3 DEF PruneRead, PruneWrite, Scan, ClaimsDone
  <2> QED BY <2>1, <1>l, <1>q
<1>4. ASSUME NEW p \in Procs, StageDone(p) PROVE Tickets'
  <2>1. PICK b \in Phase2Modes : Goto(p, IF b THEN "phase2" ELSE "inputs") BY <1>4 DEF StageDone
  <2>2. UNCHANGED ticket BY <1>4 DEF StageDone
  <2>3. CASE b BY <2>1, <2>2, <2>3, <1>l, <1>q
  <2>4. CASE ~b BY <2>1, <2>2, <2>4, <1>l, <1>q
  <2> QED BY <2>3, <2>4
<1>5. ASSUME NEW p \in Procs, NEW t \in Threads, ClaimRead(p, t) PROVE Tickets'
  <2>1. CASE ~Claimable(t, rows[p][t])
    <3>1. UNCHANGED <<at, ticket>> BY <1>5, <2>1 DEF ClaimRead
    <3> QED BY <3>1, <1>k DEF Kept
  <2>2. CASE Claimable(t, rows[p][t])
    <3> DEFINE v == rows[p][t]
               n == IF v > job[t].input THEN Retries ELSE job[t].retries
    <3>1. /\ at' = [at EXCEPT ![p] = "write"]
          /\ ticket' = [ticket EXCEPT ![p] = [thread |-> t, input |-> v, retries |-> n]]
      BY <1>5, <2>2 DEF ClaimRead, Goto
    <3>2. v \in Versions BY <1>5, <1>a, Constants DEF ClaimRead, WorkTypes
    <3>3. n > 0
      <4>1. Retries > 0 BY BoundsAssumption
      <4>2. v > job[t].input \/ job[t].retries > 0 BY <2>2 DEF Claimable, MayRetry
      <4> QED BY <4>1, <4>2
    <3> HIDE DEF n, v
    <3>4. /\ at'[p] = "write" /\ ticket'[p].thread = t /\ ticket'[p].input = v /\ ticket'[p].retries = n
          /\ \A q \in Procs \ {p} : at'[q] = at[q] /\ ticket'[q] = ticket[q]
      BY <3>1, <1>a DEF WorkTypes
    <3> QED BY <3>2, <3>3, <3>4, <1>b, <1>c, <1>n DEF Tickets
  <2> QED BY <2>1, <2>2
<1>6. ASSUME NEW p \in Procs, ClaimWrite(p) PROVE Tickets'
  <2>1. ticket' = [ticket EXCEPT ![p] = NoTicket] /\ Goto(p, "claim") BY <1>6 DEF ClaimWrite
  <2>2. \A q \in Procs \ {p} : ticket'[q] = ticket[q] BY <2>1, <1>a DEF WorkTypes
  <2> QED BY <2>1, <2>2, <1>l, <1>q
<1>7. ASSUME NEW p \in Procs, GlobalRead(p) PROVE Tickets'
  <2>1. CASE Goto(p, "insert") /\ UNCHANGED work BY <2>1, <1>l, <1>q
  <2>2. CASE Goto(p, "update") /\ ticket' = [ticket EXCEPT ![p].input = global.input]
    <3>1. /\ at'[p] = "update" /\ ticket'[p].input = global.input
          /\ \A q \in Procs \ {p} : at'[q] = at[q] /\ ticket'[q] = ticket[q]
      BY <2>2, <1>a DEF Goto, WorkTypes
    <3> QED BY <3>1, <1>b, <1>c, <1>n DEF Tickets
  <2>3. CASE Leaving(p) BY <2>3, <1>r
  <2> QED BY <1>7, <2>1, <2>2, <2>3 DEF GlobalRead
<1>8. ASSUME NEW p \in Procs, GlobalInsert(p) \/ GlobalUpdate(p) PROVE Tickets'
  <2>1. CASE Leaving(p) BY <2>1, <1>r
  <2>2. CASE Goto(p, "prepare") /\ ticket' = [ticket EXCEPT ![p] = NoTicket]
    <3>1. \A q \in Procs \ {p} : ticket'[q] = ticket[q] BY <2>2, <1>a DEF WorkTypes
    <3> QED BY <2>2, <3>1, <1>l, <1>q
  <2> QED BY <1>8, <2>1, <2>2 DEF GlobalInsert, GlobalUpdate, Claimed
<1>9. ASSUME NEW p \in Procs, Prepare(p) \/ Select(p) \/ Sync(p) \/ SessionOver(p) \/ Reset(p) \/ CommitBaseline(p)
      PROVE  Tickets'
  <2>1. UNCHANGED ticket /\ \E l \in {"select", "sync", "diff", "reset", "commit", "done"} : Goto(p, l)
    BY <1>9 DEF Prepare, Select, Sync, SessionOver, Reset, CommitBaseline
  <2> QED BY <2>1, <1>l, <1>q
<1>10. ASSUME NEW p \in Procs, Diff(p) PROVE Tickets'
  <2>1. UNCHANGED ticket /\ (Goto(p, "done") \/ Goto(p, "session")) BY <1>10 DEF Diff
  <2> QED BY <2>1, <1>l, <1>q
<1>11. ASSUME NEW p \in Procs, MarkSucceeded(p) \/ MarkFailed(p) \/ Leave(p) \/ SyncUnclaimed(p) PROVE Tickets'
  <2>1. Leaving(p) BY <1>11 DEF MarkSucceeded, MarkFailed, Leave, SyncUnclaimed
  <2> QED BY <2>1, <1>r
<1> QED BY <1>1, <1>2, <1>3, <1>4, <1>5, <1>6, <1>7, <1>8, <1>9, <1>10, <1>11
        DEF Next, SomeStep, Stage1Step, Phase2Step

-----------------------------------------------------------------------------
(* The theorems.                                                           *)

\* Before any pipeline has run there is no claim, no job and no summary.
LEMMA Start == Init => IInv
<1> SUFFICES ASSUME Init PROVE IInv OBVIOUS
<1>a. Blank \in Pages /\ \A t \in Threads : Blank[t] = 0 BY Constants DEF Blank
<1>1. TypeOK
  <2>1. StoreTypes
    <3>1. 1 \in Versions /\ 0 \in 0..Retries BY Constants DEF Versions
    <3> QED BY <3>1, Constants DEF Init, StoreTypes, JobRows
  <2>2. GlobalTypes BY DEF Init, GlobalTypes
  <2>3. WorkTypes BY Constants DEF Init, WorkTypes, Places
  <2>4. SpaceTypes
    <3>1. 0 \in 0..MaxStarts BY Constants
    <3>2. [inputs |-> Blank, offered |-> Blank] \in [inputs : Pages, offered : Pages] BY <1>a
    <3> QED BY <3>1, <3>2, <1>a DEF Init, SpaceTypes
  <2> QED BY <2>1, <2>2, <2>3, <2>4, TypeGroups
<1>2. Tickets /\ JobsRun /\ OwnClaims BY <1>a DEF Init, Tickets, JobsRun, OwnClaims, Owns, Holds
<1>3. NoRow /\ ChangeIsAbove BY DEF Init, NoRow, ChangeIsAbove, Consolidating, Selected
<1>6. DirtyIsVisible
  <2>1. \A t \in Threads : recorded.inputs[t] = 0 /\ View(t) = 0 BY <1>a DEF Init, View
  <2> QED BY <2>1 DEF DirtyIsVisible, Outdated, Stale
<1>4. BelowInput BY DEF Init, BelowInput, Consolidates, Selected
<1>5. WatermarkEarned /\ SummaryCoversWatermark
  BY <1>a DEF Init, WatermarkEarned, SummaryCoversWatermark
<1> QED BY <1>1, <1>2, <1>3, <1>4, <1>5, <1>6 DEF IInv

\* Every step of the pipelines keeps the inductive invariant.
LEMMA IInvAlways == Spec => []IInv
<1>1. IInv /\ [Next]_vars => IInv'
  BY TypeStep, JobsStep, GlobalStep, TicketsStep DEF IInv, GlobalInv
<1> QED BY <1>1, Start, PTL DEF Spec

\* Rows, local copies and the workspace keep their types; in particular
\* retry_remaining, which a claim restores from what it read before another
\* claim failed, never goes below zero (memory.py:375-388 with 526).
THEOREM TypeCorrect == Spec => []TypeOK
<1>1. IInv => TypeOK BY DEF IInv
<1> QED BY <1>1, IInvAlways, PTL

\* The watermark of a thread was earned: a worker whose claim was taken over
\* cannot close the job in the name of a state it never read
\* (memory.py:437-451, 480-494).
THEOREM WatermarkIsEarned == Spec => []WatermarkEarned
<1>1. IInv => WatermarkEarned BY DEF IInv
<1> QED BY <1>1, IInvAlways, PTL

\* A summary that is kept is not older than the watermark of its thread
\* (memory.py:361, 368 with 444-464 and 487-504).
THEOREM SummaryIsCurrent == Spec => []SummaryCoversWatermark
<1>1. IInv => SummaryCoversWatermark BY DEF IInv
<1> QED BY <1>1, IInvAlways, PTL

\* As long as the last recorded consolidation is stale for a thread whose change
\* was told, input_watermark is above last_success_watermark, also when the
\* change came while a consolidation was running (memory.py:763, 882,
\* 1620-1624); untold go only the two changes that the property names.
THEOREM ChangesAreVisible == Spec => []DirtyIsVisible
<1>1. IInv => DirtyIsVisible BY DEF IInv
<1> QED BY <1>1, IInvAlways, PTL
=============================================================================
