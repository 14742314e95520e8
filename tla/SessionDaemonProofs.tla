------------------------ MODULE SessionDaemonProofs ------------------------
(***************************************************************************)
(* The worker of src/volley/session_daemon.py, in both its models.         *)
(*                                                                         *)
(* SessionDaemon, for every set of clients and any number of prompts and   *)
(* compactions: the worker drives its session from one thread at a time,   *)
(* comes for whatever waits, and runs prompts in the order they were       *)
(* submitted.                                                              *)
(*                                                                         *)
(* EventLog and Attach, for every size of the log, any number of turns and *)
(* every setting: a terminal that has read the log shows the worker's      *)
(* flag, and prints each final status once, in order, with the outcome of  *)
(* its turn.                                                               *)
(***************************************************************************)
EXTENDS SessionDaemon, Attach, SequenceTheorems, FiniteSetTheorems, WellFoundedInduction, TLAPS

-----------------------------------------------------------------------------
(* The inductive invariant.                                                *)

\* the turn thread is between _start_turn_locked and the end of _finish_turn
Drives(k) == at[k] \in {"start", "stream", "ask", "over"}

\* Only the newest turn thread drives the session, and _turn_running says
\* whether it does.
Newest ==
  /\ \A k \in Turns : Drives(k) => k = started
  /\ running => started \in Turns /\ Drives(started)
  /\ (\E k \in Turns : Drives(k)) => running

\* Every thread and everything in the queue is one submission or /compact,
\* so there is always a number left for the next thread.
Counted == started + Len(queued) <= submitted + compacts

\* what is no compaction is in the order of its numbers
PromptsAscend(f, S) ==
  \A j, k \in S : j < k /\ f[j] # Compact /\ f[k] # Compact => f[j] < f[k]

\* The prompts that have become turns come before those that wait, those
\* before the ones to be submitted.
Ordered ==
  /\ PromptsAscend(kind, 1..started)
  /\ PromptsAscend(queued, 1..Len(queued))
  /\ \A j \in 1..started : kind[j] <= submitted
  /\ \A j \in 1..Len(queued) : queued[j] <= submitted
  /\ \A i \in 1..started, j \in 1..Len(queued) :
       kind[i] # Compact /\ queued[j] # Compact => kind[i] < queued[j]

IInv == TypeOK /\ Newest /\ NoPromptStranded /\ Counted /\ Ordered

-----------------------------------------------------------------------------
(* Threads, and a thread that is started.                                  *)

\* threads of turns are numbers, those of clients are others
LEMMA Disjoint ==
  /\ Turns \subseteq Nat /\ Turns \cap Clients = {} /\ Turns \subseteq Threads /\ Clients \subseteq Threads
  /\ 0 \notin Turns /\ MaxPrompts + MaxCompacts \in Nat
BY BoundsAssumption, ClientsAssumption DEF Turns, Threads

\* While a submission is left there is a number for a thread.
LEMMA RoomToStart ==
  ASSUME TypeOK, Counted,
         submitted + compacts < MaxPrompts + MaxCompacts \/ queued # <<>>
  PROVE  started + 1 \in Turns
<1>1. /\ Len(queued) \in Nat /\ started \in Nat /\ submitted \in 0..MaxPrompts /\ compacts \in 0..MaxCompacts
      /\ queued # <<>> => Len(queued) > 0
  BY LenProperties, HeadTailProperties, Disjoint DEF TypeOK
<1> QED BY <1>1, BoundsAssumption DEF Counted, Turns

\* Starting a turn changes one thread's place beside the caller's.
LEMMA StartEffect ==
  ASSUME TypeOK, NEW what \in Prompts \cup {Compact}, NEW x \in Threads, NEW l \in Places,
         started + 1 \in Turns, x # started + 1, Start(what, x, l)
  PROVE  /\ at' \in [Threads -> Places] /\ at'[started + 1] = "start" /\ at'[x] = l
         /\ \A y \in Threads \ {x, started + 1} : at'[y] = at[y]
         /\ kind' \in [Turns -> Prompts \cup {Compact}] /\ kind'[started + 1] = what
         /\ \A k \in Turns \ {started + 1} : kind'[k] = kind[k]
         /\ running' = TRUE /\ started' = started + 1
         /\ started' \in 0..(MaxPrompts + MaxCompacts)
<1>1. started + 1 \in Threads /\ "start" \in Places BY Disjoint DEF Places
<1> QED BY <1>1, Disjoint DEF TypeOK, Start, Turns

-----------------------------------------------------------------------------
(* Types.                                                                  *)

\* what TypeOK says of the fields of worker and session, and of its threads
FieldTypes ==
  /\ running \in BOOLEAN /\ flag \in BOOLEAN /\ stop \in BOOLEAN
  /\ active \in {"none", "regular", "compact"} /\ interrupted \in BOOLEAN
  /\ queued \in Seq(Prompts \cup {Compact})
  /\ submitted \in 0..MaxPrompts /\ compacts \in 0..MaxCompacts /\ steered \subseteq Prompts
ThreadTypes ==
  /\ at \in [Threads -> Places]
  /\ kind \in [Turns -> Prompts \cup {Compact}]
  /\ started \in 0..(MaxPrompts + MaxCompacts)
  /\ open \subseteq Turns /\ answered \subseteq Turns
  /\ \A k \in open : at[k] = "ask"

\* the fields of the worker, and the places of the threads
LEMMA TypeGroups ==
  /\ TypeOK <=> FieldTypes /\ ThreadTypes
  /\ TypeOK' <=> FieldTypes' /\ ThreadTypes'
BY DEF TypeOK, FieldTypes, ThreadTypes

\* a thread that goes from one place to another asks nothing on its way
LEMMA GotoTypes ==
  ASSUME ThreadTypes, NEW x \in Threads, NEW l \in Places, at[x] # "ask", Goto(x, l),
         UNCHANGED <<kind, started, open, answered>>
  PROVE  ThreadTypes'
BY Disjoint DEF ThreadTypes, Goto

\* a thread that is started does not leave a question behind, nor does its starter
LEMMA StartTypes ==
  ASSUME TypeOK, NEW what \in Prompts \cup {Compact}, NEW x \in Threads, NEW l \in Places,
         started + 1 \in Turns, x # started + 1, at[x] # "ask", at[started + 1] # "ask",
         Start(what, x, l), UNCHANGED input
  PROVE  ThreadTypes' /\ running' \in BOOLEAN
<1>1. \A k \in open : k \in Threads \ {x, started + 1} /\ at[k] = "ask"
  BY Disjoint DEF TypeOK
<1> QED BY <1>1, StartEffect DEF TypeOK, ThreadTypes, input

\* Every step keeps the types.
LEMMA TypeStep == IInv /\ [Next]_vars => TypeOK'
<1> SUFFICES ASSUME IInv, [Next]_vars PROVE FieldTypes' /\ ThreadTypes'
  BY TypeGroups
<1>a. FieldTypes /\ ThreadTypes /\ TypeOK BY TypeGroups DEF IInv
<1>b. \A l \in {"away", "on", "interrupting", "none", "start", "stream", "ask", "over", "left",
                "tested", "halting", "done"} : l \in Places
  BY DEF Places
<1>c. Prompts \subseteq Nat /\ MaxPrompts \in Nat /\ MaxCompacts \in Nat
  BY BoundsAssumption DEF Prompts
\* no thread asks but the newest
<1>d. started + 1 \in Turns => at[started + 1] # "ask"
  BY <1>a DEF IInv, Newest, Drives, ThreadTypes
<1>1. CASE UNCHANGED vars
  BY <1>1, <1>a DEF vars, session, input, ghosts, FieldTypes, ThreadTypes
<1>2. ASSUME NEW k \in Turns, StreamStart(k) PROVE FieldTypes' /\ ThreadTypes'
  BY <1>2, <1>a, <1>b, GotoTypes, Disjoint DEF StreamStart, FieldTypes, input, ghosts
<1>3. ASSUME NEW k \in Turns, StreamEnd(k) PROVE FieldTypes' /\ ThreadTypes'
  BY <1>3, <1>a, <1>b, GotoTypes, Disjoint DEF StreamEnd, FieldTypes, input, ghosts
<1>4. ASSUME NEW k \in Turns, Ask(k) PROVE FieldTypes' /\ ThreadTypes'
  BY <1>4, <1>a, <1>b, Disjoint DEF Ask, Goto, FieldTypes, ThreadTypes, session, ghosts
<1>5. ASSUME NEW k \in Turns, TakeAnswer(k) PROVE FieldTypes' /\ ThreadTypes'
  BY <1>5, <1>a, <1>b, Disjoint DEF TakeAnswer, Close, Goto, FieldTypes, ThreadTypes, session, ghosts
<1>6. ASSUME NEW k \in Turns, FinishTurn(k) PROVE FieldTypes' /\ ThreadTypes'
  <2>1. k = started /\ k \in Threads /\ k # started + 1
    BY <1>6, Disjoint DEF IInv, Newest, Drives, FinishTurn
  <2>2. CASE MayContinue(k)
    <3>1. /\ Head(queued) \in Prompts \cup {Compact} /\ Tail(queued) \in Seq(Prompts \cup {Compact})
      BY <2>2, <1>a, HeadTailProperties DEF MayContinue, FieldTypes
    <3>2. started + 1 \in Turns BY <2>2, <1>a, RoomToStart DEF MayContinue, IInv
    <3>3. Start(Head(queued), k, "done") /\ queued' = Tail(queued) /\ UNCHANGED input /\ at[k] # "ask"
      BY <1>6, <2>2 DEF FinishTurn
    <3>4. ThreadTypes' /\ running' \in BOOLEAN
      BY <3>1, <3>2, <3>3, <2>1, <1>a, <1>b, <1>d, StartTypes
    <3> QED BY <1>6, <3>1, <3>3, <3>4, <1>a DEF FinishTurn, FieldTypes, session, ghosts
  <2>3. CASE ~MayContinue(k)
    BY <1>6, <2>1, <2>3, <1>a, <1>b, GotoTypes DEF FinishTurn, FieldTypes, session, input, ghosts
  <2> QED BY <2>2, <2>3
<1>7. ASSUME NEW c \in Clients, Connect(c) PROVE FieldTypes' /\ ThreadTypes'
  BY <1>7, <1>a, <1>b, GotoTypes, Disjoint DEF Connect, FieldTypes, session, input, ghosts
<1>8. ASSUME NEW c \in Clients, Submit(c) PROVE FieldTypes' /\ ThreadTypes'
  <2>1. /\ submitted + 1 \in Prompts /\ submitted' = submitted + 1 /\ submitted' \in 0..MaxPrompts
        /\ at[c] = "on" /\ c \in Threads /\ c \notin Turns
        /\ submitted + compacts < MaxPrompts + MaxCompacts
    BY <1>8, <1>a, <1>c, Disjoint DEF Submit, FieldTypes, Prompts
  <2>2. CASE /\ ~Busy /\ Start(submitted + 1, c, "on") /\ flag' = FALSE
             /\ UNCHANGED <<queued, steered>>
    <3>1. started + 1 \in Turns BY <2>1, <1>a, RoomToStart DEF IInv
    <3>2. ThreadTypes' /\ running' \in BOOLEAN
      BY <1>8, <2>1, <2>2, <3>1, <1>a, <1>b, <1>d, StartTypes DEF Submit
    <3> QED BY <1>8, <2>1, <2>2, <3>2, <1>a DEF Submit, FieldTypes, session
  <2>3. CASE /\ Busy /\ Steerable /\ steered' = steered \cup {submitted + 1}
             /\ UNCHANGED <<at, running, flag, queued, started, kind>>
    BY <1>8, <2>1, <2>3, <1>a DEF Submit, FieldTypes, ThreadTypes, session, input
  <2>4. CASE /\ Busy /\ ~Steerable /\ Put(submitted + 1)
             /\ UNCHANGED <<at, running, flag, started, kind, steered>>
    <3>1. queued' \in Seq(Prompts \cup {Compact})
      BY <2>1, <2>4, <1>a, AppendProperties DEF Put, FieldTypes
    <3> QED BY <1>8, <2>1, <2>4, <3>1, <1>a DEF Submit, FieldTypes, ThreadTypes, session, input
  <2> QED BY <1>8, <2>2, <2>3, <2>4 DEF Submit
<1>9. ASSUME NEW c \in Clients, SlashCompact(c) PROVE FieldTypes' /\ ThreadTypes'
  <2>1. /\ compacts' = compacts + 1 /\ compacts' \in 0..MaxCompacts
        /\ at[c] = "on" /\ c \in Threads /\ c \notin Turns
        /\ submitted + compacts < MaxPrompts + MaxCompacts
    BY <1>9, <1>a, <1>c, Disjoint DEF SlashCompact, FieldTypes
  <2>2. CASE ~Busy /\ Start(Compact, c, "on") /\ UNCHANGED queued
    <3>1. started + 1 \in Turns BY <2>1, <1>a, RoomToStart DEF IInv
    <3>2. ThreadTypes' /\ running' \in BOOLEAN
      BY <1>9, <2>1, <2>2, <3>1, <1>a, <1>b, <1>d, StartTypes DEF SlashCompact
    <3> QED BY <1>9, <2>1, <2>2, <3>2, <1>a DEF SlashCompact, FieldTypes, session
  <2>3. CASE Busy /\ Put(Compact) /\ UNCHANGED <<at, running, started, kind>>
    <3>1. queued' \in Seq(Prompts \cup {Compact})
      BY <2>3, <1>a, AppendProperties DEF Put, FieldTypes
    <3> QED BY <1>9, <2>1, <2>3, <3>1, <1>a DEF SlashCompact, FieldTypes, ThreadTypes, session, input
  <2> QED BY <1>9, <2>2, <2>3 DEF SlashCompact
<1>10. ASSUME NEW c \in Clients, RequestInterrupt(c) PROVE FieldTypes' /\ ThreadTypes'
  BY <1>10, <1>a, <1>b, GotoTypes, Disjoint DEF RequestInterrupt, FieldTypes, session, input, ghosts
<1>11. ASSUME NEW c \in Clients, SessionInterrupt(c) PROVE FieldTypes' /\ ThreadTypes'
  BY <1>11, <1>a, <1>b, GotoTypes, Disjoint DEF SessionInterrupt, FieldTypes, input, ghosts
<1>12. ASSUME NEW c \in Clients, NEW k \in Turns, Answer(c, k) PROVE FieldTypes' /\ ThreadTypes'
  BY <1>12, <1>a DEF Answer, FieldTypes, ThreadTypes, session, ghosts
<1>13. ASSUME NEW c \in Clients, Disconnect(c) PROVE FieldTypes' /\ ThreadTypes'
  BY <1>13, <1>a, <1>b, GotoTypes, Disjoint DEF Disconnect, FieldTypes, session, input, ghosts
<1>14. ASSUME NEW c \in Clients, Shutdown(c) PROVE FieldTypes' /\ ThreadTypes'
  BY <1>14, <1>a, <1>b, GotoTypes, Disjoint DEF Shutdown, Halt, FieldTypes, session, input, ghosts
<1>15. ASSUME NEW x \in Threads, TestTurn(x) PROVE FieldTypes' /\ ThreadTypes'
  BY <1>15, <1>a, <1>b, GotoTypes DEF TestTurn, Gone, FieldTypes, session, input, ghosts
<1>16. ASSUME NEW x \in Threads, TestClients(x) PROVE FieldTypes' /\ ThreadTypes'
  BY <1>16, <1>a, <1>b, GotoTypes DEF TestClients, Halt, Gone, FieldTypes, session, input, ghosts
<1>17. ASSUME NEW x \in Threads, HaltSession(x) PROVE FieldTypes' /\ ThreadTypes'
  BY <1>17, <1>a, <1>b, GotoTypes DEF HaltSession, Gone, FieldTypes, input, ghosts
<1> QED
  BY <1>1, <1>2, <1>3, <1>4, <1>5, <1>6, <1>7, <1>8, <1>9, <1>10, <1>11, <1>12, <1>13, <1>14,
     <1>15, <1>16, <1>17
  DEF Next, SomeTurn, SomeClient, SomeStop, TurnStep, ClientStep, StopStep

-----------------------------------------------------------------------------
(* One thread.                                                             *)

\* what a thread does that is not about to drive the session, and goes on like that
LEMMA GotoNewest ==
  ASSUME TypeOK, Newest, NEW x \in Threads, NEW l \in Places, Goto(x, l),
         UNCHANGED <<running, started>>,
         x \in Turns => (Drives(x) <=> l \in {"start", "stream", "ask", "over"})
  PROVE  Newest'
<1>1. \A y \in Turns : Drives(y)' <=> Drives(y)
  BY Disjoint DEF Drives, TypeOK, Goto
<1> QED BY <1>1 DEF Newest

\* A thread that is started while none drives the session is the newest.
LEMMA StartNewest ==
  ASSUME TypeOK, NEW what \in Prompts \cup {Compact}, NEW x \in Threads,
         NEW l \in Places \ {"start", "stream", "ask", "over"},
         started + 1 \in Turns, x # started + 1, Start(what, x, l),
         \A k \in Turns \ {x} : ~Drives(k)
  PROVE  Newest'
<1>1. /\ l \in Places /\ at'[x] = l /\ at'[started + 1] = "start" /\ running' = TRUE /\ started' = started + 1
      /\ \A y \in Threads \ {x, started + 1} : at'[y] = at[y]
  BY StartEffect
<1>2. \A y \in Turns : Drives(y)' <=> y = started + 1
  <2> TAKE y \in Turns
  <2>1. CASE y = started + 1 BY <2>1, <1>1 DEF Drives
  <2>2. CASE y = x BY <2>2, <1>1 DEF Drives
  <2>3. CASE y # started + 1 /\ y # x BY <2>3, <1>1, Disjoint DEF Drives
  <2> QED BY <2>1, <2>2, <2>3
<1> QED BY <1>1, <1>2 DEF Newest

\* Every step keeps one driver, the newest.
LEMMA NewestStep == IInv /\ [Next]_vars => Newest'
<1> SUFFICES ASSUME IInv, [Next]_vars PROVE Newest'
  OBVIOUS
<1>a. TypeOK /\ Newest /\ Counted BY DEF IInv
<1>b. \A l \in {"away", "on", "interrupting", "none", "start", "stream", "ask", "over", "left",
                "tested", "halting", "done"} : l \in Places
  BY DEF Places
\* whatever leaves threads where they are
<1>c. ASSUME UNCHANGED <<at, running, started>> PROVE Newest'
  BY <1>a, <1>c DEF Newest, Drives
<1>d. ~running => \A k \in Turns : ~Drives(k) BY <1>a DEF Newest
<1>1. CASE UNCHANGED vars BY <1>1, <1>c DEF vars
<1>2. ASSUME NEW k \in Turns, StreamStart(k) PROVE Newest'
  BY <1>2, <1>a, <1>b, GotoNewest, Disjoint DEF StreamStart, Drives
<1>3. ASSUME NEW k \in Turns, StreamEnd(k) PROVE Newest'
  BY <1>3, <1>a, <1>b, GotoNewest, Disjoint DEF StreamEnd, Drives
<1>4. ASSUME NEW k \in Turns, Ask(k) PROVE Newest'
  BY <1>4, <1>a, <1>b, GotoNewest, Disjoint DEF Ask, Drives
<1>5. ASSUME NEW k \in Turns, TakeAnswer(k) PROVE Newest'
  BY <1>5, <1>a, <1>b, GotoNewest, Disjoint DEF TakeAnswer, Drives
<1>6. ASSUME NEW k \in Turns, FinishTurn(k) PROVE Newest'
  <2>1. /\ k = started /\ k \in Threads /\ k # started + 1
        /\ \A j \in Turns \ {k} : ~Drives(j)
    BY <1>6, <1>a, Disjoint DEF Newest, Drives, FinishTurn
  <2>2. CASE MayContinue(k)
    <3>1. Head(queued) \in Prompts \cup {Compact}
      BY <2>2, <1>a, HeadTailProperties DEF MayContinue, TypeOK
    <3>2. started + 1 \in Turns BY <2>2, <1>a, RoomToStart DEF MayContinue
    <3>3. Start(Head(queued), k, "done") BY <1>6, <2>2 DEF FinishTurn
    <3> QED BY <3>1, <3>2, <3>3, <2>1, <1>a, <1>b, StartNewest
  <2>3. CASE ~MayContinue(k)
    <3>1. running' = FALSE /\ Goto(k, "left") BY <1>6, <2>3 DEF FinishTurn
    <3> QED BY <3>1, <2>1, <1>a, Disjoint DEF Newest, Drives, Goto, TypeOK
  <2> QED BY <2>2, <2>3
<1>7. ASSUME NEW c \in Clients, Connect(c) PROVE Newest'
  BY <1>7, <1>a, <1>b, GotoNewest, Disjoint DEF Connect
<1>8. ASSUME NEW c \in Clients, Submit(c) PROVE Newest'
  <2>1. /\ submitted + 1 \in Prompts /\ c \in Threads /\ c \notin Turns
        /\ submitted + compacts < MaxPrompts + MaxCompacts
    BY <1>8, <1>a, BoundsAssumption, Disjoint DEF Submit, TypeOK, Prompts
  <2>2. CASE ~Busy /\ Start(submitted + 1, c, "on")
    <3>1. started + 1 \in Turns BY <2>1, <1>a, RoomToStart
    <3> QED BY <2>1, <2>2, <3>1, <1>a, <1>b, <1>d, StartNewest DEF Busy
  <2>3. CASE UNCHANGED <<at, running, started>> BY <2>3, <1>c
  <2> QED BY <1>8, <2>2, <2>3 DEF Submit
<1>9. ASSUME NEW c \in Clients, SlashCompact(c) PROVE Newest'
  <2>1. /\ c \in Threads /\ c \notin Turns /\ submitted + compacts < MaxPrompts + MaxCompacts
    BY <1>9, <1>a, BoundsAssumption, Disjoint DEF SlashCompact, TypeOK
  <2>2. CASE ~Busy /\ Start(Compact, c, "on")
    <3>1. started + 1 \in Turns BY <2>1, <1>a, RoomToStart
    <3> QED BY <2>1, <2>2, <3>1, <1>a, <1>b, <1>d, StartNewest DEF Busy
  <2>3. CASE UNCHANGED <<at, running, started>> BY <2>3, <1>c
  <2> QED BY <1>9, <2>2, <2>3 DEF SlashCompact
<1>10. ASSUME NEW c \in Clients, RequestInterrupt(c) PROVE Newest'
  BY <1>10, <1>a, <1>b, GotoNewest, Disjoint DEF RequestInterrupt
<1>11. ASSUME NEW c \in Clients, SessionInterrupt(c) PROVE Newest'
  BY <1>11, <1>a, <1>b, GotoNewest, Disjoint DEF SessionInterrupt
<1>12. ASSUME NEW c \in Clients, NEW k \in Turns, Answer(c, k) PROVE Newest'
  BY <1>12, <1>c DEF Answer
<1>13. ASSUME NEW c \in Clients, Disconnect(c) PROVE Newest'
  BY <1>13, <1>a, <1>b, GotoNewest, Disjoint DEF Disconnect
<1>14. ASSUME NEW c \in Clients, Shutdown(c) PROVE Newest'
  BY <1>14, <1>a, <1>b, GotoNewest, Disjoint DEF Shutdown, Halt
<1>15. ASSUME NEW x \in Threads, TestTurn(x) PROVE Newest'
  BY <1>15, <1>a, <1>b, GotoNewest DEF TestTurn, Gone, Drives
<1>16. ASSUME NEW x \in Threads, TestClients(x) PROVE Newest'
  BY <1>16, <1>a, <1>b, GotoNewest DEF TestClients, Halt, Gone, Drives
<1>17. ASSUME NEW x \in Threads, HaltSession(x) PROVE Newest'
  BY <1>17, <1>a, <1>b, GotoNewest DEF HaltSession, Gone, Drives
<1> QED
  BY <1>1, <1>2, <1>3, <1>4, <1>5, <1>6, <1>7, <1>8, <1>9, <1>10, <1>11, <1>12, <1>13, <1>14,
     <1>15, <1>16, <1>17
  DEF Next, SomeTurn, SomeClient, SomeStop, TurnStep, ClientStep, StopStep

-----------------------------------------------------------------------------
(* The queue.                                                              *)

\* Whatever waits has a thread that comes for it, since only a running turn
\* lets anything wait and only an empty queue lets _turn_running go.
LEMMA StrandedStep == IInv /\ [Next]_vars => NoPromptStranded'
<1> SUFFICES ASSUME IInv, [Next]_vars PROVE NoPromptStranded'
  OBVIOUS
<1>a. TypeOK /\ NoPromptStranded BY DEF IInv
<1>b. ASSUME UNCHANGED <<running, queued>> PROVE NoPromptStranded'
  BY <1>a, <1>b DEF NoPromptStranded
<1>1. ASSUME NEW k \in Turns, FinishTurn(k) PROVE NoPromptStranded'
  BY <1>1 DEF FinishTurn, MayContinue, Start, NoPromptStranded
<1>2. ASSUME NEW c \in Clients, Submit(c) PROVE NoPromptStranded'
  BY <1>2, <1>a DEF Submit, Busy, Start, NoPromptStranded
<1>3. ASSUME NEW c \in Clients, SlashCompact(c) PROVE NoPromptStranded'
  BY <1>3, <1>a DEF SlashCompact, Busy, Start, NoPromptStranded
<1>4. CASE UNCHANGED vars BY <1>4, <1>b DEF vars
<1>5. ASSUME NEW k \in Turns, StreamStart(k) \/ StreamEnd(k) \/ Ask(k) \/ TakeAnswer(k)
      PROVE  NoPromptStranded'
  BY <1>5, <1>b DEF StreamStart, StreamEnd, Ask, TakeAnswer
<1>6. ASSUME NEW c \in Clients, Connect(c) \/ RequestInterrupt(c) \/ SessionInterrupt(c)
                                \/ Disconnect(c) \/ Shutdown(c) \/ \E k \in Turns : Answer(c, k)
      PROVE  NoPromptStranded'
  BY <1>6, <1>b DEF Connect, RequestInterrupt, SessionInterrupt, Disconnect, Shutdown, Answer
<1>7. ASSUME NEW x \in Threads, StopStep(x) PROVE NoPromptStranded'
  BY <1>7, <1>b DEF StopStep, TestTurn, TestClients, HaltSession
<1> QED
  BY <1>1, <1>2, <1>3, <1>4, <1>5, <1>6, <1>7
  DEF Next, SomeTurn, SomeClient, SomeStop, TurnStep, ClientStep

\* What is started or put in the queue is counted, and taking the head of the
\* queue for a thread changes neither count.
LEMMA CountedStep == IInv /\ [Next]_vars => Counted'
<1> SUFFICES ASSUME IInv, [Next]_vars PROVE Counted'
  OBVIOUS
<1>a. /\ TypeOK /\ Counted
      /\ queued \in Seq(Prompts \cup {Compact}) /\ Len(queued) \in Nat /\ started \in Nat
      /\ submitted \in Nat /\ compacts \in Nat
  BY LenProperties, Disjoint, BoundsAssumption DEF IInv, TypeOK
<1>b. ASSUME UNCHANGED <<queued, started, submitted, compacts>> PROVE Counted'
  BY <1>a, <1>b DEF Counted
<1>c. ASSUME NEW what \in Prompts \cup {Compact} PROVE Len(Append(queued, what)) = Len(queued) + 1
  BY <1>a, AppendProperties
<1>d. queued # <<>> => Len(Tail(queued)) = Len(queued) - 1
  BY <1>a, HeadTailProperties
<1>1. ASSUME NEW k \in Turns, FinishTurn(k) PROVE Counted'
  BY <1>1, <1>a, <1>d DEF FinishTurn, MayContinue, Start, Counted, ghosts
<1>2. ASSUME NEW c \in Clients, Submit(c) PROVE Counted'
  <2>1. submitted + 1 \in Prompts BY <1>2, <1>a, BoundsAssumption DEF Submit, Prompts, TypeOK
  <2> QED BY <1>2, <2>1, <1>a, <1>c DEF Submit, Start, Put, Counted
<1>3. ASSUME NEW c \in Clients, SlashCompact(c) PROVE Counted'
  BY <1>3, <1>a, <1>c DEF SlashCompact, Start, Put, Counted
<1>4. CASE UNCHANGED vars BY <1>4, <1>b DEF vars, ghosts
<1>5. ASSUME NEW k \in Turns, StreamStart(k) \/ StreamEnd(k) \/ Ask(k) \/ TakeAnswer(k)
      PROVE  Counted'
  BY <1>5, <1>b DEF StreamStart, StreamEnd, Ask, TakeAnswer, ghosts
<1>6. ASSUME NEW c \in Clients, Connect(c) \/ RequestInterrupt(c) \/ SessionInterrupt(c)
                                \/ Disconnect(c) \/ Shutdown(c) \/ \E k \in Turns : Answer(c, k)
      PROVE  Counted'
  BY <1>6, <1>b DEF Connect, RequestInterrupt, SessionInterrupt, Disconnect, Shutdown, Answer, ghosts
<1>7. ASSUME NEW x \in Threads, StopStep(x) PROVE Counted'
  BY <1>7, <1>b DEF StopStep, TestTurn, TestClients, HaltSession, ghosts
<1> QED
  BY <1>1, <1>2, <1>3, <1>4, <1>5, <1>6, <1>7
  DEF Next, SomeTurn, SomeClient, SomeStop, TurnStep, ClientStep

-----------------------------------------------------------------------------
(* The order of prompts.                                                   *)

\* What is compared is numbers, for Compact is one.
LEMMA Numbers ==
  ASSUME TypeOK
  PROVE  /\ queued \in Seq(Prompts \cup {Compact}) /\ Len(queued) \in Nat
         /\ submitted \in Nat /\ started \in Nat /\ Compact \in Nat /\ Prompts \subseteq Nat
         /\ \A j \in 1..started : kind[j] \in Prompts \cup {Compact}
         /\ \A j \in 1..Len(queued) : queued[j] \in Prompts \cup {Compact}
<1>1. 1..started \subseteq Turns /\ Prompts \subseteq Nat /\ started \in Nat
  BY BoundsAssumption DEF TypeOK, Turns, Prompts
<1>2. queued \in Seq(Prompts \cup {Compact}) /\ Len(queued) \in Nat /\ submitted \in Nat
  BY LenProperties, BoundsAssumption DEF TypeOK
<1>3. \A j \in 1..Len(queued) : queued[j] \in Prompts \cup {Compact}
  BY <1>2, ElementOfSeq
<1> QED BY <1>1, <1>2, <1>3 DEF TypeOK, Compact

\* A submission or a /compact that waits goes behind all others.
LEMMA PutOrdered ==
  ASSUME TypeOK, Ordered, NEW what \in Prompts \cup {Compact}, Put(what),
         UNCHANGED <<kind, started>>, submitted' \in Nat, submitted <= submitted',
         what # Compact => what = submitted + 1 /\ submitted' = what
  PROVE  Ordered'
<1> DEFINE n == Len(queued)
<1>1. /\ Len(queued') = n + 1 /\ queued'[n + 1] = what
      /\ \A j \in 1..n : queued'[j] = queued[j]
  BY Numbers, AppendProperties DEF Put
<1>2. \A j \in 1..(n + 1) : queued'[j] <= submitted'
  BY Numbers, <1>1 DEF Ordered, Compact
<1>3. \A j, k \in 1..(n + 1) :
        j < k /\ queued'[j] # Compact /\ queued'[k] # Compact => queued'[j] < queued'[k]
  <2> SUFFICES ASSUME NEW j \in 1..(n + 1), NEW k \in 1..(n + 1), j < k,
                      queued'[j] # Compact, queued'[k] # Compact
               PROVE  queued'[j] < queued'[k]
    OBVIOUS
  <2>1. j \in 1..n /\ queued'[j] = queued[j] BY <1>1, Numbers
  <2>2. CASE k = n + 1
    <3>1. queued[j] \in Nat /\ queued[j] <= submitted BY <2>1, Numbers DEF Ordered
    <3>2. queued'[k] = submitted + 1 BY <2>2, <1>1
    <3> QED BY <2>1, <3>1, <3>2, Numbers
  <2>3. CASE k \in 1..n
    BY <2>1, <2>3, <1>1 DEF Ordered, PromptsAscend
  <2>4. k = n + 1 \/ k \in 1..n BY Numbers
  <2> QED BY <2>2, <2>3, <2>4
<1>4. \A i \in 1..started, j \in 1..(n + 1) :
        kind[i] # Compact /\ queued'[j] # Compact => kind[i] < queued'[j]
  BY Numbers, <1>1, SMTT(40) DEF Ordered
<1>5. PromptsAscend(kind, 1..started)' /\ \A j \in 1..started : kind[j] <= submitted'
  BY Numbers DEF Ordered, PromptsAscend
<1> QED BY <1>1, <1>2, <1>3, <1>4, <1>5 DEF Ordered, PromptsAscend

\* A thread that is started for a prompt above all that have become turns and
\* below all that wait keeps the order.
LEMMA StartOrdered ==
  ASSUME TypeOK, Ordered, NEW what \in Prompts \cup {Compact}, NEW x \in Threads, NEW l \in Places,
         started + 1 \in Turns, x # started + 1, Start(what, x, l),
         \/ queued = <<>> /\ UNCHANGED queued /\ (what # Compact => what = submitted + 1)
         \/ queued # <<>> /\ what = Head(queued) /\ queued' = Tail(queued),
         submitted' \in Nat, submitted <= submitted', what <= submitted'
  PROVE  Ordered'
<1>1. /\ kind'[started + 1] = what /\ started' = started + 1
      /\ \A j \in 1..started : kind'[j] = kind[j]
  <2>1. 1..started \subseteq Turns \ {started + 1}
    BY Numbers, Disjoint DEF Turns, TypeOK
  <2> QED BY <2>1, StartEffect
\* the queue is what it was, less d of its elements
<1>2. PICK d \in {0, 1} :
        /\ Len(queued') \in Nat /\ Len(queued') = Len(queued) - d
        /\ d = 1 => Len(queued) > 0 /\ what = queued[1]
        /\ d = 0 => Len(queued) = 0
        /\ \A j \in 1..Len(queued') : queued'[j] = queued[j + d]
  <2>1. CASE queued = <<>> /\ UNCHANGED queued
    <3>1. Len(queued) = 0 BY <2>1, EmptySeq
    <3> QED BY <2>1, <3>1
  <2>2. CASE queued # <<>> /\ what = Head(queued) /\ queued' = Tail(queued)
    <3>1. /\ Len(queued') = Len(queued) - 1 /\ Len(queued) > 0 /\ what = queued[1]
          /\ \A j \in 1..Len(queued') : queued'[j] = queued[j + 1]
      BY <2>2, Numbers, HeadTailProperties
    <3>2. Len(queued') \in Nat BY <3>1, Numbers
    <3> QED BY <3>1, <3>2
  <2> QED BY <2>1, <2>2
<1>3. \A j \in 1..Len(queued') :
        /\ j + d \in 1..Len(queued) /\ queued'[j] = queued[j + d] /\ j + d \in Nat
        /\ queued[j + d] \in Nat
  BY <1>2, Numbers
<1>4. \A j \in 1..started : kind[j] # Compact /\ what # Compact => kind[j] < what
  BY <1>2, Numbers, SMTT(40) DEF Ordered
<1>5. PromptsAscend(kind, 1..started)'
  BY <1>1, <1>4, Numbers DEF Ordered, PromptsAscend
<1>6. PromptsAscend(queued, 1..Len(queued))'
  <2> SUFFICES ASSUME NEW j \in 1..Len(queued'), NEW k \in 1..Len(queued'), j < k,
                      queued'[j] # Compact, queued'[k] # Compact
               PROVE  queued'[j] < queued'[k]
    BY DEF PromptsAscend
  <2>1. j + d < k + d BY <1>2
  <2> QED BY <2>1, <1>3 DEF Ordered, PromptsAscend
<1>7. \A j \in 1..(started + 1) : kind'[j] <= submitted'
  BY <1>1, Numbers DEF Ordered, Compact
<1>8. \A j \in 1..Len(queued') : queued'[j] <= submitted'
  <2> TAKE j \in 1..Len(queued')
  <2>1. queued[j + d] <= submitted BY <1>3 DEF Ordered
  <2> QED BY <2>1, <1>3, Numbers
<1>9. \A i \in 1..(started + 1), j \in 1..Len(queued') :
        kind'[i] # Compact /\ queued'[j] # Compact => kind'[i] < queued'[j]
  <2> SUFFICES ASSUME NEW i \in 1..(started + 1), NEW j \in 1..Len(queued'),
                      kind'[i] # Compact, queued'[j] # Compact
               PROVE  kind'[i] < queued'[j]
    OBVIOUS
  <2>1. CASE i = started + 1
    <3>1. d = 1 /\ 1 \in 1..Len(queued) /\ 1 < j + d /\ what = queued[1]
      BY <1>2, <1>3, Numbers
    <3> QED BY <2>1, <3>1, <1>1, <1>3 DEF Ordered, PromptsAscend
  <2>2. CASE i \in 1..started
    BY <2>2, <1>1, <1>3 DEF Ordered
  <2> QED BY <2>1, <2>2, Numbers
<1> QED BY <1>1, <1>5, <1>6, <1>7, <1>8, <1>9 DEF Ordered

\* A submission that starts a thread finds nothing waiting: prompts run in order.
LEMMA OrderedStep == IInv /\ [Next]_vars => Ordered'
<1> SUFFICES ASSUME IInv, [Next]_vars PROVE Ordered'
  OBVIOUS
<1>a. TypeOK /\ Newest /\ NoPromptStranded /\ Counted /\ Ordered BY DEF IInv
<1>b. ASSUME UNCHANGED <<kind, started, queued, submitted>> PROVE Ordered'
  BY <1>a, <1>b DEF Ordered, PromptsAscend
<1>c. "on" \in Places /\ "done" \in Places /\ MaxPrompts \in Nat /\ MaxCompacts \in Nat
  BY BoundsAssumption DEF Places
<1>1. ASSUME NEW k \in Turns, FinishTurn(k) PROVE Ordered'
  <2>1. k = started /\ k \in Threads /\ k # started + 1
    BY <1>1, <1>a, Disjoint DEF Newest, Drives, FinishTurn
  <2>2. CASE MayContinue(k)
    <3>1. Head(queued) \in Prompts \cup {Compact} /\ Head(queued) = queued[1] /\ 1 \in 1..Len(queued)
      BY <2>2, <1>a, Numbers, HeadTailProperties DEF MayContinue
    <3>2. started + 1 \in Turns BY <2>2, <1>a, RoomToStart DEF MayContinue
    <3>3. /\ Start(Head(queued), k, "done") /\ queued' = Tail(queued) /\ queued # <<>>
          /\ submitted' = submitted /\ Head(queued) <= submitted
      BY <1>1, <1>a, <2>2, <3>1 DEF FinishTurn, MayContinue, ghosts, Ordered
    <3> QED BY <3>1, <3>2, <3>3, <2>1, <1>a, <1>c, StartOrdered, Numbers
  <2>3. CASE ~MayContinue(k)
    BY <1>1, <2>3, <1>b DEF FinishTurn, ghosts
  <2> QED BY <2>2, <2>3
<1>2. ASSUME NEW c \in Clients, Submit(c) PROVE Ordered'
  <2>1. /\ submitted + 1 \in Prompts /\ submitted' = submitted + 1 /\ c \in Threads /\ c \notin Turns
        /\ submitted \in Nat /\ submitted + compacts < MaxPrompts + MaxCompacts
    BY <1>2, <1>a, <1>c, Disjoint DEF Submit, TypeOK, Prompts
  <2>2. CASE ~Busy /\ Start(submitted + 1, c, "on") /\ UNCHANGED queued
    <3>1. queued = <<>> BY <2>2, <1>a DEF Busy, NoPromptStranded
    <3>2. started + 1 \in Turns BY <2>1, <1>a, RoomToStart
    <3> QED BY <3>1, <3>2, <2>1, <2>2, <1>a, <1>c, StartOrdered
  <2>3. CASE Put(submitted + 1) /\ UNCHANGED <<started, kind>>
    BY <2>1, <2>3, <1>a, PutOrdered
  <2>4. CASE UNCHANGED <<queued, started, kind>>
    <3>1. /\ \A j \in 1..started : kind[j] <= submitted'
          /\ \A j \in 1..Len(queued) : queued[j] <= submitted'
      BY <1>a, <2>1, Numbers, SMTT(40) DEF Ordered, Compact
    <3> QED BY <1>a, <2>4, <3>1 DEF Ordered, PromptsAscend
  <2> QED BY <1>2, <2>2, <2>3, <2>4 DEF Submit
<1>3. ASSUME NEW c \in Clients, SlashCompact(c) PROVE Ordered'
  <2>1. /\ Compact \in Prompts \cup {Compact} /\ submitted' = submitted /\ c \in Threads /\ c \notin Turns
        /\ submitted \in Nat /\ submitted + compacts < MaxPrompts + MaxCompacts /\ Compact <= submitted
    BY <1>3, <1>a, <1>c, Disjoint DEF SlashCompact, TypeOK, Compact
  <2>2. CASE ~Busy /\ Start(Compact, c, "on") /\ UNCHANGED queued
    <3>1. queued = <<>> BY <2>2, <1>a DEF Busy, NoPromptStranded
    <3>2. started + 1 \in Turns BY <2>1, <1>a, RoomToStart
    <3> QED BY <3>1, <3>2, <2>1, <2>2, <1>a, <1>c, StartOrdered
  <2>3. CASE Put(Compact) /\ UNCHANGED <<started, kind>>
    BY <2>1, <2>3, <1>a, PutOrdered
  <2> QED BY <1>3, <2>2, <2>3 DEF SlashCompact
<1>4. CASE UNCHANGED vars BY <1>4, <1>b DEF vars, ghosts
<1>5. ASSUME NEW k \in Turns, StreamStart(k) \/ StreamEnd(k) \/ Ask(k) \/ TakeAnswer(k)
      PROVE  Ordered'
  BY <1>5, <1>b DEF StreamStart, StreamEnd, Ask, TakeAnswer, ghosts
<1>6. ASSUME NEW c \in Clients, Connect(c) \/ RequestInterrupt(c) \/ SessionInterrupt(c)
                                \/ Disconnect(c) \/ Shutdown(c) \/ \E k \in Turns : Answer(c, k)
      PROVE  Ordered'
  BY <1>6, <1>b DEF Connect, RequestInterrupt, SessionInterrupt, Disconnect, Shutdown, Answer, ghosts
<1>7. ASSUME NEW x \in Threads, StopStep(x) PROVE Ordered'
  BY <1>7, <1>b DEF StopStep, TestTurn, TestClients, HaltSession, ghosts
<1> QED
  BY <1>1, <1>2, <1>3, <1>4, <1>5, <1>6, <1>7
  DEF Next, SomeTurn, SomeClient, SomeStop, TurnStep, ClientStep

-----------------------------------------------------------------------------
(* The theorems.                                                           *)

\* A worker begins with no thread and nothing waiting.
LEMMA InitIInv == Init => IInv
<1> SUFFICES ASSUME Init PROVE IInv
  OBVIOUS
<1>1. TypeOK
  <2>1. at \in [Threads -> Places] /\ kind \in [Turns -> Prompts \cup {Compact}]
    BY DEF Init, Places
  <2>2. queued \in Seq(Prompts \cup {Compact}) BY EmptySeq DEF Init
  <2>3. started \in 0..(MaxPrompts + MaxCompacts) /\ submitted \in 0..MaxPrompts /\ compacts \in 0..MaxCompacts
    BY BoundsAssumption DEF Init
  <2> QED BY <2>1, <2>2, <2>3 DEF Init, TypeOK
<1>2. \A k \in Turns : ~Drives(k)
  BY Disjoint DEF Init, Drives
<1>3. Newest /\ NoPromptStranded
  BY <1>2 DEF Init, Newest, NoPromptStranded
<1>4. Counted /\ Ordered
  BY DEF Init, Counted, Ordered, PromptsAscend
<1> QED BY <1>1, <1>3, <1>4 DEF IInv

\* The inductive invariant holds throughout.
LEMMA IInvAlways == Spec => []IInv
<1>1. IInv /\ [Next]_vars => IInv'
  BY TypeStep, NewestStep, StrandedStep, CountedStep, OrderedStep DEF IInv
<1> QED BY InitIInv, <1>1, PTL DEF Spec

\* The worker's fields keep their types, and no question outlives its turn,
\* whoever answers, interrupts or stops (session_daemon.py, _request_user_input).
THEOREM TypeCorrect == Spec => []TypeOK
<1>1. IInv => TypeOK BY DEF IInv
<1> QED BY IInvAlways, <1>1, PTL

\* The session is driven by one turn thread at a time, however submissions,
\* ends of turns and queued prompts meet.
THEOREM OneThread == Spec => []OneTurnThread
<1>1. IInv => OneTurnThread
  <2> SUFFICES ASSUME IInv PROVE OneTurnThread
    OBVIOUS
  <2>1. {k \in Turns : at[k] \in {"start", "stream", "ask", "over"}} \subseteq {started}
    BY DEF IInv, Newest, Drives
  <2>2. IsFiniteSet({started}) /\ Cardinality({started}) = 1
    BY FS_Singleton
  <2>3. Cardinality({k \in Turns : at[k] \in {"start", "stream", "ask", "over"}}) <= Cardinality({started})
    BY <2>1, <2>2, FS_Subset
  <2> QED BY <2>2, <2>3 DEF OneTurnThread
<1> QED BY IInvAlways, <1>1, PTL

\* Whatever waits in _queued_prompts has a running turn that will come for it.
THEOREM NothingStranded == Spec => []NoPromptStranded
<1>1. IInv => NoPromptStranded BY DEF IInv
<1> QED BY IInvAlways, <1>1, PTL

\* Prompts become turns in the order they were submitted, whichever way each
\* of them went.
THEOREM InOrder == Spec => []TurnsInOrder
<1>1. IInv => TurnsInOrder
  BY DEF IInv, Ordered, PromptsAscend, TurnsInOrder
<1> QED BY IInvAlways, <1>1, PTL

-----------------------------------------------------------------------------
(* Types.                                                                  *)

Conns == {"away", "register", "greet", "on", "take", "send", "lost"}
Middle == {"echo", "begin", "stream", "counted", "ask", "wait"}
Closing == {"yielded", "over", "tell"}
Doings == {"idle", "show"} \cup Middle \cup Closing
Endings == {"completed", "interrupted", "failed"}
EndMarks == {"turn.completed", "turn.aborted", "turn.failed", "daemon.error"}
Plain == {"daemon.user_message", "token_count", "daemon.notice", "daemon.request_user_input",
          "daemon.shutdown"}
Whats == {"hello", "state", "turn.started"} \cup EndMarks \cup Plain
Message == [seq : Nat, what : Whats, running : BOOLEAN, turn : 0..MaxTurns]
Status == [turn : 0..MaxTurns, outcome : Endings]

\* The worker's fields keep their types.
LogTypes ==
  /\ bound \in Settings
  /\ log \in Seq(Message) /\ nextSeq \in Nat
  /\ turnRunning \in BOOLEAN /\ stopping \in {"no", "set", "told"}
  /\ doing \in Doings /\ turn \in 0..MaxTurns
  /\ turnKind \in {"prompt", "compact"} /\ tokens \in Nat /\ notices \in Nat
  /\ asked \subseteq TurnIds /\ pending \subseteq TurnIds /\ answers \subseteq TurnIds
  /\ ended \in [TurnIds -> [seq : Nat, outcome : Endings \cup {None}]]

\* So do those of the connection and the terminal.
TerminalTypes ==
  /\ conn \in Conns /\ mark \in Nat /\ next \in Nat
  /\ batch \in Seq(Message) /\ inbox \in Seq(Message)
  /\ closed \in BOOLEAN /\ clientRunning \in BOOLEAN /\ lastRunning \in BOOLEAN
  /\ replayUntil \in Nat /\ outcome \in Endings \cup {None}
  /\ handled \subseteq 0..MaxTurns /\ asks \in 0..MaxTurns
  /\ printed \in Seq(Status) /\ seen \in Nat /\ gap \in BOOLEAN /\ visits \in Nat

-----------------------------------------------------------------------------
(* The inductive invariant.                                                *)

Ended(k) == ended[k].seq > 0

\* The flag, the outcome and the end of a turn, by where its thread is.
TurnInv ==
  /\ doing # "idle" => turn \in TurnIds
  /\ turnRunning <=> doing \notin {"idle", "tell"}
  /\ \A k \in TurnIds :
       /\ ended[k].outcome # None <=> Ended(k) \/ (k = turn /\ doing \in Closing)
       /\ Ended(k) <=> k < turn \/ (k = turn /\ doing = "idle")
       /\ ended[k].seq < nextSeq
  /\ \A j, k \in TurnIds : Ended(j) /\ Ended(k) /\ j < k => ended[j].seq < ended[k].seq

\* the number of the oldest message in the log
First == nextSeq - Len(log)
\* and the one the connection will look for next
Upto == IF batch = <<>> THEN next ELSE batch[Len(batch)].seq + 1

\* The log is numbered without a hole.
LogNumbers ==
  /\ Len(log) \in 1..MaxItems /\ Len(log) < nextSeq
  /\ \A i \in 1..Len(log) : log[i].seq = First - 1 + i

\* What has been handled, received, taken and is still in the log follow one
\* another; a hole is only where the log had dropped what was not taken yet.
PipeNumbers ==
  /\ conn = "send" <=> batch # <<>>
  /\ \A i \in 1..Len(batch) : batch[i].seq = batch[1].seq - 1 + i
  /\ batch # <<>> => next <= batch[1].seq /\ (batch[1].seq = next \/ batch[1].seq <= First)
  /\ next >= 1 /\ Upto <= nextSeq /\ seen < next
  /\ \A i \in 1..Len(inbox) : inbox[i].what # "hello" => seen < inbox[i].seq /\ inbox[i].seq < next
  /\ \A i, j \in 1..Len(inbox) :
       inbox[i].what # "hello" /\ inbox[j].what # "hello" /\ i < j => inbox[i].seq < inbox[j].seq

Messages(s) == {s[i] : i \in 1..Len(s)}
Received == {m \in Messages(inbox) : m.what # "hello"}
Told == Messages(log) \cup Messages(batch) \cup Received

EndsTurn(m) == IsState(m) /\ ~m.running

\* A message has one place in the history: it is the end of a turn exactly if
\* its number is that of the end, and those before it are of no later turn.
Fits(m) ==
  /\ m.what # "hello" /\ m.seq \in 1..(nextSeq - 1) /\ m.turn <= turn
  /\ EndsTurn(m) => (m.turn = 0 /\ m.seq = 1) \/ (m.turn \in TurnIds /\ ended[m.turn].seq = m.seq)
  /\ \A k \in TurnIds : Ended(k) => /\ m.seq = ended[k].seq => EndsTurn(m) /\ m.turn = k
                                    /\ m.seq <= ended[k].seq => m.turn <= k
InStep(m, q) == (m.seq = q.seq => m = q) /\ (m.seq <= q.seq => m.turn <= q.turn)
ToldInv == /\ \A m \in Told : Fits(m)
           /\ \A m, q \in Told : InStep(m, q)

\* nothing has been shown yet
Blank == replayUntil = 0 /\ seen = 0 /\ printed = <<>> /\ ~lastRunning

\* The greeting is the first thing a terminal handles, and has the number that
\* divides the replay from what is live.
GreetInv ==
  /\ \A i \in 1..Len(inbox) : inbox[i].what = "hello" => i = 1 /\ inbox[1].seq = mark /\ Blank
  /\ conn \in {"away", "register", "greet"} => inbox = <<>> /\ Blank /\ next = 1 /\ ~clientRunning
  /\ conn \in {"greet", "on", "take", "send"} => mark >= 1
  /\ mark < nextSeq
  /\ conn \in {"on", "take", "send", "lost"} =>
       \/ mark >= 1 /\ replayUntil = mark
       \/ mark >= 1 /\ Blank /\ inbox # <<>> /\ inbox[1].what = "hello"
       \/ conn = "lost" /\ Blank /\ inbox = <<>>

LastState(m, S) == m \in S /\ IsState(m) /\ \A q \in S : IsState(q) => q.seq <= m.seq
Tells(m) == m.what \in {"hello", "state"}

\* The newest state of the log has the worker's flag, the newest that was sent
\* the client's, and the newest in the inbox will be the terminal's.
FlagInv ==
  /\ \A m \in Messages(log) :
       LastState(m, Messages(log)) => m.running = turnRunning \/ doing \in {"show", "tell"}
  /\ \A m \in Messages(log) :
       LastState(m, {q \in Messages(log) : q.seq < next}) => clientRunning = m.running
  /\ (\A i \in 1..Len(inbox) : ~Tells(inbox[i])) => lastRunning = clientRunning
  /\ \A i \in 1..Len(inbox) : Tells(inbox[i]) /\ (\A j \in 1..Len(inbox) : j > i => ~Tells(inbox[j]))
                                => inbox[i].running = clientRunning

\* the number of the end of turn k, once it is there
EndOf(k) == IF Ended(k) THEN ended[k].seq ELSE nextSeq
Shown(k) == k <= turn /\ (k = turn => doing # "show")
HasOutcome(k) == ended[k].outcome # None
Marks(m) == m.what \in {"turn.started"} \cup EndMarks
Result(m) ==
  CASE m.what = "turn.completed" -> "completed"
    [] m.what = "turn.aborted" -> "interrupted"
    [] m.what \in {"turn.failed", "daemon.error"} -> "failed"
    [] OTHER -> None
Begun(t, k) == IsState(t) /\ t.running /\ t.turn = k /\ t.seq < EndOf(k)
\* e is the last of S that says how turn k went
Final(e, k, S) ==
  /\ e \in S /\ Marks(e) /\ Result(e) = ended[k].outcome /\ e.seq < EndOf(k)
  /\ \A q \in S : Marks(q) /\ q.seq < EndOf(k) => q.seq <= e.seq
FinalAfter(n, k, S) == HasOutcome(k) => \E e \in S : n < e.seq /\ Final(e, k, S)
Comes(t, k, S) == t \in S /\ Begun(t, k) /\ FinalAfter(t.seq, k, S)

\* If the log has a state from before the end of a turn, it has one from its
\* course and, behind that, how it went.
LogStory ==
  \A k \in TurnIds : Shown(k) =>
    \A p \in Messages(log) : IsState(p) /\ p.seq < EndOf(k) =>
      \E t \in Messages(log) : p.seq <= t.seq /\ Comes(t, k, Messages(log))

\* what the terminal has yet to handle
Ahead == Received \cup Messages(batch) \cup {m \in Messages(log) : m.seq >= next /\ conn # "lost"}
\* the end of turn k is to be announced to this terminal
Expected(k) ==
  /\ Shown(k) /\ EndOf(k) > mark /\ EndOf(k) > seen
  /\ EndOf(k) < Upto \/ (conn # "lost" /\ First <= Upto)
\* the terminal knows that k runs, and how it went or will hear it
Underway(k) ==
  /\ lastRunning /\ \A q \in Ahead : IsState(q) => q.turn >= k
  /\ HasOutcome(k) => \/ \E e \in Ahead : Final(e, k, Ahead)
                      \/ outcome = ended[k].outcome /\ \A q \in Ahead : Marks(q) => q.seq >= EndOf(k)
Announced(k) == Underway(k) \/ \E t \in Ahead : Comes(t, k, Ahead)
Replaying == next > 1 \/ batch # <<>>
StoryInv == ~gap /\ Replaying => \A k \in TurnIds : Expected(k) => Announced(k)

\* A terminal that missed nothing has the end of each turn in its inbox until
\* it handles it.
EndsArrive == ~gap =>
  /\ batch # <<>> => batch[1].seq = next \/ (next = 1 /\ batch[1].seq <= mark)
  /\ \A k \in TurnIds : Ended(k) /\ mark < ended[k].seq /\ seen < ended[k].seq /\ ended[k].seq < next
        => \E m \in Received : m.seq = ended[k].seq

AttachInv ==
  /\ LogTypes /\ TerminalTypes /\ TurnInv /\ LogNumbers /\ PipeNumbers /\ ToldInv /\ GreetInv
  /\ FlagInv /\ LogStory /\ EndsArrive /\ StoryInv /\ FinishedOnce

-----------------------------------------------------------------------------
(* The steps of the worker, by what they do to the log and the turn.       *)

\* what Say appends
New(w) == [seq |-> nextSeq, what |-> w, running |-> turnRunning, turn |-> turn]
Adds(w) == Say(w) /\ UNCHANGED <<turnRunning, turn>>

Silent == /\ UNCHANGED <<log, nextSeq, turnRunning, turn, ended>>
          /\ doing' = doing \/ (doing \in Middle /\ doing' \in Middle)
Starts == /\ doing = "idle" /\ doing' = "show"
          /\ turn < MaxTurns /\ turn' = turn + 1 /\ turnRunning' = TRUE
          /\ UNCHANGED <<log, nextSeq, ended>>
Stops == /\ doing \in {"yielded", "over"} /\ doing' = "tell" /\ turnRunning' = FALSE
         /\ UNCHANGED <<log, nextSeq, turn, ended>>
Remarks(w) ==
  /\ Adds(w) /\ UNCHANGED ended
  /\ w \in Plain \cup {"turn.started"}
  /\ (doing' = doing /\ w \in Plain) \/ (doing \in Middle /\ doing' \in Middle)
Shows == Adds("state") /\ UNCHANGED ended /\ doing \in Middle \cup {"show"} /\ doing' \in Middle
Closes(w) ==
  /\ Adds(w) /\ w \in EndMarks
  /\ doing \in Middle \cup {"yielded"} /\ doing' \in {"yielded", "over"}
  /\ ended' = [ended EXCEPT ![turn].outcome = Result(New(w))]
Concludes == /\ Adds("state") /\ doing = "tell" /\ doing' = "idle"
             /\ ended' = [ended EXCEPT ![turn].seq = nextSeq]

Mute == Silent \/ Starts \/ Stops
Speaks(w) == Remarks(w) \/ Closes(w) \/ (w = "state" /\ (Shows \/ Concludes))
WorkerKind == Mute \/ \E w \in Whats : Speaks(w)

\* The three outcomes and their events.
LEMMA OutcomeNames ==
  /\ DOMAIN Outcome = {"completed", "interrupted", "failed"}
  /\ Outcome["completed"] = "turn.completed" /\ Outcome["interrupted"] = "turn.aborted"
  /\ Outcome["failed"] = "turn.failed"
BY DEF Outcome

\* What the terminal makes of an event, without the choice.
LEMMA OutcomeIs ==
  ASSUME NEW m
  PROVE  OutcomeAfter(m) = IF Marks(m) THEN Result(m) ELSE outcome
<1>1. Outcomes = {"turn.completed", "turn.aborted", "turn.failed"} BY OutcomeNames DEF Outcomes
<1>2. ASSUME NEW o \in DOMAIN Outcome, m.what = Outcome[o]
      PROVE  (CHOOSE x \in DOMAIN Outcome : Outcome[x] = m.what) = o
  BY <1>2, OutcomeNames
<1>3. CASE m.what = "turn.completed" BY <1>1, <1>2, <1>3, OutcomeNames DEF OutcomeAfter, Marks, Result, EndMarks
<1>4. CASE m.what = "turn.aborted" BY <1>1, <1>2, <1>4, OutcomeNames DEF OutcomeAfter, Marks, Result, EndMarks
<1>5. CASE m.what = "turn.failed" BY <1>1, <1>2, <1>5, OutcomeNames DEF OutcomeAfter, Marks, Result, EndMarks
<1>6. CASE m.what \notin {"turn.completed", "turn.aborted", "turn.failed"}
  BY <1>1, <1>6 DEF OutcomeAfter, Marks, Result, EndMarks, None
<1> QED BY <1>3, <1>4, <1>5, <1>6

\* Every step of the worker is of one of these kinds.
LEMMA WorkerSteps ==
  ASSUME LogTypes, Worker
  PROVE  WorkerKind
<1> USE DEF WorkerKind, Mute, Speaks, Adds, NowAt, Middle, Plain, EndMarks, Whats, thread
<1>1. CASE StartTurn
  BY <1>1, LogAssumption DEF StartTurn, Starts, LogTypes
<1>2. CASE ShowStart BY <1>2 DEF ShowStart, Shows
<1>3. CASE EchoPrompt
  <2>1. Remarks("daemon.user_message") BY <1>3 DEF EchoPrompt, Remarks
  <2> QED BY <2>1
<1>4. CASE Begin
  <2>1. Remarks("turn.started") BY <1>4 DEF Begin, Remarks
  <2> QED BY <2>1
<1>5. CASE Count
  <2>1. Remarks("token_count") BY <1>5 DEF Count, Remarks
  <2> QED BY <2>1
<1>6. CASE ShowCount BY <1>6 DEF ShowCount, Shows
<1>7. CASE Enter BY <1>7 DEF Enter, Silent
<1>8. CASE AskUser
  <2>1. Remarks("daemon.request_user_input") BY <1>8 DEF AskUser, Remarks
  <2> QED BY <2>1
<1>9. CASE AnswerTaken BY <1>9 DEF AnswerTaken, Silent
<1>10. CASE StreamOver
  <2>1. PICK o \in DOMAIN Outcome \cap bound.outcomes : Say(Outcome[o]) /\ Ends(o) BY <1>10 DEF StreamOver
  <2>2. Outcome[o] \in EndMarks /\ Result(New(Outcome[o])) = o BY OutcomeNames DEF Result, New
  <2>3. Closes(Outcome[o]) BY <1>10, <2>1, <2>2 DEF StreamOver, Closes, Ends
  <2> QED BY <2>2, <2>3
<1>11. CASE Raise
  <2>1. Result(New("daemon.error")) = "failed" BY DEF Result, New
  <2>2. Closes("daemon.error") BY <1>11, <2>1 DEF Raise, Closes, Ends
  <2> QED BY <2>2
<1>12. CASE Finish BY <1>12 DEF Finish, Stops
<1>13. CASE TellEnd BY <1>13 DEF TellEnd, Concludes
<1>14. CASE Notice
  <2>1. Remarks("daemon.notice") BY <1>14 DEF Notice, Remarks
  <2> QED BY <2>1
<1>15. CASE AnsweredElsewhere BY <1>15 DEF AnsweredElsewhere, Silent
<1>16. CASE BeginShutdown BY <1>16 DEF BeginShutdown, Silent
<1>17. CASE SayShutdown
  <2>1. Remarks("daemon.shutdown") BY <1>17 DEF SayShutdown, Remarks
  <2> QED BY <2>1
<1> QED BY <1>1, <1>2, <1>3, <1>4, <1>5, <1>6, <1>7, <1>8, <1>9, <1>10, <1>11, <1>12, <1>13, <1>14,
           <1>15, <1>16, <1>17 DEF Worker, Thread

-----------------------------------------------------------------------------
(* The log, as the set of its messages.                                    *)

\* Where a number of the log stands in it.
LEMMA LogHas ==
  ASSUME LogTypes, LogNumbers
  PROVE  /\ First \in Nat /\ First >= 1 /\ First < nextSeq
         /\ \A m \in Messages(log) : m \in Message /\ First <= m.seq /\ m.seq < nextSeq
         /\ \A n \in First..(nextSeq - 1) : \E m \in Messages(log) : m.seq = n
         /\ log[1].seq = First /\ log[1] \in Messages(log)
<1>1. Len(log) \in Nat /\ \A i \in 1..Len(log) : log[i] \in Message
  BY ElementOfSeq, LenProperties DEF LogTypes
<1>2. First \in Nat /\ First >= 1 /\ First < nextSeq BY <1>1, LogAssumption DEF LogTypes, LogNumbers, First
<1>3. ASSUME NEW m \in Messages(log) PROVE m \in Message /\ First <= m.seq /\ m.seq < nextSeq
  <2>1. PICK i \in 1..Len(log) : m = log[i] BY DEF Messages
  <2>2. m.seq = First - 1 + i BY <2>1 DEF LogNumbers
  <2> QED BY <1>1, <1>2, <2>1, <2>2 DEF First, LogTypes
<1>4. ASSUME NEW n \in First..(nextSeq - 1) PROVE \E m \in Messages(log) : m.seq = n
  <2>1. n - First + 1 \in 1..Len(log) BY <1>1, <1>2 DEF First, LogTypes
  <2>2. log[n - First + 1].seq = First - 1 + (n - First + 1) BY <2>1 DEF LogNumbers
  <2>3. log[n - First + 1].seq = n BY <1>2, <2>2
  <2> QED BY <2>1, <2>3 DEF Messages
<1>5. log[1].seq = First /\ log[1] \in Messages(log)
  <2>1. 1 \in 1..Len(log) BY <1>1, LogAssumption DEF LogNumbers
  <2>2. log[1].seq = First - 1 + 1 BY <2>1 DEF LogNumbers
  <2> QED BY <1>2, <2>1, <2>2 DEF Messages
<1> QED BY <1>2, <1>3, <1>4, <1>5

\* A message is appended, and of the others the log loses none but the oldest.
LEMMA SayEffect ==
  ASSUME LogTypes, LogNumbers, NEW w \in Whats, Say(w)
  PROVE  /\ New(w) \in Message /\ New(w).seq = nextSeq
         /\ log' \in Seq(Message) /\ nextSeq' = nextSeq + 1 /\ LogNumbers'
         /\ First' \in Nat /\ First' >= First /\ First' <= nextSeq
         /\ New(w) \in Messages(log)'
         /\ \A m \in Messages(log)' : m = New(w) \/ (m \in Messages(log) /\ m.seq >= First')
         /\ \A m \in Messages(log) : m.seq >= First' => m \in Messages(log)'
<1> DEFINE l == Append(log, New(w))
<1> DEFINE d == IF Len(log) + 1 > MaxItems THEN Len(log) + 1 - MaxItems ELSE 0
<1>1. New(w) \in Message /\ New(w).seq = nextSeq BY DEF New, Message, LogTypes
<1>2. nextSeq' = nextSeq + 1 /\ log' = Kept(l)
  BY DEF Say, New, State
<1>3. /\ Len(log) \in Nat /\ l \in Seq(Message) /\ Len(l) = Len(log) + 1
      /\ \A i \in 1..Len(log) : l[i] = log[i]
      /\ l[Len(log) + 1] = New(w)
  BY <1>1, AppendProperties, LenProperties DEF LogTypes
<1>4. /\ d \in Nat /\ d <= Len(log) /\ log' \in Seq(Message) /\ Len(log') = Len(log) + 1 - d
      /\ \A i \in 1..Len(log') : log'[i] = l[i + d]
      /\ Len(log') \in 1..MaxItems
  <2>1. CASE Len(l) > MaxItems
    <3>1. log' = SubSeq(l, d + 1, Len(l)) /\ d \in Nat /\ d <= Len(log)
      <4> HIDE DEF l
      <4>1. Len(l) - MaxItems + 1 = d + 1 /\ d \in Nat /\ d <= Len(log) BY <1>3, <2>1, LogAssumption
      <4> QED BY <1>2, <2>1, <4>1 DEF Kept
    <3>2. \A i \in (d + 1)..Len(l) : l[i] \in Message BY <1>3, <3>1, ElementOfSeq
    <3>3. /\ log' \in Seq(Message) /\ Len(log') = Len(l) - (d + 1) + 1
          /\ \A i \in 1..(Len(l) - (d + 1) + 1) : log'[i] = l[(d + 1) + i - 1]
      <4> HIDE DEF l, d
      <4>1. d + 1 \in Int /\ Len(l) \in Int BY <1>3, <3>1
      <4>2. d + 1 <= Len(l) BY <1>3, <3>1
      <4> QED BY <3>1, <3>2, <4>1, <4>2, SubSeqProperties
    <3> HIDE DEF d
    <3>4. Len(log') = Len(log) + 1 - d BY <1>3, <3>1, <3>3
    <3>5. \A i \in 1..Len(log') : log'[i] = l[i + d]
      BY <1>3, <3>1, <3>3, <3>4
    <3>6. Len(log') \in 1..MaxItems BY <1>3, <2>1, <3>4, LogAssumption DEF d, LogNumbers
    <3> QED BY <3>1, <3>3, <3>4, <3>5, <3>6
  <2>2. CASE ~(Len(l) > MaxItems)
    <3>1. d = 0 /\ log' = l BY <1>2, <1>3, <2>2, LogAssumption DEF Kept
    <3>2. Len(l) \in 1..MaxItems BY <1>3, <2>2, LogAssumption
    <3> QED BY <1>3, <3>1, <3>2
  <2> QED BY <2>1, <2>2
<1> HIDE DEF d, l
<1>5. First' = First + d BY <1>2, <1>3, <1>4, LogHas DEF First, LogTypes
<1>6. First \in Nat /\ First >= 1 /\ First = nextSeq - Len(log) /\ nextSeq \in Nat BY LogHas DEF First, LogTypes
<1>7. ASSUME NEW i \in 1..Len(log')
      PROVE  /\ log'[i].seq = First + d - 1 + i
             /\ log'[i] = New(w) \/ (i + d \in 1..Len(log) /\ log'[i] = log[i + d])
  <2>1. i + d \in 1..(Len(log) + 1) BY <1>3, <1>4
  <2>2. CASE i + d = Len(log) + 1
    <3>1. log'[i] = New(w) BY <1>3, <1>4, <2>2
    <3>2. log'[i].seq = nextSeq BY <1>1, <3>1
    <3>3. First + d - 1 + i = nextSeq
      <4>1. d \in Nat /\ i \in Nat /\ Len(log) \in Nat BY <1>3, <1>4
      <4> QED BY <1>6, <2>2, <4>1
    <3> QED BY <3>1, <3>2, <3>3
  <2>3. CASE i + d \in 1..Len(log)
    <3>1. log'[i] = log[i + d] BY <1>3, <1>4, <2>3
    <3>2. log[i + d].seq = First - 1 + (i + d) BY <2>3 DEF LogNumbers
    <3> QED BY <1>4, <1>6, <2>3, <3>1, <3>2
  <2> QED BY <1>3, <2>1, <2>2, <2>3
<1>8. LogNumbers'
  <2>1. Len(log') < nextSeq' BY <1>2, <1>3, <1>4, <1>6
  <2>2. \A i \in 1..Len(log') : log'[i].seq = First' - 1 + i BY <1>4, <1>5, <1>6, <1>7
  <2> QED BY <1>4, <2>1, <2>2 DEF LogNumbers
<1>9. New(w) \in Messages(log)'
  <2>1. Len(log) + 1 - d \in 1..Len(log') /\ Len(log) + 1 - d + d = Len(log) + 1 BY <1>3, <1>4
  <2>2. log'[Len(log) + 1 - d] = New(w) BY <1>3, <1>4, <2>1
  <2> QED BY <2>1, <2>2 DEF Messages
<1>10. \A m \in Messages(log)' : m = New(w) \/ (m \in Messages(log) /\ m.seq >= First')
  <2> TAKE m \in Messages(log)'
  <2>1. PICK i \in 1..Len(log') : m = log'[i] BY DEF Messages
  <2>2. m.seq >= First' BY <1>4, <1>5, <1>6, <1>7, <2>1
  <2> QED BY <1>7, <2>1, <2>2 DEF Messages
<1>11. ASSUME NEW m \in Messages(log), m.seq >= First' PROVE m \in Messages(log)'
  <2>1. PICK i \in 1..Len(log) : m = log[i] BY DEF Messages
  <2>2. m.seq = First - 1 + i BY <2>1 DEF LogNumbers
  <2>3. i - d \in 1..Len(log') /\ i - d + d = i BY <1>3, <1>4, <1>5, <1>6, <1>11, <2>2
  <2>4. log'[i - d] = log[i] BY <1>3, <1>4, <2>3
  <2> QED BY <2>1, <2>3, <2>4 DEF Messages
<1>12. First' \in Nat /\ First' >= First /\ First' <= nextSeq BY <1>3, <1>4, <1>5, <1>6
<1> QED BY <1>1, <1>2, <1>4, <1>8, <1>9, <1>10, <1>11, <1>12

-----------------------------------------------------------------------------
(* The turn.                                                               *)

\* How a turn went, and when.
LEMMA EndedEffect ==
  ASSUME LogTypes, turn \in TurnIds
  PROVE  /\ \A o \in Endings \cup {None} : ended' = [ended EXCEPT ![turn].outcome = o] =>
              /\ ended' \in [TurnIds -> [seq : Nat, outcome : Endings \cup {None}]]
              /\ ended'[turn].outcome = o /\ ended'[turn].seq = ended[turn].seq
              /\ \A k \in TurnIds : k # turn => ended'[k] = ended[k]
         /\ ended' = [ended EXCEPT ![turn].seq = nextSeq] =>
              /\ ended' \in [TurnIds -> [seq : Nat, outcome : Endings \cup {None}]]
              /\ ended'[turn].seq = nextSeq /\ ended'[turn].outcome = ended[turn].outcome
              /\ \A k \in TurnIds : k # turn => ended'[k] = ended[k]
BY DEF LogTypes

\* An event that marks an end gives an outcome.
LEMMA ResultEnding ==
  ASSUME NEW w \in EndMarks
  PROVE  Result(New(w)) \in Endings /\ Marks(New(w))
BY DEF EndMarks, Result, New, Endings, Marks

\* The worker's fields keep their types.
LEMMA LogTyped ==
  ASSUME LogTypes, LogNumbers, TurnInv, Worker
  PROVE  LogTypes'
<1> DEFINE Typed == /\ log' \in Seq(Message) /\ nextSeq' \in Nat
                    /\ ended' \in [TurnIds -> [seq : Nat, outcome : Endings \cup {None}]]
                    /\ turn' \in 0..MaxTurns
<1>1. Typed
  <2>1. WorkerKind BY WorkerSteps
  <2>2. \A w \in Whats : Say(w) => log' \in Seq(Message) /\ nextSeq' \in Nat
    BY SayEffect DEF LogTypes
  <2>3. "state" \in Whats BY DEF Whats
  <2>4. CASE Silent \/ Starts \/ Stops BY <2>4, LogAssumption DEF Silent, Starts, Stops, LogTypes
  <2>5. CASE Shows BY <2>2, <2>3, <2>5 DEF Shows, Adds, LogTypes
  <2>6. CASE Concludes
    <3>1. turn \in TurnIds BY <2>6 DEF TurnInv, Concludes
    <3> QED BY <2>2, <2>3, <2>6, <3>1, EndedEffect DEF Concludes, Adds, LogTypes
  <2>7. ASSUME NEW w \in Whats, Remarks(w) PROVE Typed
    BY <2>2, <2>7 DEF Remarks, Adds, LogTypes
  <2>8. ASSUME NEW w \in Whats, Closes(w) PROVE Typed
    <3>1. turn \in TurnIds BY <2>8 DEF TurnInv, Closes, Middle
    <3>2. Result(New(w)) \in Endings BY <2>8, ResultEnding DEF Closes
    <3> QED BY <2>2, <2>8, <3>1, <3>2, EndedEffect DEF Closes, Adds, LogTypes
  <2> QED BY <2>1, <2>4, <2>5, <2>6, <2>7, <2>8 DEF WorkerKind, Mute, Speaks
<1>2. bound' \in Settings /\ turnRunning' \in BOOLEAN /\ stopping' \in {"no", "set", "told"}
  BY DEF Worker, Thread, StartTurn, ShowStart, EchoPrompt, Begin, Count, ShowCount, Enter, AskUser,
         AnswerTaken, StreamOver, Raise, Finish, TellEnd, Notice, AnsweredElsewhere, BeginShutdown,
         SayShutdown, LogTypes
<1>3. doing' \in Doings
  BY DEF Worker, Thread, StartTurn, ShowStart, EchoPrompt, Begin, Count, ShowCount, Enter, AskUser,
         AnswerTaken, StreamOver, Raise, Finish, TellEnd, Notice, AnsweredElsewhere, BeginShutdown,
         SayShutdown, LogTypes, NowAt, Doings, Middle, Closing
<1>4. bound.kinds \subseteq {"prompt", "compact"} BY LogAssumption DEF LogTypes
<1>5. turnKind' \in {"prompt", "compact"} /\ tokens' \in Nat /\ notices' \in Nat
  BY <1>4
     DEF Worker, Thread, StartTurn, ShowStart, EchoPrompt, Begin, Count, ShowCount, Enter, AskUser,
         AnswerTaken, StreamOver, Raise, Finish, TellEnd, Notice, AnsweredElsewhere, BeginShutdown,
         SayShutdown, LogTypes, thread
<1>6. asked' \subseteq TurnIds /\ pending' \subseteq TurnIds /\ answers' \subseteq TurnIds
  <2>1. doing = "stream" => turn \in TurnIds BY DEF TurnInv
  <2> QED
    BY <2>1
     DEF Worker, Thread, StartTurn, ShowStart, EchoPrompt, Begin, Count, ShowCount, Enter, AskUser,
         AnswerTaken, StreamOver, Raise, Finish, TellEnd, Notice, AnsweredElsewhere, BeginShutdown,
         SayShutdown, LogTypes, asking, Accept
<1> QED BY <1>1, <1>2, <1>3, <1>5, <1>6 DEF LogTypes

\* A turn ends once, in its turn.
LEMMA TurnKept ==
  ASSUME LogTypes, LogNumbers, TurnInv, WorkerKind
  PROVE  TurnInv'
<1> USE DEF Ended
<1>0. turn \in 0..MaxTurns /\ nextSeq \in Nat /\ MaxTurns \in Nat /\ TurnIds = 1..MaxTurns /\ doing \in Doings
      /\ \A k \in TurnIds : ended[k].seq \in Nat
  BY LogAssumption DEF LogTypes, TurnIds
<1>1. CASE Silent
  BY <1>0, <1>1 DEF Silent, TurnInv, Middle, Closing
<1>2. CASE Starts
  BY <1>0, <1>2 DEF Starts, TurnInv, Closing
<1>3. CASE Stops
  BY <1>0, <1>3 DEF Stops, TurnInv, Closing
<1>4. CASE Shows
  <2>1. nextSeq' = nextSeq + 1 BY <1>4 DEF Shows, Adds, Say
  <2> QED BY <1>0, <1>4, <2>1 DEF Shows, Adds, TurnInv, Closing, Middle
<1>5. CASE Concludes
  <2>1. nextSeq' = nextSeq + 1 /\ turn \in TurnIds /\ turn' = turn /\ turnRunning' = turnRunning
        /\ doing = "tell" /\ doing' = "idle"
    BY <1>5 DEF Concludes, Adds, Say, TurnInv
  <2>2. ended'[turn].seq = nextSeq /\ ended'[turn].outcome = ended[turn].outcome
        /\ \A k \in TurnIds : k # turn => ended'[k] = ended[k]
    BY <1>5, <2>1, EndedEffect DEF Concludes
  <2>3. nextSeq > 0 BY <1>0, LogHas
  <2>4. ASSUME NEW k \in TurnIds
        PROVE  /\ (ended[k].outcome # None)' <=> (Ended(k) \/ (k = turn /\ doing \in Closing))'
               /\ Ended(k)' <=> (k < turn \/ (k = turn /\ doing = "idle"))'
               /\ (ended[k].seq < nextSeq)'
    <3>1. CASE k = turn BY <1>0, <2>1, <2>2, <2>3, <3>1 DEF TurnInv, Closing
    <3>2. CASE k # turn BY <1>0, <2>1, <2>2, <3>2 DEF TurnInv, Closing
    <3> QED BY <3>1, <3>2
  <2>5. ASSUME NEW j \in TurnIds, NEW k \in TurnIds, Ended(j)', Ended(k)', j < k
        PROVE  (ended[j].seq < ended[k].seq)'
    <3>1. k <= turn /\ j # turn BY <1>0, <2>1, <2>4, <2>5
    <3>2. Ended(j) /\ ended'[j] = ended[j] /\ ended[j].seq < nextSeq BY <2>2, <2>5, <3>1 DEF TurnInv
    <3>3. CASE k = turn BY <2>2, <3>2, <3>3
    <3>4. CASE k # turn BY <2>2, <2>5, <3>2, <3>4 DEF TurnInv
    <3> QED BY <3>3, <3>4
  <2> QED BY <2>1, <2>4, <2>5 DEF TurnInv
<1>6. ASSUME NEW w \in Whats, Remarks(w) PROVE TurnInv'
  <2>1. nextSeq' = nextSeq + 1 BY <1>6 DEF Remarks, Adds, Say
  <2> QED BY <1>0, <1>6, <2>1 DEF Remarks, Adds, TurnInv, Closing, Middle
<1>7. ASSUME NEW w \in Whats, Closes(w) PROVE TurnInv'
  <2>1. /\ nextSeq' = nextSeq + 1 /\ turn \in TurnIds /\ turn' = turn /\ turnRunning' = turnRunning
        /\ doing \in Middle \cup {"yielded"} /\ doing' \in {"yielded", "over"}
    BY <1>7 DEF Closes, Adds, Say, TurnInv, Middle
  <2>2. Result(New(w)) \in Endings /\ None \notin Endings BY <1>7, ResultEnding DEF Closes, Endings, None
  <2>3. ended'[turn].seq = ended[turn].seq /\ ended'[turn].outcome = Result(New(w))
        /\ \A k \in TurnIds : k # turn => ended'[k] = ended[k]
    BY <1>7, <2>1, <2>2, EndedEffect DEF Closes
  <2>4. \A k \in TurnIds : ended'[k].seq = ended[k].seq BY <2>3
  <2>5. turnRunning' <=> doing' \notin {"idle", "tell"} BY <2>1 DEF TurnInv, Middle
  <2>6. \A k \in TurnIds : (ended[k].outcome # None)' <=> (Ended(k) \/ (k = turn /\ doing \in Closing))'
    BY <2>1, <2>2, <2>3, <2>4 DEF TurnInv, Closing
  <2>7. \A k \in TurnIds : Ended(k)' <=> (k < turn \/ (k = turn /\ doing = "idle"))'
    BY <2>1, <2>4 DEF TurnInv, Middle
  <2>8. \A k \in TurnIds : (ended[k].seq < nextSeq)' BY <1>0, <2>1, <2>4 DEF TurnInv
  <2>9. \A j, k \in TurnIds : Ended(j)' /\ Ended(k)' /\ j < k => ended[j].seq' < ended[k].seq'
    BY <2>4 DEF TurnInv
  <2> QED BY <2>1, <2>5, <2>6, <2>7, <2>8, <2>9 DEF TurnInv
<1> QED BY <1>1, <1>2, <1>3, <1>4, <1>5, <1>6, <1>7 DEF WorkerKind, Mute, Speaks

-----------------------------------------------------------------------------
(* What is told, while the worker goes on.                                 *)

Elsewhere == UNCHANGED <<handler, client, terminal, gap, visits>>
Base == LogTypes /\ TerminalTypes /\ TurnInv /\ LogNumbers /\ PipeNumbers /\ ToldInv /\ GreetInv

\* every message that speaks is a message the log takes
LEMMA SpeaksAdds ==
  ASSUME NEW w \in Whats, Speaks(w)
  PROVE  Adds(w) /\ w # "hello"
BY DEF Speaks, Remarks, Closes, Shows, Concludes, Plain, EndMarks

\* What a step that says something does to the log.
LEMMA SpeaksEffect ==
  ASSUME LogTypes, LogNumbers, NEW w \in Whats, Speaks(w)
  PROVE  /\ New(w) \in Message /\ New(w).seq = nextSeq /\ New(w).turn = turn /\ New(w).what = w
         /\ New(w).running = turnRunning
         /\ nextSeq' = nextSeq + 1 /\ turn' = turn /\ turnRunning' = turnRunning
         /\ First' \in Nat /\ First' >= First /\ First' <= nextSeq
         /\ New(w) \in Messages(log)'
         /\ \A m \in Messages(log)' : m = New(w) \/ (m \in Messages(log) /\ m.seq >= First')
         /\ \A m \in Messages(log) : m.seq >= First' => m \in Messages(log)'
<1>1. Adds(w) BY SpeaksAdds
<1>2. New(w).turn = turn /\ New(w).what = w /\ New(w).running = turnRunning BY DEF New
<1> QED BY <1>1, <1>2, SayEffect DEF Adds

\* The log stays numbered without a hole.
LEMMA LogNumbersKept ==
  ASSUME LogTypes, LogNumbers, WorkerKind
  PROVE  LogNumbers' /\ First' >= First /\ nextSeq' >= nextSeq /\ First' \in Nat /\ nextSeq' \in Nat
<1>1. First \in Nat /\ nextSeq \in Nat BY LogHas DEF LogTypes
<1>2. CASE Mute
  <2>1. UNCHANGED <<log, nextSeq>> BY <1>2 DEF Mute, Silent, Starts, Stops
  <2> QED BY <1>1, <2>1 DEF LogNumbers, First
<1>3. ASSUME NEW w \in Whats, Speaks(w)
      PROVE  LogNumbers' /\ First' >= First /\ nextSeq' >= nextSeq /\ First' \in Nat /\ nextSeq' \in Nat
  BY <1>1, <1>3, SpeaksAdds, SayEffect DEF Adds
<1> QED BY <1>2, <1>3 DEF WorkerKind

\* the numbers of the pipe are numbers
LEMMA PipeHas ==
  ASSUME TerminalTypes, LogTypes, PipeNumbers, LogNumbers
  PROVE  /\ Len(batch) \in Nat /\ Len(inbox) \in Nat /\ next \in Nat /\ seen \in Nat /\ nextSeq \in Nat
         /\ \A i \in 1..Len(batch) : batch[i] \in Message /\ batch[i].seq \in Nat
         /\ \A i \in 1..Len(inbox) : inbox[i] \in Message /\ inbox[i].seq \in Nat
         /\ batch # <<>> => Len(batch) >= 1
         /\ Upto \in Nat /\ next <= Upto /\ next <= nextSeq
         /\ \A m \in Messages(batch) : m \in Message /\ next <= m.seq /\ m.seq < Upto
         /\ \A m \in Received : m \in Message /\ m.what # "hello" /\ seen < m.seq /\ m.seq < next
<1>1. /\ Len(batch) \in Nat /\ Len(inbox) \in Nat /\ next \in Nat /\ seen \in Nat /\ nextSeq \in Nat
      /\ \A i \in 1..Len(batch) : batch[i] \in Message /\ batch[i].seq \in Nat
      /\ \A i \in 1..Len(inbox) : inbox[i] \in Message /\ inbox[i].seq \in Nat
      /\ batch # <<>> => Len(batch) >= 1
  <2>1. batch \in Seq(Message) /\ inbox \in Seq(Message) /\ next \in Nat /\ seen \in Nat /\ nextSeq \in Nat
    BY DEF TerminalTypes, LogTypes
  <2>2. \A m \in Message : m.seq \in Nat BY DEF Message
  <2>3. Len(batch) \in Nat /\ Len(inbox) \in Nat BY <2>1, LenProperties
  <2>4. \A i \in 1..Len(batch) : batch[i] \in Message BY <2>1, ElementOfSeq
  <2>5. \A i \in 1..Len(inbox) : inbox[i] \in Message BY <2>1, ElementOfSeq
  <2>6. batch # <<>> => Len(batch) >= 1 BY <2>1, <2>3, EmptySeq
  <2> QED BY <2>1, <2>2, <2>3, <2>4, <2>5, <2>6
<1>2. ASSUME batch # <<>> PROVE batch[Len(batch)].seq = batch[1].seq - 1 + Len(batch) /\ batch[1].seq >= next
  <2>1. Len(batch) \in 1..Len(batch) BY <1>1, <1>2
  <2> QED BY <1>2, <2>1 DEF PipeNumbers
<1>3. Upto \in Nat /\ next <= Upto /\ next <= nextSeq
  <2>1. CASE batch = <<>> BY <1>1, <2>1 DEF Upto, PipeNumbers
  <2>2. CASE batch # <<>>
    <3>1. batch[1].seq \in Nat /\ Len(batch) >= 1 BY <1>1, <2>2
    <3>2. Upto = batch[1].seq + Len(batch) BY <1>1, <1>2, <2>2, <3>1 DEF Upto
    <3> QED BY <1>1, <1>2, <2>2, <3>1, <3>2 DEF PipeNumbers
  <2> QED BY <2>1, <2>2
<1>4. ASSUME NEW m \in Messages(batch) PROVE m \in Message /\ next <= m.seq /\ m.seq < Upto
  <2>1. PICK i \in 1..Len(batch) : m = batch[i] BY DEF Messages
  <2>2. batch # <<>> BY <1>1, <2>1, EmptySeq
  <2>3. m.seq = batch[1].seq - 1 + i BY <2>1 DEF PipeNumbers
  <2>4. batch[1].seq \in Nat BY <1>1, <2>2
  <2>5. Upto = batch[1].seq + Len(batch) BY <1>1, <1>2, <2>2, <2>4 DEF Upto
  <2> QED BY <1>1, <1>2, <2>1, <2>2, <2>3, <2>4, <2>5
<1>5. ASSUME NEW m \in Received PROVE m \in Message /\ m.what # "hello" /\ seen < m.seq /\ m.seq < next
  BY <1>1 DEF Received, Messages, PipeNumbers
<1> QED BY <1>1, <1>3, <1>4, <1>5

\* What the worker says is behind what the connection has.
LEMMA PipeKept ==
  ASSUME LogTypes, TerminalTypes, LogNumbers, PipeNumbers, GreetInv, WorkerKind, Elsewhere
  PROVE  PipeNumbers' /\ GreetInv' /\ Upto' = Upto
<1>1. First' >= First /\ nextSeq' >= nextSeq /\ First' \in Nat /\ nextSeq' \in Nat BY LogNumbersKept
<1>2. First \in Nat /\ nextSeq \in Nat /\ mark \in Nat BY LogHas DEF LogTypes, TerminalTypes
<1>3. UNCHANGED <<conn, mark, next, batch, inbox, closed, clientRunning, lastRunning, replayUntil, outcome, handled,
                  asks, printed, seen>>
  BY DEF Elsewhere, handler, client, terminal
<1>4. Upto' = Upto /\ Upto \in Nat BY <1>3, PipeHas DEF Upto
<1>5. batch # <<>> => batch[1].seq \in Nat BY PipeHas
<1>6. PipeNumbers'
  <2>1. (batch # <<>> => next <= batch[1].seq /\ (batch[1].seq = next \/ batch[1].seq <= First))'
    BY <1>1, <1>2, <1>3, <1>5 DEF PipeNumbers
  <2>2. (next >= 1 /\ Upto <= nextSeq /\ seen < next)'
    BY <1>1, <1>2, <1>3, <1>4 DEF PipeNumbers
  <2> QED BY <1>3, <2>1, <2>2 DEF PipeNumbers
<1>7. GreetInv'
  <2>1. (mark < nextSeq)' BY <1>1, <1>2, <1>3 DEF GreetInv
  <2> QED BY <1>3, <2>1 DEF GreetInv, Blank
<1> QED BY <1>4, <1>6, <1>7

\* What was told has a place in the history.
LEMMA ToldHas ==
  ASSUME LogTypes, TerminalTypes, LogNumbers, PipeNumbers
  PROVE  \A m \in Told : m \in Message /\ m.seq \in Nat /\ m.turn \in 0..MaxTurns
BY LogHas, PipeHas DEF Told, Message

\* The new message is the youngest, and the end of a turn if it says so.
LEMMA ToldKept ==
  ASSUME Base, WorkerKind, Elsewhere
  PROVE  ToldInv'
<1> USE DEF Base
<1>1. UNCHANGED <<inbox, batch>> BY DEF Elsewhere, handler, client
<1>2. Messages(batch)' = Messages(batch) /\ Received' = Received BY <1>1 DEF Messages, Received
<1>3. /\ nextSeq \in Nat /\ turn \in 0..MaxTurns /\ MaxTurns \in Nat /\ TurnIds = 1..MaxTurns
      /\ \A k \in TurnIds : ended[k].seq \in Nat
  BY LogAssumption DEF LogTypes, TurnIds
<1>4. CASE Mute
  <2>1. UNCHANGED <<log, nextSeq, ended>> /\ turn' \in Nat /\ turn' >= turn
    BY <1>3, <1>4 DEF Mute, Silent, Starts, Stops
  <2>2. Told' = Told BY <1>2, <2>1 DEF Told, Messages
  <2>3. ASSUME NEW m \in Told PROVE Fits(m)'
    <3>1. m.turn <= turn' BY <1>3, <2>1, ToldHas DEF ToldInv, Fits
    <3> QED BY <2>1, <3>1 DEF ToldInv, Fits, EndsTurn, IsState, Ended
  <2> QED BY <2>2, <2>3 DEF ToldInv, InStep
<1>5. ASSUME NEW w \in Whats, Speaks(w) PROVE ToldInv'
  <2>1. PICK n :
        /\ n \in Message /\ n.seq = nextSeq /\ n.turn = turn /\ n.what = w /\ n.running = turnRunning
        /\ nextSeq' = nextSeq + 1 /\ turn' = turn /\ w # "hello"
        /\ \A m \in Messages(log)' : m = n \/ m \in Messages(log)
    BY <1>5, SpeaksEffect, SpeaksAdds
  <2>2. \A m \in Told' : m = n \/ m \in Told BY <1>2, <2>1 DEF Told
  <2>3. ASSUME NEW k \in TurnIds
        PROVE  \/ ended'[k].seq = ended[k].seq
               \/ k = turn /\ Concludes /\ ended'[k].seq = nextSeq /\ ~Ended(k) /\ w = "state"
    <3>1. CASE Remarks(w) \/ Shows BY <3>1 DEF Remarks, Shows
    <3>2. CASE Closes(w)
      <4>1. turn \in TurnIds BY <3>2 DEF Closes, TurnInv, Middle
      <4> QED BY <3>2, <4>1, ResultEnding, EndedEffect DEF Closes
    <3>3. CASE w = "state" /\ Concludes
      <4>1. turn \in TurnIds /\ ~Ended(turn) BY <1>3, <3>3 DEF Concludes, TurnInv
      <4> QED BY <3>3, <4>1, EndedEffect DEF Concludes
    <3> QED BY <1>5, <3>1, <3>2, <3>3 DEF Speaks
  <2>4. ASSUME NEW m \in Told PROVE Fits(m)'
    <3>1. m.seq \in 1..(nextSeq - 1) /\ m.turn <= turn /\ m.what # "hello" BY DEF ToldInv, Fits
    <3>2. EndsTurn(m)' => EndsTurn(m) BY DEF EndsTurn, IsState
    <3>3. (m.turn \in TurnIds /\ ended[m.turn].seq = m.seq) => (ended[m.turn].seq = m.seq)'
      BY <1>3, <2>3, <3>1 DEF Ended
    <3>4. EndsTurn(m)' => (m.turn = 0 /\ m.seq = 1) \/ (m.turn \in TurnIds /\ ended[m.turn].seq = m.seq)'
      BY <3>2, <3>3 DEF ToldInv, Fits
    <3>5. ASSUME NEW k \in TurnIds, Ended(k)'
          PROVE  /\ m.seq = ended'[k].seq => EndsTurn(m)' /\ m.turn = k
                 /\ m.seq <= ended'[k].seq => m.turn <= k
      <4>1. CASE ended'[k].seq = ended[k].seq
        BY <3>5, <4>1 DEF ToldInv, Fits, Ended, EndsTurn, IsState
      <4>2. CASE k = turn /\ ended'[k].seq = nextSeq BY <1>3, <3>1, <4>2
      <4> QED BY <2>3, <4>1, <4>2
    <3> QED BY <1>3, <2>1, <3>1, <3>4, <3>5 DEF Fits
  <2>5. Fits(n)'
    <3>1. n.seq \in 1..(nextSeq' - 1) /\ n.turn <= turn' /\ n.what # "hello"
      BY <1>3, <2>1, LogHas
    <3>2. EndsTurn(n) => Concludes /\ turn \in TurnIds /\ ended'[turn].seq = nextSeq
      <4>1. ASSUME EndsTurn(n) PROVE w = "state" /\ ~turnRunning BY <2>1, <4>1 DEF EndsTurn, IsState
      <4>2. ASSUME EndsTurn(n) PROVE Concludes
        BY <1>5, <4>1, <4>2 DEF Speaks, Remarks, Plain, Closes, EndMarks, Shows, TurnInv, Middle
      <4>3. Concludes => turn \in TurnIds BY DEF Concludes, TurnInv
      <4> QED BY <4>2, <4>3, EndedEffect DEF Concludes
    <3>3. Concludes /\ w = "state" => EndsTurn(n) BY <2>1 DEF Concludes, TurnInv, EndsTurn, IsState
    <3>4. ASSUME NEW k \in TurnIds, Ended(k)'
          PROVE  /\ n.seq = ended'[k].seq => EndsTurn(n) /\ n.turn = k
                 /\ n.seq <= ended'[k].seq => n.turn <= k
      <4>1. CASE ended'[k].seq = ended[k].seq
        <5>1. ended[k].seq < nextSeq BY DEF TurnInv
        <5> QED BY <1>3, <2>1, <4>1, <5>1
      <4>2. CASE k = turn /\ Concludes /\ w = "state" BY <1>3, <2>1, <3>3, <4>2
      <4> QED BY <2>3, <4>1, <4>2
    <3>5. EndsTurn(n)' <=> EndsTurn(n) BY DEF EndsTurn, IsState
    <3> QED BY <2>1, <3>1, <3>2, <3>4, <3>5 DEF Fits
  <2>6. \A m \in Told : m.seq < n.seq /\ m.seq \in Nat /\ m.turn <= n.turn /\ n.seq \in Nat
    BY <1>3, <2>1 DEF ToldInv, Fits
  <2>7. \A m, q \in Told' : InStep(m, q)
    <3> SUFFICES ASSUME NEW m \in Told', NEW q \in Told' PROVE InStep(m, q)
      OBVIOUS
    <3>1. CASE m \in Told /\ q \in Told BY <3>1 DEF ToldInv
    <3>2. CASE m = n /\ q = n BY <1>3, <2>1, <3>2 DEF InStep
    <3>3. CASE m \in Told /\ q = n BY <2>6, <3>3 DEF InStep
    <3>4. CASE m = n /\ q \in Told BY <2>6, <3>4 DEF InStep
    <3> QED BY <2>2, <3>1, <3>2, <3>3, <3>4
  <2> QED BY <2>2, <2>4, <2>5, <2>7 DEF ToldInv, InStep
<1> QED BY <1>4, <1>5 DEF WorkerKind

\* The flag is told before the turn thread goes on.
LEMMA FlagKept ==
  ASSUME Base, FlagInv, WorkerKind, Elsewhere
  PROVE  FlagInv'
<1> USE DEF Base
<1>1. UNCHANGED <<inbox, batch, next, clientRunning, lastRunning>> BY DEF Elsewhere, handler, client, terminal
<1>2. doing \in Doings BY DEF LogTypes
<1>3. ((\A i \in 1..Len(inbox) : ~Tells(inbox[i])) => lastRunning = clientRunning)'
  BY <1>1 DEF FlagInv, Tells
<1>4. (\A i \in 1..Len(inbox) : Tells(inbox[i]) /\ (\A j \in 1..Len(inbox) : j > i => ~Tells(inbox[j]))
                                => inbox[i].running = clientRunning)'
  BY <1>1 DEF FlagInv, Tells
<1>5. CASE Mute
  <2>1. UNCHANGED log BY <1>5 DEF Mute, Silent, Starts, Stops
  <2>2. doing' \in {"show", "tell"} \/ (turnRunning' = turnRunning /\ (doing \in {"show", "tell"} => doing' = doing))
    BY <1>5 DEF Mute, Silent, Starts, Stops, Middle
  <2> QED BY <1>1, <1>3, <1>4, <2>1, <2>2 DEF FlagInv, LastState, Messages, IsState
<1>6. ASSUME NEW w \in Whats, Speaks(w) PROVE FlagInv'
  <2>1. PICK n :
        /\ n.seq = nextSeq /\ n.what = w /\ n.running = turnRunning
        /\ turnRunning' = turnRunning /\ n \in Messages(log)'
        /\ First' \in Nat
        /\ \A m \in Messages(log)' : m = n \/ (m \in Messages(log) /\ m.seq >= First')
        /\ \A m \in Messages(log) : m.seq >= First' => m \in Messages(log)'
    BY <1>6, SpeaksEffect
  <2>2. \A m \in Messages(log) : m.seq \in Nat /\ m.seq < nextSeq BY LogHas DEF Message
  <2>3. nextSeq \in Nat /\ next \in Nat /\ next <= nextSeq BY PipeHas
  <2>4. ASSUME NEW m \in Messages(log)', LastState(m, Messages(log)')
        PROVE  m.running = turnRunning' \/ doing' \in {"show", "tell"}
    <3>1. CASE m = n BY <2>1, <3>1
    <3>2. CASE m # n
      <4>1. m \in Messages(log) /\ m.seq >= First' BY <2>1, <3>2
      <4>2. LastState(m, Messages(log)) BY <2>1, <2>2, <2>4, <4>1 DEF LastState
      <4>3. m.running = turnRunning \/ doing \in {"show", "tell"} BY <4>1, <4>2 DEF FlagInv
      <4>4. w # "state" BY <2>1, <2>2, <2>3, <2>4, <4>1 DEF LastState, IsState
      <4>5. doing \in {"show", "tell"} => doing' = doing
        BY <1>6, <4>4 DEF Speaks, Remarks, Closes, Middle
      <4> QED BY <2>1, <4>3, <4>5
    <3> QED BY <3>1, <3>2
  <2>5. ASSUME NEW m \in Messages(log)', LastState(m, {q \in Messages(log)' : q.seq < next})
        PROVE  clientRunning = m.running
    <3>1. m \in Messages(log) /\ m.seq >= First' /\ m.seq < next BY <2>1, <2>3, <2>5 DEF LastState
    <3>2. LastState(m, {q \in Messages(log) : q.seq < next})
      BY <2>1, <2>2, <2>5, <3>1 DEF LastState
    <3> QED BY <3>1, <3>2 DEF FlagInv
  <2>6. \A m : LastState(m, Messages(log))' <=> LastState(m, Messages(log)') BY DEF LastState, IsState
  <2>7. \A m : LastState(m, {q \in Messages(log) : q.seq < next})' <=> LastState(m, {q \in Messages(log)' : q.seq < next})
    BY <1>1 DEF LastState, IsState
  <2> QED BY <1>1, <1>3, <1>4, <2>4, <2>5, <2>6, <2>7 DEF FlagInv
<1> QED BY <1>5, <1>6 DEF WorkerKind

-----------------------------------------------------------------------------
(* The story of a turn, while the worker goes on.                          *)

\* what the writer has skipped or not yet taken is in its batch, if it is in
\* the log
LEMMA InBatch ==
  ASSUME Base, NEW m \in Messages(log), next <= m.seq, m.seq < Upto
  PROVE  m \in Messages(batch)
<1> USE DEF Base
<1>1. m.seq \in Nat /\ First <= m.seq /\ First \in Nat /\ next \in Nat BY LogHas, PipeHas DEF Message
<1>2. batch # <<>> BY <1>1 DEF Upto
<1>3. Len(batch) \in Nat /\ Len(batch) >= 1 /\ batch[1].seq \in Nat BY <1>2, PipeHas
<1>4. Len(batch) \in 1..Len(batch) BY <1>3
<1>5. Upto = batch[1].seq + Len(batch) BY <1>2, <1>3, <1>4 DEF Upto, PipeNumbers
<1>6. m.seq >= batch[1].seq BY <1>1, <1>2, <1>3 DEF PipeNumbers
<1>7. PICK i \in 1..Len(batch) : m.seq = batch[1].seq - 1 + i
  <2>1. m.seq - batch[1].seq + 1 \in 1..Len(batch) BY <1>1, <1>3, <1>5, <1>6
  <2>2. m.seq = batch[1].seq - 1 + (m.seq - batch[1].seq + 1) BY <1>1, <1>3
  <2> QED BY <2>1, <2>2
<1>8. batch[i].seq = m.seq BY <1>7 DEF PipeNumbers
<1>9. m \in Told /\ batch[i] \in Told BY DEF Told, Messages
<1>10. m = batch[i] BY <1>8, <1>9 DEF ToldInv, InStep
<1> QED BY <1>10 DEF Messages

\* the number of the end of a turn does not change when it is known
LEMMA EndKept ==
  ASSUME Base, NEW w \in Whats, Speaks(w), NEW k \in TurnIds, Shown(k)
  PROVE  /\ EndOf(k) \in Nat /\ EndOf(k)' \in Nat /\ EndOf(k) <= EndOf(k)' /\ nextSeq' = nextSeq + 1
         /\ nextSeq \in Nat /\ Shown(k)'
         /\ Ended(k) => /\ Ended(k)' /\ EndOf(k)' = EndOf(k) /\ EndOf(k) < nextSeq /\ ended'[k] = ended[k]
         /\ ~Ended(k) => k = turn /\ EndOf(k) = nextSeq /\ EndOf(k)' <= nextSeq + 1
         /\ ~Ended(k) /\ Concludes => EndOf(k)' = nextSeq
         /\ ~Ended(k) /\ ~Concludes => EndOf(k)' = nextSeq + 1 /\ ~Ended(k)'
         /\ Closes(w) \/ ended'[k].outcome = ended[k].outcome
         /\ Closes(w) /\ ~Ended(k) => ended'[k].outcome = Result(New(w)) /\ Marks(New(w))
         /\ HasOutcome(k) /\ ~Ended(k) /\ Marks(New(w)) => Closes(w)
<1> USE DEF Base
<1>1. /\ nextSeq \in Nat /\ turn \in 0..MaxTurns /\ MaxTurns \in Nat /\ TurnIds = 1..MaxTurns
      /\ ended[k].seq \in Nat /\ nextSeq > 0 /\ doing \in Doings
  BY LogAssumption, LogHas DEF LogTypes, TurnIds
<1>2. nextSeq' = nextSeq + 1 /\ turn' = turn /\ New(w).what = w BY SpeaksEffect
<1>3. ~Ended(k) => k = turn /\ doing \notin {"idle", "show"} /\ turn \in TurnIds
  BY <1>1 DEF TurnInv, Shown
<1>4. k <= turn /\ (k = turn => doing # "show") BY DEF Shown
<1>5. CASE Remarks(w)
  <2>1. ended' = ended /\ ~Concludes /\ ~Closes(w)
    BY <1>5 DEF Remarks, Plain, Concludes, Closes, EndMarks, Adds, Middle
  <2>2. doing' # "show" \/ k # turn BY <1>4, <1>5 DEF Remarks, Middle
  <2>3. Marks(New(w)) => w = "turn.started" BY <1>2, <1>5 DEF Marks, Remarks, Plain, EndMarks
  <2>4. HasOutcome(k) /\ ~Ended(k) /\ Marks(New(w)) => FALSE
    BY <1>3, <1>5, <2>3 DEF Remarks, Plain, TurnInv, HasOutcome, Closing, Middle
  <2> QED BY <1>1, <1>2, <1>3, <1>4, <2>1, <2>2, <2>4 DEF EndOf, Ended, Shown, TurnInv
<1>6. CASE w = "state" /\ Shows
  <2>1. ended' = ended /\ ~Concludes /\ ~Closes(w) /\ ~Marks(New(w))
    BY <1>2, <1>6 DEF Shows, Concludes, Closes, EndMarks, Middle, Marks
  <2>2. doing' # "show" BY <1>6 DEF Shows, Middle
  <2> QED BY <1>1, <1>2, <1>3, <1>4, <2>1, <2>2 DEF EndOf, Ended, Shown, TurnInv
<1>7. CASE Closes(w)
  <2>1. turn \in TurnIds /\ doing' # "show" /\ ~Ended(turn) /\ ~Concludes
    BY <1>1, <1>7 DEF Closes, TurnInv, Middle, Concludes
  <2>2. /\ ended'[turn].outcome = Result(New(w)) /\ ended'[turn].seq = ended[turn].seq
        /\ \A j \in TurnIds : j # turn => ended'[j] = ended[j]
        /\ Marks(New(w))
    BY <1>7, <2>1, ResultEnding, EndedEffect DEF Closes
  <2>3. Ended(k) => k # turn BY <2>1
  <2> QED BY <1>1, <1>2, <1>3, <1>4, <1>7, <2>1, <2>2, <2>3 DEF EndOf, Ended, Shown, TurnInv
<1>8. CASE w = "state" /\ Concludes
  <2>1. turn \in TurnIds /\ doing' # "show" /\ ~Ended(turn) /\ ~Closes(w) /\ ~Marks(New(w))
    BY <1>1, <1>2, <1>8 DEF Closes, TurnInv, EndMarks, Concludes, Marks
  <2>2. /\ ended'[turn].outcome = ended[turn].outcome /\ ended'[turn].seq = nextSeq
        /\ \A j \in TurnIds : j # turn => ended'[j] = ended[j]
    BY <1>8, <2>1, EndedEffect DEF Concludes
  <2>3. Ended(k) => k # turn BY <2>1
  <2> QED BY <1>1, <1>2, <1>3, <1>4, <1>8, <2>1, <2>2, <2>3 DEF EndOf, Ended, Shown, TurnInv
<1> QED BY <1>5, <1>6, <1>7, <1>8 DEF Speaks

\* S2 is S and the new message, without what does not matter to turn k behind n.
Follows(S, S2, new, k, n) ==
  /\ \A m \in S : m.seq \in Nat /\ m.seq < nextSeq
  /\ \A m \in S2 : m \in S \/ m = new
  /\ \A m \in S : n <= m.seq /\ m.seq < EndOf(k) => m \in S2
  /\ Ended(k) \/ new \in S2

\* How a turn went stays behind n, or is said now.
LEMMA FinalKept ==
  ASSUME Base, NEW w \in Whats, Speaks(w), NEW k \in TurnIds, Shown(k),
         NEW S, NEW S2, NEW n \in Nat, n < nextSeq, NEW new, new = New(w),
         Follows(S, S2, new, k, n), FinalAfter(n, k, S) \/ (Closes(w) /\ ~Ended(k))
  PROVE  FinalAfter(n, k, S2)'
<1> SUFFICES ASSUME HasOutcome(k)' PROVE \E e \in S2 : n < e.seq /\ Final(e, k, S2)'
  BY DEF FinalAfter
<1>1. /\ EndOf(k) \in Nat /\ EndOf(k)' \in Nat /\ EndOf(k) <= EndOf(k)' /\ nextSeq \in Nat
      /\ Ended(k) => EndOf(k)' = EndOf(k) /\ EndOf(k) < nextSeq /\ ended'[k] = ended[k]
      /\ ~Ended(k) => EndOf(k) = nextSeq /\ EndOf(k)' <= nextSeq + 1
      /\ ~Ended(k) /\ ~Concludes => EndOf(k)' = nextSeq + 1
      /\ Closes(w) \/ ended'[k].outcome = ended[k].outcome
      /\ Closes(w) /\ ~Ended(k) => ended'[k].outcome = Result(new) /\ Marks(new)
      /\ HasOutcome(k) /\ ~Ended(k) /\ Marks(new) => Closes(w)
  BY EndKept
<1>2. new.seq = nextSeq BY SpeaksEffect DEF Base
<1>3. CASE Closes(w) /\ ~Ended(k)
  <2>1. ~Concludes BY <1>3 DEF Closes, Concludes, Middle
  <2>2. new \in S2 /\ n < new.seq /\ new.seq < EndOf(k)' BY <1>1, <1>2, <1>3, <2>1 DEF Follows
  <2>3. \A q \in S2 : q.seq <= new.seq BY <1>1, <1>2 DEF Follows
  <2>4. Final(new, k, S2)' BY <1>1, <1>3, <2>2, <2>3 DEF Final, Marks, Result
  <2> QED BY <2>2, <2>4
<1>4. CASE ~(Closes(w) /\ ~Ended(k))
  <2>1. ended'[k].outcome = ended[k].outcome BY <1>1, <1>4
  <2>2. HasOutcome(k) BY <2>1 DEF HasOutcome
  <2>3. PICK e \in S : n < e.seq /\ Final(e, k, S) BY <1>4, <2>2 DEF FinalAfter
  <2>4. e \in S2 /\ e.seq \in Nat BY <2>3 DEF Follows, Final
  <2>5. ASSUME NEW q \in S2, Marks(q), q.seq < EndOf(k)' PROVE q.seq <= e.seq
    <3>1. q # new BY <1>1, <1>2, <1>4, <2>2, <2>5
    <3>2. q \in S /\ q.seq < nextSeq /\ q.seq \in Nat BY <3>1 DEF Follows
    <3>3. q.seq < EndOf(k) BY <1>1, <2>5, <3>2
    <3> QED BY <2>3, <2>5, <3>2, <3>3 DEF Final
  <2>6. e.seq < EndOf(k)' BY <1>1, <2>3, <2>4 DEF Final
  <2>7. Final(e, k, S2)' BY <2>1, <2>3, <2>4, <2>5, <2>6 DEF Final, Marks, Result
  <2> QED BY <2>3, <2>4, <2>7
<1> QED BY <1>3, <1>4

\* A state that has a turn's story behind it keeps it while the log grows.
LEMMA ComesKept ==
  ASSUME Base, NEW w \in Whats, Speaks(w), NEW k \in TurnIds, Shown(k),
         NEW S, NEW S2, NEW t \in S, NEW new, new = New(w),
         Follows(S, S2, new, k, t.seq), Comes(t, k, S)
  PROVE  Comes(t, k, S2)'
<1>1. EndOf(k) \in Nat /\ EndOf(k)' \in Nat /\ EndOf(k) <= EndOf(k)' BY EndKept
<1>2. t.seq \in Nat /\ t.seq < nextSeq /\ t.seq < EndOf(k) BY DEF Follows, Comes, Begun
<1>3. t \in S2 BY <1>2 DEF Follows
<1>4. Begun(t, k)' BY <1>1, <1>2 DEF Comes, Begun, IsState
<1>5. FinalAfter(t.seq, k, S2)' BY <1>2, FinalKept DEF Comes
<1> QED BY <1>3, <1>4, <1>5 DEF Comes

\* The state that shows a turn, or a count of it, tells that it runs.
LEMMA ShowsComes ==
  ASSUME Base, Shows, NEW k \in TurnIds, k = turn, NEW S2, NEW new, new = New("state"), new \in S2
  PROVE  Comes(new, k, S2)' /\ EndOf(k)' = nextSeq + 1 /\ new.seq = nextSeq
<1> USE DEF Base
<1>1. "state" \in Whats /\ Speaks("state") BY DEF Whats, Speaks
<1>2. /\ new.seq = nextSeq /\ new.turn = turn /\ new.what = "state" /\ new.running = turnRunning
      /\ nextSeq' = nextSeq + 1 /\ nextSeq \in Nat /\ turn' = turn
  BY <1>1, SpeaksEffect DEF LogTypes
<1>3. turnRunning = TRUE BY DEF Shows, TurnInv, Middle, LogTypes
<1>4. TurnInv' BY <1>1, TurnKept DEF WorkerKind
<1>5. doing' \in Middle /\ ended' = ended BY DEF Shows
<1>6. turn \in Nat /\ ended[k].seq \in Nat BY DEF LogTypes
<1>7. ~Ended(k)' /\ ~HasOutcome(k)'
  BY <1>2, <1>4, <1>5, <1>6 DEF TurnInv, Middle, Closing, HasOutcome
<1>8. EndOf(k)' = nextSeq + 1 BY <1>2, <1>7 DEF EndOf
<1>9. Begun(new, k)'
  <2>1. new.running BY <1>2, <1>3
  <2>2. new.seq < EndOf(k)' BY <1>2, <1>8
  <2>3. IsState(new)' BY <1>2 DEF IsState
  <2>4. new.turn = k BY <1>2
  <2> QED BY <2>1, <2>2, <2>3, <2>4 DEF Begun
<1> QED BY <1>2, <1>7, <1>8, <1>9 DEF Comes, FinalAfter

\* A step that says nothing changes no story.
LEMMA MuteStory ==
  ASSUME Base, Mute
  PROVE  /\ UNCHANGED <<log, nextSeq, ended>>
         /\ \A k \in TurnIds : Shown(k)' => Shown(k)
         /\ \A k \in TurnIds : EndOf(k)' = EndOf(k)
         /\ \A t, k, S : Comes(t, k, S)' <=> Comes(t, k, S)
         /\ \A e, k, S : Final(e, k, S)' <=> Final(e, k, S)
<1> USE DEF Base
<1>1. UNCHANGED <<log, nextSeq, ended>> BY DEF Mute, Silent, Starts, Stops
<1>2. \A k \in TurnIds : Shown(k)' => Shown(k)
  <2>1. turn \in 0..MaxTurns /\ MaxTurns \in Nat /\ TurnIds = 1..MaxTurns
    BY LogAssumption DEF LogTypes, TurnIds
  <2> QED BY <2>1 DEF Mute, Silent, Starts, Stops, Shown, Middle
<1>3. \A k \in TurnIds : EndOf(k)' = EndOf(k) BY <1>1 DEF EndOf, Ended
<1>4. \A e, k, S : Final(e, k, S)' <=> Final(e, k, S)
  BY <1>1 DEF Final, EndOf, Ended, Marks, Result
<1>5. \A t, k, S : Comes(t, k, S)' <=> Comes(t, k, S)
  BY <1>1, <1>4 DEF Comes, Begun, FinalAfter, HasOutcome, EndOf, Ended, IsState
<1> QED BY <1>1, <1>2, <1>3, <1>4, <1>5

\* The log keeps the story of each turn, whatever it drops.
LEMMA LogStoryKept ==
  ASSUME Base, LogStory, WorkerKind
  PROVE  LogStory'
<1> USE DEF Base
<1>1. CASE Mute
  <2>1. /\ log' = log
        /\ \A k \in TurnIds : Shown(k)' => Shown(k)
        /\ \A k \in TurnIds : EndOf(k)' = EndOf(k)
        /\ \A t, k, S : Comes(t, k, S)' <=> Comes(t, k, S)
    BY <1>1, MuteStory
  <2>2. Messages(log)' = Messages(log) BY <2>1 DEF Messages
  <2>3. ASSUME NEW k \in TurnIds, Shown(k)', NEW p \in Messages(log)', IsState(p)', p.seq < EndOf(k)'
        PROVE  \E t \in Messages(log)' : p.seq <= t.seq /\ Comes(t, k, Messages(log))'
    <3>1. IsState(p) BY <2>3 DEF IsState
    <3>2. PICK t \in Messages(log) : p.seq <= t.seq /\ Comes(t, k, Messages(log))
      BY <2>1, <2>2, <2>3, <3>1 DEF LogStory
    <3>3. Comes(t, k, Messages(log))' <=> Comes(t, k, Messages(log))
      <4>1. PICK S : S = Messages(log) /\ S = Messages(log)' BY <2>2
      <4>2. Comes(t, k, S)' <=> Comes(t, k, S) BY <2>1
      <4>3. Comes(t, k, Messages(log))' <=> Comes(t, k, S)' BY <4>1 DEF Comes, FinalAfter, Final
      <4> QED BY <4>1, <4>2, <4>3
    <3> QED BY <2>2, <3>2, <3>3
  <2> QED BY <2>3 DEF LogStory
<1>2. ASSUME NEW w \in Whats, Speaks(w) PROVE LogStory'
  <2>1. PICK new, S, S2 : new = New(w) /\ S = Messages(log) /\ S2 = Messages(log)' OBVIOUS
  <2>2. /\ new.seq = nextSeq /\ new.what = w /\ new \in S2 /\ nextSeq' = nextSeq + 1 /\ nextSeq \in Nat
        /\ First' \in Nat /\ turn' = turn
        /\ \A m \in S2 : m = new \/ (m \in S /\ m.seq >= First')
        /\ \A m \in S : m.seq >= First' => m \in S2
    BY <1>2, <2>1, SpeaksEffect DEF LogTypes
  <2>3. \A m \in S : m.seq \in Nat /\ m.seq < nextSeq BY <2>1, LogHas DEF Message
  <2>4. ASSUME NEW k \in TurnIds, Shown(k)', NEW p \in S2, IsState(p)', p.seq < EndOf(k)'
        PROVE  \E t \in S2 : p.seq <= t.seq /\ Comes(t, k, S2)'
    <3>0. IsState(p) BY <2>4 DEF IsState
    <3>1. p.seq <= new.seq BY <2>2, <2>3
    <3>2. ASSUME Shows, k = turn, w = "state"
          PROVE  \E t \in S2 : p.seq <= t.seq /\ Comes(t, k, S2)'
      BY <2>1, <2>2, <3>1, <3>2, ShowsComes
    <3>3. CASE Shown(k) /\ p \in S
      <4>1. p.seq < EndOf(k)
        <5>1. Ended(k) => EndOf(k)' = EndOf(k) BY <1>2, <3>3, EndKept
        <5>2. ~Ended(k) => EndOf(k) = nextSeq BY DEF EndOf
        <5> QED BY <2>3, <2>4, <3>3, <5>1, <5>2
      <4>2. PICK t \in S : p.seq <= t.seq /\ Comes(t, k, S) BY <2>1, <3>0, <3>3, <4>1 DEF LogStory
      <4>3. Follows(S, S2, new, k, t.seq)
        <5>1. p.seq >= First' \/ p = new BY <2>2
        <5>2. t.seq >= First' /\ t.seq \in Nat /\ p.seq \in Nat BY <2>2, <2>3, <3>3, <4>2, <5>1
        <5> QED BY <2>2, <2>3, <5>2 DEF Follows
      <4>4. Comes(t, k, S2)' BY <1>2, <2>1, <3>3, <4>2, <4>3, ComesKept
      <4> QED BY <4>2, <4>4 DEF Comes
    <3>4. CASE Shown(k) /\ p = new
      <4>1. w = "state" BY <2>2, <3>0, <3>4 DEF IsState
      <4>2. ~Ended(k) /\ ~Concludes /\ k = turn
        <5>1. /\ Ended(k) => EndOf(k)' < nextSeq
              /\ ~Ended(k) => k = turn
              /\ ~Ended(k) /\ Concludes => EndOf(k)' = nextSeq
          BY <1>2, <3>4, EndKept
        <5>2. EndOf(k)' \in Nat BY <1>2, <3>4, EndKept
        <5> QED BY <2>2, <2>4, <3>4, <5>1, <5>2
      <4>3. Shows BY <1>2, <4>1, <4>2 DEF Speaks, Remarks, Plain, Closes, EndMarks
      <4> QED BY <3>2, <4>1, <4>2, <4>3
    <3>5. CASE ~Shown(k)
      <4>1. k = turn /\ doing = "show" BY <2>2, <2>4, <3>5 DEF Shown
      <4>2. (Shows /\ w = "state") \/ doing' = doing
        BY <1>2, <4>1 DEF Speaks, Remarks, Closes, Concludes, Middle
      <4>3. Shows /\ w = "state" BY <2>2, <2>4, <4>1, <4>2 DEF Shown
      <4> QED BY <3>2, <4>1, <4>3
    <3> QED BY <2>2, <3>3, <3>4, <3>5
  <2>5. \A t, k : Comes(t, k, Messages(log))' <=> Comes(t, k, S2)' BY <2>1 DEF Comes, FinalAfter, Final
  <2> QED BY <2>1, <2>4, <2>5 DEF LogStory
<1> QED BY <1>1, <1>2 DEF WorkerKind

\* What is ahead of a terminal has numbers, and what the log drops of it is
\* either in the batch or was a hole already.
LEMMA AheadHas ==
  ASSUME Base
  PROVE  /\ \A m \in Ahead : m \in Message /\ m.seq \in Nat /\ m.seq < nextSeq /\ seen < m.seq
         /\ \A m \in Ahead : m \in Told /\ m.what # "hello"
         /\ \A m \in Ahead : m.seq < Upto => m \in Received \cup Messages(batch)
<1> USE DEF Base
<1>1. /\ next \in Nat /\ seen \in Nat /\ seen < next /\ next <= Upto /\ Upto \in Nat /\ Upto <= nextSeq /\ nextSeq \in Nat
      /\ \A m \in Messages(batch) : m \in Message /\ next <= m.seq /\ m.seq < Upto
      /\ \A m \in Received : m \in Message /\ m.what # "hello" /\ seen < m.seq /\ m.seq < next
  BY PipeHas DEF PipeNumbers
<1>2. \A m \in Messages(log) : m \in Message /\ m.seq < nextSeq BY LogHas
<1>3. \A m \in Message : m.seq \in Nat BY DEF Message
<1>4. \A m \in Ahead : m \in Received \/ m \in Messages(batch) \/ (m \in Messages(log) /\ m.seq >= next)
  BY DEF Ahead
<1>5. \A m \in Ahead : m \in Message /\ m.seq \in Nat /\ m.seq < nextSeq /\ seen < m.seq
  BY <1>1, <1>2, <1>3, <1>4
<1>6. \A m \in Ahead : m \in Told /\ m.what # "hello"
  BY <1>4 DEF Told, ToldInv, Fits
<1>7. \A m \in Ahead : m.seq < Upto => m \in Received \cup Messages(batch)
  BY <1>4, InBatch
<1> QED BY <1>5, <1>6, <1>7

\* What the worker says is ahead of the terminal, and the log drops only what was taken.
LEMMA AheadGrows ==
  ASSUME Base, NEW w \in Whats, Speaks(w), Elsewhere
  PROVE  /\ \A m \in Ahead' : m = New(w) \/ m \in Ahead
         /\ conn # "lost" => New(w) \in Ahead'
         /\ \A m \in Ahead : m.seq < Upto \/ First' <= Upto => m \in Ahead'
<1> USE DEF Base
<1>1. UNCHANGED <<inbox, batch, next, conn>> BY DEF Elsewhere, handler, client
<1>2. Messages(batch)' = Messages(batch) /\ Received' = Received BY <1>1 DEF Messages, Received
<1>3. /\ New(w).seq = nextSeq /\ New(w) \in Messages(log)' /\ First' \in Nat
      /\ \A m \in Messages(log)' : m = New(w) \/ (m \in Messages(log) /\ m.seq >= First')
      /\ \A m \in Messages(log) : m.seq >= First' => m \in Messages(log)'
  BY SpeaksEffect
<1>4. next <= nextSeq /\ Upto \in Nat BY PipeHas
<1>5. Ahead' = Received \cup Messages(batch) \cup {m \in Messages(log)' : m.seq >= next /\ conn # "lost"}
  BY <1>1, <1>2 DEF Ahead
<1>6. \A m \in Ahead' : m = New(w) \/ m \in Ahead BY <1>3, <1>5 DEF Ahead
<1>7. conn # "lost" => New(w) \in Ahead' BY <1>3, <1>4, <1>5
<1>8. ASSUME NEW m \in Ahead, m.seq < Upto \/ First' <= Upto PROVE m \in Ahead'
  <2>1. CASE m.seq < Upto BY <1>5, <2>1, AheadHas
  <2>2. CASE ~(m.seq < Upto)
    <3>1. m.seq \in Nat BY AheadHas
    <3>2. m.seq >= First' BY <1>3, <1>4, <1>8, <2>2, <3>1
    <3>3. m \in Received \/ m \in Messages(batch) \/ (m \in Messages(log) /\ m.seq >= next /\ conn # "lost")
      BY DEF Ahead
    <3> QED BY <1>3, <1>5, <3>2, <3>3
  <2> QED BY <2>1, <2>2
<1> QED BY <1>6, <1>7, <1>8

\* A terminal that missed nothing hears of a turn from its first state to its end.
LEMMA StoryKept ==
  ASSUME Base, StoryInv, WorkerKind, Elsewhere
  PROVE  StoryInv'
<1> USE DEF Base
<1>1. UNCHANGED <<conn, mark, next, batch, inbox, gap, seen, lastRunning, outcome>> /\ Upto' = Upto
  BY PipeKept DEF Elsewhere, handler, client, terminal
<1> SUFFICES ASSUME ~gap, Replaying, NEW k \in TurnIds, Expected(k)' PROVE Announced(k)'
  BY <1>1 DEF StoryInv, Replaying
<1>2. Expected(k) => Announced(k) BY DEF StoryInv
<1>3. Messages(batch)' = Messages(batch) /\ Received' = Received BY <1>1 DEF Messages, Received
<1>4. CASE Mute
  <2>1. /\ UNCHANGED <<log, nextSeq, ended>>
        /\ Shown(k)' => Shown(k)
        /\ EndOf(k)' = EndOf(k)
        /\ \A t, S : Comes(t, k, S)' <=> Comes(t, k, S)
        /\ \A e, S : Final(e, k, S)' <=> Final(e, k, S)
    BY <1>4, MuteStory
  <2>2. First' = First BY <2>1 DEF First
  <2>3. Expected(k) BY <1>1, <2>1, <2>2 DEF Expected
  <2>4. PICK A : A = Ahead /\ A = Ahead' BY <1>1, <1>3, <2>1 DEF Ahead, Messages
  <2>5. CASE Underway(k)
    <3>1. \A e : Final(e, k, Ahead)' <=> Final(e, k, A)' BY <2>4 DEF Final
    <3> QED BY <1>1, <2>1, <2>4, <2>5, <3>1 DEF Underway, Announced, HasOutcome, Marks, IsState
  <2>6. ASSUME NEW t \in Ahead, Comes(t, k, Ahead) PROVE Announced(k)'
    <3>1. Comes(t, k, Ahead)' <=> Comes(t, k, A)' BY <2>4 DEF Comes, FinalAfter, Final
    <3> QED BY <2>1, <2>4, <2>6, <3>1 DEF Announced
  <2> QED BY <1>2, <2>3, <2>5, <2>6 DEF Announced
<1>5. ASSUME NEW w \in Whats, Speaks(w) PROVE Announced(k)'
  <2>1. PICK new, S, S2 : new = New(w) /\ S = Ahead /\ S2 = Ahead' OBVIOUS
  <2>2. /\ new.seq = nextSeq /\ new.what = w /\ nextSeq' = nextSeq + 1 /\ nextSeq \in Nat
        /\ First' \in Nat /\ First' >= First /\ First \in Nat /\ turn' = turn /\ new.turn = turn
    BY <1>5, <2>1, SpeaksEffect, LogHas DEF LogTypes
  <2>3. /\ \A m \in S2 : m = new \/ m \in S
        /\ conn # "lost" => new \in S2
        /\ \A m \in S : m.seq < Upto \/ First' <= Upto => m \in S2
    BY <1>5, <2>1, AheadGrows
  <2>4. \A m \in S : m.seq \in Nat /\ m.seq < nextSeq /\ m.seq > seen BY <2>1, AheadHas
  <2>5. Upto \in Nat /\ Upto <= nextSeq /\ seen < nextSeq /\ mark < nextSeq /\ seen \in Nat /\ mark \in Nat
    <3>1. mark < nextSeq BY DEF GreetInv
    <3>2. Upto <= nextSeq /\ seen < next BY DEF PipeNumbers
    <3>3. mark \in Nat BY DEF TerminalTypes
    <3> QED BY <3>1, <3>2, <3>3, PipeHas
  <2>6. \/ EndOf(k)' < Upto
        \/ conn # "lost" /\ First' <= Upto
    BY <1>1 DEF Expected
  <2>7. \A t : Comes(t, k, Ahead)' <=> Comes(t, k, S2)' BY <2>1 DEF Comes, FinalAfter, Final
  <2>8. CASE ~Shown(k)
    <3>1. Shown(k)' BY DEF Expected
    <3>2. k = turn /\ doing = "show" BY <2>2, <2>8, <3>1 DEF Shown
    <3>3. (Shows /\ w = "state") \/ doing' = doing
      BY <1>5, <3>2 DEF Speaks, Remarks, Closes, Concludes, Middle
    <3>4. Shows /\ w = "state" BY <2>2, <3>1, <3>2, <3>3 DEF Shown
    <3>5. Shows /\ new = New("state") BY <2>1, <3>4
    <3>6. new \in S2 => Comes(new, k, S2)' /\ EndOf(k)' = nextSeq + 1
      BY <3>2, <3>5, ShowsComes
    <3>7. EndOf(k)' = nextSeq + 1
      <4>1. new \in Messages(log)' BY <1>5, <2>1, SpeaksEffect
      <4> QED BY <3>2, <3>5, <4>1, ShowsComes
    <3>8. new \in S2 BY <2>2, <2>3, <2>5, <2>6, <3>7
    <3> QED BY <2>1, <2>7, <3>6, <3>8 DEF Announced
  <2>9. CASE Shown(k)
    <3>1. /\ EndOf(k) \in Nat /\ EndOf(k)' \in Nat /\ EndOf(k) <= EndOf(k)'
          /\ Ended(k) => EndOf(k)' = EndOf(k) /\ EndOf(k) < nextSeq
          /\ ~Ended(k) => k = turn /\ EndOf(k) = nextSeq
          /\ ~Ended(k) => EndOf(k)' = nextSeq \/ EndOf(k)' = nextSeq + 1
          /\ Closes(w) \/ ended'[k].outcome = ended[k].outcome
          /\ Closes(w) /\ ~Ended(k) => ended'[k].outcome = Result(New(w)) /\ Marks(New(w))
          /\ HasOutcome(k) /\ ~Ended(k) /\ Marks(New(w)) => Closes(w)
          /\ Ended(k) => ended'[k] = ended[k]
      BY <1>5, <2>9, EndKept
    <3>2. Expected(k)
      <4>1. EndOf(k)' > mark /\ EndOf(k)' > seen BY <1>1 DEF Expected
      <4>2. EndOf(k) > mark /\ EndOf(k) > seen BY <2>5, <3>1, <4>1
      <4>3. EndOf(k) < Upto \/ (conn # "lost" /\ First <= Upto) BY <2>2, <2>5, <2>6, <3>1
      <4> QED BY <2>9, <4>2, <4>3 DEF Expected
    <3>3. ASSUME NEW n PROVE Follows(S, S2, new, k, n)
      <4>1. \A m \in S : m.seq < EndOf(k) => m \in S2
        <5> TAKE m \in S
        <5> HAVE m.seq < EndOf(k)
        <5>1. m.seq < Upto \/ First' <= Upto BY <2>4, <2>5, <2>6, <3>1
        <5> QED BY <2>3, <5>1
      <4>2. Ended(k) \/ new \in S2 BY <2>2, <2>3, <2>5, <2>6, <3>1
      <4> QED BY <2>3, <2>4, <4>1, <4>2 DEF Follows
    <3>4. ASSUME NEW t \in Ahead, Comes(t, k, Ahead) PROVE Announced(k)'
      <4>1. Comes(t, k, S2)' BY <1>5, <2>1, <2>9, <3>3, <3>4, ComesKept
      <4> QED BY <2>1, <2>7, <4>1 DEF Announced, Comes
    <3>5. CASE Underway(k)
      <4>1. \A q \in S2 : IsState(q) => q.turn >= k
        <5>1. turn >= k /\ turn \in Nat BY <2>9 DEF Shown, LogTypes
        <5> QED BY <2>1, <2>2, <2>3, <3>5, <5>1 DEF Underway
      <4>2. ASSUME HasOutcome(k)'
            PROVE  \/ \E e \in S2 : Final(e, k, S2)'
                   \/ outcome = ended'[k].outcome /\ \A q \in S2 : Marks(q) => q.seq >= EndOf(k)'
        <5>1. CASE (Closes(w) /\ ~Ended(k)) \/ \E e \in Ahead : Final(e, k, Ahead)
          <6>1. FinalAfter(0, k, S) \/ (Closes(w) /\ ~Ended(k))
            BY <2>1, <2>4, <2>5, <5>1 DEF FinalAfter
          <6>2. 0 < nextSeq /\ 0 \in Nat BY <2>2, <2>5
          <6>3. Follows(S, S2, new, k, 0) BY <3>3
          <6>4. FinalAfter(0, k, S2)' BY <1>5, <2>1, <2>9, <6>1, <6>2, <6>3, FinalKept
          <6> QED BY <4>2, <6>4 DEF FinalAfter
        <5>2. CASE ~(Closes(w) /\ ~Ended(k)) /\ ~\E e \in Ahead : Final(e, k, Ahead)
          <6>1. ended'[k].outcome = ended[k].outcome BY <3>1, <5>2
          <6>2. HasOutcome(k) BY <4>2, <6>1 DEF HasOutcome
          <6>3. outcome = ended[k].outcome /\ \A q \in S : Marks(q) => q.seq >= EndOf(k)
            BY <2>1, <3>5, <5>2, <6>2 DEF Underway
          <6>4. ASSUME NEW q \in S2, Marks(q) PROVE q.seq >= EndOf(k)'
            <7>1. CASE q = new
              <8>1. Ended(k) BY <2>1, <3>1, <5>2, <6>2, <6>4, <7>1
              <8> QED BY <2>2, <3>1, <7>1, <8>1
            <7>2. CASE q \in S
              <8>1. q.seq >= EndOf(k) /\ q.seq < nextSeq /\ q.seq \in Nat BY <2>4, <6>3, <6>4, <7>2
              <8> QED BY <2>2, <3>1, <8>1
            <7> QED BY <2>3, <6>4, <7>1, <7>2
          <6> QED BY <6>1, <6>3, <6>4
        <5> QED BY <5>1, <5>2
      <4>3. \A e : Final(e, k, Ahead)' <=> Final(e, k, S2)' BY <2>1 DEF Final
      <4>4. lastRunning' BY <1>1, <3>5 DEF Underway
      <4>5. \A q : (IsState(q)' <=> IsState(q)) /\ (Marks(q)' <=> Marks(q)) BY DEF IsState, Marks
      <4>6. Underway(k)' BY <1>1, <2>1, <4>1, <4>2, <4>3, <4>4, <4>5 DEF Underway
      <4> QED BY <4>6 DEF Announced
    <3> QED BY <1>2, <3>2, <3>4, <3>5 DEF Announced
  <2> QED BY <2>8, <2>9
<1> QED BY <1>4, <1>5 DEF WorkerKind

-----------------------------------------------------------------------------
(* The ends of turns, while the worker goes on.                            *)

\* An end is noted once, with the number of its message.
LEMMA EndMoves ==
  ASSUME Base, WorkerKind, NEW k \in TurnIds
  PROVE  /\ ended[k].seq \in Nat /\ nextSeq \in Nat /\ nextSeq > 0
         /\ ended'[k].seq = ended[k].seq \/ (~Ended(k) /\ ended'[k].seq = nextSeq)
         /\ Ended(k) => ended'[k] = ended[k]
<1> USE DEF Base
<1>1. /\ nextSeq \in Nat /\ turn \in 0..MaxTurns /\ MaxTurns \in Nat /\ TurnIds = 1..MaxTurns
      /\ ended[k].seq \in Nat /\ nextSeq > 0
  BY LogAssumption, LogHas DEF LogTypes, TurnIds
<1>2. CASE Mute \/ Shows \/ \E w \in Whats : Remarks(w)
  <2>1. ended' = ended BY <1>2 DEF Mute, Silent, Starts, Stops, Shows, Remarks
  <2> QED BY <1>1, <2>1
<1>3. ASSUME NEW w \in Whats, Closes(w)
      PROVE  ended'[k].seq = ended[k].seq /\ (Ended(k) => ended'[k] = ended[k])
  <2>1. turn \in TurnIds /\ ~Ended(turn) BY <1>1, <1>3 DEF Closes, TurnInv, Middle
  <2> QED BY <1>3, <2>1, ResultEnding, EndedEffect DEF Closes
<1>4. CASE Concludes
  <2>1. turn \in TurnIds /\ ~Ended(turn) BY <1>1, <1>4 DEF Concludes, TurnInv
  <2>2. ended'[turn].seq = nextSeq /\ \A j \in TurnIds : j # turn => ended'[j] = ended[j]
    BY <1>4, <2>1, EndedEffect DEF Concludes
  <2> QED BY <1>1, <2>1, <2>2 DEF Ended
<1> QED BY <1>1, <1>2, <1>3, <1>4 DEF WorkerKind, Speaks

\* No end that was sent is moved.
LEMMA EndsArriveKept ==
  ASSUME Base, EndsArrive, WorkerKind, Elsewhere
  PROVE  EndsArrive'
<1> USE DEF Base
<1>1. UNCHANGED <<conn, mark, next, batch, inbox, gap, seen>> BY DEF Elsewhere, handler, client, terminal
<1>2. Received' = Received BY <1>1 DEF Messages, Received
<1>3. next <= nextSeq /\ next \in Nat BY PipeHas
<1>4. ASSUME ~gap, NEW k \in TurnIds, Ended(k)', mark < ended'[k].seq, seen < ended'[k].seq, ended'[k].seq < next
      PROVE  \E m \in Received : m.seq = ended'[k].seq
  <2>1. ended'[k].seq = ended[k].seq BY <1>3, <1>4, EndMoves
  <2> QED BY <1>4, <2>1 DEF EndsArrive, Ended
<1>5. ~gap => (batch # <<>> => batch[1].seq = next \/ (next = 1 /\ batch[1].seq <= mark)) BY DEF EndsArrive
<1> QED BY <1>1, <1>2, <1>4, <1>5 DEF EndsArrive

\* The statuses stay right while the worker goes on: the ends it notes are not handled yet.
LEMMA FinishedKept ==
  ASSUME Base, FinishedOnce, WorkerKind, Elsewhere
  PROVE  FinishedOnce'
<1> USE DEF Base
<1>1. UNCHANGED <<gap, seen, printed, replayUntil>> BY DEF Elsewhere, terminal
<1>2. seen < nextSeq /\ seen \in Nat /\ replayUntil \in Nat BY PipeHas DEF PipeNumbers, TerminalTypes
<1> SUFFICES ASSUME ~gap PROVE FinishedOnce' BY <1>1 DEF FinishedOnce
<1>3. {k \in TurnIds : ended'[k].seq > replayUntil /\ ended'[k].seq <= seen}
       = {k \in TurnIds : ended[k].seq > replayUntil /\ ended[k].seq <= seen}
  <2>1. ASSUME NEW k \in TurnIds
        PROVE  (ended'[k].seq > replayUntil /\ ended'[k].seq <= seen)
                <=> (ended[k].seq > replayUntil /\ ended[k].seq <= seen)
    BY <1>2, EndMoves DEF Ended
  <2> QED BY <2>1
<1>4. ASSUME NEW i \in DOMAIN printed
      PROVE  printed[i].outcome = ended'[printed[i].turn].outcome
  <2>1. printed[i].turn \in TurnIds /\ ended[printed[i].turn].seq > replayUntil BY DEF FinishedOnce
  <2>2. ended[printed[i].turn].seq \in Nat BY <2>1 DEF LogTypes
  <2>3. Ended(printed[i].turn) BY <1>2, <2>1, <2>2 DEF Ended
  <2>4. ended'[printed[i].turn] = ended[printed[i].turn] BY <2>1, <2>3, EndMoves
  <2> QED BY <2>4 DEF FinishedOnce
<1> QED BY <1>1, <1>3, <1>4 DEF FinishedOnce

\* Every step of the worker keeps the invariant.
LEMMA WorkerKeeps ==
  ASSUME AttachInv, Worker, Elsewhere
  PROVE  AttachInv'
<1>1. WorkerKind BY WorkerSteps DEF AttachInv
<1>2. Base BY DEF AttachInv, Base
<1>3. LogTypes' BY LogTyped DEF AttachInv
<1>4. TerminalTypes'
  <2>1. UNCHANGED <<conn, mark, next, batch, inbox, closed, clientRunning, lastRunning, replayUntil, outcome, handled,
                    asks, printed, seen, gap, visits>>
    BY DEF Elsewhere, handler, client, terminal
  <2> QED BY <2>1 DEF AttachInv, TerminalTypes
<1>5. TurnInv' /\ LogNumbers' /\ PipeNumbers' /\ GreetInv'
  BY <1>1, TurnKept, LogNumbersKept, PipeKept DEF AttachInv
<1>6. ToldInv' /\ FlagInv' /\ LogStory' /\ EndsArrive' /\ StoryInv' /\ FinishedOnce'
  BY <1>1, <1>2, ToldKept, FlagKept, LogStoryKept, EndsArriveKept, StoryKept, FinishedKept DEF AttachInv
<1> QED BY <1>3, <1>4, <1>5, <1>6 DEF AttachInv

-----------------------------------------------------------------------------
(* Steps of the connection and the terminal: the log and the turn stay.    *)

Idle == UNCHANGED <<log, nextSeq, turnRunning, doing, turn, ended>>

\* what dropping some of what is ahead leaves of a story
LEMMA StoryStays ==
  ASSUME Idle, NEW k, NEW S, NEW S2, S2 \subseteq S,
         \A x \in S : x \in S2 \/ (~IsState(x) /\ ~Marks(x)) \/ ~(x.seq < EndOf(k))
  PROVE  /\ Shown(k)' <=> Shown(k)
         /\ EndOf(k)' = EndOf(k)
         /\ HasOutcome(k)' <=> HasOutcome(k)
         /\ \A t : Comes(t, k, S) => t \in S2 /\ Comes(t, k, S2)'
         /\ (\E e \in S : Final(e, k, S)) => \E e \in S2 : Final(e, k, S2)'
<1>1. UNCHANGED <<nextSeq, doing, turn, ended>> BY DEF Idle
<1>2. (Shown(k)' <=> Shown(k)) /\ EndOf(k)' = EndOf(k) /\ (HasOutcome(k)' <=> HasOutcome(k))
  BY <1>1 DEF Shown, EndOf, Ended, HasOutcome
<1>3. ASSUME NEW e, Final(e, k, S) PROVE e \in S2 /\ Final(e, k, S2)'
  <2>1. e \in S2 BY <1>3 DEF Final
  <2> QED BY <1>1, <1>2, <1>3, <2>1 DEF Final, Marks, Result
<1>4. ASSUME NEW t, Comes(t, k, S) PROVE t \in S2 /\ Comes(t, k, S2)'
  <2>1. t \in S2 BY <1>4 DEF Comes, Begun
  <2>2. Begun(t, k)' BY <1>2, <1>4 DEF Comes, Begun, IsState
  <2>3. FinalAfter(t.seq, k, S2)' BY <1>2, <1>3, <1>4 DEF Comes, FinalAfter
  <2> QED BY <2>1, <2>2, <2>3 DEF Comes
<1> QED BY <1>2, <1>3, <1>4

\* What is only about the worker stays as it is.
LEMMA IdleKeeps ==
  ASSUME TurnInv, LogNumbers, LogStory, Idle
  PROVE  TurnInv' /\ LogNumbers' /\ LogStory' /\ First' = First /\ Messages(log)' = Messages(log)
         /\ nextSeq' = nextSeq /\ ended' = ended
<1>1. UNCHANGED <<log, nextSeq, turnRunning, doing, turn, ended>> BY DEF Idle
<1>2. First' = First /\ Messages(log)' = Messages(log) BY <1>1 DEF First, Messages
<1>3. TurnInv' /\ LogNumbers' BY <1>1, <1>2 DEF TurnInv, LogNumbers, Ended
<1>4. LogStory'
  <2>1. PICK S : S = Messages(log) /\ S = Messages(log)' BY <1>2
  <2>2. ASSUME NEW k \in TurnIds, Shown(k)', NEW p \in S, IsState(p)', p.seq < EndOf(k)'
        PROVE  \E t \in S : p.seq <= t.seq /\ Comes(t, k, S)'
    <3>1. /\ Shown(k) /\ p.seq < EndOf(k)
          /\ \A t : Comes(t, k, S) => Comes(t, k, S)'
      BY <2>2, StoryStays
    <3>2. IsState(p) BY <2>2 DEF IsState
    <3> QED BY <2>1, <3>1, <3>2 DEF LogStory
  <2>3. \A t, k : Comes(t, k, Messages(log))' <=> Comes(t, k, S)' BY <2>1 DEF Comes, FinalAfter, Final
  <2> QED BY <2>1, <2>2, <2>3 DEF LogStory
<1> QED BY <1>1, <1>2, <1>3, <1>4

\* Nothing is told that was not told before.
LEMMA ToldShrinks ==
  ASSUME ToldInv, Idle, Told' \subseteq Told
  PROVE  ToldInv'
<1>1. UNCHANGED <<nextSeq, turn, ended>> BY DEF Idle
<1>2. \A m \in Told : Fits(m)' BY <1>1 DEF ToldInv, Fits, EndsTurn, IsState, Ended
<1> QED BY <1>2 DEF ToldInv, InStep

\* nobody attached, or a new attachment
LEMMA FreshKeeps ==
  ASSUME AttachInv, NEW c \in {"away", "register"}, Fresh(c), Idle, LogTypes', visits' \in Nat
  PROVE  AttachInv'
<1>1. LogTypes /\ TurnInv /\ LogNumbers /\ LogStory /\ ToldInv BY DEF AttachInv
<1>2. /\ conn' = c /\ mark' = 0 /\ next' = 1 /\ batch' = <<>>
      /\ inbox' = <<>> /\ closed' = FALSE /\ clientRunning' = FALSE
      /\ lastRunning' = FALSE /\ replayUntil' = 0 /\ outcome' = None
      /\ handled' = {} /\ asks' = 0 /\ printed' = <<>> /\ seen' = 0 /\ gap' = FALSE
  BY DEF Fresh
<1>3. /\ TurnInv' /\ LogNumbers' /\ LogStory' /\ First' = First /\ Messages(log)' = Messages(log)
      /\ nextSeq' = nextSeq /\ ended' = ended
  BY <1>1, IdleKeeps
<1>4. First \in Nat /\ First >= 1 /\ First < nextSeq /\ nextSeq \in Nat
      /\ \A m \in Messages(log) : m.seq \in Nat /\ First <= m.seq
  BY <1>1, LogHas DEF Message, LogTypes
<1>5. Len(inbox') = 0 /\ Len(batch') = 0 BY <1>2
<1>6. Messages(batch)' = {} /\ Received' = {} BY <1>5 DEF Messages, Received
<1>7. TerminalTypes'
  <2>1. <<>> \in Seq(Message) /\ <<>> \in Seq(Status) BY EmptySeq
  <2>2. 0 \in 0..MaxTurns BY LogAssumption
  <2> QED BY <1>2, <2>1, <2>2 DEF TerminalTypes, Conns
<1>8. Upto' = 1 BY <1>2 DEF Upto
<1>9. PipeNumbers' BY <1>2, <1>3, <1>4, <1>5, <1>8 DEF PipeNumbers
<1>10. ToldInv'
  <2>1. Told' \subseteq Told BY <1>3, <1>6 DEF Told
  <2> QED BY <1>1, <2>1, ToldShrinks
<1>11. GreetInv' BY <1>2, <1>3, <1>4, <1>5 DEF GreetInv, Blank
<1>12. FlagInv'
  <2>1. FlagInv BY DEF AttachInv
  <2>2. \A m \in Messages(log) : LastState(m, {q \in Messages(log) : q.seq < 1})' => FALSE
    BY <1>4 DEF LastState
  <2>3. UNCHANGED <<log, turnRunning, doing>> BY DEF Idle
  <2>4. (\A m \in Messages(log) : LastState(m, Messages(log)) => m.running = turnRunning \/ doing \in {"show", "tell"})'
    BY <2>1, <2>3 DEF FlagInv, LastState, Messages, IsState
  <2>5. (\A m \in Messages(log) : LastState(m, {q \in Messages(log) : q.seq < next}) => clientRunning = m.running)'
    BY <1>2, <1>3, <1>4 DEF LastState
  <2>6. lastRunning' = clientRunning' BY <1>2
  <2>7. \A i \in 1..Len(inbox') : FALSE BY <1>5
  <2> QED BY <2>4, <2>5, <2>6, <2>7 DEF FlagInv
<1>13. EndsArrive'
  <2>1. \A k \in TurnIds : Ended(k)' => ended'[k].seq \in Nat /\ ended'[k].seq >= 1
    BY <1>1, <1>3 DEF Ended, LogTypes
  <2> QED BY <1>2, <2>1 DEF EndsArrive
<1>14. StoryInv' BY <1>2 DEF StoryInv, Replaying
<1>15. FinishedOnce'
  <2>1. \A k \in TurnIds : ~(ended'[k].seq > replayUntil' /\ ended'[k].seq <= seen')
    BY <1>1, <1>2, <1>3 DEF LogTypes
  <2>2. DOMAIN printed' = {} BY <1>2
  <2> QED BY <1>2, <2>1, <2>2 DEF FinishedOnce
<1> QED BY <1>3, <1>7, <1>9, <1>10, <1>11, <1>12, <1>13, <1>14, <1>15 DEF AttachInv

\* The first state has the invariant.
LEMMA InitAttached ==
  ASSUME AttachInit
  PROVE  AttachInv
<1> USE DEF AttachInit, WorkerInit
<1>0. TurnIds = 1..MaxTurns /\ MaxTurns \in Nat BY LogAssumption DEF TurnIds
<1>1. log = <<[seq |-> 1, what |-> "state", running |-> FALSE, turn |-> 0]>> BY DEF State
<1>2. Len(log) = 1 /\ log[1] = [seq |-> 1, what |-> "state", running |-> FALSE, turn |-> 0] BY <1>1
<1>3. LogTypes
  <2>1. log[1] \in Message
    <3>1. "state" \in Whats /\ 0 \in 0..MaxTurns /\ 1 \in Nat /\ FALSE \in BOOLEAN BY <1>0 DEF Whats
    <3>2. [seq |-> 1, what |-> "state", running |-> FALSE, turn |-> 0] \in Message BY ONLY <3>1 DEF Message
    <3> QED BY ONLY <1>2, <3>2
  <2>2. log \in Seq(Message) BY <1>1, <1>2, <2>1
  <2>3. ended \in [TurnIds -> [seq : Nat, outcome : Endings \cup {None}]] OBVIOUS
  <2>4. doing \in Doings BY DEF Doings
  <2>5. turn \in 0..MaxTurns /\ nextSeq \in Nat /\ tokens \in Nat /\ notices \in Nat BY <1>0
  <2>6. /\ turnRunning \in BOOLEAN /\ stopping \in {"no", "set", "told"} /\ bound \in Settings
        /\ turnKind \in {"prompt", "compact"} /\ asked = {} /\ pending = {} /\ answers = {}
    OBVIOUS
  <2> QED BY <2>2, <2>3, <2>4, <2>5, <2>6 DEF LogTypes
<1>4. TerminalTypes
  <2>1. <<>> \in Seq(Message) /\ <<>> \in Seq(Status) BY EmptySeq
  <2>2. /\ conn \in Conns /\ mark \in Nat /\ next \in Nat /\ replayUntil \in Nat /\ seen \in Nat /\ visits \in Nat
    BY DEF Conns
  <2>3. closed \in BOOLEAN /\ clientRunning \in BOOLEAN /\ lastRunning \in BOOLEAN /\ gap \in BOOLEAN
    OBVIOUS
  <2>4. outcome \in Endings \cup {None} /\ handled \subseteq 0..MaxTurns /\ asks \in 0..MaxTurns BY <1>0
  <2> QED BY <2>1, <2>2, <2>3, <2>4 DEF TerminalTypes
<1>5. First = 1 BY <1>2 DEF First
<1>6. TurnInv BY <1>0 DEF TurnInv, Ended, Closing
<1>7. LogNumbers BY <1>2, <1>5, LogAssumption DEF LogNumbers
<1>8. Len(inbox) = 0 /\ Len(batch) = 0 OBVIOUS
<1>9. Messages(batch) = {} /\ Received = {} /\ Messages(log) = {log[1]} BY <1>2, <1>8 DEF Messages, Received
<1>10. PipeNumbers BY <1>5, <1>8 DEF PipeNumbers, Upto
<1>11. ToldInv
  <2>1. Told = {log[1]} BY <1>9 DEF Told
  <2>2. Fits(log[1]) BY <1>0, <1>2 DEF Fits, EndsTurn, IsState, Ended
  <2>3. \A m, q \in Told : m = q BY <2>1
  <2>4. log[1].turn <= log[1].turn BY <1>2
  <2> QED BY <2>1, <2>2, <2>3, <2>4 DEF ToldInv, InStep
<1>12. GreetInv BY <1>8 DEF GreetInv, Blank
<1>13. FlagInv
  <2>0. next = 1 /\ turnRunning = FALSE OBVIOUS
  <2>4. PICK m0 : m0 = log[1] OBVIOUS
  <2>5. m0.running = FALSE /\ m0.seq = 1 BY ONLY <1>2, <2>4
  <2>6. m0.running = turnRunning BY ONLY <2>0, <2>5, Zenon
  <2>7. ~(m0.seq < next) BY ONLY <2>0, <2>5, SMT
  <2>1. \A m \in Messages(log) : m.running = turnRunning /\ ~(m.seq < next) BY ONLY <1>9, <2>4, <2>6, <2>7
  <2>2. lastRunning = clientRunning OBVIOUS
  <2>3. \A i \in 1..Len(inbox) : FALSE BY <1>8
  <2> QED BY <2>1, <2>2, <2>3 DEF FlagInv, LastState
<1>14. LogStory BY <1>0 DEF LogStory, Shown
<1>15. EndsArrive BY DEF EndsArrive, Ended
<1>16. StoryInv BY DEF StoryInv, Replaying
<1>17. FinishedOnce BY DEF FinishedOnce
<1> QED BY <1>3, <1>4, <1>6, <1>7, <1>10, <1>11, <1>12, <1>13, <1>14, <1>15, <1>16, <1>17 DEF AttachInv

\* Steps of the connection and the terminal that lose nothing of a turn's story leave its end announced.
LEMMA AnnouncedStays ==
  ASSUME Idle, UNCHANGED <<lastRunning, outcome>>, NEW k, Announced(k), Ahead' \subseteq Ahead,
         \A x \in Ahead : x \in Ahead' \/ (~IsState(x) /\ ~Marks(x)) \/ ~(x.seq < EndOf(k))
  PROVE  Announced(k)'
<1>1. PICK S, S2 : S = Ahead /\ S2 = Ahead' OBVIOUS
<1>2. /\ S2 \subseteq S
      /\ \A x \in S : x \in S2 \/ (~IsState(x) /\ ~Marks(x)) \/ ~(x.seq < EndOf(k))
  BY <1>1
<1>3. /\ EndOf(k)' = EndOf(k)
      /\ HasOutcome(k)' <=> HasOutcome(k)
      /\ \A t : Comes(t, k, S) => t \in S2 /\ Comes(t, k, S2)'
      /\ (\E e \in S : Final(e, k, S)) => \E e \in S2 : Final(e, k, S2)'
  BY <1>2, StoryStays
<1>4. \A t : Comes(t, k, Ahead)' <=> Comes(t, k, S2)' BY <1>1 DEF Comes, FinalAfter, Final
<1>5. \A e : Final(e, k, Ahead)' <=> Final(e, k, S2)' BY <1>1 DEF Final
<1>6. CASE \E t \in Ahead : Comes(t, k, Ahead) BY <1>1, <1>3, <1>4, <1>6 DEF Announced
<1>7. CASE Underway(k)
  <2>1. lastRunning' /\ \A q \in S2 : IsState(q)' => q.turn >= k
    BY <1>1, <1>2, <1>7 DEF Underway, IsState
  <2>2. CASE HasOutcome(k) /\ \E e \in Ahead : Final(e, k, Ahead)
    <3>1. \E e \in Ahead' : Final(e, k, Ahead)' BY <1>1, <1>3, <1>5, <2>2
    <3> QED BY <1>1, <2>1, <3>1 DEF Underway, Announced
  <2>3. CASE HasOutcome(k) /\ outcome = ended[k].outcome /\ \A q \in Ahead : Marks(q) => q.seq >= EndOf(k)
    <3>1. outcome' = ended'[k].outcome BY <2>3 DEF Idle
    <3>2. \A q \in S2 : Marks(q)' => q.seq >= EndOf(k)' BY <1>1, <1>2, <1>3, <2>3 DEF Marks
    <3> QED BY <1>1, <2>1, <3>1, <3>2 DEF Underway, Announced
  <2>4. CASE ~HasOutcome(k) BY <1>1, <1>3, <2>1, <2>4 DEF Underway, Announced
  <2> QED BY <1>7, <2>2, <2>3, <2>4 DEF Underway
<1> QED BY <1>6, <1>7 DEF Announced

\* The writer looks at the log and finds nothing new; the user answers.
LEMMA StillKeeps ==
  ASSUME AttachInv, Idle, LogTypes', TerminalTypes',
         UNCHANGED <<mark, next, batch, inbox, clientRunning>>,
         UNCHANGED <<lastRunning, replayUntil, outcome, printed, seen, gap>>,
         conn' = conn \/ {conn, conn'} \subseteq {"on", "take"}
  PROVE  AttachInv'
<1>1. UNCHANGED <<mark, next, batch, inbox, clientRunning, lastRunning, replayUntil, outcome, printed, seen, gap>>
  OBVIOUS
<1>2. LogTypes /\ TurnInv /\ LogNumbers /\ LogStory /\ ToldInv /\ PipeNumbers /\ GreetInv
      /\ FlagInv /\ EndsArrive /\ StoryInv /\ FinishedOnce
  BY DEF AttachInv
<1>3. /\ TurnInv' /\ LogNumbers' /\ LogStory' /\ First' = First /\ Messages(log)' = Messages(log)
      /\ nextSeq' = nextSeq /\ ended' = ended
  BY <1>2, IdleKeeps
<1>4. UNCHANGED <<log, nextSeq, turnRunning, doing, turn, ended>> BY DEF Idle
<1>5. Upto' = Upto /\ Messages(batch)' = Messages(batch) /\ Received' = Received
  BY <1>1 DEF Upto, Messages, Received
<1>6. (conn' = "send" <=> conn = "send") /\ (conn' = "lost" <=> conn = "lost") OBVIOUS
<1>7. PipeNumbers'
  <2>1. (conn = "send" <=> batch # <<>>)' BY <1>1, <1>2, <1>6 DEF PipeNumbers
  <2> QED BY <1>1, <1>2, <1>3, <1>5, <2>1 DEF PipeNumbers
<1>8. ToldInv'
  <2>1. Told' = Told BY <1>3, <1>5 DEF Told
  <2> QED BY <1>2, <2>1, ToldShrinks
<1>9. GreetInv'
  <2>1. Blank' <=> Blank BY <1>1 DEF Blank
  <2> QED BY <1>1, <1>2, <1>3, <2>1 DEF GreetInv
<1>10. FlagInv' BY <1>1, <1>2, <1>4 DEF FlagInv, LastState, Messages, IsState, Tells
<1>11. EndsArrive' BY <1>1, <1>2, <1>3, <1>5 DEF EndsArrive, Ended
<1>12. FinishedOnce' BY <1>1, <1>2, <1>3 DEF FinishedOnce
<1>13. Ahead' = Ahead BY <1>1, <1>3, <1>5, <1>6 DEF Ahead
<1>14. StoryInv'
  <2>1. ASSUME ~gap, Replaying, NEW k \in TurnIds, Expected(k)' PROVE Announced(k)'
    <3>1. Expected(k) BY <1>1, <1>3, <1>4, <1>5, <1>6, <2>1 DEF Expected, Shown, EndOf, Ended
    <3>2. Announced(k) BY <1>2, <2>1, <3>1 DEF StoryInv
    <3> QED BY <1>1, <1>13, <3>2, AnnouncedStays
  <2>2. Replaying' <=> Replaying BY <1>1 DEF Replaying
  <2> QED BY <1>1, <2>1, <2>2 DEF StoryInv
<1> QED BY <1>3, <1>7, <1>8, <1>9, <1>10, <1>11, <1>12, <1>14 DEF AttachInv

\* The writer goes to look at the log.
LEMMA LookKeeps ==
  ASSUME AttachInv, Look
  PROVE  AttachInv'
<1>1. LogTypes' /\ TerminalTypes' /\ Idle
  BY DEF AttachInv, LogTypes, TerminalTypes, Look, worker, client, terminal, thread, asking, Idle, Conns
<1> QED BY <1>1, StillKeeps DEF Look, client, terminal

\* The user answers: the answer is no message.
LEMMA ReplyKeeps ==
  ASSUME AttachInv, Reply
  PROVE  AttachInv'
<1>1. LogTypes'
  <2>1. answers' \subseteq TurnIds BY DEF AttachInv, LogTypes, Reply, Accept
  <2> QED BY <2>1 DEF AttachInv, LogTypes, Reply, thread
<1>2. TerminalTypes'
  <2>1. asks' \in 0..MaxTurns BY LogAssumption DEF Reply
  <2> QED BY <2>1 DEF AttachInv, TerminalTypes, Reply, handler, client
<1>3. Idle BY DEF Reply, Idle
<1> QED BY <1>1, <1>2, <1>3, StillKeeps DEF Reply, client, handler

\* A terminal comes or goes.
LEMMA VisitsKeep ==
  ASSUME AttachInv, ConnectClient \/ Detach \/ SwitchAway
  PROVE  AttachInv'
<1>1. LogTypes' /\ Idle
  <2>1. stopping' \in {"no", "set", "told"}
    BY DEF AttachInv, LogTypes, ConnectClient, Detach, SwitchAway, worker
  <2> QED BY <2>1 DEF AttachInv, LogTypes, ConnectClient, Detach, SwitchAway, worker, thread, asking, Idle
<1>2. visits' \in Nat BY DEF AttachInv, TerminalTypes, ConnectClient, Detach, SwitchAway
<1>3. Fresh("away") \/ Fresh("register") BY DEF ConnectClient, Detach, SwitchAway
<1> QED BY <1>1, <1>2, <1>3, FreshKeeps

\* The handler notes the number that divides the replay from what is live.
LEMMA MarkKeeps ==
  ASSUME AttachInv, Mark
  PROVE  AttachInv'
<1>1. /\ UNCHANGED <<next, batch, inbox, closed, clientRunning, lastRunning, replayUntil, outcome, handled, asks,
                    printed, seen, gap, visits>>
      /\ conn = "register" /\ conn' = "greet" /\ mark' = nextSeq - 1 /\ Idle
  BY DEF Mark, client, terminal, worker, Idle
<1>2. LogTypes /\ TurnInv /\ LogNumbers /\ LogStory /\ ToldInv /\ PipeNumbers /\ GreetInv
      /\ FlagInv /\ EndsArrive /\ StoryInv /\ FinishedOnce /\ TerminalTypes
  BY DEF AttachInv
<1>3. /\ TurnInv' /\ LogNumbers' /\ LogStory' /\ First' = First /\ Messages(log)' = Messages(log)
      /\ nextSeq' = nextSeq /\ ended' = ended
  BY <1>1, <1>2, IdleKeeps
<1>4. UNCHANGED <<log, nextSeq, turnRunning, doing, turn, ended>> BY <1>1 DEF Idle
<1>5. inbox = <<>> /\ Len(inbox) = 0 /\ batch = <<>> /\ Len(batch) = 0 /\ next = 1 /\ Blank
  BY <1>1, <1>2 DEF GreetInv, PipeNumbers
<1>6. nextSeq \in Nat /\ mark' \in Nat /\ mark' >= 1 /\ mark' < nextSeq
  BY <1>1, <1>2, LogHas DEF LogTypes
<1>7. LogTypes' BY <1>2 DEF LogTypes, Mark, worker, thread, asking
<1>8. TerminalTypes' BY <1>1, <1>2, <1>6 DEF TerminalTypes, Conns
<1>9. Upto' = Upto /\ Messages(batch)' = Messages(batch) /\ Received' = Received
  BY <1>1 DEF Upto, Messages, Received
<1>10. PipeNumbers' BY <1>1, <1>2, <1>3, <1>9 DEF PipeNumbers
<1>11. ToldInv'
  <2>1. Told' = Told BY <1>3, <1>9 DEF Told
  <2> QED BY <1>1, <1>2, <2>1, ToldShrinks
<1>12. GreetInv'
  <2>1. Blank' BY <1>1, <1>5 DEF Blank
  <2> QED BY <1>1, <1>2, <1>3, <1>5, <1>6, <2>1 DEF GreetInv
<1>13. FlagInv' BY <1>1, <1>2, <1>4 DEF FlagInv, LastState, Messages, IsState, Tells
<1>14. EndsArrive'
  <2>1. \A k \in TurnIds : Ended(k) => ended[k].seq \in Nat /\ ~(ended[k].seq < 1)
    BY <1>2 DEF LogTypes, Ended
  <2> QED BY <1>1, <1>3, <1>5, <2>1 DEF EndsArrive, Ended
<1>15. FinishedOnce' BY <1>1, <1>2, <1>3 DEF FinishedOnce
<1>16. StoryInv' BY <1>1, <1>5 DEF StoryInv, Replaying
<1> QED BY <1>3, <1>7, <1>8, <1>10, <1>11, <1>12, <1>13, <1>14, <1>15, <1>16 DEF AttachInv

\* The greeting is the first message of the inbox.
LEMMA GreetKeeps ==
  ASSUME AttachInv, Greet
  PROVE  AttachInv'
<1> DEFINE hello == [seq |-> mark, what |-> "hello", running |-> turnRunning, turn |-> turn]
<1>1. /\ UNCHANGED <<mark, next, batch, closed, lastRunning, replayUntil, outcome, handled, asks,
                    printed, seen, gap, visits>>
      /\ conn = "greet" /\ conn' = "on" /\ Idle
      /\ Receive([State(mark) EXCEPT !.what = "hello"])
  BY DEF Greet, Receive, terminal, worker, Idle
<1>2. LogTypes /\ TurnInv /\ LogNumbers /\ LogStory /\ ToldInv /\ PipeNumbers /\ GreetInv
      /\ FlagInv /\ EndsArrive /\ StoryInv /\ FinishedOnce /\ TerminalTypes
  BY DEF AttachInv
<1>3. /\ TurnInv' /\ LogNumbers' /\ LogStory' /\ First' = First /\ Messages(log)' = Messages(log)
      /\ nextSeq' = nextSeq /\ ended' = ended
  BY <1>1, <1>2, IdleKeeps
<1>4. UNCHANGED <<log, nextSeq, turnRunning, doing, turn, ended>> BY <1>1 DEF Idle
<1>5. inbox = <<>> /\ batch = <<>> /\ Len(batch) = 0 /\ next = 1 /\ Blank /\ mark >= 1
  BY <1>1, <1>2 DEF GreetInv, PipeNumbers
<1>6. [State(mark) EXCEPT !.what = "hello"] = hello BY DEF State
<1>7. hello \in Message BY <1>2 DEF Message, Whats, LogTypes, TerminalTypes
<1>8. clientRunning' = turnRunning /\ inbox' = Append(inbox, hello)
  <2>1. hello.what = "hello" /\ hello.running = turnRunning OBVIOUS
  <2> HIDE DEF hello
  <2> QED BY <1>1, <1>6, <2>1 DEF Receive
<1>9. /\ inbox' \in Seq(Message) /\ Len(inbox') = 1 /\ inbox'[1] = hello
      /\ hello.what = "hello" /\ hello.running = turnRunning /\ hello.seq = mark
  BY <1>5, <1>7, <1>8
<1> HIDE DEF hello
<1>10. Received' = {}
  <2>1. \A i \in 1..Len(inbox') : inbox'[i] = hello BY <1>9
  <2> QED BY <1>9, <2>1 DEF Received, Messages
<1>11. LogTypes' BY <1>2 DEF LogTypes, Greet, worker, thread, asking
<1>12. TerminalTypes' BY <1>1, <1>2, <1>8, <1>9 DEF TerminalTypes, Conns, LogTypes
<1>13. Upto' = Upto /\ Messages(batch)' = Messages(batch) /\ Received \in SUBSET Messages(inbox)
  BY <1>1 DEF Upto, Messages, Received
<1>14. PipeNumbers'
  <2>1. \A i \in 1..Len(inbox') : inbox'[i].what = "hello" BY <1>9
  <2> QED BY <1>1, <1>2, <1>3, <1>13, <2>1 DEF PipeNumbers
<1>15. ToldInv'
  <2>1. Told' \subseteq Told BY <1>3, <1>10, <1>13 DEF Told
  <2> QED BY <1>1, <1>2, <2>1, ToldShrinks
<1>16. GreetInv'
  <2>1. Blank' BY <1>1, <1>5 DEF Blank
  <2>2. \A i \in 1..Len(inbox') : i = 1 BY <1>9
  <2>3. inbox' # <<>>
    <3>1. PICK s : s = inbox' OBVIOUS
    <3>2. s \in Seq(Message) /\ Len(s) = 1 BY <1>9, <3>1
    <3> QED BY ONLY <3>1, <3>2
  <2> QED BY <1>1, <1>2, <1>3, <1>5, <1>9, <2>1, <2>2, <2>3 DEF GreetInv
<1>17. FlagInv'
  <2>1. (\A m \in Messages(log) : LastState(m, Messages(log)) => m.running = turnRunning \/ doing \in {"show", "tell"})'
    BY <1>2, <1>3, <1>4 DEF FlagInv, LastState, IsState
  <2>2. (\A m \in Messages(log) : LastState(m, {q \in Messages(log) : q.seq < next}) => clientRunning = m.running)'
    <3>1. \A m \in Messages(log) : m.seq \in Nat /\ m.seq >= First /\ First \in Nat /\ First >= 1
      BY <1>2, LogHas DEF Message
    <3>2. \A m \in Messages(log) : ~(m.seq < 1) BY <3>1
    <3> QED BY <1>1, <1>3, <1>5, <3>2 DEF LastState
  <2>3. \A i \in 1..Len(inbox') : inbox'[i].running = clientRunning' BY <1>8, <1>9
  <2>4. ~(\A i \in 1..Len(inbox') : ~Tells(inbox[i])') BY <1>9 DEF Tells
  <2> QED BY <2>1, <2>2, <2>3, <2>4 DEF FlagInv
<1>18. EndsArrive'
  <2>1. \A k \in TurnIds : Ended(k) => ended[k].seq \in Nat /\ ~(ended[k].seq < 1)
    BY <1>2 DEF LogTypes, Ended
  <2> QED BY <1>1, <1>3, <1>5, <2>1 DEF EndsArrive, Ended
<1>19. FinishedOnce' BY <1>1, <1>2, <1>3 DEF FinishedOnce
<1>20. StoryInv' BY <1>1, <1>5 DEF StoryInv, Replaying
<1> QED BY <1>3, <1>11, <1>12, <1>14, <1>15, <1>16, <1>17, <1>18, <1>19, <1>20 DEF AttachInv

\* What is available is what the log has from next on, in order.
LEMMA AvailableIs ==
  ASSUME LogTypes, LogNumbers, next \in Nat, next >= 1, next <= nextSeq
  PROVE  /\ Available \in Seq(Message) /\ Len(Available) \in Nat
         /\ Messages(Available) = {m \in Messages(log) : m.seq >= next}
         /\ \A i \in 1..Len(Available) : Available[i].seq = Available[1].seq - 1 + i
         /\ Available = <<>> <=> next = nextSeq
         /\ Available # <<>> => /\ Len(Available) >= 1
                                /\ Available[1].seq = (IF First <= next THEN next ELSE First)
                                /\ Available[Len(Available)].seq = nextSeq - 1
<1> DEFINE c == IF First <= next THEN next - First ELSE 0
<1>1. /\ First \in Nat /\ First >= 1 /\ First < nextSeq /\ nextSeq \in Nat /\ Len(log) \in Nat
      /\ First = nextSeq - Len(log)
  BY LogHas, LenProperties DEF LogTypes, First
<1>2. c \in 0..Len(log) /\ (First <= next => c = next - First) /\ (~(First <= next) => c = 0) BY <1>1
<1> HIDE DEF c
<1>3. \A i \in 1..Len(log) : log[i].seq = First - 1 + i BY DEF LogNumbers
<1>4. {i \in DOMAIN log : log[i].seq < next} = 1..c
  <2>1. DOMAIN log = 1..Len(log) BY LenProperties DEF LogTypes
  <2>2. \A i \in 1..Len(log) : log[i].seq < next <=> i <= c BY <1>1, <1>2, <1>3
  <2> QED BY <1>1, <1>2, <2>1, <2>2
<1>5. Cardinality(1..c) = c BY <1>1, <1>2, FS_Interval
<1>6. Available = SubSeq(log, c + 1, Len(log)) BY <1>4, <1>5 DEF Available
<1>7. \A i \in (c + 1)..Len(log) : log[i] \in Message BY <1>1, <1>2, ElementOfSeq DEF LogTypes
<1>8. CASE next = nextSeq
  <2>1. c = Len(log) BY <1>1, <1>2, <1>8
  <2>2. Available = <<>> BY <1>1, <1>6, <2>1, SubSeqProperties
  <2>3. Len(Available) = 0 BY <2>2
  <2>4. \A m \in Messages(log) : ~(m.seq >= next) BY <1>1, <1>8, LogHas DEF Message
  <2>5. Messages(Available) = {} BY <2>3 DEF Messages
  <2>6. Available \in Seq(Message) BY <2>2, EmptySeq
  <2> QED BY <1>8, <2>2, <2>3, <2>4, <2>5, <2>6
<1>9. CASE next < nextSeq
  <2>1. c + 1 \in Int /\ Len(log) \in Int /\ c + 1 <= Len(log) BY <1>1, <1>2, <1>9
  <2>2. /\ Available \in Seq(Message) /\ Len(Available) = Len(log) - (c + 1) + 1
        /\ \A i \in 1..(Len(log) - (c + 1) + 1) : Available[i] = log[(c + 1) + i - 1]
    BY <1>6, <1>7, <2>1, SubSeqProperties
  <2>3. Len(Available) = Len(log) - c /\ Len(Available) \in Nat /\ Len(Available) >= 1
    BY <1>1, <1>2, <2>1, <2>2
  <2>4. \A i \in 1..Len(Available) : Available[i] = log[c + i] /\ c + i \in 1..Len(log)
    BY <1>1, <1>2, <2>2, <2>3
  <2>5. \A i \in 1..Len(Available) : Available[i].seq = First - 1 + (c + i)
    BY <1>3, <2>4
  <2>6. Available # <<>>
    <3>1. Len(<<>>) = 0 OBVIOUS
    <3> QED BY <2>3, <3>1
  <2>7. Available[1].seq = First + c BY <1>1, <1>2, <2>3, <2>5
  <2>8. Available[Len(Available)].seq = nextSeq - 1
    <3>1. Len(Available) \in 1..Len(Available) BY <2>3
    <3>2. Available[Len(Available)].seq = First - 1 + (c + Len(Available)) BY <2>5, <3>1
    <3> QED BY <1>1, <1>2, <2>3, <3>2
  <2>9. \A i \in 1..Len(Available) : Available[i].seq = Available[1].seq - 1 + i
    BY <1>1, <1>2, <2>5, <2>7
  <2>10. Messages(Available) = {m \in Messages(log) : m.seq >= next}
    <3>1. ASSUME NEW m \in Messages(Available) PROVE m \in Messages(log) /\ m.seq >= next
      <4>1. PICK i \in 1..Len(Available) : m = Available[i] BY DEF Messages
      <4>2. m.seq = First - 1 + (c + i) BY <2>5, <4>1
      <4>3. m.seq >= next
        <5>1. First - 1 + (c + i) >= next BY <1>1, <1>2, <4>1, <2>3
        <5> QED BY <4>2, <5>1
      <4> QED BY <2>4, <4>1, <4>3 DEF Messages
    <3>2. ASSUME NEW m \in Messages(log), m.seq >= next PROVE m \in Messages(Available)
      <4>1. PICK i \in 1..Len(log) : m = log[i] BY DEF Messages
      <4>2. m.seq = First - 1 + i BY <1>3, <4>1
      <4>3. i - c \in 1..Len(Available) /\ c + (i - c) = i BY <1>1, <1>2, <2>3, <3>2, <4>2
      <4> QED BY <2>4, <4>1, <4>3 DEF Messages
    <3> QED BY <3>1, <3>2
  <2>11. Available[1].seq = (IF First <= next THEN next ELSE First) BY <1>1, <1>2, <2>7
  <2> QED BY <1>9, <2>2, <2>3, <2>6, <2>8, <2>9, <2>10, <2>11
<1> QED BY <1>1, <1>8, <1>9

\* The writer finds nothing new.
LEMMA TakeNothing ==
  ASSUME AttachInv, Take, Available = <<>>
  PROVE  AttachInv'
<1>1. LogTypes /\ LogNumbers /\ TerminalTypes /\ PipeNumbers BY DEF AttachInv
<1>2. next = nextSeq /\ next > 1
  <2>1. next \in Nat /\ next >= 1 /\ next <= nextSeq BY <1>1, PipeHas DEF PipeNumbers
  <2> QED BY <1>1, <2>1, AvailableIs, LogHas DEF LogTypes
<1>3. batch = <<>> BY <1>1 DEF Take, PipeNumbers
<1>4. batch' = batch BY <1>3 DEF Take
<1>5. gap' = gap
  <2>1. next # 1 BY <1>1, <1>2 DEF TerminalTypes
  <2> QED BY <1>1, <2>1 DEF Take, TerminalTypes
<1>6. /\ UNCHANGED <<mark, next, inbox, closed, clientRunning, lastRunning, replayUntil, outcome, handled, asks,
                    printed, seen, visits>>
      /\ conn = "take" /\ conn' = "on" /\ UNCHANGED worker
  BY DEF Take, client, terminal
<1>7. LogTypes' /\ Idle BY <1>1, <1>6 DEF LogTypes, worker, thread, asking, Idle
<1>8. TerminalTypes' BY <1>1, <1>4, <1>5, <1>6 DEF TerminalTypes, Conns
<1> QED BY <1>4, <1>5, <1>6, <1>7, <1>8, StillKeeps

\* The writer takes what is new; it says that it missed nothing only if it did not.
LEMMA TakeSome ==
  ASSUME AttachInv, Take, Available # <<>>
  PROVE  AttachInv'
<1>1. LogTypes /\ TurnInv /\ LogNumbers /\ LogStory /\ ToldInv /\ PipeNumbers /\ GreetInv
      /\ FlagInv /\ EndsArrive /\ StoryInv /\ FinishedOnce /\ TerminalTypes
  BY DEF AttachInv
<1>2. /\ UNCHANGED <<mark, next, inbox, closed, clientRunning, lastRunning, replayUntil, outcome, handled, asks,
                    printed, seen, visits>>
      /\ conn = "take" /\ conn' = "send" /\ batch' = Available /\ UNCHANGED worker
  BY DEF Take, client, terminal
<1>3. LogTypes' /\ Idle BY <1>1, <1>2 DEF LogTypes, worker, thread, asking, Idle
<1>4. /\ TurnInv' /\ LogNumbers' /\ LogStory' /\ First' = First /\ Messages(log)' = Messages(log)
      /\ nextSeq' = nextSeq /\ ended' = ended
  BY <1>1, <1>3, IdleKeeps
<1>5. UNCHANGED <<log, nextSeq, turnRunning, doing, turn, ended>> BY <1>3 DEF Idle
<1>6. batch = <<>> BY <1>1, <1>2 DEF PipeNumbers
<1>7. next \in Nat /\ next >= 1 /\ next <= nextSeq /\ nextSeq \in Nat /\ seen \in Nat /\ mark \in Nat
  BY <1>1, PipeHas DEF PipeNumbers, TerminalTypes
<1>8. /\ batch' \in Seq(Message) /\ Len(batch') \in Nat /\ Len(batch') >= 1
      /\ Messages(batch)' = {m \in Messages(log) : m.seq >= next}
      /\ \A i \in 1..Len(batch') : batch'[i].seq = batch'[1].seq - 1 + i
      /\ batch' # <<>>
      /\ batch'[1].seq = (IF First <= next THEN next ELSE First)
      /\ batch'[Len(batch')].seq = nextSeq - 1
  <2>1. Messages(batch)' = Messages(Available) BY <1>2 DEF Messages
  <2> QED BY <1>1, <1>2, <1>7, <2>1, AvailableIs
<1>9. Upto' = nextSeq /\ Upto = next BY <1>6, <1>7, <1>8 DEF Upto
<1>10. First \in Nat /\ First >= 1 /\ First < nextSeq
       /\ \A m \in Messages(log) : m.seq \in Nat /\ First <= m.seq /\ m.seq < nextSeq
  BY <1>1, LogHas DEF Message
<1>11. Received' = Received BY <1>2 DEF Messages, Received
<1>12. ~gap' => /\ ~gap
                /\ next = 1 => \E m \in Messages(log) : IsState(m) /\ m.seq <= mark
                /\ next # 1 => First <= next
  <2>1. ASSUME ~gap' PROVE ~gap BY <2>1 DEF Take
  <2>2. ASSUME ~gap', next = 1 PROVE \E m \in Messages(log) : IsState(m) /\ m.seq <= mark
    <3>1. ~(\A m \in {Available[i] : i \in DOMAIN Available} : IsState(m) => m.seq > mark)
      BY <2>2 DEF Take
    <3>2. DOMAIN Available = 1..Len(Available) BY <1>2, <1>8, LenProperties
    <3>3. PICK m \in Messages(Available) : IsState(m) /\ ~(m.seq > mark) BY <3>1, <3>2 DEF Messages
    <3>4. m \in Messages(log) BY <1>2, <1>8 DEF Messages
    <3> QED BY <1>7, <1>10, <3>3, <3>4
  <2>3. ASSUME ~gap', next # 1 PROVE First <= next
    <3>1. ~(Available[1].seq > next) BY <2>3 DEF Take
    <3> QED BY <1>2, <1>7, <1>8, <1>10, <3>1
  <2> QED BY <2>1, <2>2, <2>3
<1>13. TerminalTypes'
  <2>1. gap' \in BOOLEAN BY DEF Take
  <2> QED BY <1>1, <1>2, <1>8, <2>1 DEF TerminalTypes, Conns
<1>14. PipeNumbers'
  <2>1. next <= batch'[1].seq /\ (batch'[1].seq = next \/ batch'[1].seq <= First) BY <1>7, <1>8, <1>10
  <2>2. Upto' <= nextSeq' /\ Upto' \in Nat BY <1>4, <1>7, <1>9
  <2> QED BY <1>1, <1>2, <1>4, <1>8, <2>1, <2>2 DEF PipeNumbers
<1>15. ToldInv'
  <2>1. Told' \subseteq Told BY <1>4, <1>8, <1>11 DEF Told
  <2> QED BY <1>1, <1>3, <2>1, ToldShrinks
<1>16. GreetInv'
  <2>1. Blank' <=> Blank BY <1>2 DEF Blank
  <2> QED BY <1>1, <1>2, <1>4, <2>1 DEF GreetInv
<1>17. FlagInv' BY <1>1, <1>2, <1>5 DEF FlagInv, LastState, Messages, IsState, Tells
<1>18. EndsArrive'
  <2>1. ASSUME ~gap' PROVE batch'[1].seq = next \/ (next = 1 /\ batch'[1].seq <= mark)
    <3>1. CASE next = 1
      <4>1. PICK m \in Messages(log) : m.seq <= mark BY <1>12, <2>1, <3>1
      <4>2. m.seq >= batch'[1].seq BY <1>7, <1>8, <1>10, <3>1, <4>1
      <4> QED BY <1>7, <1>8, <1>10, <3>1, <4>1, <4>2
    <3>2. CASE next # 1 BY <1>8, <1>12, <2>1, <3>2
    <3> QED BY <3>1, <3>2
  <2>2. ~gap' => ~gap BY <1>12
  <2> QED BY <1>1, <1>2, <1>4, <1>11, <2>1, <2>2 DEF EndsArrive, Ended
<1>19. FinishedOnce' BY <1>1, <1>2, <1>4, <1>12 DEF FinishedOnce
<1>20. StoryInv'
  <2>1. Ahead' = Received \cup {m \in Messages(log) : m.seq >= next} BY <1>2, <1>4, <1>8, <1>11 DEF Ahead
  <2>2. Ahead = Received \cup {m \in Messages(log) : m.seq >= next}
    <3>1. Len(batch) = 0 BY <1>6
    <3>2. Messages(batch) = {} BY <3>1 DEF Messages
    <3> QED BY <1>2, <3>2 DEF Ahead
  <2>3. ASSUME ~gap', NEW k \in TurnIds, Expected(k)' PROVE Announced(k)'
    <3>1. Shown(k) /\ EndOf(k) > mark /\ EndOf(k) > seen
      BY <1>2, <1>5, <2>3 DEF Expected, Shown, EndOf, Ended
    <3>2. CASE next # 1
      <4>1. First <= next BY <1>12, <2>3, <3>2
      <4>2. Expected(k) BY <1>2, <1>9, <3>1, <4>1 DEF Expected
      <4>3. Replaying BY <1>7, <3>2 DEF Replaying
      <4>4. Announced(k) BY <1>1, <1>12, <2>3, <4>2, <4>3 DEF StoryInv
      <4>5. Ahead' = Ahead BY <2>1, <2>2
      <4> QED BY <1>2, <1>3, <4>4, <4>5, AnnouncedStays
    <3>3. CASE next = 1
      <4>1. PICK p \in Messages(log) : IsState(p) /\ p.seq <= mark BY <1>12, <2>3, <3>3
      <4>2. EndOf(k) \in Nat BY <1>1, <1>7 DEF EndOf, LogTypes
      <4>3. IsState(p)' /\ p \in Messages(log)' /\ Shown(k)' /\ p.seq < EndOf(k)'
        <5>1. EndOf(k)' = EndOf(k) BY <1>5 DEF EndOf, Ended
        <5>2. p.seq < EndOf(k) BY <1>7, <1>10, <3>1, <4>1, <4>2
        <5> QED BY <1>4, <2>3, <4>1, <5>1, <5>2 DEF IsState, Expected
      <4>4. PICK t \in Messages(log)' : Comes(t, k, Messages(log))' BY <1>4, <4>3 DEF LogStory
      <4>5. Ahead' = Messages(log)'
        <5>1. Received = {}
          <6>1. \A m \in Received : m.seq \in Nat /\ seen < m.seq /\ m.seq < next BY <1>1, PipeHas DEF Message
          <6> QED BY <1>7, <3>3, <6>1
        <5>2. {m \in Messages(log) : m.seq >= next} = Messages(log) BY <1>10, <3>3
        <5> QED BY <1>4, <2>1, <5>1, <5>2
      <4>6. Comes(t, k, Ahead)' <=> Comes(t, k, Messages(log))' BY <4>5 DEF Comes, FinalAfter, Final
      <4> QED BY <4>4, <4>5, <4>6 DEF Announced
    <3> QED BY <3>2, <3>3
  <2> QED BY <2>3 DEF StoryInv
<1> QED BY <1>3, <1>4, <1>13, <1>14, <1>15, <1>16, <1>17, <1>18, <1>19, <1>20 DEF AttachInv

\* What the process had not sent is lost with it.
LEMMA LostKeeps ==
  ASSUME AttachInv, Lost
  PROVE  AttachInv'
<1>1. LogTypes /\ TurnInv /\ LogNumbers /\ LogStory /\ ToldInv /\ PipeNumbers /\ GreetInv
      /\ FlagInv /\ EndsArrive /\ StoryInv /\ FinishedOnce /\ TerminalTypes
  BY DEF AttachInv
<1>2. /\ UNCHANGED <<mark, next, inbox, clientRunning, lastRunning, replayUntil, outcome, handled, asks,
                    printed, seen, gap, visits>>
      /\ conn \notin {"away", "lost"} /\ conn' = "lost" /\ closed' = TRUE /\ batch' = <<>> /\ UNCHANGED worker
  BY DEF Lost, terminal
<1>3. LogTypes' /\ Idle BY <1>1, <1>2 DEF LogTypes, worker, thread, asking, Idle
<1>4. /\ TurnInv' /\ LogNumbers' /\ LogStory' /\ First' = First /\ Messages(log)' = Messages(log)
      /\ nextSeq' = nextSeq /\ ended' = ended
  BY <1>1, <1>3, IdleKeeps
<1>5. UNCHANGED <<log, nextSeq, turnRunning, doing, turn, ended>> BY <1>3 DEF Idle
<1>6. /\ next \in Nat /\ next >= 1 /\ next <= nextSeq /\ nextSeq \in Nat
      /\ Upto \in Nat /\ next <= Upto
      /\ \A m \in Messages(batch) : m.seq \in Nat /\ next <= m.seq
  BY <1>1, PipeHas DEF PipeNumbers, Message
<1>7. Len(batch') = 0 /\ Messages(batch)' = {} BY <1>2 DEF Messages
<1>8. Upto' = next BY <1>2 DEF Upto
<1>9. Received' = Received BY <1>2 DEF Messages, Received
<1>10. TerminalTypes'
  <2>1. <<>> \in Seq(Message) BY EmptySeq
  <2> QED BY <1>1, <1>2, <2>1 DEF TerminalTypes, Conns
<1>11. PipeNumbers' BY <1>1, <1>2, <1>4, <1>6, <1>7, <1>8 DEF PipeNumbers
<1>12. ToldInv'
  <2>1. Told' \subseteq Told BY <1>4, <1>7, <1>9 DEF Told
  <2> QED BY <1>1, <1>3, <2>1, ToldShrinks
<1>13. GreetInv'
  <2>1. Blank' <=> Blank BY <1>2 DEF Blank
  <2>2. \/ mark >= 1 /\ replayUntil = mark
        \/ mark >= 1 /\ Blank /\ inbox # <<>> /\ inbox[1].what = "hello"
        \/ Blank /\ inbox = <<>>
    BY <1>1, <1>2 DEF GreetInv, TerminalTypes, Conns
  <2> QED BY <1>1, <1>2, <1>4, <2>1, <2>2 DEF GreetInv
<1>14. FlagInv' BY <1>1, <1>2, <1>5 DEF FlagInv, LastState, Messages, IsState, Tells
<1>15. EndsArrive' BY <1>1, <1>2, <1>4, <1>9 DEF EndsArrive, Ended
<1>16. FinishedOnce' BY <1>1, <1>2, <1>4 DEF FinishedOnce
<1>17. StoryInv'
  <2>1. Ahead' = Received BY <1>2, <1>7, <1>9 DEF Ahead
  <2>2. ASSUME ~gap, Replaying', NEW k \in TurnIds, Expected(k)' PROVE Announced(k)'
    <3>1. EndOf(k) \in Nat BY <1>1, <1>6 DEF EndOf, LogTypes
    <3>2. EndOf(k) < next BY <1>2, <1>5, <1>8, <2>2 DEF Expected, EndOf, Ended
    <3>3. Expected(k)
      <4>1. Shown(k) /\ EndOf(k) > mark /\ EndOf(k) > seen
        BY <1>2, <1>5, <2>2 DEF Expected, Shown, EndOf, Ended
      <4>2. EndOf(k) < Upto BY <1>6, <3>1, <3>2
      <4> QED BY <4>1, <4>2 DEF Expected
    <3>4. Announced(k)
      <4>1. Replaying BY <1>2, <2>2 DEF Replaying
      <4> QED BY <1>1, <2>2, <3>3, <4>1 DEF StoryInv
    <3>5. \A x \in Ahead : x \in Ahead' \/ ~(x.seq < EndOf(k))
      <4>1. \A m \in Messages(log) : m.seq \in Nat BY <1>1, LogHas DEF Message
      <4> QED BY <1>6, <2>1, <3>1, <3>2, <4>1 DEF Ahead
    <3>6. Ahead' \subseteq Ahead BY <2>1 DEF Ahead
    <3> QED BY <1>2, <1>3, <3>4, <3>5, <3>6, AnnouncedStays
  <2> QED BY <1>2, <2>2 DEF StoryInv
<1> QED BY <1>3, <1>4, <1>10, <1>11, <1>12, <1>13, <1>14, <1>15, <1>16, <1>17 DEF AttachInv

\* What a message that is sent does to the batch and the inbox.
LEMMA SendEffect ==
  ASSUME LogTypes, TerminalTypes, LogNumbers, PipeNumbers, ToldInv, Send, NEW m, m = Head(batch)
  PROVE  /\ UNCHANGED <<mark, closed, lastRunning, replayUntil, outcome, handled, asks, printed, seen, gap, visits>>
         /\ conn = "send" /\ conn' \in {"on", "send"} /\ UNCHANGED worker
         /\ batch # <<>> /\ m \in Messages(batch) /\ m = batch[1] /\ m \in Message /\ m.what # "hello" /\ Fits(m)
         /\ next <= m.seq /\ m.seq < nextSeq /\ next' = m.seq + 1
         /\ batch' \in Seq(Message) /\ Messages(batch)' \subseteq Messages(batch)
         /\ Messages(batch) \subseteq {m} \cup Messages(batch)'
         /\ \A i \in 1..Len(batch') : batch'[i].seq = m.seq + i
         /\ conn' = "send" <=> batch' # <<>>
         /\ batch' # <<>> => batch'[1].seq = next'
         /\ Upto' = Upto
         /\ \/ /\ ShouldSend(m) /\ inbox' = Append(inbox, m)
               /\ clientRunning' = IF m.what = "state" THEN m.running ELSE clientRunning
            \/ UNCHANGED <<inbox, clientRunning>> /\ m.what = "daemon.request_user_input"
<1>1. /\ UNCHANGED <<mark, lastRunning, replayUntil, outcome, handled, asks, printed, seen, gap, visits>>
      /\ conn = "send" /\ UNCHANGED worker /\ batch' = Tail(batch) /\ next' = m.seq + 1
      /\ conn' = IF batch' = <<>> THEN "on" ELSE "send"
      /\ IF ShouldSend(m) THEN Receive(m) ELSE UNCHANGED client
  BY DEF Send, terminal
<1>2. UNCHANGED closed BY <1>1 DEF Receive, client
<1>3. batch # <<>> /\ batch \in Seq(Message) /\ nextSeq \in Nat /\ next \in Nat
  BY <1>1 DEF PipeNumbers, TerminalTypes, LogTypes
<1>4. /\ batch' \in Seq(Message) /\ Len(batch') = Len(batch) - 1
      /\ \A i \in 1..Len(batch') : batch'[i] = batch[i + 1]
  BY <1>1, <1>3, HeadTailProperties
<1>5. /\ Len(batch) \in Nat /\ Len(batch) >= 1 /\ Upto \in Nat /\ Upto <= nextSeq
      /\ \A i \in 1..Len(batch) : batch[i] \in Message /\ batch[i].seq \in Nat
      /\ \A x \in Messages(batch) : x \in Message /\ next <= x.seq /\ x.seq < Upto
  BY <1>3, PipeHas DEF PipeNumbers
<1>6. m = batch[1] /\ m \in Messages(batch) /\ m \in Message BY <1>3, <1>5 DEF Messages
<1>7. m.seq \in Nat /\ next <= m.seq /\ m.seq < nextSeq BY <1>3, <1>5, <1>6
<1>8. Fits(m) /\ m.what # "hello" BY <1>6 DEF ToldInv, Told, Fits
<1>9. \A i \in 1..Len(batch') : batch'[i].seq = m.seq + i
  <2> TAKE i \in 1..Len(batch')
  <2>1. i + 1 \in 1..Len(batch) /\ i \in Nat BY <1>4, <1>5
  <2>2. batch[i + 1].seq = m.seq - 1 + (i + 1) BY <1>6, <2>1 DEF PipeNumbers
  <2>3. m.seq - 1 + (i + 1) = m.seq + i BY <1>7, <2>1
  <2> QED BY <1>4, <2>2, <2>3
<1>10. Messages(batch)' \subseteq Messages(batch)
  <2>1. \A i \in 1..Len(batch') : i + 1 \in 1..Len(batch) BY <1>4, <1>5
  <2> QED BY <1>4, <2>1 DEF Messages
<1>11. Messages(batch) \subseteq {m} \cup Messages(batch)'
  <2>1. ASSUME NEW i \in 1..Len(batch), i # 1 PROVE batch[i] \in Messages(batch)'
    <3>1. i - 1 \in 1..Len(batch') /\ (i - 1) + 1 = i BY <1>4, <1>5, <2>1
    <3>2. batch'[i - 1] = batch[i] BY <1>4, <3>1
    <3> QED BY <3>1, <3>2 DEF Messages
  <2> QED BY <1>6, <2>1 DEF Messages
<1>12. batch' # <<>> => Len(batch') >= 1 /\ batch'[1].seq = next' /\ Len(batch') \in 1..Len(batch')
  <2>1. batch' # <<>> => Len(batch') # 0 BY <1>4, EmptySeq
  <2> QED BY <1>1, <1>4, <1>5, <1>9, <2>1
<1>13. Upto' = Upto
  <2>1. CASE batch' = <<>>
    <3>1. Len(batch') = 0 BY <2>1
    <3>2. Len(batch) = 1 BY <1>4, <1>5, <3>1
    <3> QED BY <1>1, <1>3, <1>6, <2>1, <3>2 DEF Upto
  <2>2. CASE batch' # <<>>
    <3>1. batch'[Len(batch')] = batch[Len(batch)]
      <4>1. Len(batch') + 1 = Len(batch) BY <1>4, <1>5
      <4> QED BY <1>4, <1>12, <2>2, <4>1
    <3> QED BY <1>3, <2>2, <3>1 DEF Upto
  <2> QED BY <2>1, <2>2
<1>14. CASE ShouldSend(m)
  <2>1. inbox' = Append(inbox, m) /\ clientRunning' = IF m.what = "state" THEN m.running ELSE clientRunning
    BY <1>1, <1>8, <1>14 DEF Receive
  <2> QED BY <1>1, <1>2, <1>3, <1>4, <1>6, <1>7, <1>8, <1>9, <1>10, <1>11, <1>12, <1>13, <1>14, <2>1
<1>15. CASE ~ShouldSend(m)
  <2>1. UNCHANGED <<inbox, clientRunning>> BY <1>1, <1>15 DEF client
  <2>2. m.what = "daemon.request_user_input" BY <1>15 DEF ShouldSend
  <2> QED BY <1>1, <1>2, <1>3, <1>4, <1>6, <1>7, <1>8, <1>9, <1>10, <1>11, <1>12, <1>13, <2>1, <2>2
<1> QED BY <1>14, <1>15

\* What is received, after a message is sent.
LEMMA SendReceives ==
  ASSUME LogTypes, TerminalTypes, LogNumbers, PipeNumbers, ToldInv, Send, NEW m, m = Head(batch)
  PROVE  /\ inbox' \in Seq(Message) /\ clientRunning' \in BOOLEAN
         /\ Received \subseteq Received' /\ Received' \subseteq Received \cup {m}
         /\ m \in Received' \/ (~IsState(m) /\ ~Marks(m) /\ ~Tells(m) /\ Received' = Received)
         /\ Len(inbox) \in Nat
         /\ \/ inbox' = inbox /\ clientRunning' = clientRunning
            \/ /\ Len(inbox') = Len(inbox) + 1 /\ inbox'[Len(inbox) + 1] = m
               /\ \A i \in 1..Len(inbox) : inbox'[i] = inbox[i]
               /\ clientRunning' = IF m.what = "state" THEN m.running ELSE clientRunning
<1>1. /\ m \in Message /\ m.what # "hello"
      /\ \/ /\ ShouldSend(m) /\ inbox' = Append(inbox, m)
            /\ clientRunning' = IF m.what = "state" THEN m.running ELSE clientRunning
         \/ UNCHANGED <<inbox, clientRunning>> /\ m.what = "daemon.request_user_input"
  BY SendEffect
<1>2. inbox \in Seq(Message) /\ Len(inbox) \in Nat /\ clientRunning \in BOOLEAN /\ m.running \in BOOLEAN
  BY <1>1, LenProperties DEF TerminalTypes, Message
<1>3. CASE UNCHANGED <<inbox, clientRunning>> /\ m.what = "daemon.request_user_input"
  <2>1. ~IsState(m) /\ ~Marks(m) /\ ~Tells(m) BY <1>3 DEF IsState, Marks, EndMarks, Tells
  <2>2. Received' = Received BY <1>3 DEF Received, Messages
  <2> QED BY <1>2, <1>3, <2>1, <2>2
<1>4. CASE inbox' = Append(inbox, m) /\ clientRunning' = IF m.what = "state" THEN m.running ELSE clientRunning
  <2>1. /\ inbox' \in Seq(Message) /\ Len(inbox') = Len(inbox) + 1 /\ inbox'[Len(inbox) + 1] = m
        /\ \A i \in 1..Len(inbox) : inbox'[i] = inbox[i]
    BY <1>1, <1>2, <1>4, AppendProperties
  <2>2. Messages(inbox)' = Messages(inbox) \cup {m}
    <3>1. \A i \in 1..Len(inbox') : i \in 1..Len(inbox) \/ i = Len(inbox) + 1 BY <1>2, <2>1
    <3>2. \A i \in 1..Len(inbox) : i \in 1..Len(inbox') BY <1>2, <2>1
    <3>3. Len(inbox) + 1 \in 1..Len(inbox') BY <1>2, <2>1
    <3> QED BY <2>1, <3>1, <3>2, <3>3 DEF Messages
  <2>3. Received' = Received \cup {m} BY <1>1, <2>2 DEF Received
  <2> QED BY <1>2, <1>4, <2>1, <2>3
<1> QED BY <1>1, <1>3, <1>4

\* The log has nothing between what was sent and what is being sent.
LEMMA NoneBetween ==
  ASSUME LogTypes, TerminalTypes, LogNumbers, PipeNumbers, ToldInv, Send, NEW m, m = Head(batch),
         NEW x \in Messages(log), next <= x.seq, x.seq <= m.seq
  PROVE  x = m
<1>1. batch # <<>> /\ m = batch[1] /\ m \in Messages(batch) /\ m \in Message BY SendEffect
<1>2. x \in Message /\ First <= x.seq /\ First \in Nat BY LogHas
<1>3. m.seq \in Nat /\ x.seq \in Nat /\ next \in Nat BY <1>1, <1>2 DEF Message, TerminalTypes
<1>4. m.seq = next \/ m.seq <= First BY <1>1 DEF PipeNumbers
<1>5. x.seq = m.seq BY <1>2, <1>3, <1>4
<1> QED BY <1>1, <1>5 DEF ToldInv, Told, InStep

\* The newest state that was sent has the client's flag.
LEMMA SendFlags ==
  ASSUME LogTypes, TerminalTypes, LogNumbers, PipeNumbers, ToldInv, FlagInv, Send
  PROVE  FlagInv'
<1> DEFINE m == Head(batch)
<1>1. /\ m \in Messages(batch) /\ m \in Message /\ m.what # "hello"
      /\ next <= m.seq /\ next' = m.seq + 1 /\ UNCHANGED worker /\ UNCHANGED lastRunning /\ m.seq < nextSeq
  BY SendEffect
<1>2. /\ Len(inbox) \in Nat
      /\ \/ inbox' = inbox /\ clientRunning' = clientRunning
         \/ /\ Len(inbox') = Len(inbox) + 1 /\ inbox'[Len(inbox) + 1] = m
            /\ \A i \in 1..Len(inbox) : inbox'[i] = inbox[i]
            /\ clientRunning' = IF m.what = "state" THEN m.running ELSE clientRunning
      /\ m \in Received' \/ (~IsState(m) /\ ~Marks(m) /\ ~Tells(m) /\ Received' = Received)
  BY SendReceives
<1>3. \A x \in Messages(log) : next <= x.seq /\ x.seq <= m.seq => x = m BY NoneBetween
<1>4. m.seq \in Nat /\ next \in Nat /\ \A x \in Messages(log) : x.seq \in Nat /\ First <= x.seq /\ First \in Nat
  BY <1>1, LogHas DEF Message, TerminalTypes
<1>5. inbox' = inbox /\ clientRunning' = clientRunning => ~IsState(m)
  <2>1. ASSUME inbox' = inbox, m \in Received' PROVE m.seq < next
    <3>1. m \in Received BY <2>1 DEF Received, Messages
    <3> QED BY <3>1, PipeHas
  <2> QED BY <1>1, <1>2, <1>4, <2>1
<1>6. UNCHANGED <<log, turnRunning, doing, nextSeq>> BY <1>1 DEF worker
<1> HIDE DEF m
<1>7. IsState(m) => clientRunning' = m.running BY <1>2, <1>5 DEF IsState
<1>8. ~IsState(m) => clientRunning' = clientRunning BY <1>2 DEF IsState
<1>9. (\A x \in Messages(log) : LastState(x, Messages(log)) => x.running = turnRunning \/ doing \in {"show", "tell"})'
  BY <1>6 DEF FlagInv, LastState, Messages, IsState
<1>10. ASSUME NEW x \in Messages(log), LastState(x, {q \in Messages(log) : q.seq < m.seq + 1})
       PROVE  clientRunning' = x.running
  <2>1. x.seq <= m.seq /\ IsState(x) BY <1>4, <1>10 DEF LastState
  <2>2. CASE next <= x.seq BY <1>3, <1>7, <2>1, <2>2
  <2>3. CASE x.seq < next
    <3>1. LastState(x, {q \in Messages(log) : q.seq < next})
      <4>1. \A q \in Messages(log) : q.seq < next => q.seq < m.seq + 1 BY <1>1, <1>4
      <4> QED BY <1>10, <2>3, <4>1 DEF LastState
    <3>2. clientRunning = x.running BY <3>1 DEF FlagInv
    <3>3. ~IsState(m)
      <4>1. SUFFICES ASSUME IsState(m) PROVE FALSE OBVIOUS
      <4>2. m.seq \in First..(nextSeq - 1)
        BY <1>1, <1>4, <2>1, <2>3 DEF LogTypes
      <4>3. PICK q \in Messages(log) : q.seq = m.seq BY <4>2, LogHas
      <4>4. q = m BY <1>1, <1>3, <1>4, <4>3
      <4>5. q.seq <= x.seq BY <1>4, <1>10, <4>1, <4>3, <4>4 DEF LastState
      <4> QED BY <1>1, <1>4, <2>3, <4>3, <4>5
    <3> QED BY <1>8, <3>2, <3>3
  <2> QED BY <1>4, <2>2, <2>3
<1>11. (\A x \in Messages(log) : LastState(x, {q \in Messages(log) : q.seq < next}) => clientRunning = x.running)'
  BY <1>1, <1>6, <1>10 DEF LastState, Messages, IsState
<1>12. CASE inbox' = inbox /\ clientRunning' = clientRunning
  BY <1>1, <1>9, <1>11, <1>12 DEF FlagInv, Tells
<1>13. CASE /\ Len(inbox') = Len(inbox) + 1 /\ inbox'[Len(inbox) + 1] = m
            /\ \A i \in 1..Len(inbox) : inbox'[i] = inbox[i]
  <2>1. Len(inbox) + 1 \in 1..Len(inbox') /\ \A i \in 1..Len(inbox') : i \in 1..Len(inbox) \/ i = Len(inbox) + 1
    BY <1>2, <1>13
  <2>2. \A i \in 1..Len(inbox) : i \in 1..Len(inbox') /\ Len(inbox) + 1 > i BY <1>2, <1>13
  <2>3. Tells(m) <=> IsState(m) BY <1>1 DEF Tells, IsState
  <2>4. (\A i \in 1..Len(inbox') : ~Tells(inbox'[i])) => lastRunning' = clientRunning'
    <3>1. SUFFICES ASSUME \A i \in 1..Len(inbox') : ~Tells(inbox'[i]) PROVE lastRunning' = clientRunning' OBVIOUS
    <3>2. ~IsState(m) BY <1>13, <2>1, <2>3, <3>1
    <3>3. \A i \in 1..Len(inbox) : ~Tells(inbox[i]) BY <1>13, <2>2, <3>1
    <3>4. lastRunning = clientRunning BY <3>3 DEF FlagInv
    <3> QED BY <1>1, <1>8, <3>2, <3>4
  <2>5. ASSUME NEW i \in 1..Len(inbox'), Tells(inbox'[i]), \A j \in 1..Len(inbox') : j > i => ~Tells(inbox'[j])
        PROVE  inbox'[i].running = clientRunning'
    <3>1. CASE i = Len(inbox) + 1 BY <1>7, <1>13, <2>3, <2>5, <3>1
    <3>2. CASE i \in 1..Len(inbox)
      <4>1. ~IsState(m) BY <1>13, <2>1, <2>2, <2>3, <2>5, <3>2
      <4>2. Tells(inbox[i]) /\ \A j \in 1..Len(inbox) : j > i => ~Tells(inbox[j]) BY <1>13, <2>2, <2>5, <3>2
      <4>3. inbox[i].running = clientRunning BY <3>2, <4>2 DEF FlagInv
      <4> QED BY <1>8, <1>13, <3>2, <4>1, <4>3
    <3> QED BY <2>1, <3>1, <3>2
  <2>6. (\A i \in 1..Len(inbox) : ~Tells(inbox[i]))' <=> \A i \in 1..Len(inbox') : ~Tells(inbox'[i]) BY DEF Tells
  <2>7. (\A i \in 1..Len(inbox) : Tells(inbox[i]) /\ (\A j \in 1..Len(inbox) : j > i => ~Tells(inbox[j]))
                                    => inbox[i].running = clientRunning)'
    BY <2>5 DEF Tells
  <2> QED BY <1>9, <1>11, <2>4, <2>6, <2>7 DEF FlagInv
<1> QED BY <1>2, <1>12, <1>13

\* Sending a message loses none but an answered question.
LEMMA SendKeeps ==
  ASSUME AttachInv, Send
  PROVE  AttachInv'
<1> DEFINE m == Head(batch)
<1>1. LogTypes /\ TurnInv /\ LogNumbers /\ LogStory /\ ToldInv /\ PipeNumbers /\ GreetInv
      /\ FlagInv /\ EndsArrive /\ StoryInv /\ FinishedOnce /\ TerminalTypes
  BY DEF AttachInv
<1>2. /\ UNCHANGED <<mark, closed, lastRunning, replayUntil, outcome, handled, asks, printed, seen, gap, visits>>
      /\ conn = "send" /\ conn' \in {"on", "send"} /\ UNCHANGED worker
      /\ batch # <<>> /\ m \in Messages(batch) /\ m = batch[1] /\ m \in Message /\ m.what # "hello" /\ Fits(m)
      /\ next <= m.seq /\ m.seq < nextSeq /\ next' = m.seq + 1
      /\ batch' \in Seq(Message) /\ Messages(batch)' \subseteq Messages(batch)
      /\ Messages(batch) \subseteq {m} \cup Messages(batch)'
      /\ \A i \in 1..Len(batch') : batch'[i].seq = m.seq + i
      /\ conn' = "send" <=> batch' # <<>>
      /\ batch' # <<>> => batch'[1].seq = next'
      /\ Upto' = Upto
  BY <1>1, SendEffect
<1>3. /\ inbox' \in Seq(Message) /\ clientRunning' \in BOOLEAN
      /\ Received \subseteq Received' /\ Received' \subseteq Received \cup {m}
      /\ m \in Received' \/ (~IsState(m) /\ ~Marks(m) /\ ~Tells(m) /\ Received' = Received)
      /\ Len(inbox) \in Nat
      /\ \/ inbox' = inbox
         \/ /\ Len(inbox') = Len(inbox) + 1 /\ inbox'[Len(inbox) + 1] = m
            /\ \A i \in 1..Len(inbox) : inbox'[i] = inbox[i]
  BY <1>1, SendReceives
<1>4. \A x \in Messages(log) : next <= x.seq /\ x.seq <= m.seq => x = m BY <1>1, <1>2, NoneBetween
<1>5. FlagInv' BY <1>1, SendFlags
<1>6. m.seq \in Nat /\ next \in Nat /\ nextSeq \in Nat /\ seen \in Nat /\ seen < next /\ mark \in Nat /\ next >= 1
      /\ Upto \in Nat /\ Upto <= nextSeq
  BY <1>1, <1>2, PipeHas DEF Message, TerminalTypes, LogTypes, PipeNumbers
<1> HIDE DEF m
<1>7. LogTypes' /\ Idle BY <1>1, <1>2 DEF LogTypes, worker, thread, asking, Idle
<1>8. /\ TurnInv' /\ LogNumbers' /\ LogStory' /\ First' = First /\ Messages(log)' = Messages(log)
      /\ nextSeq' = nextSeq /\ ended' = ended
  BY <1>1, <1>7, IdleKeeps
<1>9. UNCHANGED <<log, nextSeq, turnRunning, doing, turn, ended>> BY <1>7 DEF Idle
<1>10. TerminalTypes' BY <1>1, <1>2, <1>3, <1>6 DEF TerminalTypes, Conns
<1>11. /\ \A i \in 1..Len(inbox') : (i \in 1..Len(inbox) /\ inbox'[i] = inbox[i])
                                     \/ (i = Len(inbox) + 1 /\ inbox'[i] = m)
       /\ \A i \in 1..Len(inbox) : inbox'[i] = inbox[i]
  BY <1>3
<1>12. \A i \in 1..Len(inbox) : inbox[i].seq \in Nat /\ (inbox[i].what # "hello" => seen < inbox[i].seq /\ inbox[i].seq < next)
  BY <1>1, PipeHas DEF PipeNumbers
<1>13. PipeNumbers'
  <2>1. ASSUME NEW i \in 1..Len(inbox'), inbox'[i].what # "hello"
        PROVE  seen' < inbox'[i].seq /\ inbox'[i].seq < next'
    <3>1. CASE i \in 1..Len(inbox) /\ inbox'[i] = inbox[i]
      <4>1. inbox[i].seq \in Nat /\ seen < inbox[i].seq /\ inbox[i].seq < next BY <1>12, <2>1, <3>1
      <4> QED BY <1>2, <1>6, <3>1, <4>1
    <3>2. CASE inbox'[i] = m BY <1>2, <1>6, <3>2
    <3> QED BY <1>11, <3>1, <3>2
  <2>2. ASSUME NEW i \in 1..Len(inbox'), NEW j \in 1..Len(inbox'), inbox'[i].what # "hello", inbox'[j].what # "hello", i < j
        PROVE  inbox'[i].seq < inbox'[j].seq
    <3>1. i \in 1..Len(inbox) /\ inbox'[i] = inbox[i] BY <1>3, <1>11, <2>2
    <3>2. CASE j \in 1..Len(inbox) /\ inbox'[j] = inbox[j] BY <1>1, <2>2, <3>1, <3>2 DEF PipeNumbers
    <3>3. CASE j = Len(inbox) + 1 /\ inbox'[j] = m BY <1>2, <1>6, <1>12, <2>2, <3>1, <3>3
    <3> QED BY <1>11, <3>2, <3>3
  <2>3. (\A i \in 1..Len(batch) : batch[i].seq = batch[1].seq - 1 + i)'
    <3>1. ASSUME NEW i \in 1..Len(batch') PROVE batch'[i].seq = batch'[1].seq - 1 + i
      <4>1. 1 \in 1..Len(batch') /\ i \in Nat BY <1>2, LenProperties
      <4>2. batch'[1].seq = m.seq + 1 /\ batch'[i].seq = m.seq + i BY <1>2, <4>1
      <4> QED BY <1>6, <4>1, <4>2
    <3> QED BY <3>1
  <2>4. next' >= 1 /\ Upto' <= nextSeq' /\ seen' < next' BY <1>2, <1>6, <1>8
  <2> QED BY <1>2, <1>6, <1>8, <2>1, <2>2, <2>3, <2>4 DEF PipeNumbers
<1>14. ToldInv'
  <2>1. Told' \subseteq Told BY <1>2, <1>3, <1>8 DEF Told
  <2> QED BY <1>1, <1>7, <2>1, ToldShrinks
<1>15. GreetInv'
  <2>1. Blank' <=> Blank BY <1>2 DEF Blank
  <2>2. mark >= 1 /\ (replayUntil = mark \/ (Blank /\ inbox # <<>> /\ inbox[1].what = "hello"))
    BY <1>1, <1>2 DEF GreetInv
  <2>3. inbox # <<>> => inbox' # <<>> /\ inbox'[1] = inbox[1]
    <3>1. inbox # <<>> => Len(inbox) # 0 BY <1>1, EmptySeq DEF TerminalTypes
    <3>2. Len(<<>>) = 0 OBVIOUS
    <3>3. CASE inbox' = inbox BY <3>3
    <3>4. CASE Len(inbox') = Len(inbox) + 1
      <4>1. inbox' # <<>>
        <5>1. PICK s : s = inbox' OBVIOUS
        <5>2. s \in Seq(Message) /\ Len(s) # 0 BY <1>3, <3>4, <5>1
        <5> QED BY ONLY <5>1, <5>2
      <4> QED BY <1>3, <1>11, <3>1, <4>1
    <3> QED BY <1>3, <3>3, <3>4
  <2>4. \A i \in 1..Len(inbox') : inbox'[i].what = "hello" => i = 1 /\ inbox'[1].seq = mark /\ Blank
    <3>1. ASSUME NEW i \in 1..Len(inbox'), inbox'[i].what = "hello"
          PROVE  i = 1 /\ inbox'[1].seq = mark /\ Blank
      <4>1. i \in 1..Len(inbox) /\ inbox'[i] = inbox[i] BY <1>2, <1>11, <3>1
      <4>2. i = 1 /\ inbox[1].seq = mark /\ Blank BY <1>1, <3>1, <4>1 DEF GreetInv
      <4> QED BY <4>1, <4>2
    <3> QED BY <3>1
  <2>5. (\A i \in 1..Len(inbox) : inbox[i].what = "hello" => i = 1 /\ inbox[1].seq = mark /\ Blank)'
    BY <1>2, <2>1, <2>4
  <2>6. mark' < nextSeq' BY <1>1, <1>2, <1>8 DEF GreetInv
  <2> QED BY <1>2, <2>1, <2>2, <2>3, <2>5, <2>6 DEF GreetInv
<1>16. EndsArrive'
  <2>1. ASSUME ~gap, NEW k \in TurnIds, Ended(k), mark < ended[k].seq, seen < ended[k].seq, ended[k].seq < m.seq + 1
        PROVE  \E x \in Received' : x.seq = ended[k].seq
    <3>1. ended[k].seq \in Nat BY <1>1 DEF LogTypes
    <3>2. CASE ended[k].seq < next
      <4>1. PICK x \in Received : x.seq = ended[k].seq BY <1>1, <2>1, <3>2 DEF EndsArrive
      <4> QED BY <1>3, <4>1
    <3>3. CASE ~(ended[k].seq < next)
      <4>1. m.seq = next \/ (next = 1 /\ m.seq <= mark) BY <1>1, <1>2, <2>1 DEF EndsArrive
      <4>2. ended[k].seq = m.seq BY <1>6, <2>1, <3>1, <3>3, <4>1
      <4>3. IsState(m) BY <1>2, <2>1, <4>2 DEF Fits, EndsTurn
      <4> QED BY <1>3, <4>2, <4>3
    <3> QED BY <3>2, <3>3
  <2> QED BY <1>2, <1>8, <2>1 DEF EndsArrive, Ended
<1>17. FinishedOnce' BY <1>1, <1>2, <1>8 DEF FinishedOnce
<1>18. Ahead' \subseteq Ahead
  <2>1. \A x \in Messages(log) : x.seq \in Nat BY <1>1, LogHas DEF Message
  <2> QED BY <1>2, <1>3, <1>6, <1>8, <2>1 DEF Ahead
<1>19. \A x \in Ahead : x \in Ahead' \/ (~IsState(x) /\ ~Marks(x))
  <2>1. ASSUME NEW x \in Messages(log), x.seq >= next PROVE x = m \/ x.seq >= m.seq + 1
    <3>1. x.seq \in Nat BY <1>1, LogHas DEF Message
    <3> QED BY <1>4, <1>6, <2>1, <3>1
  <2>2. m \in Ahead' \/ (~IsState(m) /\ ~Marks(m)) BY <1>3 DEF Ahead
  <2> QED BY <1>2, <1>3, <1>8, <2>1, <2>2 DEF Ahead
<1>20. StoryInv'
  <2>1. ASSUME ~gap, NEW k \in TurnIds, Expected(k)' PROVE Announced(k)'
    <3>1. Expected(k) BY <1>2, <1>8, <1>9, <2>1 DEF Expected, Shown, EndOf, Ended
    <3>2. Announced(k) BY <1>1, <1>2, <2>1, <3>1 DEF StoryInv, Replaying
    <3> QED BY <1>2, <1>7, <1>18, <1>19, <3>2, AnnouncedStays
  <2> QED BY <1>2, <2>1 DEF StoryInv
<1> QED BY <1>5, <1>7, <1>8, <1>10, <1>13, <1>14, <1>15, <1>16, <1>17, <1>20 DEF AttachInv

\* What handling a message does to the inbox.
LEMMA DrainEffect ==
  ASSUME LogTypes, TerminalTypes, LogNumbers, PipeNumbers, GreetInv, Drain, NEW m, m = Head(inbox)
  PROVE  /\ UNCHANGED <<worker, conn, mark, next, batch, clientRunning, gap, visits>>
         /\ inbox # <<>> /\ m = inbox[1] /\ m \in Message /\ (HandleState(m) \/ HandleEvent(m))
         /\ seen' = IF m.what = "hello" THEN seen ELSE m.seq
         /\ Len(inbox) \in Nat /\ Len(inbox) >= 1
         /\ inbox' \in Seq(Message) /\ Len(inbox') = Len(inbox) - 1
         /\ \A i \in 1..Len(inbox') : /\ inbox'[i] = inbox[i + 1] /\ i + 1 \in 1..Len(inbox)
                                      /\ inbox'[i].what # "hello"
         /\ m.what = "hello" => Received' = Received
         /\ m.what # "hello" => /\ m \in Received /\ Received = {m} \cup Received'
                                /\ seen < m.seq /\ m.seq < next
                                /\ \A x \in Received' : m.seq < x.seq
         /\ conn \in {"on", "take", "send", "lost"} /\ mark >= 1
         /\ m.what # "hello" => replayUntil = mark
<1>1. /\ UNCHANGED <<worker, conn, mark, next, batch, clientRunning, gap, visits>>
      /\ inbox # <<>> /\ inbox' = Tail(inbox)
      /\ (HandleState(m) \/ HandleEvent(m)) /\ seen' = IF m.what = "hello" THEN seen ELSE m.seq
  BY DEF Drain, handler
<1>2. inbox \in Seq(Message) BY DEF TerminalTypes
<1>3. /\ inbox' \in Seq(Message) /\ Len(inbox') = Len(inbox) - 1
      /\ \A i \in 1..Len(inbox') : inbox'[i] = inbox[i + 1]
  BY <1>1, <1>2, HeadTailProperties
<1>4. Len(inbox) \in Nat /\ Len(inbox) >= 1 /\ m = inbox[1] /\ m \in Message
  <2>1. Len(inbox) \in Nat /\ Len(inbox) # 0 BY <1>1, <1>2, EmptySeq
  <2> QED BY <1>1, <1>2, <2>1, ElementOfSeq
<1>5. \A i \in 1..Len(inbox') : i + 1 \in 1..Len(inbox) /\ i + 1 # 1 BY <1>3, <1>4
<1>6. \A i \in 1..Len(inbox') : inbox'[i].what # "hello" BY <1>3, <1>5 DEF GreetInv
<1>7. Received' = Messages(inbox)' BY <1>6 DEF Received, Messages
<1>8. Messages(inbox) = {m} \cup Messages(inbox)'
  <2>1. ASSUME NEW i \in 1..Len(inbox), i # 1 PROVE inbox[i] \in Messages(inbox)'
    <3>1. i - 1 \in 1..Len(inbox') /\ (i - 1) + 1 = i BY <1>3, <1>4, <2>1
    <3>2. inbox'[i - 1] = inbox[i] BY <1>3, <3>1
    <3> QED BY <3>1, <3>2 DEF Messages
  <2>2. \A i \in 1..Len(inbox') : inbox'[i] \in Messages(inbox) BY <1>3, <1>5 DEF Messages
  <2>3. m \in Messages(inbox) BY <1>4 DEF Messages
  <2> QED BY <1>4, <2>1, <2>2, <2>3 DEF Messages
<1>9. m.what = "hello" => Received' = Received
  <2>1. \A x \in Messages(inbox)' : x.what # "hello" BY <1>6 DEF Messages
  <2> QED BY <1>7, <1>8, <2>1 DEF Received
<1>10. ASSUME m.what # "hello"
       PROVE  /\ m \in Received /\ Received = {m} \cup Received' /\ seen < m.seq /\ m.seq < next
              /\ \A x \in Received' : m.seq < x.seq
  <2>1. \A x \in Messages(inbox)' : x.what # "hello" BY <1>6 DEF Messages
  <2>2. m \in Received /\ Received = {m} \cup Received' BY <1>7, <1>8, <1>10, <2>1 DEF Received
  <2>3. seen < m.seq /\ m.seq < next BY <1>4, <1>10 DEF PipeNumbers
  <2>4. ASSUME NEW x \in Received' PROVE m.seq < x.seq
    <3>1. PICK i \in 1..Len(inbox') : x = inbox'[i] BY <1>7 DEF Messages
    <3>2. x = inbox[i + 1] /\ i + 1 \in 1..Len(inbox) /\ 1 < i + 1 /\ x.what # "hello"
      BY <1>3, <1>4, <1>5, <1>6, <3>1
    <3>3. 1 \in 1..Len(inbox) BY <1>4
    <3> QED BY <1>4, <1>10, <3>2, <3>3 DEF PipeNumbers
  <2> QED BY <2>2, <2>3, <2>4
<1>11. conn \in {"on", "take", "send", "lost"} BY <1>1 DEF GreetInv, TerminalTypes, Conns
<1>12. mark >= 1 /\ (m.what # "hello" => replayUntil = mark) BY <1>1, <1>4, <1>11 DEF GreetInv
<1> QED BY <1>1, <1>3, <1>4, <1>5, <1>6, <1>9, <1>10, <1>11, <1>12

\* What of the invariant is only about the numbers, whatever the message is.
LEMMA DrainNumbers ==
  ASSUME AttachInv, Drain
  PROVE  /\ LogTypes' /\ Idle /\ TerminalTypes' /\ PipeNumbers' /\ ToldInv' /\ FlagInv'
         /\ Upto' = Upto /\ Messages(batch)' = Messages(batch)
<1> DEFINE m == Head(inbox)
<1>1. LogTypes /\ TurnInv /\ LogNumbers /\ LogStory /\ ToldInv /\ PipeNumbers /\ GreetInv
      /\ FlagInv /\ EndsArrive /\ StoryInv /\ FinishedOnce /\ TerminalTypes
  BY DEF AttachInv
<1>2. /\ UNCHANGED <<worker, conn, mark, next, batch, clientRunning, gap, visits>>
      /\ inbox # <<>> /\ m = inbox[1] /\ m \in Message /\ (HandleState(m) \/ HandleEvent(m))
      /\ seen' = IF m.what = "hello" THEN seen ELSE m.seq
      /\ Len(inbox) \in Nat /\ Len(inbox) >= 1
      /\ inbox' \in Seq(Message) /\ Len(inbox') = Len(inbox) - 1
      /\ \A i \in 1..Len(inbox') : /\ inbox'[i] = inbox[i + 1] /\ i + 1 \in 1..Len(inbox)
                                   /\ inbox'[i].what # "hello"
      /\ m.what = "hello" => Received' = Received
      /\ m.what # "hello" => /\ m \in Received /\ Received = {m} \cup Received'
                             /\ seen < m.seq /\ m.seq < next
                             /\ \A x \in Received' : m.seq < x.seq
  BY <1>1, DrainEffect
<1> HIDE DEF m
<1>3. LogTypes' /\ Idle BY <1>1, <1>2 DEF LogTypes, worker, thread, asking, Idle
<1>4. /\ TurnInv' /\ LogNumbers' /\ LogStory' /\ First' = First /\ Messages(log)' = Messages(log)
      /\ nextSeq' = nextSeq /\ ended' = ended
  BY <1>1, <1>3, IdleKeeps
<1>5. Upto' = Upto /\ Messages(batch)' = Messages(batch) BY <1>2 DEF Upto, Messages
<1>6. m.seq \in Nat /\ m.running \in BOOLEAN /\ m.turn \in 0..MaxTurns BY <1>2 DEF Message
<1>7. TerminalTypes'
  <2>1. CASE HandleState(m)
    <3>1. printed' \in Seq(Status) /\ outcome' \in Endings \cup {None}
      <4>1. [turn |-> m.turn, outcome |-> IF outcome = None THEN "completed" ELSE outcome] \in Status
        BY <1>1, <1>6 DEF Status, Endings, TerminalTypes
      <4>2. printed \in Seq(Status) /\ outcome \in Endings \cup {None} BY <1>1 DEF TerminalTypes
      <4> QED BY <2>1, <4>1, <4>2, AppendProperties DEF HandleState, FinishStatus
    <3> QED BY <1>1, <1>2, <1>6, <2>1, <3>1 DEF HandleState, TerminalTypes
  <2>2. CASE HandleEvent(m)
    <3>1. outcome' \in Endings \cup {None}
      BY <1>1, <2>2, OutcomeIs DEF HandleEvent, TerminalTypes, Result, Endings
    <3>2. closed' \in BOOLEAN BY <2>2 DEF HandleEvent
    <3>3. handled' \subseteq 0..MaxTurns /\ asks' \in 0..MaxTurns BY <1>1, <1>6, <2>2 DEF HandleEvent, TerminalTypes
    <3> QED BY <1>1, <1>2, <1>6, <2>2, <3>1, <3>2, <3>3 DEF HandleEvent, TerminalTypes
  <2> QED BY <1>2, <2>1, <2>2
<1>8. PipeNumbers'
  <2>1. \A i \in 1..Len(inbox') : seen' < inbox'[i].seq /\ inbox'[i].seq < next
    <3>1. ASSUME NEW i \in 1..Len(inbox') PROVE seen' < inbox'[i].seq /\ inbox'[i].seq < next
      <4>1. seen < inbox'[i].seq /\ inbox'[i].seq < next BY <1>1, <1>2 DEF PipeNumbers
      <4>2. CASE m.what = "hello" BY <1>2, <4>1, <4>2
      <4>3. CASE m.what # "hello"
        <5>1. inbox'[i] \in Received' BY <1>2 DEF Received, Messages
        <5> QED BY <1>2, <4>1, <4>3, <5>1
      <4> QED BY <4>2, <4>3
    <3> QED BY <3>1
  <2>2. ASSUME NEW i \in 1..Len(inbox'), NEW j \in 1..Len(inbox'), i < j
        PROVE  inbox'[i].seq < inbox'[j].seq
    <3>1. i + 1 < j + 1 BY <1>2, <2>2
    <3>2. inbox[i + 1].what # "hello" /\ inbox[j + 1].what # "hello" BY <1>2
    <3> QED BY <1>1, <1>2, <3>1, <3>2 DEF PipeNumbers
  <2>3. seen' < next BY <1>1, <1>2 DEF PipeNumbers
  <2> QED BY <1>1, <1>2, <1>4, <1>5, <2>1, <2>2, <2>3 DEF PipeNumbers
<1>9. ToldInv'
  <2>1. Told' \subseteq Told BY <1>2, <1>4, <1>5 DEF Told
  <2> QED BY <1>1, <1>3, <2>1, ToldShrinks
<1>10. FlagInv'
  <2>1. UNCHANGED <<log, turnRunning, doing>> BY <1>3 DEF Idle
  <2>2. (\A x \in Messages(log) : LastState(x, Messages(log)) => x.running = turnRunning \/ doing \in {"show", "tell"})'
    BY <1>1, <2>1 DEF FlagInv, LastState, Messages, IsState
  <2>3. (\A x \in Messages(log) : LastState(x, {q \in Messages(log) : q.seq < next}) => clientRunning = x.running)'
    BY <1>1, <1>2, <2>1 DEF FlagInv, LastState, Messages, IsState
  <2>4. Tells(m) => lastRunning' = m.running BY <1>2 DEF Tells, HandleState, HandleEvent
  <2>5. ~Tells(m) => lastRunning' = lastRunning BY <1>2 DEF Tells, HandleState, HandleEvent
  <2>6. 1 \in 1..Len(inbox) /\ \A i \in 1..Len(inbox) : i = 1 \/ (i - 1 \in 1..Len(inbox') /\ inbox[i] = inbox'[i - 1])
    <3>1. ASSUME NEW i \in 1..Len(inbox), i # 1 PROVE i - 1 \in 1..Len(inbox') /\ inbox[i] = inbox'[i - 1]
      <4>1. i - 1 \in 1..Len(inbox') /\ (i - 1) + 1 = i BY <1>2, <3>1
      <4> QED BY <1>2, <4>1
    <3> QED BY <1>2, <3>1
  <2>7. (\A i \in 1..Len(inbox') : ~Tells(inbox'[i])) => lastRunning' = clientRunning
    <3>1. SUFFICES ASSUME \A i \in 1..Len(inbox') : ~Tells(inbox'[i]) PROVE lastRunning' = clientRunning OBVIOUS
    <3>2. \A i \in 1..Len(inbox) : i > 1 => ~Tells(inbox[i]) BY <2>6, <3>1
    <3>3. CASE Tells(m) BY <1>1, <1>2, <2>4, <2>6, <3>2, <3>3 DEF FlagInv
    <3>4. CASE ~Tells(m)
      <4>1. \A i \in 1..Len(inbox) : ~Tells(inbox[i]) BY <1>2, <2>6, <3>1, <3>4
      <4> QED BY <1>1, <2>5, <3>4, <4>1 DEF FlagInv
    <3> QED BY <3>3, <3>4
  <2>8. ASSUME NEW i \in 1..Len(inbox'), Tells(inbox'[i]), \A j \in 1..Len(inbox') : j > i => ~Tells(inbox'[j])
        PROVE  inbox'[i].running = clientRunning
    <3>1. i + 1 \in 1..Len(inbox) /\ inbox[i + 1] = inbox'[i] BY <1>2
    <3>2. ASSUME NEW j \in 1..Len(inbox), j > i + 1 PROVE ~Tells(inbox[j])
      <4>1. j - 1 \in 1..Len(inbox') /\ inbox[j] = inbox'[j - 1] BY <1>2, <2>6, <3>2
      <4>2. j - 1 > i BY <1>2, <3>2
      <4> QED BY <2>8, <4>1, <4>2
    <3> QED BY <1>1, <2>8, <3>1, <3>2 DEF FlagInv
  <2>9. (\A i \in 1..Len(inbox) : ~Tells(inbox[i]))' => lastRunning' = clientRunning'
    BY <1>2, <2>7 DEF Tells
  <2>10. (\A i \in 1..Len(inbox) : Tells(inbox[i]) /\ (\A j \in 1..Len(inbox) : j > i => ~Tells(inbox[j]))
                                     => inbox[i].running = clientRunning)'
    BY <1>2, <2>8 DEF Tells
  <2> QED BY <2>2, <2>3, <2>9, <2>10 DEF FlagInv
<1> QED BY <1>3, <1>5, <1>7, <1>8, <1>9, <1>10

\* The greeting tells the terminal whether a turn runs, and what is replay.
LEMMA DrainHello ==
  ASSUME AttachInv, Drain, Head(inbox).what = "hello"
  PROVE  AttachInv'
<1> DEFINE m == Head(inbox)
<1>1. LogTypes /\ TurnInv /\ LogNumbers /\ LogStory /\ ToldInv /\ PipeNumbers /\ GreetInv
      /\ FlagInv /\ EndsArrive /\ StoryInv /\ FinishedOnce /\ TerminalTypes
  BY DEF AttachInv
<1>2. /\ UNCHANGED <<worker, conn, mark, next, batch, clientRunning, gap, visits>>
      /\ inbox # <<>> /\ m = inbox[1] /\ (HandleState(m) \/ HandleEvent(m))
      /\ m.what = "hello" /\ seen' = seen /\ Len(inbox) \in Nat /\ Len(inbox) >= 1
      /\ \A i \in 1..Len(inbox') : inbox'[i].what # "hello"
      /\ Received' = Received /\ conn \in {"on", "take", "send", "lost"} /\ mark >= 1
  BY <1>1, DrainEffect
<1> HIDE DEF m
<1>3. /\ LogTypes' /\ Idle /\ TerminalTypes' /\ PipeNumbers' /\ ToldInv' /\ FlagInv'
      /\ Upto' = Upto /\ Messages(batch)' = Messages(batch)
  BY DrainNumbers
<1>4. /\ TurnInv' /\ LogNumbers' /\ LogStory' /\ First' = First /\ Messages(log)' = Messages(log)
      /\ nextSeq' = nextSeq /\ ended' = ended
  BY <1>1, <1>3, IdleKeeps
<1>5. UNCHANGED <<log, nextSeq, turnRunning, doing, turn, ended>> BY <1>3 DEF Idle
<1>6. replayUntil = 0 /\ seen = 0 /\ printed = <<>> /\ ~lastRunning /\ m.seq = mark
  <2>1. 1 \in 1..Len(inbox) BY <1>2
  <2> QED BY <1>1, <1>2, <2>1 DEF GreetInv, Blank
<1>7. HandleState(m) BY <1>2 DEF HandleEvent
<1>8. replayUntil' = mark /\ printed' = printed /\ outcome' = outcome BY <1>2, <1>6, <1>7 DEF HandleState, FinishStatus
<1>9. GreetInv' BY <1>1, <1>2, <1>4, <1>8 DEF GreetInv
<1>10. EndsArrive' BY <1>1, <1>2, <1>4 DEF EndsArrive, Ended
<1>11. FinishedOnce'
  <2>1. \A k \in TurnIds : ~(ended'[k].seq > replayUntil' /\ ended'[k].seq <= seen')
    BY <1>1, <1>2, <1>4, <1>6, <1>8 DEF LogTypes, TerminalTypes
  <2>2. DOMAIN printed' = {} BY <1>6, <1>8
  <2> QED BY <2>1, <2>2 DEF FinishedOnce
<1>12. StoryInv'
  <2>1. Ahead' = Ahead BY <1>2, <1>3, <1>4 DEF Ahead
  <2>2. ASSUME ~gap, Replaying, NEW k \in TurnIds, Expected(k)' PROVE Announced(k)'
    <3>1. Expected(k) BY <1>2, <1>3, <1>4, <1>5, <2>2 DEF Expected, Shown, EndOf, Ended
    <3>2. PICK t \in Ahead : Comes(t, k, Ahead) BY <1>1, <1>6, <2>2, <3>1 DEF StoryInv, Announced, Underway
    <3>3. PICK S : S = Ahead /\ S = Ahead' BY <2>1
    <3>4. Comes(t, k, S)' BY <1>3, <3>2, <3>3, StoryStays
    <3>5. Comes(t, k, Ahead)' <=> Comes(t, k, S)' BY <3>3 DEF Comes, FinalAfter, Final
    <3> QED BY <2>1, <3>2, <3>4, <3>5 DEF Announced
  <2>3. Replaying' <=> Replaying BY <1>2 DEF Replaying
  <2> QED BY <1>2, <2>2, <2>3 DEF StoryInv
<1> QED BY <1>3, <1>4, <1>9, <1>10, <1>11, <1>12 DEF AttachInv

\* What a message other than the greeting does to what the terminal knows.
LEMMA DrainKnows ==
  ASSUME AttachInv, Drain, NEW m, m = Head(inbox), m.what # "hello"
  PROVE  /\ UNCHANGED <<conn, mark, next, batch, gap, replayUntil>> /\ replayUntil = mark /\ mark >= 1
         /\ m \in Ahead /\ Ahead = {m} \cup Ahead' /\ \A x \in Ahead' : m.seq < x.seq
         /\ m \in Told /\ m.seq \in Nat /\ m.running \in BOOLEAN /\ seen < m.seq /\ m.seq < next /\ seen' = m.seq
         /\ IsState(m) /\ lastRunning /\ ~m.running /\ m.seq > mark =>
              /\ printed' = Append(printed, [turn |-> m.turn,
                                             outcome |-> IF outcome = None THEN "completed" ELSE outcome])
              /\ lastRunning' = FALSE
         /\ IsState(m) => ~Marks(m) /\ lastRunning' = m.running
         /\ IsState(m) /\ ~(lastRunning /\ ~m.running /\ m.seq > mark) => UNCHANGED <<printed, outcome>>
         /\ ~IsState(m) => /\ lastRunning' = lastRunning /\ printed' = printed
                           /\ outcome' = IF Marks(m) THEN Result(m) ELSE outcome
<1>1. LogTypes /\ LogNumbers /\ PipeNumbers /\ GreetInv /\ TerminalTypes BY DEF AttachInv
<1>2. /\ UNCHANGED <<worker, conn, mark, next, batch, clientRunning, gap, visits>>
      /\ m \in Message /\ (HandleState(m) \/ HandleEvent(m)) /\ seen' = m.seq
      /\ m \in Received /\ Received = {m} \cup Received' /\ seen < m.seq /\ m.seq < next
      /\ \A x \in Received' : m.seq < x.seq
      /\ mark >= 1 /\ replayUntil = mark
  BY <1>1, DrainEffect
<1>3. Idle /\ Messages(batch)' = Messages(batch) BY DrainNumbers
<1>4. Messages(log)' = Messages(log) BY <1>3 DEF Idle, Messages
<1>5. replayUntil' = replayUntil BY <1>2 DEF HandleState, HandleEvent
<1>6. m \in Ahead /\ Ahead = {m} \cup Ahead' BY <1>2, <1>3, <1>4 DEF Ahead
<1>7. m.seq \in Nat /\ m.running \in BOOLEAN /\ next \in Nat BY <1>1, <1>2 DEF Message, TerminalTypes
<1>8. \A x \in Ahead' : m.seq < x.seq
  <2>1. \A x \in Messages(batch) : x.seq \in Nat /\ next <= x.seq BY <1>1, PipeHas DEF Message
  <2>2. \A x \in Messages(log) : x.seq \in Nat BY <1>1, LogHas DEF Message
  <2> QED BY <1>2, <1>3, <1>4, <1>7, <2>1, <2>2 DEF Ahead
<1>9. m \in Told BY <1>2 DEF Told
<1>10. CASE IsState(m)
  <2>1. HandleState(m) /\ m.what = "state" BY <1>2, <1>10 DEF HandleEvent, IsState
  <2>2. ~Marks(m) BY <2>1 DEF Marks, EndMarks
  <2>3. lastRunning' = m.running /\ FinishStatus(m) BY <2>1 DEF HandleState
  <2>4. IsLive(m) <=> m.seq > mark BY <1>2, <1>5, <2>1 DEF IsLive
  <2> QED BY <1>2, <1>5, <1>6, <1>7, <1>8, <1>9, <1>10, <2>2, <2>3, <2>4 DEF FinishStatus
<1>11. CASE ~IsState(m)
  <2>1. HandleEvent(m) BY <1>2, <1>11 DEF HandleState, IsState
  <2>2. lastRunning' = lastRunning /\ printed' = printed /\ outcome' = IF Marks(m) THEN Result(m) ELSE outcome
    BY <2>1, OutcomeIs DEF HandleEvent
  <2> QED BY <1>2, <1>5, <1>6, <1>7, <1>8, <1>9, <1>11, <2>2
<1> QED BY <1>10, <1>11

\* A turn whose end is expected is known to run from the first of its states on, and its outcome
\* from its last mark on.
LEMMA DrainStory ==
  ASSUME AttachInv, Drain, Head(inbox).what # "hello"
  PROVE  StoryInv'
<1> DEFINE m == Head(inbox)
<1>1. LogTypes /\ TurnInv /\ LogNumbers /\ LogStory /\ ToldInv /\ PipeNumbers /\ GreetInv /\ StoryInv /\ TerminalTypes
  BY DEF AttachInv
<1>2. /\ UNCHANGED <<conn, mark, next, batch, gap, replayUntil>> /\ replayUntil = mark /\ mark >= 1
      /\ m \in Ahead /\ Ahead = {m} \cup Ahead' /\ \A x \in Ahead' : m.seq < x.seq
      /\ m \in Told /\ m.seq \in Nat /\ m.running \in BOOLEAN /\ seen < m.seq /\ m.seq < next /\ seen' = m.seq
      /\ IsState(m) => ~Marks(m) /\ lastRunning' = m.running
      /\ IsState(m) /\ ~(lastRunning /\ ~m.running /\ m.seq > mark) => UNCHANGED <<printed, outcome>>
      /\ ~IsState(m) => /\ lastRunning' = lastRunning /\ printed' = printed
                        /\ outcome' = IF Marks(m) THEN Result(m) ELSE outcome
  BY DrainKnows
<1> HIDE DEF m
<1>3. /\ Idle /\ Upto' = Upto /\ First' = First /\ nextSeq' = nextSeq /\ ended' = ended
      /\ UNCHANGED <<turnRunning, doing, turn>>
  BY <1>1, DrainNumbers, IdleKeeps DEF Idle
<1>4. PICK S2 : S2 = Ahead' OBVIOUS
<1>5. Ahead = {m} \cup S2 /\ (\A x \in S2 : m.seq < x.seq) /\ S2 \subseteq Ahead BY <1>2, <1>4
<1>6. seen \in Nat /\ mark \in Nat /\ nextSeq \in Nat /\ \A x \in S2 : x \in Told /\ x.seq \in Nat
  <2>1. Ahead \subseteq Told BY DEF Ahead, Told
  <2>2. \A x \in Told : x.seq \in Nat BY <1>1 DEF ToldInv, Fits
  <2> QED BY <1>1, <1>5, <2>1, <2>2 DEF TerminalTypes, LogTypes
<1>7. ASSUME ~gap, Replaying, NEW k \in TurnIds, Expected(k)' PROVE Announced(k)'
  <2>1. /\ Shown(k) /\ EndOf(k) > mark /\ EndOf(k) > m.seq
        /\ EndOf(k) < Upto \/ (conn # "lost" /\ First <= Upto)
    BY <1>2, <1>3, <1>7 DEF Expected, Shown, EndOf, Ended
  <2>2. EndOf(k) \in Nat /\ k \in Nat /\ k >= 1 /\ turn \in Nat
    BY <1>1, <1>6, LogAssumption DEF EndOf, LogTypes, TurnIds
  <2>3. Announced(k)
    <3>1. EndOf(k) > seen BY <1>2, <1>6, <2>1, <2>2
    <3>2. Expected(k) BY <2>1, <3>1 DEF Expected
    <3> QED BY <1>1, <1>7, <3>2 DEF StoryInv
  <2>4. /\ EndOf(k)' = EndOf(k) /\ (HasOutcome(k)' <=> HasOutcome(k))
        /\ \A e, S : Final(e, k, S) <=> Final(e, k, S)'
    BY <1>3 DEF EndOf, Ended, HasOutcome, Final, Marks, Result
  <2>5. ASSUME NEW e \in S2, Final(e, k, Ahead) PROVE Final(e, k, Ahead)'
    <3>1. Final(e, k, S2) BY <1>5, <2>5 DEF Final
    <3>2. Final(e, k, S2)' BY <2>4, <3>1
    <3> QED BY <1>4, <3>2 DEF Final
  <2>6. Underway(k)' <=> /\ lastRunning' /\ \A q \in S2 : IsState(q) => q.turn >= k
                         /\ HasOutcome(k) => \/ \E e \in S2 : Final(e, k, Ahead)'
                                             \/ outcome' = ended[k].outcome /\ \A q \in S2 : Marks(q) => q.seq >= EndOf(k)
    BY <1>3, <1>4, <2>4 DEF Underway, IsState, Marks
  <2>7. CASE Underway(k)
    <3>1. \A q \in S2 : IsState(q) => q.turn >= k BY <1>5, <2>7 DEF Underway
    <3>2. CASE IsState(m)
      <4>1. m.running
        <5>1. SUFFICES ASSUME ~m.running PROVE FALSE BY <1>2
        <5>2. Fits(m) /\ EndsTurn(m) BY <1>1, <1>2, <3>2, <5>1 DEF ToldInv, EndsTurn
        <5>3. m.turn >= k BY <1>5, <2>7, <3>2 DEF Underway
        <5>4. m.turn # 0 /\ m.turn \in TurnIds /\ ended[m.turn].seq = m.seq
          BY <2>2, <5>2, <5>3 DEF Fits
        <5>5. CASE Ended(k)
          <6>1. EndOf(k) = ended[k].seq BY <5>5 DEF EndOf
          <6>2. m.seq <= ended[k].seq BY <1>2, <2>1, <2>2, <6>1
          <6>3. m.turn <= k BY <5>2, <5>5, <6>2 DEF Fits
          <6>4. m.turn = k BY <2>2, <5>3, <5>4, <6>3, LogAssumption DEF TurnIds
          <6> QED BY <1>2, <2>1, <2>2, <5>4, <6>1, <6>4
        <5>6. CASE ~Ended(k)
          <6>1. k = turn BY <1>1, <2>1, <2>2, <5>6 DEF TurnInv, Shown
          <6>2. m.turn = k BY <2>2, <5>2, <5>3, <5>4, <6>1, LogAssumption DEF Fits, TurnIds
          <6>3. m.seq >= 1 BY <5>2 DEF Fits
          <6> QED BY <1>2, <5>4, <5>6, <6>2, <6>3 DEF Ended
        <5> QED BY <5>5, <5>6
      <4>2. lastRunning' /\ outcome' = outcome /\ ~Marks(m) BY <1>2, <3>2, <4>1
      <4>3. HasOutcome(k) => \/ \E e \in S2 : Final(e, k, Ahead)'
                             \/ outcome' = ended[k].outcome /\ \A q \in S2 : Marks(q) => q.seq >= EndOf(k)
        <5>1. CASE HasOutcome(k) /\ \E e \in Ahead : Final(e, k, Ahead)
          <6>1. PICK e \in Ahead : Final(e, k, Ahead) BY <5>1
          <6>2. e \in S2 BY <1>5, <4>2, <6>1 DEF Final
          <6> QED BY <2>5, <6>1, <6>2
        <5>2. CASE outcome = ended[k].outcome /\ \A q \in Ahead : Marks(q) => q.seq >= EndOf(k)
          BY <1>5, <4>2, <5>2
        <5> QED BY <2>7, <5>1, <5>2 DEF Underway
      <4> QED BY <2>6, <3>1, <4>2, <4>3 DEF Announced
    <3>3. CASE ~IsState(m)
      <4>1. lastRunning' BY <1>2, <2>7, <3>3 DEF Underway
      <4>2. HasOutcome(k) => \/ \E e \in S2 : Final(e, k, Ahead)'
                             \/ outcome' = ended[k].outcome /\ \A q \in S2 : Marks(q) => q.seq >= EndOf(k)
        <5>1. CASE HasOutcome(k) /\ \E e \in Ahead : Final(e, k, Ahead)
          <6>1. PICK e \in Ahead : Final(e, k, Ahead) BY <5>1
          <6>2. CASE e \in S2 BY <2>5, <6>1, <6>2
          <6>3. CASE e = m
            <7>1. outcome' = ended[k].outcome BY <1>2, <3>3, <6>1, <6>3 DEF Final
            <7>2. ASSUME NEW q \in S2, Marks(q) PROVE q.seq >= EndOf(k)
              <8>1. q.seq < EndOf(k) => q.seq <= m.seq BY <1>5, <6>1, <6>3, <7>2 DEF Final
              <8> QED BY <1>2, <1>5, <1>6, <2>2, <8>1
            <7> QED BY <7>1, <7>2
          <6> QED BY <1>5, <6>1, <6>2, <6>3
        <5>2. CASE outcome = ended[k].outcome /\ \A q \in Ahead : Marks(q) => q.seq >= EndOf(k)
          <6>1. ~Marks(m) BY <1>2, <2>1, <2>2, <5>2
          <6> QED BY <1>2, <1>5, <3>3, <5>2, <6>1
        <5> QED BY <2>7, <5>1, <5>2 DEF Underway
      <4> QED BY <2>6, <3>1, <4>1, <4>2 DEF Announced
    <3> QED BY <3>2, <3>3
  <2>8. CASE \E t \in Ahead : Comes(t, k, Ahead)
    <3>1. PICK t \in Ahead : Comes(t, k, Ahead) BY <2>8
    <3>2. m.seq <= t.seq /\ t.seq \in Nat BY <1>2, <1>5, <1>6
    <3>3. HasOutcome(k) => \E e \in S2 : t.seq < e.seq /\ Final(e, k, Ahead)
      <4>1. SUFFICES ASSUME HasOutcome(k) PROVE \E e \in S2 : t.seq < e.seq /\ Final(e, k, Ahead) OBVIOUS
      <4>2. PICK e \in Ahead : t.seq < e.seq /\ Final(e, k, Ahead) BY <3>1, <4>1 DEF Comes, FinalAfter
      <4>3. e # m BY <1>2, <3>2, <4>2
      <4> QED BY <1>5, <4>2, <4>3
    <3>4. CASE t = m
      <4>1. IsState(m) /\ m.running /\ m.turn = k BY <3>1, <3>4 DEF Comes, Begun
      <4>2. \A q \in S2 : IsState(q) => q.turn >= k
        BY <1>1, <1>2, <1>5, <1>6, <4>1 DEF ToldInv, InStep, Fits
      <4>3. lastRunning' BY <1>2, <4>1
      <4>4. HasOutcome(k) => \E e \in S2 : Final(e, k, Ahead)' BY <2>5, <3>3
      <4> QED BY <2>6, <4>2, <4>3, <4>4 DEF Announced
    <3>5. CASE t # m
      <4>1. t \in S2 BY <1>5, <3>5
      <4>2. Begun(t, k)' BY <2>4, <3>1 DEF Comes, Begun, IsState
      <4>3. FinalAfter(t.seq, k, Ahead)' BY <1>4, <2>4, <2>5, <3>3 DEF FinalAfter
      <4> QED BY <1>4, <4>1, <4>2, <4>3 DEF Comes, Announced
    <3> QED BY <3>4, <3>5
  <2> QED BY <2>3, <2>7, <2>8 DEF Announced
<1>8. Replaying' <=> Replaying BY <1>2 DEF Replaying
<1> QED BY <1>2, <1>7, <1>8 DEF StoryInv

\* The end of a turn is announced when it is handled, with its outcome, and nothing else is.
LEMMA DrainFinished ==
  ASSUME AttachInv, Drain, Head(inbox).what # "hello"
  PROVE  FinishedOnce'
<1> DEFINE m == Head(inbox)
<1>1. LogTypes /\ TurnInv /\ LogNumbers /\ ToldInv /\ PipeNumbers /\ GreetInv /\ StoryInv /\ EndsArrive
      /\ FinishedOnce /\ TerminalTypes
  BY DEF AttachInv
<1>2. /\ UNCHANGED <<conn, mark, next, batch, gap, replayUntil>> /\ replayUntil = mark /\ mark >= 1
      /\ m \in Ahead /\ Ahead = {m} \cup Ahead' /\ \A x \in Ahead' : m.seq < x.seq
      /\ m \in Told /\ m.seq \in Nat /\ m.running \in BOOLEAN /\ seen < m.seq /\ m.seq < next /\ seen' = m.seq
      /\ IsState(m) /\ lastRunning /\ ~m.running /\ m.seq > mark =>
           /\ printed' = Append(printed, [turn |-> m.turn,
                                          outcome |-> IF outcome = None THEN "completed" ELSE outcome])
           /\ lastRunning' = FALSE
      /\ IsState(m) => ~Marks(m) /\ lastRunning' = m.running
      /\ IsState(m) /\ ~(lastRunning /\ ~m.running /\ m.seq > mark) => UNCHANGED <<printed, outcome>>
      /\ ~IsState(m) => lastRunning' = lastRunning /\ printed' = printed
  BY DrainKnows
<1>3. Received = {m} \cup Received' /\ \A x \in Received' : m.seq < x.seq BY <1>1, DrainEffect
<1> HIDE DEF m
<1>4. ended' = ended /\ \A k \in TurnIds : ended[k].seq \in Nat BY <1>1, DrainNumbers DEF Idle, LogTypes
<1>5. seen \in Nat /\ mark \in Nat /\ next \in Nat BY <1>1 DEF TerminalTypes
<1> SUFFICES ASSUME ~gap PROVE FinishedOnce' BY <1>2 DEF FinishedOnce
<1>6. ASSUME NEW k \in TurnIds, ended[k].seq > mark, ended[k].seq <= m.seq, ~(ended[k].seq <= seen)
      PROVE  ended[k].seq = m.seq
  <2>1. Ended(k) /\ mark < ended[k].seq /\ seen < ended[k].seq /\ ended[k].seq < next
    BY <1>2, <1>4, <1>5, <1>6 DEF Ended
  <2>2. PICK x \in Received : x.seq = ended[k].seq BY <1>1, <2>1 DEF EndsArrive
  <2> QED BY <1>2, <1>3, <1>4, <1>6, <2>2
<1>7. /\ {printed[i].turn : i \in DOMAIN printed} = {k \in TurnIds : ended[k].seq > mark /\ ended[k].seq <= seen}
      /\ \A i, j \in DOMAIN printed : i < j => printed[i].turn < printed[j].turn
      /\ \A i \in DOMAIN printed : printed[i].outcome = ended[printed[i].turn].outcome
  BY <1>1, <1>2 DEF FinishedOnce
<1>8. \A k \in TurnIds : ended[k].seq > mark /\ ended[k].seq <= seen => ended[k].seq <= m.seq
  BY <1>2, <1>4, <1>5
<1>9. Fits(m) BY <1>1, <1>2 DEF ToldInv
<1>10. CASE EndsTurn(m) /\ m.seq > mark
  <2> DEFINE k == m.turn
             s == [turn |-> m.turn, outcome |-> ended[m.turn].outcome]
  <2>1. k \in TurnIds /\ ended[k].seq = m.seq BY <1>2, <1>5, <1>9, <1>10 DEF Fits
  <2>2. Ended(k) /\ EndOf(k) = m.seq /\ ended[k].outcome # None
    <3>1. Ended(k) BY <1>2, <1>5, <1>10, <2>1 DEF Ended
    <3> QED BY <1>1, <2>1, <3>1 DEF EndOf, TurnInv
  <2> HIDE DEF k
  <2>3. Announced(k)
    <3>1. Shown(k)
      <4>1. k < turn \/ (k = turn /\ doing = "idle") BY <1>1, <2>1, <2>2 DEF TurnInv
      <4>2. k \in Nat /\ turn \in Nat BY <1>1, <2>1, LogAssumption DEF LogTypes, TurnIds
      <4> QED BY <4>1, <4>2 DEF Shown
    <3>2. EndOf(k) < Upto
      <4>1. next <= Upto /\ Upto \in Nat BY <1>1, PipeHas
      <4> QED BY <1>2, <1>5, <2>2, <4>1
    <3>3. Expected(k) BY <1>2, <1>10, <2>2, <3>1, <3>2 DEF Expected
    <3>4. Replaying BY <1>2, <1>5, <1>10 DEF Replaying
    <3> QED BY <1>1, <2>1, <3>3, <3>4 DEF StoryInv
  <2>4. \A x \in Ahead : ~(x.seq < m.seq)
    <3>1. Ahead \subseteq Told BY DEF Ahead, Told
    <3>2. \A x \in Told : x.seq \in Nat BY <1>1 DEF ToldInv, Fits, LogTypes
    <3> QED BY <1>2, <3>1, <3>2
  <2>5. Underway(k)
    <3>1. \A t \in Ahead : ~Comes(t, k, Ahead) BY <2>2, <2>4 DEF Comes, Begun
    <3> QED BY <2>3, <3>1 DEF Announced
  <2>6. lastRunning /\ outcome = ended[k].outcome
    <3>1. \A e \in Ahead : ~Final(e, k, Ahead) BY <2>2, <2>4 DEF Final
    <3> QED BY <2>2, <2>5, <3>1 DEF Underway, HasOutcome
  <2>7. printed' = Append(printed, s)
    <3>1. IsState(m) /\ lastRunning /\ ~m.running /\ m.seq > mark BY <1>10, <2>6 DEF EndsTurn
    <3>2. printed' = Append(printed, [turn |-> m.turn, outcome |-> IF outcome = None THEN "completed" ELSE outcome])
      BY <1>2, <3>1
    <3>3. (IF outcome = None THEN "completed" ELSE outcome) = ended[m.turn].outcome BY <2>2, <2>6 DEF k
    <3> QED BY <3>2, <3>3
  <2>8. s \in Status /\ s.turn = k /\ s.outcome = ended[k].outcome
    <3>1. ended[k].outcome \in Endings BY <1>1, <2>1, <2>2 DEF LogTypes
    <3>2. k \in 0..MaxTurns BY <2>1, LogAssumption DEF TurnIds
    <3> QED BY <3>1, <3>2 DEF k, Status
  <2> HIDE DEF s
  <2>9. /\ Len(printed) \in Nat /\ DOMAIN printed = 1..Len(printed) /\ DOMAIN printed' = 1..(Len(printed) + 1)
        /\ \A i \in 1..Len(printed) : printed'[i] = printed[i]
        /\ printed'[Len(printed) + 1] = s
    <3>1. printed \in Seq(Status) BY <1>1 DEF TerminalTypes
    <3>2. printed' \in Seq(Status) /\ Len(printed') = Len(printed) + 1
      BY <2>7, <2>8, <3>1, AppendProperties
    <3> QED BY <2>7, <2>8, <3>1, <3>2, AppendProperties, LenProperties
  <2>10. ASSUME NEW i \in 1..Len(printed) PROVE printed[i].turn \in TurnIds /\ printed[i].turn < k
    <3>1. printed[i].turn \in {j \in TurnIds : ended[j].seq > mark /\ ended[j].seq <= seen}
      BY <1>7, <2>9
    <3>2. Ended(printed[i].turn) /\ ended[printed[i].turn].seq < ended[k].seq
      BY <1>2, <1>4, <1>5, <2>1, <3>1 DEF Ended
    <3>3. printed[i].turn # k /\ ~(k < printed[i].turn) BY <1>1, <1>4, <2>1, <2>2, <3>1, <3>2 DEF TurnInv
    <3>4. printed[i].turn \in Nat /\ k \in Nat BY <2>1, <3>1, LogAssumption DEF TurnIds
    <3> QED BY <3>1, <3>3, <3>4
  <2>11. {k2 \in TurnIds : ended[k2].seq > mark /\ ended[k2].seq <= m.seq}
           = {k2 \in TurnIds : ended[k2].seq > mark /\ ended[k2].seq <= seen} \cup {k}
    <3>1. k \in TurnIds /\ ended[k].seq > mark /\ ended[k].seq <= m.seq BY <1>2, <1>10, <2>1
    <3>2. ASSUME NEW j \in TurnIds, ended[j].seq > mark, ended[j].seq <= m.seq, ~(ended[j].seq <= seen) PROVE j = k
      <4>1. ended[j].seq = ended[k].seq BY <1>6, <2>1, <3>2
      <4>2. Ended(j) BY <2>2, <4>1 DEF Ended
      <4>3. ~(j < k) /\ ~(k < j) BY <1>1, <1>4, <2>1, <2>2, <4>1, <4>2 DEF TurnInv
      <4> QED BY <2>1, <4>3, LogAssumption DEF TurnIds
    <3> QED BY <1>8, <3>1, <3>2
  <2>12. {printed'[i].turn : i \in DOMAIN printed'} = {printed[i].turn : i \in DOMAIN printed} \cup {k}
    <3>1. \A i \in 1..(Len(printed) + 1) : i \in 1..Len(printed) \/ i = Len(printed) + 1 BY <2>9
    <3>2. \A i \in 1..Len(printed) : i \in 1..(Len(printed) + 1) BY <2>9
    <3>3. Len(printed) + 1 \in 1..(Len(printed) + 1) BY <2>9
    <3> QED BY <2>8, <2>9, <3>1, <3>2, <3>3
  <2>13. ASSUME NEW i \in DOMAIN printed', NEW j \in DOMAIN printed', i < j
         PROVE  printed'[i].turn < printed'[j].turn
    <3>1. i \in 1..Len(printed) BY <2>9, <2>13
    <3>2. CASE j \in 1..Len(printed)
      <4>1. printed[i].turn < printed[j].turn BY <1>7, <2>9, <2>13, <3>1, <3>2
      <4> QED BY <2>9, <3>1, <3>2, <4>1
    <3>3. CASE j = Len(printed) + 1
      <4>1. printed[i].turn < k BY <2>10, <3>1
      <4> QED BY <2>8, <2>9, <3>1, <3>3, <4>1
    <3> QED BY <2>9, <3>2, <3>3
  <2>14. ASSUME NEW i \in DOMAIN printed'
         PROVE  printed'[i].outcome = ended[printed'[i].turn].outcome
    <3>1. CASE i \in 1..Len(printed) BY <1>7, <2>9, <3>1
    <3>2. CASE i = Len(printed) + 1 BY <2>8, <2>9, <3>2
    <3> QED BY <2>9, <3>1, <3>2
  <2>15. {printed'[i].turn : i \in DOMAIN printed'}
           = {k2 \in TurnIds : ended'[k2].seq > replayUntil' /\ ended'[k2].seq <= seen'}
    BY <1>2, <1>4, <1>7, <2>11, <2>12
  <2> QED BY <1>4, <2>13, <2>14, <2>15 DEF FinishedOnce
<1>11. CASE ~(EndsTurn(m) /\ m.seq > mark)
  <2>1. printed' = printed BY <1>2, <1>11 DEF EndsTurn
  <2>2. {k \in TurnIds : ended[k].seq > mark /\ ended[k].seq <= m.seq}
          = {k \in TurnIds : ended[k].seq > mark /\ ended[k].seq <= seen}
    <3>1. ASSUME NEW k \in TurnIds, ended[k].seq > mark, ended[k].seq <= m.seq, ~(ended[k].seq <= seen) PROVE FALSE
      <4>1. ended[k].seq = m.seq BY <1>6, <3>1
      <4>2. Ended(k) BY <1>4, <1>5, <3>1 DEF Ended
      <4>3. EndsTurn(m) BY <1>9, <4>1, <4>2 DEF Fits
      <4> QED BY <1>11, <3>1, <4>1, <4>3
    <3> QED BY <1>8, <3>1
  <2> QED BY <1>2, <1>4, <1>7, <2>1, <2>2 DEF FinishedOnce
<1> QED BY <1>10, <1>11

\* Handling a message keeps the invariant.
LEMMA DrainKeeps ==
  ASSUME AttachInv, Drain
  PROVE  AttachInv'
<1>1. CASE Head(inbox).what = "hello" BY <1>1, DrainHello
<1>2. CASE Head(inbox).what # "hello"
  <2> DEFINE m == Head(inbox)
  <2>1. LogTypes /\ TurnInv /\ LogNumbers /\ LogStory /\ ToldInv /\ PipeNumbers /\ GreetInv /\ EndsArrive /\ TerminalTypes
    BY DEF AttachInv
  <2>2. /\ LogTypes' /\ Idle /\ TerminalTypes' /\ PipeNumbers' /\ ToldInv' /\ FlagInv'
        /\ Upto' = Upto /\ Messages(batch)' = Messages(batch)
    BY DrainNumbers
  <2>3. /\ TurnInv' /\ LogNumbers' /\ LogStory' /\ First' = First /\ nextSeq' = nextSeq /\ ended' = ended
    BY <2>1, <2>2, IdleKeeps
  <2>4. /\ UNCHANGED <<conn, mark, next, batch, gap>> /\ replayUntil' = mark /\ mark >= 1 /\ seen' = m.seq /\ seen < m.seq
        /\ m.seq \in Nat
    BY <1>2, DrainKnows
  <2>5. /\ \A i \in 1..Len(inbox') : inbox'[i].what # "hello"
        /\ conn \in {"on", "take", "send", "lost"}
        /\ Received = {m} \cup Received'
    BY <1>2, <2>1, DrainEffect
  <2> HIDE DEF m
  <2>6. GreetInv' BY <2>1, <2>3, <2>4, <2>5 DEF GreetInv
  <2>7. EndsArrive'
    <3>1. ASSUME ~gap, NEW k \in TurnIds, Ended(k), mark < ended[k].seq, m.seq < ended[k].seq, ended[k].seq < next
          PROVE  \E x \in Received' : x.seq = ended[k].seq
      <4>1. seen \in Nat /\ ended[k].seq \in Nat BY <2>1 DEF TerminalTypes, LogTypes
      <4>2. PICK x \in Received : x.seq = ended[k].seq BY <2>1, <2>4, <3>1, <4>1 DEF EndsArrive
      <4>3. x # m BY <2>4, <3>1, <4>1, <4>2
      <4> QED BY <2>5, <4>2, <4>3
    <3> QED BY <2>1, <2>3, <2>4, <3>1 DEF EndsArrive, Ended
  <2>8. StoryInv' /\ FinishedOnce' BY <1>2, DrainStory, DrainFinished
  <2> QED BY <2>2, <2>3, <2>6, <2>7, <2>8 DEF AttachInv
<1> QED BY <1>1, <1>2

\* Every step keeps the invariant.
LEMMA AttachInvKept ==
  ASSUME AttachInv, [AttachNext]_attachVars
  PROVE  AttachInv'
<1>1. CASE Worker /\ UNCHANGED <<handler, client, terminal, gap, visits>>
  BY <1>1, WorkerKeeps DEF Elsewhere
<1>2. CASE Mark BY <1>2, MarkKeeps
<1>3. CASE Greet BY <1>3, GreetKeeps
<1>4. CASE Look BY <1>4, LookKeeps
<1>5. CASE Take BY <1>5, TakeNothing, TakeSome
<1>6. CASE Send BY <1>6, SendKeeps
<1>7. CASE Lost BY <1>7, LostKeeps
<1>8. CASE ConnectClient \/ Detach \/ SwitchAway BY <1>8, VisitsKeep
<1>9. CASE Drain BY <1>9, DrainKeeps
<1>10. CASE Reply BY <1>10, ReplyKeeps
<1>11. CASE UNCHANGED attachVars
  <2>1. LogTypes' /\ TerminalTypes' /\ Idle
    BY <1>11 DEF AttachInv, LogTypes, TerminalTypes, attachVars, worker, handler, client, terminal, thread, asking, Idle
  <2> QED BY <1>11, <2>1, StillKeeps DEF attachVars, handler, client, terminal
<1> QED BY <1>1, <1>2, <1>3, <1>4, <1>5, <1>6, <1>7, <1>8, <1>9, <1>10, <1>11 DEF AttachNext, Writer, Terminal

-----------------------------------------------------------------------------
(* The theorems.                                                           *)

\* A set of positions that is not empty has a last one.
LEMMA Greatest ==
  ASSUME NEW n \in Nat, NEW T, T \subseteq 1..n, T # {}
  PROVE  \E x \in T : \A y \in T : y <= x
<1> DEFINE R == {n - x : x \in T}
<1>0. \A x \in T : n - x \in Nat OBVIOUS
<1>1. R \subseteq Nat /\ R # {} BY <1>0, Zenon
<1>2. PICK r \in R : \A y \in R : ~ (<<y, r>> \in OpToRel(<, Nat)) BY <1>1, NatLessThanWellFounded, WFMin
<1>3. PICK x \in T : r = n - x BY <1>2
<1>4. \A y \in T : ~(n - y < n - x) BY <1>1, <1>2, <1>3 DEF OpToRel
<1> QED BY <1>4

\* The invariant of the worker's log and an attached terminal holds in every reachable state.
THEOREM AttachSafe == AttachSpec => []AttachInv
<1>1. AttachInit => AttachInv BY InitAttached
<1>2. AttachInv /\ [AttachNext]_attachVars => AttachInv' BY AttachInvKept
<1> QED BY <1>1, <1>2, PTL DEF AttachSpec

\* Once a terminal has everything the log has, it shows the worker's flag: the newest state of the
\* log has the flag, and it was sent and handled.
THEOREM TerminalCatchesUp == AttachSpec => []CaughtUp
<1>1. AttachInv => CaughtUp
  <2> SUFFICES ASSUME AttachInv, conn \in {"on", "take"}, Available = <<>>, inbox = <<>>,
                      doing \notin {"show", "tell"}, \E i \in 1..Len(log) : IsState(log[i])
               PROVE  clientRunning = turnRunning /\ lastRunning = turnRunning
    BY DEF CaughtUp
  <2>1. LogTypes /\ LogNumbers /\ TerminalTypes /\ PipeNumbers /\ FlagInv BY DEF AttachInv
  <2>2. next = nextSeq
    <3>1. next \in Nat /\ next >= 1 /\ next <= nextSeq BY <2>1, PipeHas DEF PipeNumbers
    <3> QED BY <2>1, <3>1, AvailableIs
  <2>3. \A i \in 1..Len(log) : log[i].seq = First - 1 + i BY <2>1 DEF LogNumbers
  <2>4. \E m \in Messages(log) : LastState(m, Messages(log))
    <3> DEFINE I == {i \in 1..Len(log) : IsState(log[i])}
    <3>1. Len(log) \in Nat /\ I \subseteq 1..Len(log) /\ I # {} BY <2>1, LenProperties DEF LogTypes
    <3>2. PICK i \in I : \A j \in I : j <= i BY <3>1, Greatest
    <3>3. First \in Nat BY <2>1, LogHas
    <3>4. \A q \in Messages(log) : IsState(q) => q.seq <= log[i].seq
      BY <2>3, <3>2, <3>3 DEF Messages
    <3> QED BY <3>2, <3>4 DEF LastState, Messages
  <2>5. PICK m \in Messages(log) : LastState(m, Messages(log)) BY <2>4
  <2>6. {q \in Messages(log) : q.seq < next} = Messages(log) BY <2>1, <2>2, LogHas
  <2>7. m.running = turnRunning /\ clientRunning = m.running BY <2>1, <2>5, <2>6 DEF FlagInv
  <2>8. lastRunning = clientRunning
    <3>1. Len(inbox) = 0 OBVIOUS
    <3> QED BY <2>1, <3>1 DEF FlagInv
  <2> QED BY <2>7, <2>8
<1> QED BY <1>1, AttachSafe, PTL

\* A terminal that missed nothing prints a final status for exactly the turns that ended behind its
\* replay, each once, in order, with the outcome the turn had.
THEOREM StatusesRight == AttachSpec => []FinishedOnce
<1>1. AttachInv => FinishedOnce BY DEF AttachInv
<1> QED BY <1>1, AttachSafe, PTL
=============================================================================
