------------------------- MODULE AgentRuntimeProofs -------------------------
(***************************************************************************)
(* For any number of prompts, closings and interrupts: the child session   *)
(* of an agent is run by one thread at a time, no prompt waits where       *)
(* nothing comes for it, and prompts start in the order they were sent,    *)
(* but for those that were meant to go first.                              *)
(***************************************************************************)
EXTENDS AgentRuntime, SequenceTheorems, TLAPS

-----------------------------------------------------------------------------
(* The inductive invariant.                                                *)

Starting == caller.do = "start"

\* The prompt send_input starts a thread for is the last that was sent, and
\* nobody else has made the agent run since it was found idle.
StartIsFree == Starting => ~running /\ caller.prompt = sent /\ sent \notin redirects

\* What was started, what waits and what is being started was sent.
Counted == Len(runLog) + Len(pending) + (IF Starting THEN 1 ELSE 0) <= sent
Known ==
  /\ \A j \in 1..Len(runLog) : runLog[j] <= sent
  /\ \A j \in 1..Len(pending) : pending[j] <= sent
  /\ \A p \in redirects : p <= sent

\* y may start after x, the i-th to start
After(i, x, y) == IF y < x THEN x \in redirects ELSE y \in redirects => startedAt[y] >= i
\* y may wait behind x
Behind(x, y) == IF y < x THEN x \in redirects ELSE y \notin redirects

\* The order of the prompts that were started, those that wait, and between
\* the two.
Ordered ==
  /\ \A i, j \in 1..Len(runLog) : i < j => After(i, runLog[i], runLog[j])
  /\ \A i \in 1..Len(runLog), j \in 1..Len(pending) : After(i, runLog[i], pending[j])
  /\ \A i, j \in 1..Len(pending) : i < j => Behind(pending[i], pending[j])

IInv ==
  /\ TypeOK /\ OneRunner /\ NoPromptStranded /\ StartIsFree
  /\ Counted /\ Known /\ Ordered

-----------------------------------------------------------------------------
(* Types.                                                                  *)

\* The sequences of prompts, their lengths and their elements.
LEMMA Numbers ==
  ASSUME TypeOK
  PROVE  /\ MaxPrompts \in Nat /\ Prompts \subseteq Nat /\ sent \in Prompts /\ Loops = Prompts
         /\ pending \in Seq(Prompts) /\ Len(pending) \in Nat
         /\ runLog \in Seq(Prompts) /\ Len(runLog) \in Nat
         /\ \A j \in 1..Len(pending) : pending[j] \in Prompts
         /\ \A j \in 1..Len(runLog) : runLog[j] \in Prompts
<1>1. pending \in Seq(Prompts) /\ runLog \in Seq(Prompts) /\ sent \in Prompts
  BY DEF TypeOK
<1>2. Len(pending) \in Nat /\ Len(runLog) \in Nat
  BY <1>1, LenProperties
<1>3. /\ \A j \in 1..Len(pending) : pending[j] \in Prompts
      /\ \A j \in 1..Len(runLog) : runLog[j] \in Prompts
  BY <1>1, ElementOfSeq
<1> QED BY <1>1, <1>2, <1>3, BoundsAssumption DEF Prompts, Loops

\* what TypeOK says of the record, of the threads, of the lists, and of the counts
RecordTypes ==
  /\ running \in BOOLEAN /\ shutdown \in BOOLEAN /\ interrupted \in BOOLEAN
  /\ result \in Final /\ event \in BOOLEAN
ThreadTypes ==
  /\ caller \in [do : {"none", "start", "interrupt"}, prompt : 0..MaxPrompts]
  /\ stopper \in {"none", "interrupt"}
  /\ loop \in [Loops -> [at : Places, reached : Final]]
ListTypes ==
  /\ pending \in Seq(Prompts) /\ runLog \in Seq(Prompts) /\ dropped \subseteq Prompts
  /\ notes \in Seq(Statuses)
CountTypes ==
  /\ sent \in Prompts /\ stops \in 0..MaxStops /\ redirects \subseteq Prompts
  /\ startedAt \in [Prompts -> 0..MaxPrompts]

\* the four groups of TypeOK, so that a step is asked for one at a time
LEMMA TypeGroups ==
  /\ TypeOK <=> RecordTypes /\ ThreadTypes /\ ListTypes /\ CountTypes
  /\ TypeOK' <=> RecordTypes' /\ ThreadTypes' /\ ListTypes' /\ CountTypes'
BY DEF TypeOK, RecordTypes, ThreadTypes, ListTypes, CountTypes

\* A loop thread goes to another place, or takes its result there.
LEMMA LoopTypes ==
  ASSUME ThreadTypes, NEW l \in Loops, NEW p \in Places, NEW r \in Final,
         \/ loop' = [loop EXCEPT ![l].at = p]
         \/ loop' = [loop EXCEPT ![l] = [at |-> p, reached |-> r]]
  PROVE  /\ loop' \in [Loops -> [at : Places, reached : Final]]
         /\ loop'[l].at = p /\ \A k \in Loops \ {l} : loop'[k] = loop[k]
BY DEF ThreadTypes

\* Every step keeps the types.
LEMMA TypeStep == IInv /\ [Next]_vars => TypeOK'
<1> SUFFICES ASSUME IInv, [Next]_vars
             PROVE  RecordTypes' /\ ThreadTypes' /\ ListTypes' /\ CountTypes'
  BY TypeGroups
<1>a. TypeOK /\ RecordTypes /\ ThreadTypes /\ ListTypes /\ CountTypes
  BY TypeGroups DEF IInv
<1>b. /\ \A p \in {"off", "enter", "turn", "leave", "notify"} : p \in Places
      /\ \A r \in {"interrupted", "errored", "completed", "aborted"} : r \in Final
  BY DEF Places, Final
<1>c. \A p \in Prompts : Append(pending, p) \in Seq(Prompts) /\ <<p>> \o pending \in Seq(Prompts)
                         /\ Append(runLog, p) \in Seq(Prompts)
  <2> TAKE p \in Prompts
  <2>1. <<p>> \in Seq(Prompts) BY EmptySeq
  <2> QED BY <1>a, <2>1, AppendProperties, ConcatProperties DEF ListTypes
<1>1. CASE UNCHANGED vars
  BY <1>1, <1>a DEF vars, record, ghosts, RecordTypes, ThreadTypes, ListTypes, CountTypes
<1>2. ASSUME NEW redirect \in BOOLEAN, SendInput(redirect)
      PROVE  RecordTypes' /\ ThreadTypes' /\ ListTypes' /\ CountTypes'
  <2>1. sent + 1 \in Prompts /\ sent + 1 \in 0..MaxPrompts
    BY <1>2, <1>a, Numbers DEF SendInput, Prompts
  <2>2. Len(runLog) \in 0..MaxPrompts
    BY <1>a, Numbers DEF IInv, Counted, Prompts
  <2>3. CountTypes'
    BY <1>2, <2>1, <2>2, <1>a DEF SendInput, CountTypes
  <2>4. ThreadTypes'
    BY <1>2, <2>1, <1>a DEF SendInput, ThreadTypes, Free
  <2>5. RecordTypes' /\ ListTypes'
    BY <1>2, <2>1, <1>a, <1>c DEF SendInput, Enqueue, RecordTypes, ListTypes
  <2> QED BY <2>3, <2>4, <2>5
<1>3. CASE StartAgent
  <2>1. caller.prompt \in Prompts
    BY <1>3, <1>a DEF StartAgent, IInv, StartIsFree, Starting, CountTypes
  <2>2. ThreadTypes'
    <3>1. caller.prompt \in Loops BY <2>1 DEF Prompts, Loops
    <3>2. loop' \in [Loops -> [at : Places, reached : Final]]
      BY <1>3, <3>1, <1>a, <1>b, LoopTypes DEF StartAgent
    <3> QED BY <1>3, <3>2, <1>a, BoundsAssumption DEF StartAgent, ThreadTypes, Free
  <2> QED BY <1>3, <2>1, <2>2, <1>a, <1>b, <1>c
          DEF StartAgent, RecordTypes, ListTypes, CountTypes, ghosts
<1>4. ASSUME ClearPending PROVE pending' \in Seq(Prompts) /\ dropped' \subseteq Prompts
  BY <1>4, <1>a, EmptySeq, RangeOfSeq DEF ClearPending, ListTypes
<1>5. CASE CloseAgent
  BY <1>5, <1>a, <1>4, BoundsAssumption
  DEF CloseAgent, RecordTypes, ThreadTypes, ListTypes, CountTypes, ghosts, Free
<1>6. CASE ResumeAgent
  BY <1>6, <1>a DEF ResumeAgent, RecordTypes, ThreadTypes, ListTypes, CountTypes, ghosts
<1>7. CASE CallerInterrupts
  BY <1>7, <1>a, BoundsAssumption
  DEF CallerInterrupts, RecordTypes, ThreadTypes, ListTypes, CountTypes, ghosts, record, Free
<1>8. CASE DrainNotifications
  BY <1>8, <1>a, EmptySeq
  DEF DrainNotifications, RecordTypes, ThreadTypes, ListTypes, CountTypes, ghosts, record
<1>9. ASSUME StopperFrame
      PROVE  running' = running /\ interrupted' \in BOOLEAN /\ event' = event /\ result' = result
             /\ ThreadTypes' /\ CountTypes' /\ runLog' = runLog /\ notes' = notes
  BY <1>9, <1>a, BoundsAssumption
  DEF StopperFrame, RecordTypes, ThreadTypes, CountTypes, ghosts
<1>10. CASE RequestInterrupt
  BY <1>10, <1>9, <1>a DEF RequestInterrupt, RecordTypes, ListTypes
<1>11. CASE InterruptAll
  BY <1>11, <1>9, <1>4, <1>a DEF InterruptAll, RecordTypes, ListTypes
<1>12. CASE StopperInterrupts
  BY <1>12, <1>a DEF StopperInterrupts, RecordTypes, ThreadTypes, ListTypes, CountTypes, ghosts, record
<1>13. ASSUME NEW l \in Loops, LoopStep(l)
       PROVE  RecordTypes' /\ ThreadTypes' /\ ListTypes' /\ CountTypes'
  <2>1. LoopFrame /\ CountTypes'
    BY <1>13, <1>a DEF LoopStep, EnterTurn, EndTurn, NextPrompt, LeaveLoop, Notify, LoopFrame,
                       CountTypes, ghosts
  <2>2. loop[l].reached \in Final /\ loop[l].at \in Places
    BY <1>a DEF ThreadTypes
  <2>3. CASE EnterTurn(l)
    <3>1. ThreadTypes' BY <2>1, <2>3, <1>a, <1>b, LoopTypes DEF EnterTurn, LoopFrame, ThreadTypes
    <3> QED BY <2>1, <2>3, <3>1, <1>a DEF EnterTurn, LoopFrame, RecordTypes, ListTypes, record
  <2>4. CASE EndTurn(l)
    <3>1. PICK r \in Final : loop' = [loop EXCEPT ![l] = [at |-> "leave", reached |-> r]]
      BY <2>4, <1>b DEF EndTurn
    <3>2. ThreadTypes' BY <2>1, <3>1, <1>a, <1>b, LoopTypes DEF LoopFrame, ThreadTypes
    <3> QED BY <2>1, <2>4, <3>2, <1>a DEF EndTurn, LoopFrame, RecordTypes, ListTypes, record
  <2>5. CASE NextPrompt(l)
    <3>1. Head(pending) \in Prompts /\ Tail(pending) \in Seq(Prompts)
      BY <2>5, <1>a, HeadTailProperties DEF NextPrompt, MoreToRun, ListTypes
    <3>2. ThreadTypes' BY <2>1, <2>5, <1>a, <1>b, LoopTypes DEF NextPrompt, LoopFrame, ThreadTypes
    <3> QED BY <2>1, <2>5, <2>2, <3>1, <3>2, <1>a, <1>b, <1>c
            DEF NextPrompt, TakeNext, LoopFrame, RecordTypes, ListTypes
  <2>6. CASE LeaveLoop(l)
    <3>1. PICK p \in Places : loop' = [loop EXCEPT ![l].at = p]
      BY <2>6, <1>b DEF LeaveLoop
    <3>2. ThreadTypes' BY <2>1, <3>1, <2>2, <1>a, LoopTypes DEF LoopFrame, ThreadTypes
    <3> QED BY <2>1, <2>6, <2>2, <3>2, <1>a DEF LeaveLoop, LoopFrame, RecordTypes, ListTypes
  <2>7. CASE Notify(l)
    <3>1. Status \in Statuses BY <1>a DEF Status, Statuses, RecordTypes, Final
    <3>2. notes' \in Seq(Statuses) BY <2>7, <3>1, <1>a, AppendProperties DEF Notify, ListTypes
    <3>3. ThreadTypes' BY <2>1, <2>7, <2>2, <1>a, <1>b, LoopTypes DEF Notify, LoopFrame, ThreadTypes
    <3> QED BY <2>1, <2>7, <3>2, <3>3, <1>a DEF Notify, LoopFrame, RecordTypes, ListTypes, record
  <2> QED BY <1>13, <2>3, <2>4, <2>5, <2>6, <2>7 DEF LoopStep
<1> QED
  BY <1>1, <1>2, <1>3, <1>5, <1>6, <1>7, <1>8, <1>10, <1>11, <1>12, <1>13
  DEF Next, Send, SomeLoopStep

-----------------------------------------------------------------------------
(* One runner.                                                             *)

Runner == OneRunner /\ NoPromptStranded /\ StartIsFree

\* Steps that neither start nor end a loop, nor touch what waits.
LEMMA RunnerKept ==
  ASSUME Runner, UNCHANGED <<running, sent, redirects, pending>>,
         \A l \in Loops : InRun(l)' <=> InRun(l),
         caller' = caller \/ caller'.do # "start",
         shutdown' => shutdown
  PROVE  Runner'
BY DEF Runner, OneRunner, NoPromptStranded, StartIsFree, Starting

\* Every step keeps one runner, and one for whatever waits.
LEMMA RunnerStep == IInv /\ [Next]_vars => Runner'
<1> SUFFICES ASSUME IInv, [Next]_vars PROVE Runner'
  OBVIOUS
<1>a. TypeOK /\ ThreadTypes /\ Runner BY TypeGroups DEF IInv, Runner
<1>b. /\ \A p \in {"off", "enter", "turn", "leave", "notify"} : p \in Places
      /\ \A r \in {"interrupted", "errored", "completed", "aborted"} : r \in Final
      /\ Free.do = "none"
  BY DEF Places, Final, Free
<1>c. ASSUME UNCHANGED loop PROVE \A l \in Loops : InRun(l)' <=> InRun(l)
  BY <1>c DEF InRun
<1>1. CASE UNCHANGED vars
  BY <1>1, <1>a, <1>c, RunnerKept DEF vars, record, ghosts
<1>2. ASSUME NEW redirect \in BOOLEAN, SendInput(redirect) PROVE Runner'
  <2>1. UNCHANGED <<running, loop>> /\ shutdown' = FALSE /\ sent' = sent + 1 /\ ~Starting
    BY <1>2, <1>b DEF SendInput, Starting
  <2>2. OneRunner'
    BY <2>1, <1>a DEF Runner, OneRunner, InRun
  <2>3. CASE Idle
    <3>1. sent + 1 \notin redirects
      BY Numbers DEF IInv, Known, TypeOK
    <3>2. caller'.do = "start" /\ caller'.prompt = sent + 1 /\ UNCHANGED <<pending, redirects>>
      BY <1>2, <2>3 DEF SendInput
    <3> QED BY <2>1, <2>2, <2>3, <3>1, <3>2, <1>a
            DEF Runner, NoPromptStranded, StartIsFree, Starting, Idle
  <2>4. CASE ~Idle
    <3>1. ~Starting' BY <1>2, <2>4 DEF SendInput, Free, Starting
    <3> QED BY <2>1, <2>2, <2>4, <3>1 DEF Runner, NoPromptStranded, StartIsFree, Idle
  <2> QED BY <2>3, <2>4
<1>3. CASE StartAgent
  <2>1. /\ ~running /\ caller.prompt \in Loops /\ ~Starting' /\ running' = TRUE
        /\ UNCHANGED <<pending, shutdown>>
    BY <1>3, <1>a, <1>b, Numbers DEF StartAgent, Runner, StartIsFree, Starting
  <2>2. /\ loop'[caller.prompt].at = "enter"
        /\ \A l \in Loops \ {caller.prompt} : loop'[l] = loop[l]
    BY <1>3, <2>1, <1>a, <1>b, LoopTypes DEF StartAgent
  <2>3. OneRunner'
    BY <2>1, <2>2, <1>a DEF Runner, OneRunner, InRun
  <2>4. pending = <<>> BY <2>1, <1>a DEF Runner, NoPromptStranded
  <2> QED BY <2>1, <2>3, <2>4 DEF Runner, NoPromptStranded, StartIsFree
\* closing lets nothing wait
<1>4. ASSUME ClearPending, UNCHANGED <<running, loop, sent, redirects>>,
             caller' = caller \/ caller'.do # "start"
      PROVE  Runner'
  BY <1>4, <1>a DEF ClearPending, Runner, OneRunner, InRun, NoPromptStranded, StartIsFree, Starting
<1>5. CASE CloseAgent
  <2>1. caller'.do # "start" BY <1>5 DEF CloseAgent, Free
  <2> QED BY <1>5, <2>1, <1>4 DEF CloseAgent, ghosts
<1>6. CASE ResumeAgent
  BY <1>6, <1>a, <1>c, RunnerKept DEF ResumeAgent, ghosts
<1>7. CASE CallerInterrupts
  BY <1>7, <1>a, <1>b, <1>c, RunnerKept DEF CallerInterrupts, record, ghosts
<1>8. CASE DrainNotifications
  BY <1>8, <1>a, <1>c, RunnerKept DEF DrainNotifications, record, ghosts
<1>9. CASE RequestInterrupt
  BY <1>9, <1>a, <1>c, RunnerKept DEF RequestInterrupt, StopperFrame, ghosts
<1>10. CASE InterruptAll
  BY <1>10, <1>4 DEF InterruptAll, StopperFrame, ghosts
<1>11. CASE StopperInterrupts
  BY <1>11, <1>a, <1>c, RunnerKept DEF StopperInterrupts, record, ghosts
<1>12. ASSUME NEW l \in Loops, LoopStep(l) PROVE Runner'
  <2>1. UNCHANGED <<caller, sent, redirects>>
    BY <1>12 DEF LoopStep, EnterTurn, EndTurn, NextPrompt, LeaveLoop, Notify, LoopFrame, ghosts
  <2>2. loop[l].reached \in Final BY <1>a DEF ThreadTypes
  <2>3. CASE EnterTurn(l)
    <3>1. loop'[l].at = "turn" /\ \A k \in Loops \ {l} : loop'[k] = loop[k]
      BY <2>3, <1>a, <1>b, LoopTypes DEF EnterTurn
    <3>2. \A k \in Loops : InRun(k)' <=> InRun(k) BY <2>3, <3>1 DEF EnterTurn, InRun
    <3> QED BY <2>1, <2>3, <3>2, <1>a, RunnerKept DEF EnterTurn, record
  <2>4. CASE EndTurn(l)
    <3>1. PICK r \in Final : loop' = [loop EXCEPT ![l] = [at |-> "leave", reached |-> r]]
      BY <2>4, <1>b DEF EndTurn
    <3>2. loop'[l].at = "leave" /\ \A k \in Loops \ {l} : loop'[k] = loop[k]
      BY <3>1, <1>a, <1>b, LoopTypes
    <3>3. \A k \in Loops : InRun(k)' <=> InRun(k) BY <2>4, <3>2 DEF EndTurn, InRun
    <3> QED BY <2>1, <2>4, <3>3, <1>a, RunnerKept DEF EndTurn, record
  <2>5. CASE NextPrompt(l)
    <3>1. loop'[l].at = "enter" /\ \A k \in Loops \ {l} : loop'[k] = loop[k]
      BY <2>5, <1>a, <1>b, LoopTypes DEF NextPrompt
    <3>2. \A k \in Loops : InRun(k)' <=> InRun(k) BY <2>5, <3>1 DEF NextPrompt, InRun
    <3>3. running /\ running' = TRUE BY <2>5, <1>a DEF NextPrompt, Runner, OneRunner, InRun
    <3> QED BY <2>1, <2>5, <3>2, <3>3, <1>a
            DEF NextPrompt, MoreToRun, Runner, OneRunner, NoPromptStranded, StartIsFree, Starting
  <2>6. CASE LeaveLoop(l)
    <3>1. PICK p \in {"off", "notify"} : loop' = [loop EXCEPT ![l].at = p]
      BY <2>6 DEF LeaveLoop
    <3>2. loop'[l].at = p /\ \A k \in Loops \ {l} : loop'[k] = loop[k]
      BY <3>1, <1>a, <1>b, LoopTypes
    <3>3. \A k \in Loops : ~InRun(k)' BY <2>6, <3>2, <1>a DEF LeaveLoop, InRun, Runner, OneRunner
    <3>4. pending = <<>> BY <2>6, <1>a DEF LeaveLoop, MoreToRun, Runner, NoPromptStranded
    <3> QED BY <2>1, <2>6, <3>3, <3>4, <1>a
            DEF LeaveLoop, Runner, OneRunner, NoPromptStranded, StartIsFree, Starting
  <2>7. CASE Notify(l)
    <3>1. loop'[l].at = "off" /\ \A k \in Loops \ {l} : loop'[k] = loop[k]
      BY <2>7, <1>a, <1>b, LoopTypes DEF Notify
    <3>2. \A k \in Loops : InRun(k)' <=> InRun(k) BY <2>7, <3>1 DEF Notify, InRun
    <3> QED BY <2>1, <2>7, <3>2, <1>a, RunnerKept DEF Notify, record
  <2> QED BY <1>12, <2>3, <2>4, <2>5, <2>6, <2>7 DEF LoopStep
<1> QED
  BY <1>1, <1>2, <1>3, <1>5, <1>6, <1>7, <1>8, <1>9, <1>10, <1>11, <1>12
  DEF Next, Send, SomeLoopStep

-----------------------------------------------------------------------------
(* The order of prompts.                                                   *)

Line == Counted /\ Known /\ Ordered

\* Steps that start and queue nothing keep the order.
LEMMA LineKept ==
  ASSUME Line, UNCHANGED <<runLog, pending, sent, redirects, startedAt>>, Starting' => Starting, TypeOK
  PROVE  Line'
<1>1. Counted'
  BY Numbers DEF Line, Counted, Starting
<1>2. Known' /\ Ordered'
  BY DEF Line, Known, Ordered, After, Behind
<1> QED BY <1>1, <1>2 DEF Line

\* What is sent, redirected or not, changes nothing between earlier prompts.
LEMMA OldStay ==
  ASSUME TypeOK, Known, UNCHANGED <<runLog>>,
         startedAt' = [startedAt EXCEPT ![sent + 1] = Len(runLog)],
         redirects' \in {redirects, redirects \cup {sent + 1}}
  PROVE  \A x \in 1..sent : (x \in redirects' <=> x \in redirects) /\ startedAt'[x] = startedAt[x]
BY Numbers DEF TypeOK, Prompts

\* send_input starts a thread, puts the prompt behind the others, or before them.
LEMMA SendLine ==
  ASSUME IInv, NEW redirect \in BOOLEAN, SendInput(redirect)
  PROVE  Line'
<1> DEFINE n == Len(pending)
           m == Len(runLog)
<1>a. TypeOK /\ Runner /\ Line BY DEF IInv, Runner, Line
<1>1. /\ UNCHANGED runLog /\ ~Starting /\ sent' = sent + 1 /\ sent \in Nat /\ sent + 1 \in Prompts
      /\ startedAt' = [startedAt EXCEPT ![sent + 1] = m] /\ startedAt'[sent + 1] = m
      /\ n \in Nat /\ m \in Nat
  BY <1>a, Numbers DEF SendInput, Free, Starting, TypeOK, Prompts
<1>2. /\ \A j \in 1..m : runLog[j] \in 1..sent
      /\ \A j \in 1..n : pending[j] \in 1..sent
      /\ \A p \in redirects : p \in 1..sent
  <2>1. \A p \in Prompts : p >= 1 /\ p \in Nat BY DEF Prompts
  <2>2. redirects \subseteq Prompts BY <1>a DEF TypeOK
  <2> QED BY <2>1, <2>2, <1>1, <1>a, Numbers DEF Line, Known
<1>3. CASE Idle
  <2>1. Starting' /\ UNCHANGED <<pending, redirects>> /\ pending = <<>> /\ n = 0
    BY <1>3, <1>a, EmptySeq DEF SendInput, Idle, Starting, Runner, NoPromptStranded
  <2>2. Counted' BY <2>1, <1>1, <1>a DEF Line, Counted
  <2>3. Known' BY <2>1, <1>1, <1>2, <1>a DEF Line, Known
  <2>4. \A i, j \in 1..m : i < j => After(i, runLog[i], runLog[j])'
    BY <1>1, <1>2, <2>1, <1>a, OldStay DEF Line, Ordered, After
  <2>5. 1..n = {} BY <2>1
  <2> QED BY <2>1, <2>2, <2>3, <2>4, <2>5, <1>1 DEF Line, Ordered
<1>4. CASE ~Idle
  <2>1. /\ ~Starting' /\ Enqueue(sent + 1, redirect)
        /\ redirects' = IF redirect THEN redirects \cup {sent + 1} ELSE redirects
    BY <1>4 DEF SendInput, Free, Starting
  <2>2. \A x \in 1..sent : (x \in redirects' <=> x \in redirects) /\ startedAt'[x] = startedAt[x]
    BY <2>1, <1>1, <1>a, OldStay DEF Line
  <2>3. \A i, j \in 1..m : i < j => After(i, runLog[i], runLog[j])'
    BY <1>1, <1>2, <2>2, <1>a DEF Line, Ordered, After
  <2>4. CASE redirect
    <3>1. /\ Len(pending') = n + 1 /\ pending'[1] = sent + 1
          /\ \A j \in 2..(n + 1) : j - 1 \in 1..n /\ pending'[j] = pending[j - 1]
      <4>1. pending' = <<sent + 1>> \o pending /\ <<sent + 1>> \in Seq(Prompts)
            /\ Len(<<sent + 1>>) = 1 /\ <<sent + 1>>[1] = sent + 1
        BY <2>1, <2>4, <1>1 DEF Enqueue
      <4>2. /\ Len(pending') = 1 + n
            /\ \A j \in 1..(1 + n) : pending'[j] = IF j <= 1 THEN <<sent + 1>>[j] ELSE pending[j - 1]
        BY <4>1, <1>a, Numbers, ConcatProperties
      <4> QED BY <4>1, <4>2, <1>1
    <3>2. sent + 1 \in redirects' BY <2>1, <2>4
    <3>3. Counted' /\ Known'
      <4>1. \A j \in 1..(n + 1) : pending'[j] <= sent + 1
        <5> TAKE j \in 1..(n + 1)
        <5>1. j = 1 \/ j \in 2..(n + 1) BY <1>1
        <5> QED BY <5>1, <3>1, <1>1, <1>2
      <4> QED BY <4>1, <3>1, <2>1, <1>1, <1>2, <1>a DEF Line, Counted, Known
    <3>4. \A i \in 1..m, j \in 1..(n + 1) : After(i, runLog[i], pending[j])'
      <4> TAKE i \in 1..m, j \in 1..(n + 1)
      <4>1. CASE j = 1
        BY <4>1, <3>1, <1>1, <1>2 DEF After
      <4>2. CASE j \in 2..(n + 1)
        BY <4>2, <3>1, <1>1, <1>2, <2>2, <1>a, SMTT(40) DEF Line, Ordered, After
      <4> QED BY <4>1, <4>2, <1>1
    <3>5. \A i, j \in 1..(n + 1) : i < j => Behind(pending[i], pending[j])'
      <4> SUFFICES ASSUME NEW i \in 1..(n + 1), NEW j \in 1..(n + 1), i < j
                   PROVE  Behind(pending[i], pending[j])'
        OBVIOUS
      <4>1. j \in 2..(n + 1) BY <1>1
      <4>2. CASE i = 1
        BY <4>1, <4>2, <3>1, <3>2, <1>1, <1>2, SMTT(40) DEF Behind
      <4>3. CASE i \in 2..(n + 1)
        <5>1. /\ pending'[i] = pending[i - 1] /\ pending'[j] = pending[j - 1]
              /\ i - 1 \in 1..n /\ j - 1 \in 1..n /\ i - 1 < j - 1
          BY <4>1, <4>3, <3>1, <1>1
        <5> QED BY <5>1, <1>2, <2>2, <1>a DEF Line, Ordered, Behind
      <4> QED BY <4>2, <4>3, <1>1
    <3> QED BY <3>1, <3>3, <3>4, <3>5, <2>3, <1>1 DEF Line, Ordered
  <2>5. CASE ~redirect
    <3>1. /\ Len(pending') = n + 1 /\ pending'[n + 1] = sent + 1
          /\ \A j \in 1..n : pending'[j] = pending[j]
      BY <2>1, <2>5, <1>1, <1>a, Numbers, AppendProperties DEF Enqueue
    <3>2. redirects' = redirects /\ sent + 1 \notin redirects BY <2>1, <2>5, <1>1, <1>2
    <3>3. Counted' /\ Known'
      <4>1. \A j \in 1..(n + 1) : pending'[j] <= sent + 1
        <5> TAKE j \in 1..(n + 1)
        <5>1. j = n + 1 \/ j \in 1..n BY <1>1
        <5> QED BY <5>1, <3>1, <1>1, <1>2
      <4> QED BY <4>1, <3>1, <3>2, <2>1, <1>1, <1>2, <1>a DEF Line, Counted, Known
    <3>4. \A i \in 1..m, j \in 1..(n + 1) : After(i, runLog[i], pending[j])'
      <4> TAKE i \in 1..m, j \in 1..(n + 1)
      <4>1. CASE j = n + 1
        BY <4>1, <3>1, <3>2, <1>1, <1>2 DEF After
      <4>2. CASE j \in 1..n
        BY <4>2, <3>1, <1>1, <1>2, <2>2, <1>a DEF Line, Ordered, After
      <4> QED BY <4>1, <4>2, <1>1
    <3>5. \A i, j \in 1..(n + 1) : i < j => Behind(pending[i], pending[j])'
      <4> SUFFICES ASSUME NEW i \in 1..(n + 1), NEW j \in 1..(n + 1), i < j
                   PROVE  Behind(pending[i], pending[j])'
        OBVIOUS
      <4>1. i \in 1..n /\ pending'[i] = pending[i] BY <3>1, <1>1
      <4>2. CASE j = n + 1
        BY <4>1, <4>2, <3>1, <3>2, <1>1, <1>2 DEF Behind
      <4>3. CASE j \in 1..n
        BY <4>1, <4>3, <3>1, <1>2, <2>2, <1>a DEF Line, Ordered, Behind
      <4> QED BY <4>2, <4>3, <1>1
    <3> QED BY <3>1, <3>3, <3>4, <3>5, <2>3, <1>1 DEF Line, Ordered
  <2> QED BY <2>4, <2>5
<1> QED BY <1>3, <1>4

\* A prompt that is not one of the queue starts only when nothing waits.
LEMMA StartLine == ASSUME IInv, StartAgent PROVE Line'
<1> DEFINE m == Len(runLog)
<1>a. TypeOK /\ Runner /\ Line BY DEF IInv, Runner, Line
<1>1. /\ Starting /\ ~Starting' /\ caller.prompt = sent /\ sent \notin redirects
      /\ UNCHANGED <<pending, sent, redirects, startedAt>>
      /\ pending = <<>> /\ Len(pending) = 0 /\ sent \in Nat /\ m \in Nat
  BY <1>a, EmptySeq, Numbers
  DEF StartAgent, Starting, Runner, StartIsFree, NoPromptStranded, Free, ghosts, Prompts
<1>2. /\ Len(runLog') = m + 1 /\ runLog'[m + 1] = sent
      /\ \A j \in 1..m : runLog'[j] = runLog[j] /\ runLog[j] \in Nat /\ runLog[j] <= sent
  <2>1. sent \in Prompts /\ runLog' = Append(runLog, sent)
    BY <1>1, <1>a, Numbers DEF StartAgent
  <2> QED BY <2>1, <1>a, Numbers, AppendProperties DEF Line, Known
<1>3. Counted' BY <1>1, <1>2, <1>a DEF Line, Counted
<1>4. \A j \in 1..(m + 1) : runLog'[j] <= sent
  <2> TAKE j \in 1..(m + 1)
  <2>1. j = m + 1 \/ j \in 1..m BY <1>1
  <2> QED BY <2>1, <1>1, <1>2
<1>5. \A i, j \in 1..(m + 1) : i < j => After(i, runLog[i], runLog[j])'
  <2> SUFFICES ASSUME NEW i \in 1..(m + 1), NEW j \in 1..(m + 1), i < j
               PROVE  After(i, runLog[i], runLog[j])'
    OBVIOUS
  <2>1. i \in 1..m BY <1>1
  <2>2. CASE j = m + 1
    BY <2>1, <2>2, <1>1, <1>2 DEF After
  <2>3. CASE j \in 1..m
    BY <2>1, <2>3, <1>1, <1>2, <1>a DEF Line, Ordered, After
  <2> QED BY <2>2, <2>3, <1>1
<1>6. 1..Len(pending') = {} BY <1>1
<1> QED BY <1>1, <1>2, <1>3, <1>4, <1>5, <1>6, <1>a DEF Line, Known, Ordered

\* What is first in the queue may start before all that is behind it.
LEMMA NextLine == ASSUME IInv, NEW l \in Loops, NextPrompt(l) PROVE Line'
<1> DEFINE m == Len(runLog)
           n == Len(pending)
<1>a. TypeOK /\ Line BY DEF IInv, Line
<1>1. /\ UNCHANGED <<caller, sent, redirects, startedAt>> /\ pending # <<>>
      /\ sent \in Nat /\ m \in Nat /\ n \in Nat
  BY <1>a, Numbers DEF NextPrompt, MoreToRun, LoopFrame, ghosts, Prompts
<1>2. /\ Len(pending') = n - 1 /\ n >= 1 /\ Head(pending) = pending[1] /\ 1 \in 1..n
      /\ \A j \in 1..(n - 1) : j + 1 \in 1..n /\ pending'[j] = pending[j + 1]
  BY <1>1, <1>a, Numbers, HeadTailProperties, EmptySeq, SMTT(40) DEF NextPrompt, TakeNext
<1>3. /\ Len(runLog') = m + 1 /\ runLog'[m + 1] = pending[1]
      /\ \A j \in 1..m : runLog'[j] = runLog[j]
  BY <1>2, <1>a, Numbers, AppendProperties DEF NextPrompt
<1>4. Counted'
  BY <1>1, <1>2, <1>3, <1>a DEF Line, Counted, Starting
<1>5. Known'
  <2>1. \A j \in 1..(m + 1) : runLog'[j] <= sent
    <3> TAKE j \in 1..(m + 1)
    <3>1. j = m + 1 \/ j \in 1..m BY <1>1
    <3> QED BY <3>1, <1>2, <1>3, <1>a DEF Line, Known
  <2> QED BY <2>1, <1>1, <1>2, <1>3, <1>a DEF Line, Known
<1>6. \A i, j \in 1..(m + 1) : i < j => After(i, runLog[i], runLog[j])'
  <2> SUFFICES ASSUME NEW i \in 1..(m + 1), NEW j \in 1..(m + 1), i < j
               PROVE  After(i, runLog[i], runLog[j])'
    OBVIOUS
  <2>1. i \in 1..m BY <1>1
  <2>2. CASE j = m + 1
    BY <2>1, <2>2, <1>1, <1>2, <1>3, <1>a DEF Line, Ordered, After
  <2>3. CASE j \in 1..m
    BY <2>1, <2>3, <1>1, <1>3, <1>a DEF Line, Ordered, After
  <2> QED BY <2>2, <2>3, <1>1
<1>7. \A i \in 1..(m + 1), j \in 1..(n - 1) : After(i, runLog[i], pending[j])'
  <2> TAKE i \in 1..(m + 1), j \in 1..(n - 1)
  <2>1. CASE i = m + 1
    <3>1. Behind(pending[1], pending[j + 1])
      BY <1>1, <1>2, <1>a DEF Line, Ordered
    <3> QED BY <2>1, <3>1, <1>1, <1>2, <1>3 DEF After, Behind
  <2>2. CASE i \in 1..m
    BY <2>2, <1>1, <1>2, <1>3, <1>a DEF Line, Ordered, After
  <2> QED BY <2>1, <2>2, <1>1
<1>8. \A i, j \in 1..(n - 1) : i < j => Behind(pending[i], pending[j])'
  BY <1>1, <1>2, <1>a DEF Line, Ordered, Behind
<1> QED BY <1>2, <1>3, <1>4, <1>5, <1>6, <1>7, <1>8 DEF Line, Ordered

\* Closing drops what waits.
LEMMA ClearLine ==
  ASSUME IInv, ClearPending, UNCHANGED <<runLog, sent, redirects, startedAt>>, Starting' => Starting
  PROVE  Line'
<1>a. TypeOK /\ Line BY DEF IInv, Line
<1>1. Len(pending') = 0 /\ 1..Len(pending') = {} BY EmptySeq DEF ClearPending
<1>2. Counted' BY <1>1, <1>a, Numbers DEF Line, Counted, Starting, Prompts
<1>3. Known' /\ Ordered' BY <1>1, <1>a DEF Line, Known, Ordered, After
<1> QED BY <1>2, <1>3 DEF Line

\* Every step keeps the order.
LEMMA LineStep == IInv /\ [Next]_vars => Line'
<1> SUFFICES ASSUME IInv, [Next]_vars PROVE Line'
  OBVIOUS
<1>a. TypeOK /\ Line BY DEF IInv, Line
<1>1. CASE UNCHANGED vars
  BY <1>1, <1>a, LineKept DEF vars, ghosts, Starting
<1>2. CASE CloseAgent
  BY <1>2, ClearLine DEF CloseAgent, ghosts, Starting, Free
<1>3. CASE ResumeAgent
  BY <1>3, <1>a, LineKept DEF ResumeAgent, ghosts, Starting
<1>4. CASE CallerInterrupts
  BY <1>4, <1>a, LineKept DEF CallerInterrupts, ghosts, Starting, Free
<1>5. CASE DrainNotifications
  BY <1>5, <1>a, LineKept DEF DrainNotifications, ghosts, Starting
<1>6. CASE RequestInterrupt
  BY <1>6, <1>a, LineKept DEF RequestInterrupt, StopperFrame, ghosts, Starting
<1>7. CASE InterruptAll
  BY <1>7, ClearLine DEF InterruptAll, StopperFrame, ghosts, Starting
<1>8. CASE StopperInterrupts
  BY <1>8, <1>a, LineKept DEF StopperInterrupts, ghosts, Starting
<1>9. ASSUME NEW l \in Loops, EnterTurn(l) \/ EndTurn(l) \/ LeaveLoop(l) \/ Notify(l) PROVE Line'
  BY <1>9, <1>a, LineKept DEF EnterTurn, EndTurn, LeaveLoop, Notify, LoopFrame, ghosts, Starting
<1> QED
  BY <1>1, <1>2, <1>3, <1>4, <1>5, <1>6, <1>7, <1>8, <1>9, SendLine, StartLine, NextLine
  DEF Next, Send, SomeLoopStep, LoopStep

-----------------------------------------------------------------------------
(* The theorems.                                                           *)

\* spawn_agent leaves the caller about to start the first prompt.
LEMMA InitIInv == Init => IInv
<1> SUFFICES ASSUME Init PROVE IInv
  OBVIOUS
<1>1. 1 \in Prompts /\ 1 \in 0..MaxPrompts /\ 0 \in 0..MaxPrompts /\ 0 \in 0..MaxStops
  BY BoundsAssumption DEF Prompts
<1>2. /\ <<>> \in Seq(Prompts) /\ <<>> \in Seq(Statuses) /\ Len(pending) = 0 /\ Len(runLog) = 0
      /\ 1..Len(pending) = {} /\ 1..Len(runLog) = {}
  BY EmptySeq DEF Init
<1>3. TypeOK
  BY <1>1, <1>2 DEF Init, TypeOK, Off, Places, Final
<1>4. OneRunner /\ NoPromptStranded /\ StartIsFree
  BY DEF Init, Off, OneRunner, InRun, NoPromptStranded, StartIsFree
<1>5. Counted /\ Known /\ Ordered
  BY <1>2 DEF Init, Counted, Known, Ordered
<1> QED BY <1>3, <1>4, <1>5 DEF IInv

\* The inductive invariant holds throughout.
LEMMA IInvAlways == Spec => []IInv
<1>1. IInv /\ [Next]_vars => IInv'
  BY TypeStep, RunnerStep, LineStep DEF IInv, Runner, Line
<1> QED BY InitIInv, <1>1, PTL DEF Spec

\* Every field of an agent's record and every thread keeps its type, whatever
\* is sent, closed, reopened and interrupted meanwhile (core.py,
\* _LocalAgentRuntime).
THEOREM TypeCorrect == Spec => []TypeOK
<1>1. IInv => TypeOK BY DEF IInv
<1> QED BY IInvAlways, <1>1, PTL

\* The child session is run by one thread at a time, although send_input finds
\* the agent idle under the lock and starts the thread after it let go of it.
THEOREM OneThread == Spec => []OneRunner
<1>1. IInv => OneRunner BY DEF IInv
<1> QED BY IInvAlways, <1>1, PTL

\* No prompt waits in the queue of an agent that nobody runs: a loop that
\* leaves, a closing or a reopening does not strand one.
THEOREM NothingStranded == Spec => []NoPromptStranded
<1>1. IInv => NoPromptStranded BY DEF IInv
<1> QED BY IInvAlways, <1>1, PTL

\* Prompts start in the order they were sent, but for those sent with
\* interrupt=true, which go before everything that was still waiting.
THEOREM InOrder == Spec => []PromptOrder
<1>1. IInv => PromptOrder
  <2> SUFFICES ASSUME IInv PROVE PromptOrder
    OBVIOUS
  <2>1. DOMAIN runLog = 1..Len(runLog) BY Numbers, LenProperties DEF IInv
  <2> QED BY <2>1 DEF IInv, Ordered, After, PromptOrder
<1> QED BY IInvAlways, <1>1, PTL
=============================================================================
