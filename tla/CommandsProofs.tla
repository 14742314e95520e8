--------------------------- MODULE CommandsProofs ---------------------------
(***************************************************************************)
(* Proofs about the tools of a session.  About Commands: no command that   *)
(* runs is lost, no output is delivered twice or lost, and nothing runs    *)
(* beyond what was granted.  About Patches: the diff of a turn is what its *)
(* patches did, and a patch that is refused has changed nothing.           *)
(***************************************************************************)
EXTENDS Commands, Patches, SequenceTheorems, FiniteSetTheorems, WellFoundedInduction, TLAPS

-----------------------------------------------------------------------------
(* Types.                                                                  *)

Tools == {"none", "exec_command", "shell_command", "write_stdin"}
Steps == {"new", "get", "ask", "answer", "spawn", "register", "wait", "keep", "snap", "join",
          "take", "done"}
Kinds == {"none", "escalated", "preflight", "retry"}

\* The steps at which a call has a process, and those after its wait
WithProcess == {"register", "wait", "keep", "snap", "join", "take"}
Leaving == {"snap", "join", "take"}

CallType ==
  [pc : Steps, tool : Tools, req : Kinds, proc : 0..MaxProcs, bypass : BOOLEAN, more : BOOLEAN]
Chunks == Seq(Procs \X Nat \X BOOLEAN)
ProcType ==
  [status : {"none", "running", "ended"}, wrote : Nat, pipe : Chunks, open : BOOLEAN,
   child : BOOLEAN, doomed : BOOLEAN, bypass : BOOLEAN, by : Calls \cup {0}, tool : Tools,
   req : Kinds]
TextType == [head : Chunks, tail : Chunks]

TypeOK ==
  /\ cfg \in Settings
  /\ call \in [Calls -> CallType]
  /\ proc \in [Procs -> ProcType]
  /\ active \subseteq Started /\ sessions \subseteq Started
  /\ later \in [Procs -> SUBSET Procs]
  /\ victims \in [Threads -> Seq(Procs)]
  /\ \A c \in Calls : call[c].pc \in WithProcess => call[c].proc \in Started
  /\ \A p \in Started : proc[p].by \in Calls

-----------------------------------------------------------------------------
(* Sets of numbers, and sets as sequences.                                 *)

\* A set of numbers that is not empty has a least element.
LEMMA LeastNumber ==
  ASSUME NEW T, T \subseteq Nat, T # {}
  PROVE  \E x \in T : \A y \in T : x <= y
<1>1. PICK x \in T : \A y \in T : ~ (<<y, x>> \in OpToRel(<, Nat))
  BY NatLessThanWellFounded, WFMin
<1>2. \A y \in T : ~(y < x) BY <1>1 DEF OpToRel
<1> QED BY <1>2

\* Sets of processes are finite, with at most MaxProcs elements.
LEMMA FewProcs ==
  ASSUME NEW S, S \subseteq Procs
  PROVE  IsFiniteSet(S) /\ Cardinality(S) \in 0..MaxProcs
<1>1. MaxProcs \in Nat BY BoundsAssumption
<1>2. IsFiniteSet(Procs) /\ Cardinality(Procs) = MaxProcs BY <1>1, FS_Interval DEF Procs
<1> QED BY <1>1, <1>2, FS_Subset, FS_CardinalityType

\* The order in which a thread interrupts a set of processes has each of them.
LEMMA ListOfAll ==
  ASSUME NEW S, S \subseteq Procs
  PROVE  SetToSeq(S) \in Seq(Procs) /\ ToSet(SetToSeq(S)) = S
<1> DEFINE n == Cardinality(S)
<1>1. IsFiniteSet(S) /\ n \in Nat BY FewProcs
<1>2. PICK f : f \in Bijection(1..n, S)
  BY <1>1, FS_CardinalityType DEF ExistsBijection
<1>3. f \in [1..n -> S] /\ IsInjective(f) BY <1>2 DEF Bijection, Injection
<1> DEFINE g == SetToSeq(S)
<1>4. g \in [1..n -> S] /\ IsInjective(g) BY <1>3, Zenon DEF SetToSeq
<1> HIDE DEF g
<1>5. g \in Injection(1..n, S) BY <1>4 DEF Injection
<1>6. IsFiniteSet(1..n) /\ Cardinality(1..n) = n BY <1>1, FS_Interval
<1>7. g \in Surjection(1..n, S) BY <1>1, <1>5, <1>6, FS_Injection
<1>8. ToSet(g) = S BY <1>7 DEF ToSet, Surjection
<1>9. g \in Seq(S) BY <1>1, <1>4
<1>10. g \in Seq(Procs) BY <1>9
<1> QED BY <1>8, <1>10 DEF g

\* A process that is free can be chosen.
LEMMA FreeChosen ==
  ASSUME Free # {}
  PROVE  LET p == CHOOSE q \in Free : \A r \in Free : q <= r IN p \in Free
<1>1. Free \subseteq Nat BY BoundsAssumption DEF Free, Procs
<1>2. \E q \in Free : \A r \in Free : q <= r BY <1>1, LeastNumber
<1> QED BY <1>2

\* Only sessions are pruned.
LEMMA PrunedAreSessions == Pruned \subseteq sessions
BY DEF Pruned, ToPrune, Unprotected

\* What one thread's list becomes is a list.
LEMMA ListType ==
  ASSUME TypeOK, NEW t \in Threads, NEW l \in Seq(Procs)
  PROVE  [victims EXCEPT ![t] = l] \in [Threads -> Seq(Procs)]
BY DEF TypeOK

\* A step of one call keeps the types of the calls, and starts no process.
LEMMA ContinueType ==
  ASSUME TypeOK, NEW c \in Calls, NEW next \in CallType, Continue(c, next),
         next.pc \in WithProcess => next.proc \in Started
  PROVE  /\ call' \in [Calls -> CallType]
         /\ \A d \in Calls : call'[d].pc \in WithProcess => call'[d].proc \in Started
BY DEF TypeOK, Continue

\* The steps of a call that change only where it is.
LEMMA GotoType ==
  ASSUME TypeOK, NEW c \in Calls, NEW at \in Steps, Goto(c, at),
         at \in WithProcess => call[c].pc \in WithProcess
  PROVE  /\ call' \in [Calls -> CallType]
         /\ \A d \in Calls : call'[d].pc \in WithProcess => call'[d].proc \in Started
<1> DEFINE next == [call[c] EXCEPT !.pc = at]
<1>1. next \in CallType /\ next.pc = at /\ next.proc = call[c].proc BY DEF TypeOK, CallType
<1>2. Continue(c, next) BY DEF Goto
<1>3. next.pc \in WithProcess => next.proc \in Started BY <1>1 DEF TypeOK
<1> HIDE DEF next
<1> QED BY <1>1, <1>2, <1>3, ContinueType

\* A change of the processes that keeps who started each and what has started.
LEMMA ProcType_ ==
  ASSUME TypeOK, proc' \in [Procs -> ProcType],
         \A p \in Procs : proc'[p].by = proc[p].by /\ (proc'[p].status = "none" <=> proc[p].status = "none")
  PROVE  Started' = Started /\ \A p \in Started' : proc'[p].by \in Calls
BY DEF TypeOK, Started

\* A process changes, and the others do not.
LEMMA OneChanges ==
  ASSUME TypeOK, NEW p \in Procs, NEW r \in ProcType, proc' = [proc EXCEPT ![p] = r]
  PROVE  /\ proc' \in [Procs -> ProcType] /\ proc'[p] = r
         /\ \A q \in Procs \ {p} : proc'[q] = proc[q]
BY DEF TypeOK

-----------------------------------------------------------------------------
\* TypeOK is inductive.
LEMMA TypeInit == Init => TypeOK
<1> SUFFICES ASSUME Init PROVE TypeOK OBVIOUS
<1>1. Started = {} BY DEF Init, Started, Unborn
<1>2. call \in [Calls -> CallType] /\ \A c \in Calls : call[c].pc = "new"
  BY BoundsAssumption DEF Init, Idle, CallType, Steps, Tools, Kinds
<1>3. proc \in [Procs -> ProcType] BY DEF Init, Unborn, ProcType, Chunks, Tools, Kinds
<1> QED BY <1>1, <1>2, <1>3 DEF Init, TypeOK, WithProcess

\* What a new call is.
LEMMA FirstType ==
  ASSUME NEW tool \in {"exec_command", "shell_command", "write_stdin"}, NEW e \in BOOLEAN
  PROVE  FirstStep(tool, e) \in CallType /\ FirstStep(tool, e).pc \notin WithProcess
<1> DEFINE made(at, req, b) ==
      [pc |-> at, tool |-> tool, req |-> req, proc |-> 0, bypass |-> b, more |-> FALSE]
      Starts == {made("get", "none", FALSE), made("done", "none", FALSE),
                 made("ask", "escalated", TRUE), made("ask", "escalated", FALSE),
                 made("ask", "preflight", FALSE), made("spawn", "none", FALSE)}
<1>1. \A r \in Starts : r \in CallType /\ r.pc \notin WithProcess
  <2>1. 0 \in 0..MaxProcs BY BoundsAssumption
  <2>2. \A r \in Starts : r.pc \notin WithProcess BY DEF WithProcess
  <2>3. ASSUME NEW at \in Steps, NEW req \in Kinds, NEW b \in BOOLEAN
        PROVE  made(at, req, b) \in CallType
    BY <2>1 DEF CallType, Tools
  <2>4. /\ {"get", "done", "ask", "spawn"} \subseteq Steps
        /\ "none" \in Kinds /\ "escalated" \in Kinds /\ "preflight" \in Kinds
    BY DEF Steps, Kinds
  <2> HIDE DEF made
  <2>5. /\ made("get", "none", FALSE) \in CallType /\ made("done", "none", FALSE) \in CallType
        /\ made("ask", "escalated", TRUE) \in CallType
        /\ made("ask", "escalated", FALSE) \in CallType
        /\ made("ask", "preflight", FALSE) \in CallType
        /\ made("spawn", "none", FALSE) \in CallType
    BY <2>3, <2>4
  <2>6. \A r \in Starts : r \in CallType BY <2>5, Zenon
  <2> QED BY <2>2, <2>6
<1>2. FirstStep(tool, e) \in Starts
  <2>1. CASE tool = "exec_command" BY <2>1 DEF FirstStep, Idle
  <2>2. CASE tool = "shell_command" BY <2>2 DEF FirstStep, Idle
  <2>3. CASE tool = "write_stdin" BY <2>3 DEF FirstStep, Idle
  <2> QED BY <2>1, <2>2, <2>3
<1> HIDE DEF Starts
<1> QED BY <1>1, <1>2

\* A batch has new calls and the others as they were.
LEMMA BatchIs ==
  ASSUME TypeOK, NEW S \in SUBSET Calls, Batch(S)
  PROVE  \E E \in SUBSET Calls, tool \in [S -> {"exec_command", "shell_command", "write_stdin"}] :
           \A c \in Calls : call'[c] = IF c \in S THEN FirstStep(tool[c], c \in E) ELSE call[c]
<1>1. \A c \in Calls : cfg.tools[c] \subseteq {"exec_command", "shell_command", "write_stdin"}
  BY CallsAssumption DEF TypeOK
<1>2. PICK E \in SUBSET (S \cap Escalable), tool \in [S -> UNION {cfg.tools[c] : c \in S}] :
        /\ \A c \in S : tool[c] \in cfg.tools[c]
        /\ call' = [c \in Calls |-> IF c \in S THEN FirstStep(tool[c], c \in E) ELSE call[c]]
  BY DEF Batch
<1>3. tool \in [S -> {"exec_command", "shell_command", "write_stdin"}] BY <1>1, <1>2
<1>4. E \in SUBSET Calls OBVIOUS
<1>5. \A c \in Calls : call'[c] = IF c \in S THEN FirstStep(tool[c], c \in E) ELSE call[c]
  BY <1>2, Zenon
<1> QED BY <1>3, <1>4, <1>5

\* The types through a batch.
LEMMA BatchType == ASSUME TypeOK, NEW S \in SUBSET Calls, Batch(S) PROVE TypeOK'
<1>1. PICK E \in SUBSET Calls, tool \in [S -> {"exec_command", "shell_command", "write_stdin"}] :
        \A c \in Calls : call'[c] = IF c \in S THEN FirstStep(tool[c], c \in E) ELSE call[c]
  BY BatchIs, Zenon
<1>2. \A c \in S : /\ FirstStep(tool[c], c \in E) \in CallType
                   /\ FirstStep(tool[c], c \in E).pc \notin WithProcess
  <2> SUFFICES ASSUME NEW c \in S
               PROVE  /\ FirstStep(tool[c], c \in E) \in CallType
                      /\ FirstStep(tool[c], c \in E).pc \notin WithProcess
    OBVIOUS
  <2>1. (c \in E) \in BOOLEAN /\ tool[c] \in {"exec_command", "shell_command", "write_stdin"}
    OBVIOUS
  <2> QED BY <2>1, FirstType, Zenon
<1>3. /\ UNCHANGED <<cfg, stops, gate, table, proc, victims, outVars>>
      /\ call' = [c \in Calls |-> call'[c]]
  BY DEF Batch
<1>4. Started' = Started BY <1>3 DEF Started
<1>5. \A c \in Calls : call'[c] \in CallType BY <1>1, <1>2 DEF TypeOK
<1>6. call' \in [Calls -> CallType] BY <1>3, <1>5
<1>7. \A c \in Calls : call'[c].pc \in WithProcess => call'[c].proc \in Started
  BY <1>1, <1>2 DEF TypeOK
<1> QED BY <1>3, <1>4, <1>6, <1>7 DEF TypeOK, table

\* The types through the actions that ask.
LEMMA AskType == ASSUME TypeOK, NEW c \in Calls, Ask(c) \/ Answered(c) PROVE TypeOK'
<1>1. /\ UNCHANGED <<cfg, stops, table, proc, victims, outVars>>
      /\ Goto(c, "answer") \/ Goto(c, "spawn") \/ Goto(c, "done")
  <2>1. CASE Ask(c) BY <2>1 DEF Ask, Permitted, gate
  <2>2. CASE Answered(c) BY <2>2 DEF Answered, Permitted, gate
  <2> QED BY <2>1, <2>2
<1>2. /\ call' \in [Calls -> CallType]
      /\ \A d \in Calls : call'[d].pc \in WithProcess => call'[d].proc \in Started
  BY <1>1, GotoType DEF Steps, WithProcess
<1>3. Started' = Started BY <1>1 DEF Started
<1> QED BY <1>1, <1>2, <1>3 DEF TypeOK, table

\* A start of a command, if it succeeds.
SpawnOf(c, p) ==
  /\ p \in Free
  /\ proc' = [proc EXCEPT ![p] =
       [Unborn EXCEPT !.status = "running", !.open = TRUE, !.by = c,
                      !.tool = call[c].tool, !.req = call[c].req, !.bypass = Unsandboxed(c)]]
  /\ Continue(c, [call[c] EXCEPT !.pc = "register", !.proc = p])
  /\ reader' = [reader EXCEPT ![p] = "select"]
  /\ Touch(p)
  /\ UNCHANGED <<cfg, stops, gate, victims, active, sessions, fresh, delivered, ends, dropped>>

\* Spawn fails, or starts one process.
LEMMA SpawnIs ==
  ASSUME NEW c, Spawn(c)
  PROVE  \/ Goto(c, "done") /\ UNCHANGED <<cfg, stops, gate, victims, table, proc, outVars>>
         \/ \E p \in Free : SpawnOf(c, p)
<1>1. CASE Goto(c, "done") /\ UNCHANGED <<table, proc, outVars>> BY <1>1 DEF Spawn
<1>2. CASE ~(Goto(c, "done") /\ UNCHANGED <<table, proc, outVars>>)
  <2> DEFINE p == CHOOSE q \in Free : \A r \in Free : q <= r
  <2>1. Free # {} BY <1>2 DEF Spawn
  <2>2. p \in Free BY <2>1, FreeChosen
  <2>3. SpawnOf(c, p) BY <1>2, <2>2 DEF Spawn, SpawnOf
  <2> QED BY <2>2, <2>3
<1> QED BY <1>1, <1>2

\* The types through Spawn.
LEMMA SpawnType ==
  ASSUME TypeOK, NEW c \in Calls, At(c, "spawn"), NEW p \in Free, SpawnOf(c, p)
  PROVE  /\ TypeOK' /\ p \in Procs /\ Started' = Started \cup {p} /\ p \notin Started
         /\ \A q \in Procs \ {p} : proc'[q] = proc[q]
         /\ proc'[p].by = c /\ proc'[p].status = "running" /\ proc'[p].tool = call[c].tool
         /\ proc'[p].bypass = Unsandboxed(c) /\ proc'[p].req = call[c].req
<1> DEFINE new == [Unborn EXCEPT !.status = "running", !.open = TRUE, !.by = c,
                                 !.tool = call[c].tool, !.req = call[c].req,
                                 !.bypass = Unsandboxed(c)]
           next == [call[c] EXCEPT !.pc = "register", !.proc = p]
<1>1. p \in Procs /\ p \notin Started /\ Procs = 1..MaxProcs /\ MaxProcs \in Nat
  BY BoundsAssumption DEF Free, Started, Procs
<1>2. call[c] \in CallType BY DEF TypeOK
<1>3. call[c].tool \in Tools /\ call[c].req \in Kinds /\ Unsandboxed(c) \in BOOLEAN
  BY <1>2 DEF CallType, Unsandboxed
<1>4. /\ new \in ProcType /\ new.by = c /\ new.status = "running" /\ new.tool = call[c].tool
      /\ new.bypass = Unsandboxed(c) /\ new.req = call[c].req
  <2>1. Unborn \in ProcType BY DEF Unborn, ProcType, Chunks, Tools, Kinds
  <2>2. "running" \in {"none", "running", "ended"} /\ c \in Calls \cup {0} OBVIOUS
  <2> QED BY <1>3, <2>1, <2>2 DEF ProcType
<1>5. next \in CallType /\ next.pc = "register" /\ next.proc = p
  <2>1. p \in 0..MaxProcs /\ "register" \in Steps BY <1>1 DEF Steps
  <2> QED BY <1>2, <2>1 DEF CallType
<1> HIDE DEF new, next
<1>6. proc' = [proc EXCEPT ![p] = new] BY DEF SpawnOf, new
<1>7. proc' \in [Procs -> ProcType] /\ proc'[p] = new /\ \A q \in Procs \ {p} : proc'[q] = proc[q]
  BY <1>1, <1>4, <1>6 DEF TypeOK
<1>8. Started' = Started \cup {p} BY <1>1, <1>4, <1>7 DEF Started
<1>9. call' = [call EXCEPT ![c] = next] BY DEF SpawnOf, Continue, next
<1>10. call' \in [Calls -> CallType] BY <1>5, <1>9 DEF TypeOK
<1>11. \A d \in Calls : call'[d].pc \in WithProcess => call'[d].proc \in Started'
  BY <1>5, <1>8, <1>9 DEF TypeOK
<1>12. \A q \in Started' : proc'[q].by \in Calls BY <1>4, <1>7, <1>8 DEF TypeOK, Started
<1>13. later' \in [Procs -> SUBSET Procs] BY <1>1 DEF SpawnOf, Touch, TypeOK
<1>14. UNCHANGED <<cfg, victims, active, sessions>> BY DEF SpawnOf
<1> QED BY <1>1, <1>4, <1>7, <1>8, <1>10, <1>11, <1>12, <1>13, <1>14 DEF TypeOK

\* The types through the steps of a call that has its process.
LEMMA RegisterActiveType == ASSUME TypeOK, NEW c \in Calls, RegisterActive(c) PROVE TypeOK'
<1>1. /\ call' \in [Calls -> CallType]
      /\ \A d \in Calls : call'[d].pc \in WithProcess => call'[d].proc \in Started
  BY GotoType DEF RegisterActive, At, Steps, WithProcess
<1>2. Started' = Started BY DEF RegisterActive, Started
<1>3. active' \subseteq Started BY DEF RegisterActive, At, TypeOK, WithProcess
<1> QED BY <1>1, <1>2, <1>3 DEF TypeOK, RegisterActive

\* The types through the end of a wait.
LEMMA WaitedType ==
  ASSUME TypeOK, NEW c \in Calls, ExecWaited(c) \/ ShellWaited(c) \/ StdinWaited(c)
  PROVE  TypeOK'
<1>1. /\ At(c, "wait") /\ (Goto(c, "keep") \/ Goto(c, "snap"))
      /\ UNCHANGED <<cfg, table, proc>>
  BY DEF ExecWaited, ShellWaited, StdinWaited
<1>2. /\ call' \in [Calls -> CallType]
      /\ \A d \in Calls : call'[d].pc \in WithProcess => call'[d].proc \in Started
  BY <1>1, GotoType DEF At, Steps, WithProcess
<1>3. Started' = Started BY <1>1 DEF Started
<1>4. victims' = victims \/ victims' = [victims EXCEPT ![c] = <<call[c].proc>>]
  BY DEF ExecWaited, ShellWaited, StdinWaited
<1>5. <<call[c].proc>> \in Seq(Procs) BY <1>1 DEF TypeOK, At, WithProcess, Started
<1>6. victims' \in [Threads -> Seq(Procs)] BY <1>4, <1>5, ListType DEF TypeOK, Threads
<1> QED BY <1>1, <1>2, <1>3, <1>6 DEF TypeOK, table

\* The types through the entry of a session, and the pruning of another.
LEMMA RegisterSessionType == ASSUME TypeOK, NEW c \in Calls, RegisterSession(c) PROVE TypeOK'
<1> DEFINE next == [call[c] EXCEPT !.pc = "snap", !.more = TRUE]
<1>1. next \in CallType /\ next.pc = "snap" /\ next.proc = call[c].proc
  BY ZenonT(40) DEF TypeOK, CallType, Steps
<1>2. Continue(c, next) /\ call[c].proc \in Started
  BY DEF RegisterSession, TypeOK, At, WithProcess
<1> HIDE DEF next
<1>3. /\ call' \in [Calls -> CallType]
      /\ \A d \in Calls : call'[d].pc \in WithProcess => call'[d].proc \in Started
  BY <1>1, <1>2, ContinueType
<1>4. Started' = Started BY DEF RegisterSession, Started
<1>5. sessions' \subseteq Started BY <1>2 DEF RegisterSession, TypeOK
<1>6. Pruned \subseteq Procs BY PrunedAreSessions DEF TypeOK, Started
<1>7. StopPruned \in Seq(Procs) BY <1>6, ListOfAll DEF StopPruned
<1>8. victims' \in [Threads -> Seq(Procs)] BY <1>7, ListType DEF RegisterSession, Threads
<1> QED BY <1>3, <1>4, <1>5, <1>8 DEF TypeOK, RegisterSession

\* The types through the look at the process before its output is taken.
LEMMA SnapshotType == ASSUME TypeOK, NEW c \in Calls, Snapshot(c) PROVE TypeOK'
<1>1. /\ call' \in [Calls -> CallType]
      /\ \A d \in Calls : call'[d].pc \in WithProcess => call'[d].proc \in Started
  BY GotoType DEF Snapshot, At, Steps, WithProcess
<1>2. Started' = Started BY DEF Snapshot, Started
<1>3. call[c].proc \in Procs BY DEF Snapshot, At, TypeOK, WithProcess, Started
<1>4. later' \in [Procs -> SUBSET Procs] BY <1>3 DEF Snapshot, Touch, TypeOK
<1> QED BY <1>1, <1>2, <1>4 DEF TypeOK, Snapshot

\* The types through the closing of the streams of a process that ended.
LEMMA CloseType == ASSUME TypeOK, NEW c \in Calls, JoinAndClose(c) PROVE TypeOK'
<1>1. /\ call' \in [Calls -> CallType]
      /\ \A d \in Calls : call'[d].pc \in WithProcess => call'[d].proc \in Started
  BY GotoType DEF JoinAndClose, At, Steps, WithProcess
<1>2. /\ proc' \in [Procs -> ProcType]
      /\ \A p \in Procs : proc'[p].by = proc[p].by /\ proc'[p].status = proc[p].status
  <2> DEFINE p == call[c].proc
  <2>1. p \in Procs BY DEF JoinAndClose, At, TypeOK, WithProcess, Started
  <2>2. proc' = [proc EXCEPT ![p].open = FALSE] BY DEF JoinAndClose, ClosePipes
  <2> HIDE DEF p
  <2> DEFINE r == [proc[p] EXCEPT !.open = FALSE]
  <2>3. proc[p] \in ProcType BY <2>1 DEF TypeOK
  <2>4. r \in ProcType /\ r.by = proc[p].by /\ r.status = proc[p].status BY <2>3 DEF ProcType
  <2>5. proc' = [proc EXCEPT ![p] = r] BY <2>2
  <2> HIDE DEF r
  <2> QED BY <2>1, <2>4, <2>5, OneChanges
<1>3. Started' = Started /\ \A p \in Started' : proc'[p].by \in Calls BY <1>2, ProcType_
<1> QED BY <1>1, <1>2, <1>3 DEF TypeOK, JoinAndClose, table

\* The types through the taking of the output.
LEMMA TakeType == ASSUME TypeOK, NEW c \in Calls, TakeOutput(c) PROVE TypeOK'
<1> DEFINE next == [call[c] EXCEPT !.pc = "ask", !.req = "retry", !.bypass = TRUE]
<1>1. next \in CallType /\ next.pc = "ask" /\ next.proc = call[c].proc
  <2>1. call[c] \in CallType /\ "ask" \in Steps /\ "retry" \in Kinds BY DEF TypeOK, Steps, Kinds
  <2> QED BY <2>1 DEF CallType
<1>2. Goto(c, "done") \/ Continue(c, next) BY DEF TakeOutput
<1> HIDE DEF next
<1>3. /\ call' \in [Calls -> CallType]
      /\ \A d \in Calls : call'[d].pc \in WithProcess => call'[d].proc \in Started
  <2>1. CASE Goto(c, "done") BY <2>1, GotoType DEF Steps, WithProcess
  <2>2. CASE Continue(c, next) BY <1>1, <2>2, ContinueType DEF WithProcess
  <2> QED BY <1>2, <2>1, <2>2
<1>4. Started' = Started BY DEF TakeOutput, Started
<1>5. active' \subseteq active /\ sessions' \subseteq sessions BY DEF TakeOutput
<1> QED BY <1>3, <1>4, <1>5 DEF TypeOK, TakeOutput

\* The types through the start of write_stdin.
LEMMA StdinGetType == ASSUME TypeOK, NEW c \in Calls, StdinGet(c) PROVE TypeOK'
<1>1. UNCHANGED <<cfg, stops, gate, table, proc, victims, outVars>> BY DEF StdinGet
<1>2. \/ Goto(c, "done")
      \/ \E p \in sessions : Continue(c, [call[c] EXCEPT !.pc = "wait", !.proc = p])
  BY DEF StdinGet, Goto
<1>3. /\ call' \in [Calls -> CallType]
      /\ \A d \in Calls : call'[d].pc \in WithProcess => call'[d].proc \in Started
  <2>1. CASE Goto(c, "done") BY <2>1, GotoType DEF Steps, WithProcess
  <2>2. ASSUME NEW p \in sessions, Continue(c, [call[c] EXCEPT !.pc = "wait", !.proc = p])
        PROVE  <1>3
    <3> DEFINE next == [call[c] EXCEPT !.pc = "wait", !.proc = p]
    <3>1. p \in Started /\ p \in 0..MaxProcs
      BY BoundsAssumption DEF TypeOK, Started, Procs
    <3>2. next \in CallType /\ next.pc = "wait" /\ next.proc = p
      BY <3>1, ZenonT(40) DEF TypeOK, CallType, Steps
    <3> HIDE DEF next
    <3>3. Continue(c, next) BY <2>2 DEF next
    <3> QED BY <3>1, <3>2, <3>3, ContinueType
  <2> QED BY <1>2, <2>1, <2>2
<1>4. Started' = Started BY <1>1 DEF Started
<1> QED BY <1>1, <1>3, <1>4 DEF TypeOK, table

\* ... and through /stop, interrupts, what processes do and what readers read.
LEMMA StopType == ASSUME TypeOK, StopAll PROVE TypeOK'
<1>1. active \cup sessions \subseteq Procs BY DEF TypeOK, Started
<1>2. SetToSeq(active \cup sessions) \in Seq(Procs) BY <1>1, ListOfAll
<1>3. victims' \in [Threads -> Seq(Procs)] BY <1>2, ListType DEF StopAll, Threads
<1>4. Started' = Started BY DEF StopAll, Started
<1> QED BY <1>3, <1>4 DEF TypeOK, StopAll

\* The types through the interrupt of one process.
LEMMA InterruptType == ASSUME TypeOK, NEW t \in Threads, Interrupt(t) PROVE TypeOK'
<1> DEFINE p == victims[t][1]
<1>1. victims[t] \in Seq(Procs) /\ victims[t] # <<>> BY DEF Interrupt, TypeOK
<1>2. p \in Procs /\ Tail(victims[t]) \in Seq(Procs) BY <1>1
<1>3. proc[p] \in ProcType /\ Doom(p) \in BOOLEAN BY <1>2 DEF TypeOK, ProcType, Doom, Running
<1>4. proc' = [proc EXCEPT ![p].open = FALSE, ![p].doomed = Doom(p)] BY DEF Interrupt
<1> HIDE DEF p
<1>5. /\ proc' \in [Procs -> ProcType]
      /\ \A q \in Procs : proc'[q].by = proc[q].by /\ proc'[q].status = proc[q].status
  BY <1>2, <1>3, <1>4 DEF TypeOK, ProcType
<1>6. Started' = Started /\ \A q \in Started' : proc'[q].by \in Calls BY <1>5, ProcType_
<1>7. victims' \in [Threads -> Seq(Procs)] BY <1>2, ListType DEF Interrupt
<1> QED BY <1>5, <1>6, <1>7 DEF TypeOK, Interrupt, table

\* A read takes the first of what is in the stream, and leaves the rest.
LEMMA StreamSplit ==
  ASSUME TypeOK, NEW p \in Procs
  PROVE  /\ ReadNext(p) \in Chunks /\ Behind(p) \in Chunks
         /\ proc[p].pipe = ReadNext(p) \o Behind(p)
         /\ proc[p].pipe # <<>> => ReadNext(p) # <<>>
<1> DEFINE s == proc[p].pipe
           n == Least(ReadBytes, Len(s))
           Byte == Procs \X Nat \X BOOLEAN
<1>1. s \in Seq(Byte) BY DEF TypeOK, ProcType, Chunks
<1>2. Len(s) \in Nat /\ ReadBytes \in Nat \ {0} BY <1>1, BoundsAssumption, LenProperties
<1>3. n \in 0..Len(s) /\ (Len(s) # 0 => n # 0) BY <1>2 DEF Least
<1>4. ReadNext(p) = SubSeq(s, 1, n) BY DEF ReadNext, First
<1> HIDE DEF s, n, Byte
<1>5. \A i \in 1..Len(s) : s[i] \in Byte BY <1>1, ElementOfSeq
<1>6. /\ SubSeq(s, 1, n) \in Seq(Byte) /\ Len(SubSeq(s, 1, n)) = n
      /\ \A i \in 1..n : SubSeq(s, 1, n)[i] = s[i]
  <2>1. \A i \in 1..n : s[i] \in Byte BY <1>2, <1>3, <1>5
  <2> QED BY <1>1, <1>2, <1>3, <2>1, SubSeqProperties
<1>7. Behind(p) = SubSeq(s, n + 1, Len(s)) BY <1>4, <1>6 DEF Behind, s
<1>8. /\ SubSeq(s, n + 1, Len(s)) \in Seq(Byte) /\ Len(SubSeq(s, n + 1, Len(s))) = Len(s) - n
      /\ \A i \in 1..(Len(s) - n) : SubSeq(s, n + 1, Len(s))[i] = s[n + i]
  <2>1. \A i \in (n + 1)..Len(s) : s[i] \in Byte BY <1>2, <1>3, <1>5
  <2>2. n + 1 \in Nat /\ n \in Nat BY <1>2, <1>3
  <2>3. /\ SubSeq(s, n + 1, Len(s)) \in Seq(Byte)
        /\ Len(SubSeq(s, n + 1, Len(s))) = IF n + 1 <= Len(s) THEN Len(s) - (n + 1) + 1 ELSE 0
        /\ \A i \in 1..(Len(s) - (n + 1) + 1) : SubSeq(s, n + 1, Len(s))[i] = s[(n + 1) + i - 1]
    BY <1>1, <1>2, <2>1, <2>2, SubSeqProperties
  <2> QED BY <1>2, <1>3, <2>2, <2>3
<1>9. SubSeq(s, 1, n) \o SubSeq(s, n + 1, Len(s)) = s
  <2> DEFINE a == SubSeq(s, 1, n)
             b == SubSeq(s, n + 1, Len(s))
  <2>1. /\ a \in Seq(Byte) /\ b \in Seq(Byte) /\ Len(a) = n /\ Len(b) = Len(s) - n
        /\ \A i \in 1..n : a[i] = s[i]
        /\ \A i \in 1..(Len(s) - n) : b[i] = s[n + i]
    BY <1>6, <1>8
  <2> HIDE DEF a, b
  <2>2. /\ a \o b \in Seq(Byte) /\ Len(a \o b) = Len(s)
        /\ \A i \in 1..(Len(a) + Len(b)) : (a \o b)[i] = IF i <= Len(a) THEN a[i] ELSE b[i - Len(a)]
    BY <1>2, <1>3, <2>1, ConcatProperties
  <2>3. \A i \in 1..Len(s) : (a \o b)[i] = s[i]
    <3> SUFFICES ASSUME NEW i \in 1..Len(s) PROVE (a \o b)[i] = s[i] OBVIOUS
    <3>1. CASE i <= n
      BY <1>2, <1>3, <2>1, <2>2, <3>1
    <3>2. CASE ~(i <= n)
      <4>1. i - n \in 1..(Len(s) - n) /\ n + (i - n) = i BY <1>2, <1>3, <3>2
      <4>2. (a \o b)[i] = b[i - n] BY <1>2, <1>3, <2>1, <2>2, <3>2
      <4> QED BY <2>1, <4>1, <4>2
    <3> QED BY <3>1, <3>2
  <2>4. a \o b = s BY <1>1, <2>2, <2>3, SeqEqual
  <2> QED BY <2>4 DEF a, b
<1>10. s # <<>> => SubSeq(s, 1, n) # <<>>
  <2>1. s # <<>> => Len(s) # 0 BY <1>1, EmptySeq
  <2>2. Len(<<>>) = 0 BY EmptySeq
  <2> QED BY <1>3, <1>6, <2>1, <2>2
<1> QED BY <1>4, <1>6, <1>7, <1>8, <1>9, <1>10 DEF Chunks, Byte, s

\* What a process keeps while it runs: who started it and how
Same(r, s) ==
  /\ r.by = s.by /\ r.tool = s.tool /\ r.req = s.req
  /\ r.bypass = s.bypass /\ r.doomed = s.doomed

\* The types through what processes and readers do, and what those steps leave alone.
LEMMA ProcessType ==
  ASSUME TypeOK, NEW p \in Procs, Write(p) \/ Exit(p) \/ ChildExits(p) \/ ReaderStep(p)
  PROVE  /\ TypeOK' /\ Started' = Started
         /\ UNCHANGED <<cfg, stops, call, gate, table, victims>>
         /\ \A q \in Procs : Same(proc'[q], proc[q]) /\ (Running(q)' => Running(q))
<1>1. UNCHANGED <<cfg, stops, call, gate, table, victims>>
  BY DEF Write, Exit, ChildExits, ReaderStep, ReaderReads, ReaderEnds
<1>2. /\ proc' \in [Procs -> ProcType]
      /\ \A q \in Procs : /\ Same(proc'[q], proc[q])
                          /\ Running(q)' => Running(q)
                          /\ proc'[q].status = "none" <=> proc[q].status = "none"
  <2>1. CASE Write(p)
    <3>1. proc[p] \in ProcType BY DEF TypeOK
    <3> DEFINE n == proc[p].wrote + 1
               b == <<p, n, TRUE>>
               r == [proc[p] EXCEPT !.wrote = n, !.pipe = Append(proc[p].pipe, b)]
    <3>2. proc[p].pipe \in Chunks /\ n \in Nat BY <3>1 DEF ProcType
    <3>3. b \in Procs \X Nat \X BOOLEAN BY <3>2
    <3>4. proc' = [proc EXCEPT ![p] = r] BY <2>1, <3>1 DEF Write, ProcType
    <3> HIDE DEF b, n
    <3>5. Append(proc[p].pipe, b) \in Chunks BY <3>2, <3>3 DEF Chunks
    <3>6. r \in ProcType /\ Same(r, proc[p]) /\ r.status = proc[p].status
      BY <3>1, <3>2, <3>5 DEF ProcType, Same
    <3> HIDE DEF r
    <3>7. proc' \in [Procs -> ProcType] /\ proc'[p] = r /\ \A q \in Procs \ {p} : proc'[q] = proc[q]
      BY <3>4, <3>6 DEF TypeOK
    <3> QED BY <3>6, <3>7 DEF Running, Same
  <2>2. CASE Exit(p)
    <3>1. PICK child \in BOOLEAN : proc' = [proc EXCEPT ![p].status = "ended", ![p].child = child]
      BY <2>2, Zenon DEF Exit
    <3> DEFINE r == [proc[p] EXCEPT !.status = "ended", !.child = child]
    <3>2. proc[p] \in ProcType BY DEF TypeOK
    <3>3. r \in ProcType /\ Same(r, proc[p]) /\ r.status = "ended" BY <3>2 DEF ProcType, Same
    <3>4. proc' = [proc EXCEPT ![p] = r] BY <3>1
    <3> HIDE DEF r
    <3>5. proc' \in [Procs -> ProcType] /\ proc'[p] = r /\ \A q \in Procs \ {p} : proc'[q] = proc[q]
      BY <3>3, <3>4, OneChanges
    <3> QED BY <2>2, <3>3, <3>5 DEF Exit, Running, Same
  <2>3. CASE ChildExits(p) BY <2>3, ZenonT(40) DEF ChildExits, TypeOK, ProcType, Running, Same
  <2>4. CASE ReaderStep(p)
    <3>1. Behind(p) \in Chunks BY StreamSplit
    <3>2. proc' = proc \/ proc' = [proc EXCEPT ![p].pipe = Behind(p)]
      BY <2>4 DEF ReaderStep, ReaderReads, ReaderEnds
    <3> DEFINE r == [proc[p] EXCEPT !.pipe = Behind(p)]
    <3>3. proc[p] \in ProcType BY DEF TypeOK
    <3>4. r \in ProcType /\ Same(r, proc[p]) /\ r.status = proc[p].status
      BY <3>1, <3>3 DEF ProcType, Same
    <3>5. CASE proc' = proc BY <3>5 DEF Same, Running, TypeOK
    <3>6. CASE proc' = [proc EXCEPT ![p].pipe = Behind(p)]
      <4>1. proc' = [proc EXCEPT ![p] = r] BY <3>6
      <4> HIDE DEF r
      <4>2. proc' \in [Procs -> ProcType] /\ proc'[p] = r /\ \A q \in Procs \ {p} : proc'[q] = proc[q]
        BY <3>4, <4>1, OneChanges
      <4> QED BY <3>4, <4>2 DEF Running, Same
    <3> QED BY <3>2, <3>5, <3>6
  <2> QED BY <2>1, <2>2, <2>3, <2>4
<1>3. Started' = Started /\ \A q \in Started' : proc'[q].by \in Calls BY <1>2, ProcType_ DEF Same
<1> QED BY <1>1, <1>2, <1>3 DEF TypeOK, table

\* Every step keeps the types.
LEMMA TypeStep == ASSUME TypeOK, [Next]_vars PROVE TypeOK'
<1>1. CASE UNCHANGED vars BY <1>1 DEF vars, table, gate, outVars, TypeOK, Started
<1>2. CASE StopAll BY <1>2, StopType
<1>3. ASSUME NEW S \in SUBSET Calls \ {{}}, Batch(S) PROVE TypeOK' BY <1>3, BatchType
<1>4. ASSUME NEW c \in Calls, CallStep(c) PROVE TypeOK'
  <2>1. CASE Spawn(c)
    <3>1. CASE Goto(c, "done") /\ UNCHANGED <<cfg, stops, gate, victims, table, proc, outVars>>
      <4>1. Started' = Started BY <3>1 DEF Started
      <4>2. /\ call' \in [Calls -> CallType]
            /\ \A d \in Calls : call'[d].pc \in WithProcess => call'[d].proc \in Started
        BY <3>1, GotoType DEF Steps, WithProcess
      <4> QED BY <3>1, <4>1, <4>2 DEF TypeOK, table
    <3>2. ASSUME NEW p \in Free, SpawnOf(c, p) PROVE TypeOK'
      BY <2>1, <3>2, SpawnType DEF Spawn
    <3> QED BY <2>1, <3>1, <3>2, SpawnIs
  <2> QED BY <1>4, <2>1, AskType, RegisterActiveType, WaitedType, RegisterSessionType, SnapshotType,
             CloseType, TakeType, StdinGetType DEF CallStep
<1>5. ASSUME NEW t \in Threads, Interrupt(t) PROVE TypeOK' BY <1>5, InterruptType
<1>6. ASSUME NEW p \in Procs, Write(p) \/ Exit(p) \/ ChildExits(p) \/ ReaderStep(p) PROVE TypeOK'
  BY <1>6, ProcessType
<1> QED BY <1>1, <1>2, <1>3, <1>4, <1>5, <1>6 DEF Next

\* Every call and every process has its type, in every behaviour.
THEOREM CommandsTyped == Spec => []TypeOK
<1> QED BY TypeInit, TypeStep, PTL DEF Spec

-----------------------------------------------------------------------------
(* What runs can be found.                                                 *)

\* A call that runs a command of its own, not one that writes to a session
RunsIt(c) == call[c].tool \in Parallel

\* The tool of a call fits the step it is at
ToolFits(r) ==
  /\ r.pc # "new" => r.tool # "none"
  /\ r.pc = "get" => r.tool = "write_stdin"
  /\ r.pc \in {"ask", "answer", "spawn", "register"} => r.tool \in Parallel
  /\ r.pc = "keep" => r.tool = "exec_command"

\* ... and a call that runs a command started the process it has
CallOf(c) ==
  /\ ToolFits(call[c])
  /\ (RunsIt(c) /\ call[c].pc \in WithProcess) => proc[call[c].proc].by = c

\* An active command is that of a call which is past its registration
ActiveOf(p) ==
  LET c == proc[p].by IN
  /\ call[c].proc = p /\ RunsIt(c)
  /\ call[c].pc \in WithProcess \ {"register"}

\* A process that its call may let go
Listed(p) == \E t \in Threads : p \in ToSet(victims[t])
Found(p) == p \in sessions \/ proc[p].doomed \/ Listed(p)

Held(c) == (RunsIt(c) /\ call[c].pc \in Leaving /\ Running(call[c].proc)) => Found(call[c].proc)

\* A call has a list only when it is about to go through it
ListOf(c) == victims[c] # <<>> => call[c].pc = "snap"

Kept_(p) == Running(p) =>
  p \in active \/ Found(p) \/ (At(proc[p].by, "register") /\ Owner(p).proc = p)

\* last_used orders the processes that were started
Order ==
  /\ \A p \in Procs : p \notin later[p] /\ \A q \in later[p] : later[q] \subseteq later[p]
  /\ \A p, q \in Started : p = q \/ p \in later[q] \/ q \in later[p]

OwnedInv ==
  /\ \A c \in Calls : CallOf(c) /\ Held(c) /\ ListOf(c)
  /\ \A p \in active : ActiveOf(p)
  /\ \A p \in Started : Kept_(p)
  /\ Order
  /\ Cardinality(sessions) <= MaxSessions

\* The invariant implies the property.
LEMMA OwnedFollows == ASSUME TypeOK, OwnedInv PROVE Owned
<1>1. Cardinality(sessions) <= MaxSessions BY DEF OwnedInv
<1>2. ASSUME NEW p \in Started, Running(p)
      PROVE  \/ p \in active \cup sessions \/ proc[p].doomed
             \/ \E t \in Threads : p \in ToSet(victims[t])
             \/ At(proc[p].by, "register") /\ Owner(p).proc = p
  BY <1>2 DEF OwnedInv, Kept_, Found, Listed
<1>3. ASSUME NEW p \in active PROVE proc[p].by \in InFlight
  <2>1. ActiveOf(p) /\ proc[p].by \in Calls BY DEF OwnedInv, TypeOK
  <2> QED BY <2>1 DEF ActiveOf, InFlight, WithProcess
<1> QED BY <1>1, <1>2, <1>3 DEF Owned

\* The use of a process makes it the latest.
LEMMA OrderTouched ==
  ASSUME TypeOK, Order, NEW p \in Procs, Touch(p), Started' = Started \cup {p}
  PROVE  Order'
<1>1. \A q \in Procs : later'[q] = IF q = p THEN {} ELSE later[q] \cup {p} BY DEF Touch
<1>2. \A q \in Procs : later[q] \subseteq Procs BY DEF TypeOK
<1>3. ASSUME NEW q \in Procs
      PROVE  q \notin later'[q] /\ \A r \in later'[q] : later'[r] \subseteq later'[q]
  BY <1>1, <1>2, ZenonT(40) DEF Order
<1>4. Started' \subseteq Procs BY DEF Started
<1>5. ASSUME NEW q \in Started', NEW r \in Started'
      PROVE  q = r \/ q \in later'[r] \/ r \in later'[q]
  <2>1. CASE q = p \/ r = p BY <1>1, <1>4, <2>1
  <2>2. CASE q # p /\ r # p BY <1>1, <1>4, <2>2, ZenonT(40) DEF Order
  <2> QED BY <2>1, <2>2
<1> QED BY <1>3, <1>5 DEF Order

\* Among processes that were started one was used before the others.
LEMMA OldestIs ==
  ASSUME TypeOK, Order, NEW S \in SUBSET Started, S # {}
  PROVE  \E p \in S : S \ {p} \subseteq later[p]
<1> DEFINE room(p) == MaxProcs - Cardinality(later[p])
           T == {room(p) : p \in S}
<1>1. Started \subseteq Procs /\ MaxProcs \in Nat BY BoundsAssumption DEF Started
<1>2. \A p \in Procs : IsFiniteSet(later[p]) /\ Cardinality(later[p]) \in 0..MaxProcs
  BY FewProcs DEF TypeOK
<1>3. \A p \in S : room(p) \in Nat BY <1>1, <1>2
<1>4. T \subseteq Nat /\ T # {} BY <1>3
<1>5. PICK x \in T : \A y \in T : x <= y BY <1>4, LeastNumber, Zenon
<1>6. PICK p \in S : x = room(p) BY <1>5
<1>7. ASSUME NEW q \in S \ {p} PROVE q \in later[p]
  <2>1. SUFFICES ASSUME q \notin later[p] PROVE FALSE OBVIOUS
  <2>2. p \in later[q] /\ p \in Procs /\ q \in Procs BY <1>1, <2>1 DEF Order
  <2>3. later[p] \subseteq later[q] /\ p \notin later[p] BY <2>2 DEF Order
  <2>4. Cardinality(later[p]) <= Cardinality(later[q]) /\ Cardinality(later[p]) # Cardinality(later[q])
    BY <1>2, <2>2, <2>3, FS_Subset
  <2>5. room(p) <= room(q) BY <1>5, <1>6
  <2> QED BY <1>1, <1>2, <2>2, <2>4, <2>5
<1> QED BY <1>7

\* A full table lets a session go, as it has more sessions than are protected.
LEMMA FullPrunes ==
  ASSUME TypeOK, Order, Cardinality(sessions) >= MaxSessions
  PROVE  Pruned # {}
<1>1. sessions \subseteq Procs /\ sessions \subseteq Started BY DEF TypeOK, Started
<1>2. IsFiniteSet(sessions) /\ Cardinality(sessions) \in Nat BY <1>1, FewProcs
<1>3. Protected \in Nat /\ MaxSessions \in Nat /\ Protected < MaxSessions BY BoundsAssumption
<1>4. sessions # {} BY <1>3, FS_EmptySet
<1>5. PICK p \in sessions : sessions \ {p} \subseteq later[p] BY <1>1, <1>4, OldestIs
<1>6. p \in Procs /\ p \notin later[p] BY <1>1 DEF Order
<1>7. later[p] \cap sessions = sessions \ {p} BY <1>5, <1>6
<1>8. Cardinality(sessions \ {p}) = Cardinality(sessions) - 1 BY <1>2, FS_RemoveElement
<1>9. Cardinality(later[p] \cap sessions) >= Protected BY <1>2, <1>3, <1>7, <1>8
<1>10. p \in Unprotected BY <1>9 DEF Unprotected
<1> DEFINE exited == {q \in Unprotected : ~Running(q)}
           may == IF exited # {} THEN exited ELSE Unprotected
<1>11. may # {} /\ may \subseteq Started BY <1>1, <1>10 DEF Unprotected
<1>12. PICK q \in may : may \ {q} \subseteq later[q]
  <2> HIDE DEF may
  <2> QED BY <1>11, OldestIs
<1>13. q \in ToPrune BY <1>12 DEF ToPrune
<1> QED BY <1>13 DEF Pruned

\* The table keeps its limit.
LEMMA LimitKept ==
  ASSUME TypeOK, Order, Cardinality(sessions) <= MaxSessions, NEW p \in Procs
  PROVE  Cardinality((sessions \ Pruned) \cup {p}) <= MaxSessions
<1>1. sessions \subseteq Procs /\ Pruned \subseteq sessions BY PrunedAreSessions DEF TypeOK, Started
<1>2. IsFiniteSet(sessions) /\ Cardinality(sessions) \in Nat BY <1>1, FewProcs
<1>3. MaxSessions \in Nat BY BoundsAssumption
<1> DEFINE kept == sessions \ Pruned
<1>4. kept \in SUBSET sessions OBVIOUS
<1>5. IsFiniteSet(kept) /\ Cardinality(kept) \in Nat BY <1>1, FewProcs
<1>6. Cardinality(kept) <= Cardinality(sessions) BY <1>2, <1>4, FS_Subset
<1>7. Cardinality(kept \cup {p}) <= Cardinality(kept) + 1
  <2> HIDE DEF kept
  <2> QED BY <1>5, FS_AddElement, SMTT(20)
<1>8. Cardinality(kept) < MaxSessions
  <2>1. CASE Cardinality(sessions) < MaxSessions BY <1>2, <1>3, <1>5, <1>6, <2>1
  <2>2. CASE ~(Cardinality(sessions) < MaxSessions)
    <3>1. Cardinality(sessions) >= MaxSessions BY <1>2, <1>3, <2>2
    <3>2. Pruned # {} BY <3>1, FullPrunes
    <3>3. kept # sessions BY <1>1, <3>2
    <3>4. Cardinality(kept) # Cardinality(sessions) BY <1>2, <1>4, <3>3, FS_Subset
    <3> QED BY <1>2, <1>3, <1>5, <1>6, <3>4
  <2> QED BY <2>1, <2>2
<1> HIDE DEF kept
<1>9. Cardinality(kept \cup {p}) <= MaxSessions
  <2>1. Cardinality(kept \cup {p}) \in Nat BY <1>5, FS_AddElement
  <2> QED BY <1>3, <1>5, <1>7, <1>8, <2>1
<1> QED BY <1>9 DEF kept

\* Fewer sessions are within the limit too.
LEMMA FewerSessions ==
  ASSUME TypeOK, Cardinality(sessions) <= MaxSessions, NEW S \in SUBSET sessions
  PROVE  Cardinality(S) <= MaxSessions
<1>1. sessions \subseteq Procs BY DEF TypeOK, Started
<1>2. IsFiniteSet(sessions) /\ Cardinality(sessions) \in Nat /\ Cardinality(S) \in Nat
  BY <1>1, FewProcs
<1>3. MaxSessions \in Nat BY BoundsAssumption
<1> QED BY <1>2, <1>3, FS_Subset

\* Where a call goes, and that the others stay.
LEMMA Goes ==
  ASSUME TypeOK, NEW c \in Calls, NEW at, Goto(c, at)
  PROVE  /\ call'[c].pc = at /\ call'[c].proc = call[c].proc /\ call'[c].tool = call[c].tool
         /\ call'[c].req = call[c].req /\ call'[c].bypass = call[c].bypass
         /\ \A d \in Calls \ {c} : call'[d] = call[d]
BY DEF TypeOK, CallType, Goto, Continue

\* Steps of calls that have no process, neither before nor after.
LEMMA QuietOwned ==
  ASSUME TypeOK, OwnedInv, UNCHANGED <<table, proc, victims>>,
         \A d \in Calls : \/ call'[d] = call[d]
                          \/ /\ call[d].pc \notin WithProcess /\ call'[d].pc \notin WithProcess
                             /\ ToolFits(call'[d])
  PROVE  OwnedInv'
<1>1. ASSUME NEW d \in Calls PROVE (CallOf(d) /\ Held(d) /\ ListOf(d))'
  <2>1. CallOf(d) /\ Held(d) /\ ListOf(d) BY DEF OwnedInv
  <2>2. CASE call'[d] = call[d]
    BY <2>1, <2>2 DEF CallOf, Held, ListOf, RunsIt, Found, Listed, Running, table
  <2>3. CASE /\ call[d].pc \notin WithProcess /\ call'[d].pc \notin WithProcess
             /\ ToolFits(call'[d])
    BY <2>1, <2>3 DEF CallOf, Held, ListOf, WithProcess, Leaving
  <2> QED BY <2>2, <2>3
<1>2. ASSUME NEW p \in active' PROVE ActiveOf(p)'
  <2>1. p \in active /\ ActiveOf(p) /\ proc[p].by \in Calls /\ proc' = proc
    BY DEF OwnedInv, table, TypeOK
  <2> QED BY <2>1 DEF ActiveOf, RunsIt
<1>3. ASSUME NEW p \in Started' PROVE Kept_(p)'
  <2>1. p \in Started /\ Kept_(p) /\ proc[p].by \in Calls BY DEF OwnedInv, TypeOK, Started
  <2>2. (At(proc[p].by, "register") /\ Owner(p).proc = p)
        => (At(proc[p].by, "register") /\ Owner(p).proc = p)'
    BY <2>1 DEF At, Owner, WithProcess
  <2>3. Found(p)' <=> Found(p) BY DEF Found, Listed, table
  <2> QED BY <2>1, <2>2, <2>3 DEF Kept_, Running, table
<1>4. Order' BY DEF OwnedInv, Order, table, Started
<1> QED BY <1>1, <1>2, <1>3, <1>4 DEF OwnedInv, table

\* ... such as a call that asks, is answered, or ends before it has a process.
LEMMA QuietGoto ==
  ASSUME TypeOK, OwnedInv, UNCHANGED <<table, proc, victims>>, NEW c \in Calls,
         call[c].pc \in {"get", "ask", "answer", "spawn"},
         NEW at \in {"answer", "spawn", "done"}, at # "done" => call[c].pc # "get", Goto(c, at)
  PROVE  OwnedInv'
<1>1. /\ call'[c].pc = at /\ call'[c].tool = call[c].tool
      /\ \A d \in Calls \ {c} : call'[d] = call[d]
  BY Goes
<1>2. ToolFits(call[c]) BY DEF OwnedInv, CallOf
<1>3. ToolFits(call'[c]) BY <1>1, <1>2 DEF ToolFits
<1>4. call[c].pc \notin WithProcess /\ call'[c].pc \notin WithProcess BY <1>1 DEF WithProcess
<1>5. \A d \in Calls : \/ call'[d] = call[d]
                       \/ /\ call[d].pc \notin WithProcess /\ call'[d].pc \notin WithProcess
                          /\ ToolFits(call'[d])
  BY <1>1, <1>3, <1>4
<1> QED BY <1>5, QuietOwned

\* Steps of a call that goes on with its process, while nothing found is lost.
LEMMA GoesOnOwned ==
  ASSUME TypeOK, TypeOK', OwnedInv, NEW c \in Calls, call[c].pc \in WithProcess,
         call'[c].proc = call[c].proc, call'[c].tool = call[c].tool,
         \A d \in Calls \ {c} : call'[d] = call[d] /\ victims'[d] = victims[d],
         \A q \in Procs : proc'[q].by = proc[q].by /\ (Running(q)' => Running(q)),
         Started' = Started,
         \A q \in Started : (Found(q) /\ Running(q)') => Found(q)',
         (CallOf(c) /\ Held(c) /\ ListOf(c))',
         \A q \in active' : q \in active \/ (RunsIt(c) /\ q = call[c].proc),
         \A q \in active \ active' : Running(q)' => Found(q)',
         (RunsIt(c) /\ call[c].proc \in active') => call'[c].pc \in WithProcess \ {"register"},
         call[c].pc = "register" => call[c].proc \in active',
         Order', Cardinality(sessions') <= MaxSessions
  PROVE  OwnedInv'
<1>0. Started \subseteq Procs BY DEF Started
<1>1. ASSUME NEW d \in Calls PROVE (CallOf(d) /\ Held(d) /\ ListOf(d))'
  <2>1. CallOf(d) /\ Held(d) /\ ListOf(d) BY DEF OwnedInv
  <2>2. CASE d = c BY <2>2
  <2>3. CASE d # c
    <3>1. call'[d] = call[d] /\ victims'[d] = victims[d] BY <2>3
    <3>2. call[d].pc \in WithProcess => call[d].proc \in Started BY DEF TypeOK
    <3>3. CallOf(d)' BY <1>0, <2>1, <3>1, <3>2 DEF CallOf, ToolFits, RunsIt
    <3>4. ListOf(d)' BY <2>1, <3>1 DEF ListOf
    <3>5. Held(d)' BY <1>0, <2>1, <3>1, <3>2 DEF Held, RunsIt, Leaving, WithProcess
    <3> QED BY <3>3, <3>4, <3>5
  <2> QED BY <2>2, <2>3
<1>2. ASSUME NEW p \in active' PROVE ActiveOf(p)'
  <2>1. p \in Started /\ p \in Procs BY <1>0 DEF TypeOK
  <2>2. proc'[p].by = proc[p].by /\ proc[p].by \in Calls BY <2>1 DEF TypeOK
  <2>3. CASE p \in active
    <3>1. ActiveOf(p) BY <2>3 DEF OwnedInv
    <3>2. CASE proc[p].by # c BY <2>2, <3>1, <3>2 DEF ActiveOf, RunsIt
    <3>3. CASE proc[p].by = c
      <4>1. call[c].proc = p /\ RunsIt(c) BY <3>1, <3>3 DEF ActiveOf
      <4> QED BY <2>2, <3>3, <4>1 DEF ActiveOf, RunsIt
    <3> QED BY <3>2, <3>3
  <2>4. CASE RunsIt(c) /\ p = call[c].proc
    <3>1. proc[p].by = c BY <2>4 DEF OwnedInv, CallOf
    <3> QED BY <2>2, <2>4, <3>1 DEF ActiveOf, RunsIt
  <2> QED BY <2>3, <2>4
<1>3. ASSUME NEW p \in Started' PROVE Kept_(p)'
  <2>1. /\ p \in Started /\ p \in Procs /\ Kept_(p) /\ proc[p].by \in Calls
        /\ proc'[p].by = proc[p].by
    BY <1>0 DEF OwnedInv, TypeOK
  <2>2. SUFFICES ASSUME Running(p)' 
               PROVE  (p \in active \/ Found(p) \/ (At(proc[p].by, "register") /\ Owner(p).proc = p))'
    BY DEF Kept_
  <2>3. Running(p) BY <2>1, <2>2
  <2>4. CASE p \in active BY <2>2, <2>4
  <2>5. CASE Found(p) BY <2>1, <2>2, <2>5
  <2>6. CASE At(proc[p].by, "register") /\ Owner(p).proc = p
    <3>1. CASE proc[p].by = c BY <2>6, <3>1 DEF At, Owner
    <3>2. CASE proc[p].by # c
      <4>1. call'[proc[p].by] = call[proc[p].by] BY <2>1, <3>2
      <4> QED BY <2>1, <2>6, <4>1 DEF At, Owner
    <3> QED BY <3>1, <3>2
  <2> QED BY <2>1, <2>3, <2>4, <2>5, <2>6 DEF Kept_
<1> QED BY <1>1, <1>2, <1>3 DEF OwnedInv

\* A process that leaves the head of a list is doomed, if it runs; it stays found.
LEMMA InterruptOwned == ASSUME TypeOK, OwnedInv, NEW t \in Threads, Interrupt(t) PROVE OwnedInv'
<1> DEFINE p == victims[t][1]
<1>1. victims[t] \in Seq(Procs) /\ victims[t] # <<>> /\ victims \in [Threads -> Seq(Procs)]
  BY DEF Interrupt, TypeOK
<1>2. p \in Procs /\ Tail(victims[t]) \in Seq(Procs) BY <1>1
<1>3. proc[p] \in ProcType /\ proc \in [Procs -> ProcType] BY <1>2 DEF TypeOK
<1>4. /\ proc' = [proc EXCEPT ![p].open = FALSE, ![p].doomed = Doom(p)]
      /\ victims' = [victims EXCEPT ![t] = Tail(@)]
      /\ UNCHANGED <<call, active, sessions, later>>
  BY DEF Interrupt, table
<1>5. ASSUME NEW q \in ToSet(victims[t]), q # p PROVE q \in ToSet(Tail(victims[t]))
  <2>1. PICK i \in DOMAIN victims[t] : victims[t][i] = q BY DEF ToSet
  <2>2. i \in 2..Len(victims[t]) BY <1>1, <1>5, <2>1, LenProperties
  <2>3. i - 1 \in DOMAIN Tail(victims[t]) /\ Tail(victims[t])[i - 1] = q
    BY <1>1, <2>1, <2>2, HeadTailProperties
  <2> QED BY <2>3 DEF ToSet
<1> HIDE DEF p
<1>6. \A q \in Procs : /\ proc'[q].by = proc[q].by /\ proc'[q].status = proc[q].status
                       /\ (q # p => proc'[q].doomed = proc[q].doomed)
  BY <1>2, <1>3, <1>4 DEF ProcType
<1>7. proc'[p].doomed = Doom(p) BY <1>2, <1>3, <1>4 DEF ProcType
<1>8. Started' = Started /\ \A q \in Procs : Running(q)' <=> Running(q)
  BY <1>6 DEF Started, Running
<1>9. ASSUME NEW q \in Procs, Found(q), Running(q) PROVE Found(q)'
  <2>1. CASE q = p BY <1>7, <1>9, <2>1 DEF Found, Doom
  <2>2. CASE q # p /\ (q \in sessions \/ proc[q].doomed) BY <1>4, <1>6, <2>2 DEF Found
  <2>3. CASE q # p /\ Listed(q)
    <3>1. PICK u \in Threads : q \in ToSet(victims[u]) BY <2>3 DEF Listed
    <3>2. q \in ToSet(victims'[u]) BY <1>1, <1>4, <1>5, <2>3, <3>1
    <3> QED BY <3>1, <3>2 DEF Found, Listed
  <2> QED BY <1>9, <2>1, <2>2, <2>3 DEF Found
<1>10. ASSUME NEW d \in Calls PROVE (CallOf(d) /\ Held(d) /\ ListOf(d))'
  <2>1. CallOf(d) /\ Held(d) /\ ListOf(d) BY DEF OwnedInv
  <2>2. call[d].pc \in WithProcess => call[d].proc \in Procs BY DEF TypeOK, Started
  <2>3. CallOf(d)' BY <1>4, <1>6, <2>1, <2>2 DEF CallOf, ToolFits, RunsIt
  <2>4. Held(d)' BY <1>4, <1>8, <1>9, <2>1, <2>2 DEF Held, RunsIt, Leaving, WithProcess
  <2>5. victims'[d] # <<>> => victims[d] # <<>> BY <1>1, <1>4 DEF Threads
  <2>6. ListOf(d)' BY <1>4, <2>1, <2>5 DEF ListOf
  <2> QED BY <2>3, <2>4, <2>6
<1>11. ASSUME NEW q \in active' PROVE ActiveOf(q)'
  <2>1. q \in active /\ q \in Procs /\ ActiveOf(q) BY <1>4 DEF OwnedInv, TypeOK, Started
  <2> QED BY <1>4, <1>6, <2>1 DEF ActiveOf, RunsIt
<1>12. ASSUME NEW q \in Started' PROVE Kept_(q)'
  <2>1. q \in Procs /\ Kept_(q) BY <1>8 DEF OwnedInv, Started
  <2>2. (Running(q)' => Running(q)) /\ active' = active /\ call' = call /\ proc'[q].by = proc[q].by
    BY <1>4, <1>6, <1>8, <2>1
  <2>3. (At(proc[q].by, "register") /\ Owner(q).proc = q)
        => (At(proc[q].by, "register") /\ Owner(q).proc = q)'
    BY <2>2 DEF At, Owner
  <2>4. (Found(q) /\ Running(q)) => Found(q)' BY <1>9, <2>1
  <2> QED BY <2>1, <2>2, <2>3, <2>4 DEF Kept_
<1>13. Order' BY <1>4, <1>8 DEF OwnedInv, Order
<1> QED BY <1>4, <1>10, <1>11, <1>12, <1>13 DEF OwnedInv

\* /\ a list made of all that is active or a session has each of them.
LEMMA StopOwned == ASSUME TypeOK, OwnedInv, StopAll PROVE OwnedInv'
<1>1. /\ victims' = [victims EXCEPT !["stop"] = SetToSeq(active \cup sessions)]
      /\ victims["stop"] = <<>> /\ sessions' = {}
      /\ UNCHANGED <<call, active, later, proc>>
  BY DEF StopAll, Stopper
<1>2. "stop" \in Threads /\ victims \in [Threads -> Seq(Procs)] /\ \A d \in Calls : d # "stop"
  BY BoundsAssumption DEF Threads, Stopper, TypeOK
<1>3. ToSet(SetToSeq(active \cup sessions)) = active \cup sessions
  <2>1. active \cup sessions \subseteq Procs BY DEF TypeOK, Started
  <2> QED BY <2>1, ListOfAll
<1>4. \A d \in Calls : victims'[d] = victims[d] BY <1>1, <1>2 DEF Threads
<1>5. ASSUME NEW q \in Procs, Found(q) PROVE Found(q)'
  <2>1. CASE q \in sessions
    <3>1. q \in ToSet(victims'["stop"]) BY <1>1, <1>2, <1>3, <2>1
    <3> QED BY <1>2, <3>1 DEF Found, Listed
  <2>2. CASE proc[q].doomed BY <1>1, <2>2 DEF Found
  <2>3. CASE Listed(q)
    <3>1. PICK u \in Threads : q \in ToSet(victims[u]) BY <2>3 DEF Listed
    <3>2. u # "stop" BY <1>1, <3>1 DEF ToSet
    <3>3. victims'[u] = victims[u] BY <1>1, <1>2, <3>2
    <3> QED BY <3>1, <3>3 DEF Found, Listed
  <2> QED BY <1>5, <2>1, <2>2, <2>3 DEF Found
<1>6. Started' = Started /\ \A q : Running(q)' <=> Running(q) BY <1>1 DEF Started, Running
<1>7. ASSUME NEW d \in Calls PROVE (CallOf(d) /\ Held(d) /\ ListOf(d))'
  <2>1. CallOf(d) /\ Held(d) /\ ListOf(d) BY DEF OwnedInv
  <2>2. call[d].pc \in WithProcess => call[d].proc \in Procs BY DEF TypeOK, Started
  <2>3. CallOf(d)' BY <1>1, <2>1 DEF CallOf, ToolFits, RunsIt
  <2>4. Held(d)' BY <1>1, <1>5, <1>6, <2>1, <2>2 DEF Held, RunsIt, Leaving, WithProcess
  <2>5. ListOf(d)' BY <1>1, <1>4, <2>1 DEF ListOf
  <2> QED BY <2>3, <2>4, <2>5
<1>8. ASSUME NEW q \in active' PROVE ActiveOf(q)'
  <2>1. q \in active /\ ActiveOf(q) BY <1>1 DEF OwnedInv
  <2> QED BY <1>1, <2>1 DEF ActiveOf, RunsIt
<1>9. ASSUME NEW q \in Started' PROVE Kept_(q)'
  <2>1. q \in Procs /\ Kept_(q) BY <1>6 DEF OwnedInv, Started
  <2>2. Found(q) => Found(q)' BY <1>5, <2>1
  <2> QED BY <1>1, <1>6, <2>1, <2>2 DEF Kept_, At, Owner
<1>10. Order' BY <1>1, <1>6 DEF OwnedInv, Order
<1>11. Cardinality(sessions') <= MaxSessions BY <1>1, FewerSessions DEF OwnedInv
<1> QED BY <1>7, <1>8, <1>9, <1>10, <1>11 DEF OwnedInv

\* The process that a call has, and who started it.
LEMMA HasProcess ==
  ASSUME TypeOK, NEW c \in Calls, call[c].pc \in WithProcess
  PROVE  call[c].proc \in Started /\ call[c].proc \in Procs
BY DEF TypeOK, Started

\* The tables, the processes and the lists decide what is found.
LEMMA FoundSame ==
  ASSUME UNCHANGED <<sessions, proc, victims>>
  PROVE  /\ \A q : Found(q) <=> Found(q)'
         /\ \A q : Running(q) <=> Running(q)'
         /\ Started' = Started
BY DEF Found, Listed, Running, Started

\* A command becomes active.
LEMMA RegisterActiveOwned ==
  ASSUME TypeOK, TypeOK', OwnedInv, NEW c \in Calls, RegisterActive(c)
  PROVE  OwnedInv'
<1>1. /\ call[c].pc = "register" /\ Goto(c, "wait") /\ active' = active \cup {call[c].proc}
      /\ UNCHANGED <<sessions, later, proc, victims>>
  BY DEF RegisterActive, At
<1>2. /\ call'[c].pc = "wait" /\ call'[c].proc = call[c].proc /\ call'[c].tool = call[c].tool
      /\ \A d \in Calls \ {c} : call'[d] = call[d] /\ victims'[d] = victims[d]
  BY <1>1, Goes
<1>3. CallOf(c) /\ ListOf(c) BY DEF OwnedInv
<1>4. RunsIt(c) BY <1>1, <1>3 DEF CallOf, ToolFits, RunsIt
<1>5. (CallOf(c) /\ Held(c) /\ ListOf(c))'
  BY <1>1, <1>2, <1>3, <1>4 DEF CallOf, ToolFits, Held, ListOf, RunsIt, WithProcess, Leaving
<1>6. Order' BY <1>1 DEF OwnedInv, Order, Started
<1>7. call[c].pc \in WithProcess /\ call'[c].pc \in WithProcess \ {"register"}
  BY <1>1, <1>2 DEF WithProcess
<1>8. Cardinality(sessions') <= MaxSessions BY <1>1 DEF OwnedInv
<1> QED BY <1>1, <1>2, <1>4, <1>5, <1>6, <1>7, <1>8, FoundSame, GoesOnOwned

\* The end of a wait: shell_command puts a process that still runs on its list.
LEMMA WaitedOwned ==
  ASSUME TypeOK, TypeOK', OwnedInv, NEW c \in Calls, ExecWaited(c) \/ ShellWaited(c) \/ StdinWaited(c)
  PROVE  OwnedInv'
<1> DEFINE p == call[c].proc
<1>1. /\ call[c].pc = "wait" /\ UNCHANGED <<active, sessions, later, proc>>
      /\ \/ /\ call[c].tool = "exec_command" /\ UNCHANGED victims
            /\ Goto(c, IF Running(p) THEN "keep" ELSE "snap")
         \/ /\ call[c].tool = "shell_command" /\ Goto(c, "snap")
            /\ IF Running(p) THEN victims' = [victims EXCEPT ![c] = <<p>>] ELSE UNCHANGED victims
         \/ call[c].tool = "write_stdin" /\ Goto(c, "snap") /\ UNCHANGED victims
  BY DEF ExecWaited, ShellWaited, StdinWaited, At, table
<1>2. /\ call'[c].proc = p /\ call'[c].tool = call[c].tool
      /\ \A d \in Calls \ {c} : call'[d] = call[d]
      /\ call'[c].pc = IF call[c].tool = "exec_command" /\ Running(p) THEN "keep" ELSE "snap"
  <2>1. CASE Goto(c, "keep") BY <1>1, <2>1, Goes
  <2>2. CASE Goto(c, "snap") BY <1>1, <2>2, Goes
  <2> QED BY <1>1, <2>1, <2>2
<1>3. victims \in [Threads -> Seq(Procs)] /\ c \in Threads BY DEF TypeOK, Threads
<1>4. CallOf(c) /\ ListOf(c) BY DEF OwnedInv
<1>5. victims[c] = <<>> BY <1>1, <1>4 DEF ListOf
<1>6. \A t \in Threads \ {c} : victims'[t] = victims[t] BY <1>1, <1>3
<1>7. Started' = Started /\ \A q : Running(q)' <=> Running(q) BY <1>1 DEF Started, Running
<1>8. ASSUME NEW q, Found(q) PROVE Found(q)'
  <2>1. CASE q \in sessions \/ proc[q].doomed BY <1>1, <2>1 DEF Found
  <2>2. CASE Listed(q)
    <3>1. PICK t \in Threads : q \in ToSet(victims[t]) BY <2>2 DEF Listed
    <3>2. t # c BY <1>5, <3>1 DEF ToSet
    <3> QED BY <1>6, <3>1, <3>2 DEF Found, Listed
  <2> QED BY <1>8, <2>1, <2>2 DEF Found
<1>9. call[c].tool = "shell_command" /\ Running(p) => Found(p)'
  <2>1. SUFFICES ASSUME call[c].tool = "shell_command", Running(p) PROVE Found(p)' OBVIOUS
  <2>2. victims'[c] = <<p>> BY <1>1, <1>3, <2>1
  <2>3. p \in ToSet(victims'[c]) BY <2>2 DEF ToSet
  <2> QED BY <1>2, <1>3, <2>3 DEF Found, Listed
<1>10. (CallOf(c) /\ ListOf(c))'
  BY <1>1, <1>2, <1>3, <1>4, <1>5 DEF CallOf, ToolFits, ListOf, RunsIt, WithProcess
<1>11. Held(c)'
  BY <1>1, <1>2, <1>7, <1>9 DEF Held, RunsIt, Parallel, Leaving
<1>12. Order' BY <1>1, <1>7 DEF OwnedInv, Order
<1>13. call[c].pc \in WithProcess /\ call'[c].pc \in WithProcess \ {"register"} /\ call[c].pc # "register"
  BY <1>1, <1>2 DEF WithProcess
<1>14. Cardinality(sessions') <= MaxSessions BY <1>1 DEF OwnedInv
<1>15. \A d \in Calls \ {c} : call'[d] = call[d] /\ victims'[d] = victims[d]
  BY <1>2, <1>6 DEF Threads
<1> HIDE DEF p
<1> QED BY <1>1, <1>2, <1>7, <1>8, <1>10, <1>11, <1>12, <1>13, <1>14, <1>15, GoesOnOwned DEF p

\* A session enters the table, and the one that is pruned is on the list of the call.
LEMMA RegisterSessionOwned ==
  ASSUME TypeOK, TypeOK', OwnedInv, NEW c \in Calls, RegisterSession(c)
  PROVE  OwnedInv'
<1> DEFINE p == call[c].proc
           next == [call[c] EXCEPT !.pc = "snap", !.more = TRUE]
<1>1. /\ call[c].pc = "keep" /\ Continue(c, next)
      /\ sessions' = (sessions \ Pruned) \cup {p}
      /\ victims' = [victims EXCEPT ![c] = StopPruned]
      /\ UNCHANGED <<active, later, proc>>
  BY DEF RegisterSession, At
<1>2. next.pc = "snap" /\ next.proc = p /\ next.tool = call[c].tool
  BY DEF TypeOK, CallType
<1>3. call'[c] = next /\ \A d \in Calls \ {c} : call'[d] = call[d]
  BY <1>1 DEF Continue, TypeOK
<1>4. victims \in [Threads -> Seq(Procs)] /\ c \in Threads BY DEF TypeOK, Threads
<1>5. CallOf(c) /\ ListOf(c) BY DEF OwnedInv
<1>6. victims[c] = <<>> BY <1>1, <1>5 DEF ListOf
<1>7. victims'[c] = StopPruned /\ \A t \in Threads \ {c} : victims'[t] = victims[t] BY <1>1, <1>4
<1>8. Started' = Started /\ \A q : Running(q)' <=> Running(q) BY <1>1 DEF Started, Running
<1>9. ToSet(StopPruned) = Pruned
  <2>1. Pruned \subseteq Procs BY PrunedAreSessions DEF TypeOK, Started
  <2> QED BY <2>1, ListOfAll DEF StopPruned
<1> HIDE DEF next
<1>10. ASSUME NEW q, Found(q) PROVE Found(q)'
  <2>1. CASE q \in sessions
    <3>1. CASE q \in Pruned
      <4>1. q \in ToSet(victims'[c]) BY <1>7, <1>9, <3>1
      <4> QED BY <1>4, <4>1 DEF Found, Listed
    <3>2. CASE q \notin Pruned
      <4>1. q \in sessions' BY <1>1, <2>1, <3>2
      <4> QED BY <4>1 DEF Found
    <3> QED BY <3>1, <3>2
  <2>2. CASE proc[q].doomed BY <1>1, <2>2 DEF Found
  <2>3. CASE Listed(q)
    <3>1. PICK t \in Threads : q \in ToSet(victims[t]) BY <2>3 DEF Listed
    <3>2. t # c BY <1>6, <3>1 DEF ToSet
    <3> QED BY <1>7, <3>1, <3>2 DEF Found, Listed
  <2> QED BY <1>10, <2>1, <2>2, <2>3 DEF Found
<1>11. Found(p)' BY <1>1, <1>2, <1>3 DEF Found
<1>12. (CallOf(c) /\ Held(c) /\ ListOf(c))'
  <2>1. Held(c)' BY <1>2, <1>3, <1>11 DEF Held
  <2>2. CallOf(c)' BY <1>1, <1>2, <1>3, <1>5 DEF CallOf, ToolFits, RunsIt, WithProcess
  <2>3. ListOf(c)' BY <1>2, <1>3 DEF ListOf
  <2> QED BY <2>1, <2>2, <2>3
<1>13. Order' BY <1>1, <1>8 DEF OwnedInv, Order
<1>14. p \in Procs BY <1>1, HasProcess DEF WithProcess
<1>15. Cardinality(sessions') <= MaxSessions BY <1>1, <1>14, LimitKept DEF OwnedInv
<1>16. call[c].pc \in WithProcess /\ call'[c].pc \in WithProcess \ {"register"} /\ call[c].pc # "register"
  BY <1>1, <1>2, <1>3 DEF WithProcess
<1>17. \A d \in Calls \ {c} : call'[d] = call[d] /\ victims'[d] = victims[d]
  BY <1>3, <1>7 DEF Threads
<1>18. call'[c].proc = call[c].proc /\ call'[c].tool = call[c].tool BY <1>2, <1>3
<1>19. \A q \in Procs : proc'[q].by = proc[q].by /\ active' = active BY <1>1
<1> QED BY <1>8, <1>10, <1>12, <1>13, <1>15, <1>16, <1>17, <1>18, <1>19, <1>1, GoesOnOwned

\* A snapshot begins when the call has been through its list.
LEMMA SnapshotOwned ==
  ASSUME TypeOK, TypeOK', OwnedInv, NEW c \in Calls, Snapshot(c)
  PROVE  OwnedInv'
<1>1. /\ call[c].pc = "snap" /\ victims[c] = <<>> /\ Touch(call[c].proc)
      /\ Goto(c, IF Running(call[c].proc) THEN "take" ELSE "join")
      /\ UNCHANGED <<active, sessions, proc, victims>>
  BY DEF Snapshot, At
<1>2. /\ call'[c].proc = call[c].proc /\ call'[c].tool = call[c].tool
      /\ call'[c].pc \in {"take", "join"}
      /\ \A d \in Calls \ {c} : call'[d] = call[d] /\ victims'[d] = victims[d]
  BY <1>1, Goes
<1>3. call[c].proc \in Started /\ call[c].proc \in Procs BY <1>1, HasProcess DEF WithProcess
<1>4. CallOf(c) /\ Held(c) BY DEF OwnedInv
<1>5. /\ \A q : Found(q) <=> Found(q)'
      /\ \A q : Running(q) <=> Running(q)'
      /\ Started' = Started
  BY <1>1, FoundSame
<1>6. (CallOf(c) /\ ListOf(c))'
  BY <1>1, <1>2, <1>4 DEF CallOf, ToolFits, ListOf, RunsIt, WithProcess
<1>7. Held(c)'
  <2>1. (RunsIt(c) /\ Running(call[c].proc)) => Found(call[c].proc)
    BY <1>1, <1>4 DEF Held, Leaving
  <2> QED BY <1>1, <1>2, <2>1, <1>5 DEF Held, RunsIt, Found, Listed, Running
<1>8. Order'
  <2>1. Started' = Started \cup {call[c].proc} BY <1>3, <1>5
  <2> QED BY <1>1, <1>3, <2>1, OrderTouched DEF OwnedInv
<1>9. call[c].pc \in WithProcess /\ call'[c].pc \in WithProcess \ {"register"} /\ call[c].pc # "register"
  BY <1>1, <1>2 DEF WithProcess
<1>10. Cardinality(sessions') <= MaxSessions BY <1>1 DEF OwnedInv
<1> QED BY <1>1, <1>2, <1>5, <1>6, <1>7, <1>8, <1>9, <1>10, GoesOnOwned

\* The streams of a process that ended are closed.
LEMMA CloseOwned ==
  ASSUME TypeOK, TypeOK', OwnedInv, NEW c \in Calls, JoinAndClose(c)
  PROVE  OwnedInv'
<1>1. /\ call[c].pc = "join" /\ proc' = [proc EXCEPT ![call[c].proc].open = FALSE]
      /\ Goto(c, "take") /\ UNCHANGED <<active, sessions, later, victims>>
  BY DEF JoinAndClose, At, ClosePipes, table
<1>2. /\ call'[c].proc = call[c].proc /\ call'[c].tool = call[c].tool /\ call'[c].pc = "take"
      /\ \A d \in Calls \ {c} : call'[d] = call[d] /\ victims'[d] = victims[d]
  BY <1>1, Goes
<1>3. call[c].proc \in Started /\ call[c].proc \in Procs BY <1>1, HasProcess DEF WithProcess
<1>4. CallOf(c) /\ Held(c) /\ ListOf(c) BY DEF OwnedInv
<1>5. \A q \in Procs : /\ proc'[q].by = proc[q].by /\ proc'[q].status = proc[q].status
                       /\ proc'[q].doomed = proc[q].doomed
  BY <1>1, <1>3 DEF TypeOK, ProcType
<1>6. Started' = Started /\ \A q \in Procs : Running(q)' <=> Running(q)
  BY <1>5 DEF Started, Running
<1>7. \A q \in Procs : Found(q)' <=> Found(q) BY <1>1, <1>5 DEF Found, Listed
<1>8. (CallOf(c) /\ ListOf(c))'
  BY <1>1, <1>2, <1>3, <1>4, <1>5 DEF CallOf, ToolFits, ListOf, RunsIt, WithProcess
<1>9. Held(c)'
  <2>1. (RunsIt(c) /\ Running(call[c].proc)) => Found(call[c].proc)
    BY <1>1, <1>4 DEF Held, Leaving
  <2>2. RunsIt(c)' <=> RunsIt(c) BY <1>2 DEF RunsIt
  <2>3. Running(call[c].proc)' <=> Running(call[c].proc) BY <1>2, <1>3, <1>5 DEF Running
  <2>4. Found(call[c].proc)' <=> Found(call[c].proc) BY <1>1, <1>2, <1>3, <1>5 DEF Found, Listed
  <2> QED BY <2>1, <2>2, <2>3, <2>4 DEF Held
<1>10. Order' BY <1>1, <1>6 DEF OwnedInv, Order
<1>11. call[c].pc \in WithProcess /\ call'[c].pc \in WithProcess \ {"register"} /\ call[c].pc # "register"
  BY <1>1, <1>2 DEF WithProcess
<1>12. Cardinality(sessions') <= MaxSessions BY <1>1 DEF OwnedInv
<1>13. Started \subseteq Procs BY DEF Started
<1> QED BY <1>1, <1>2, <1>5, <1>6, <1>7, <1>8, <1>9, <1>10, <1>11, <1>12, <1>13, GoesOnOwned

\* The command leaves the table of active commands, and is found elsewhere if it runs.
LEMMA TakeOwned ==
  ASSUME TypeOK, TypeOK', OwnedInv, NEW c \in Calls, TakeOutput(c)
  PROVE  OwnedInv'
<1> DEFINE p == call[c].proc
           next == [call[c] EXCEPT !.pc = "ask", !.req = "retry", !.bypass = TRUE]
<1>1. /\ call[c].pc = "take" /\ UNCHANGED <<later, proc, victims>>
      /\ \/ /\ call[c].tool = "write_stdin" /\ active' = active
            /\ sessions' = IF Running(p) THEN sessions ELSE sessions \ {p}
         \/ call[c].tool # "write_stdin" /\ active' = active \ {p} /\ sessions' = sessions
      /\ Goto(c, "done") \/ (call[c].tool = "exec_command" /\ Continue(c, next))
  BY DEF TakeOutput, At, MayAskRetry
<1>2. /\ call'[c].pc = "ask" => call[c].tool = "exec_command"
      /\ call'[c].proc = p /\ call'[c].tool = call[c].tool /\ call'[c].pc \in {"done", "ask"}
      /\ \A d \in Calls \ {c} : call'[d] = call[d] /\ victims'[d] = victims[d]
  <2>1. CASE Goto(c, "done") BY <1>1, <2>1, Goes
  <2>2. CASE call[c].tool = "exec_command" /\ Continue(c, next)
    <3>1. next.pc = "ask" /\ next.proc = p /\ next.tool = call[c].tool BY DEF TypeOK, CallType
    <3> HIDE DEF next
    <3> QED BY <1>1, <2>2, <3>1 DEF Continue, TypeOK
  <2> QED BY <1>1, <2>1, <2>2
<1>3. p \in Started /\ p \in Procs BY <1>1, HasProcess DEF WithProcess
<1>4. CallOf(c) /\ Held(c) /\ ListOf(c) BY DEF OwnedInv
<1>5. Started' = Started /\ \A q : Running(q)' <=> Running(q) BY <1>1 DEF Started, Running
<1>6. ASSUME NEW q, Found(q), Running(q) PROVE Found(q)'
  <2>1. q \in sessions => q \in sessions' BY <1>1, <1>6
  <2> QED BY <1>1, <1>6, <2>1 DEF Found, Listed
<1>7. (CallOf(c) /\ Held(c) /\ ListOf(c))'
  BY <1>1, <1>2, <1>4 DEF CallOf, ToolFits, Held, ListOf, RunsIt, WithProcess, Leaving, Parallel
<1>8. ASSUME NEW q \in active \ active', Running(q)' PROVE Found(q)'
  <2>1. q = p /\ call[c].tool # "write_stdin" BY <1>1, <1>8
  <2>2. ActiveOf(p) /\ p \in active BY <1>8, <2>1 DEF OwnedInv
  <2>3. call[c].tool \in Parallel
    <3>1. call[c].tool \in Tools \ {"none"} BY <1>4, <1>1 DEF TypeOK, CallType, CallOf, ToolFits
    <3> QED BY <2>1, <3>1 DEF Tools, Parallel
  <2>4. Found(p) BY <1>1, <1>4, <1>5, <1>8, <2>1, <2>3 DEF Held, RunsIt, Leaving
  <2> QED BY <1>5, <1>6, <1>8, <2>1, <2>4
<1>9. Order' BY <1>1, <1>5 DEF OwnedInv, Order
<1>10. call[c].pc \in WithProcess /\ call[c].pc # "register" BY <1>1 DEF WithProcess
<1>11. RunsIt(c) => p \notin active' BY <1>1 DEF RunsIt, Parallel
<1>12. Cardinality(sessions') <= MaxSessions
  <2>1. sessions' \in SUBSET sessions BY <1>1
  <2> QED BY <2>1, FewerSessions DEF OwnedInv
<1>13. \A q \in Procs : proc'[q].by = proc[q].by BY <1>1
<1>14. \A q \in active' : q \in active BY <1>1
<1> QED BY <1>2, <1>5, <1>6, <1>7, <1>8, <1>9, <1>10, <1>11, <1>12, <1>13, <1>14, GoesOnOwned

\* A command starts, and its call will enter it.
LEMMA SpawnOwned ==
  ASSUME TypeOK, TypeOK', OwnedInv, NEW c \in Calls, At(c, "spawn"), RunsIt(c), NEW p \in Free, SpawnOf(c, p)
  PROVE  OwnedInv'
<1>1. /\ p \in Procs /\ Started' = Started \cup {p} /\ p \notin Started
      /\ \A q \in Procs \ {p} : proc'[q] = proc[q]
      /\ proc'[p].by = c /\ proc'[p].status = "running"
  BY SpawnType
<1>2. UNCHANGED <<active, sessions, victims>> /\ Touch(p) BY DEF SpawnOf
<1>3. /\ call[c].pc = "spawn" /\ call'[c].pc = "register" /\ call'[c].proc = p
      /\ call'[c].tool = call[c].tool /\ \A d \in Calls \ {c} : call'[d] = call[d]
  BY DEF SpawnOf, Continue, At, TypeOK, CallType
<1>4. Started \subseteq Procs \ {p} BY <1>1 DEF Started
<1>5. \A q \in Procs \ {p} : (Found(q) <=> Found(q)') /\ (Running(q) <=> Running(q)')
  BY <1>1, <1>2 DEF Found, Listed, Running
<1>6. ASSUME NEW d \in Calls PROVE (CallOf(d) /\ Held(d) /\ ListOf(d))'
  <2>1. CallOf(d) /\ Held(d) /\ ListOf(d) BY DEF OwnedInv
  <2>2. CASE d = c
    BY <1>1, <1>2, <1>3, <2>1, <2>2 DEF CallOf, ToolFits, Held, ListOf, RunsIt, WithProcess, Leaving
  <2>3. CASE d # c
    <3>1. call'[d] = call[d] BY <1>3, <2>3
    <3>2. call[d].pc \in WithProcess => call[d].proc \in Procs \ {p} BY <1>4 DEF TypeOK
    <3>3. CallOf(d)' BY <1>1, <2>1, <3>1, <3>2 DEF CallOf, ToolFits, RunsIt
    <3>4. Held(d)' BY <1>1, <1>2, <2>1, <3>1, <3>2 DEF Held, RunsIt, Leaving, WithProcess, Found, Listed, Running
    <3>5. ListOf(d)' BY <1>2, <2>1, <3>1 DEF ListOf
    <3> QED BY <3>3, <3>4, <3>5
  <2> QED BY <2>2, <2>3
<1>7. ASSUME NEW q \in active' PROVE ActiveOf(q)'
  <2>1. q \in active /\ q \in Procs \ {p} /\ ActiveOf(q) BY <1>2, <1>4 DEF OwnedInv, TypeOK
  <2>2. proc'[q] = proc[q] /\ proc[q].by \in Calls BY <1>1, <2>1 DEF TypeOK
  <2>3. proc[q].by # c BY <1>3, <2>1 DEF ActiveOf, WithProcess
  <2> QED BY <1>3, <2>1, <2>2, <2>3 DEF ActiveOf, RunsIt
<1>8. ASSUME NEW q \in Started' PROVE Kept_(q)'
  <2>1. CASE q = p BY <1>1, <1>3, <2>1 DEF Kept_, At, Owner
  <2>2. CASE q # p
    <3>1. q \in Started /\ q \in Procs \ {p} /\ Kept_(q) /\ proc'[q] = proc[q] /\ proc[q].by \in Calls
      BY <1>1, <1>4, <2>2 DEF OwnedInv, TypeOK
    <3>2. At(proc[q].by, "register") => proc[q].by # c BY <1>3 DEF At
    <3>3. (At(proc[q].by, "register") /\ Owner(q).proc = q)
          => (At(proc[q].by, "register") /\ Owner(q).proc = q)'
      BY <1>3, <3>1, <3>2 DEF At, Owner
    <3> QED BY <1>2, <1>5, <3>1, <3>3 DEF Kept_
  <2> QED BY <2>1, <2>2
<1>9. Order' BY <1>1, <1>2, OrderTouched DEF OwnedInv
<1>10. Cardinality(sessions') <= MaxSessions BY <1>2 DEF OwnedInv
<1> QED BY <1>6, <1>7, <1>8, <1>9, <1>10 DEF OwnedInv

\* What processes and readers do loses nothing.
LEMMA ProcessOwned ==
  ASSUME TypeOK, OwnedInv, NEW p \in Procs, Write(p) \/ Exit(p) \/ ChildExits(p) \/ ReaderStep(p)
  PROVE  OwnedInv'
<1>1. /\ Started' = Started /\ UNCHANGED <<call, active, sessions, later, victims>>
      /\ \A q \in Procs : Same(proc'[q], proc[q]) /\ (Running(q)' => Running(q))
  BY ProcessType DEF table
<1>2. \A q \in Procs : Found(q) <=> Found(q)' BY <1>1 DEF Found, Listed, Same
<1>3. ASSUME NEW d \in Calls PROVE (CallOf(d) /\ Held(d) /\ ListOf(d))'
  <2>1. CallOf(d) /\ Held(d) /\ ListOf(d) BY DEF OwnedInv
  <2>2. call[d].pc \in WithProcess => call[d].proc \in Procs BY DEF TypeOK, Started
  <2>3. CallOf(d)' BY <1>1, <2>1, <2>2 DEF CallOf, ToolFits, RunsIt, Same
  <2>4. Held(d)' BY <1>1, <1>2, <2>1, <2>2 DEF Held, RunsIt, Leaving, WithProcess
  <2>5. ListOf(d)' BY <1>1, <2>1 DEF ListOf
  <2> QED BY <2>3, <2>4, <2>5
<1>4. ASSUME NEW q \in active' PROVE ActiveOf(q)'
  <2>1. q \in active /\ q \in Procs /\ ActiveOf(q) BY <1>1 DEF OwnedInv, TypeOK, Started
  <2> QED BY <1>1, <2>1 DEF ActiveOf, RunsIt, Same
<1>5. ASSUME NEW q \in Started' PROVE Kept_(q)'
  <2>1. q \in Procs /\ Kept_(q) BY <1>1 DEF OwnedInv, Started
  <2> QED BY <1>1, <1>2, <2>1 DEF Kept_, At, Owner, Same
<1>6. Order' BY <1>1 DEF OwnedInv, Order
<1> QED BY <1>1, <1>3, <1>4, <1>5, <1>6 DEF OwnedInv

\* A session is chosen by a call that writes to it.
LEMMA StdinGetOwned ==
  ASSUME TypeOK, OwnedInv, NEW c \in Calls, StdinGet(c)
  PROVE  OwnedInv'
<1>1. /\ call[c].pc = "get" /\ UNCHANGED <<table, proc, victims>>
      /\ \/ Goto(c, "done")
         \/ \E p \in sessions : Continue(c, [call[c] EXCEPT !.pc = "wait", !.proc = p])
  BY DEF StdinGet, At, Goto
<1>2. CallOf(c) /\ ListOf(c) BY DEF OwnedInv
<1>3. call[c].tool = "write_stdin" BY <1>1, <1>2 DEF CallOf, ToolFits
<1>4. CASE Goto(c, "done")
  BY <1>1, <1>2, <1>4, QuietGoto
<1>5. ASSUME NEW p \in sessions, Continue(c, [call[c] EXCEPT !.pc = "wait", !.proc = p])
      PROVE  OwnedInv'
  <2>1. /\ call'[c].pc = "wait" /\ call'[c].tool = "write_stdin"
        /\ \A d \in Calls \ {c} : call'[d] = call[d]
    BY <1>3, <1>5 DEF Continue, TypeOK, CallType
  <2>2. /\ \A q : Found(q) <=> Found(q)'
        /\ \A q : Running(q) <=> Running(q)'
        /\ Started' = Started
    BY <1>1, FoundSame DEF table
  <2>3. ASSUME NEW d \in Calls PROVE (CallOf(d) /\ Held(d) /\ ListOf(d))'
    <3>1. CallOf(d) /\ Held(d) /\ ListOf(d) BY DEF OwnedInv
    <3>2. CASE d = c
      BY <1>1, <2>1, <3>1, <3>2 DEF CallOf, ToolFits, Held, ListOf, RunsIt, Parallel
    <3>3. CASE d # c
      BY <1>1, <2>1, <3>1, <3>3 DEF CallOf, ToolFits, Held, ListOf, RunsIt, Found, Listed, Running, table
    <3> QED BY <3>2, <3>3
  <2>4. ASSUME NEW q \in active' PROVE ActiveOf(q)'
    <3>1. q \in active /\ ActiveOf(q) /\ proc[q].by \in Calls BY <1>1 DEF OwnedInv, table, TypeOK
    <3>2. proc[q].by # c BY <1>1, <3>1 DEF ActiveOf, WithProcess
    <3> QED BY <1>1, <2>1, <3>1, <3>2 DEF ActiveOf, RunsIt
  <2>5. ASSUME NEW q \in Started' PROVE Kept_(q)'
    <3>1. q \in Started /\ Kept_(q) /\ proc[q].by \in Calls BY <2>2 DEF OwnedInv, TypeOK
    <3>2. At(proc[q].by, "register") => proc[q].by # c BY <1>1 DEF At
    <3> QED BY <1>1, <2>1, <2>2, <3>1, <3>2 DEF Kept_, At, Owner, table
  <2>6. Order' BY <1>1, <2>2 DEF OwnedInv, Order, table
  <2> QED BY <1>1, <2>3, <2>4, <2>5, <2>6 DEF OwnedInv, table
<1> QED BY <1>1, <1>4, <1>5

\* A batch starts calls that have no process.
LEMMA BatchOwned ==
  ASSUME TypeOK, OwnedInv, NEW S \in SUBSET Calls, Batch(S)
  PROVE  OwnedInv'
<1>1. PICK E \in SUBSET Calls, tool \in [S -> {"exec_command", "shell_command", "write_stdin"}] :
        \A c \in Calls : call'[c] = IF c \in S THEN FirstStep(tool[c], c \in E) ELSE call[c]
  BY BatchIs, Zenon
<1>2. UNCHANGED <<table, proc, victims>> /\ \A c \in S : call[c] = Idle BY DEF Batch
<1>3. \A c \in S : call[c].pc \notin WithProcess BY <1>2 DEF Idle, WithProcess
<1>4. ASSUME NEW c \in S
      PROVE  call'[c].pc \notin WithProcess /\ ToolFits(call'[c])
  <2>1. (c \in E) \in BOOLEAN /\ tool[c] \in {"exec_command", "shell_command", "write_stdin"}
    OBVIOUS
  <2>2. call'[c] = FirstStep(tool[c], c \in E) BY <1>1
  <2>3. call'[c].pc \notin WithProcess BY <2>1, <2>2, FirstType, Zenon
  <2>4. ASSUME NEW u \in {"exec_command", "shell_command", "write_stdin"}, NEW e \in BOOLEAN
        PROVE  ToolFits(FirstStep(u, e))
    <3>1. CASE u = "exec_command" BY <3>1 DEF FirstStep, Idle, ToolFits, Parallel
    <3>2. CASE u = "shell_command" BY <3>2 DEF FirstStep, Idle, ToolFits, Parallel
    <3>3. CASE u = "write_stdin" BY <3>3 DEF FirstStep, Idle, ToolFits, Parallel
    <3> QED BY <3>1, <3>2, <3>3
  <2> QED BY <2>1, <2>2, <2>3, <2>4, Zenon
<1>5. \A d \in Calls : \/ call'[d] = call[d]
                       \/ /\ call[d].pc \notin WithProcess /\ call'[d].pc \notin WithProcess
                          /\ ToolFits(call'[d])
  BY <1>1, <1>3, <1>4
<1> QED BY <1>2, <1>5, QuietOwned

\* Every step keeps the invariant.
LEMMA OwnedStep == ASSUME TypeOK, TypeOK', OwnedInv, [Next]_vars PROVE OwnedInv'
<1>1. CASE UNCHANGED vars
  BY <1>1, QuietOwned DEF vars
<1>2. CASE StopAll BY <1>2, StopOwned
<1>3. ASSUME NEW S \in SUBSET Calls \ {{}}, Batch(S) PROVE OwnedInv' BY <1>3, BatchOwned
<1>4. ASSUME NEW c \in Calls, CallStep(c) PROVE OwnedInv'
  <2>1. CASE Ask(c)
    BY <2>1, QuietGoto DEF Ask, At, Permitted
  <2>2. CASE Answered(c)
    BY <2>2, QuietGoto DEF Answered, At, Permitted
  <2>3. CASE Spawn(c)
    <3>1. CASE Goto(c, "done") /\ UNCHANGED <<cfg, stops, gate, victims, table, proc, outVars>>
      BY <2>3, <3>1, QuietGoto DEF Spawn, At
    <3>2. RunsIt(c) BY <2>3 DEF OwnedInv, CallOf, ToolFits, Spawn, At, RunsIt
    <3>3. ASSUME NEW p \in Free, SpawnOf(c, p) PROVE OwnedInv'
      BY <2>3, <3>2, <3>3, SpawnOwned DEF Spawn
    <3> QED BY <2>3, <3>1, <3>3, SpawnIs
  <2> QED BY <1>4, <2>1, <2>2, <2>3, RegisterActiveOwned, WaitedOwned, RegisterSessionOwned,
             SnapshotOwned, CloseOwned, TakeOwned, StdinGetOwned DEF CallStep
<1>5. ASSUME NEW t \in Threads, Interrupt(t) PROVE OwnedInv' BY <1>5, InterruptOwned
<1>6. ASSUME NEW p \in Procs, Write(p) \/ Exit(p) \/ ChildExits(p) \/ ReaderStep(p) PROVE OwnedInv'
  BY <1>6, ProcessOwned
<1> QED BY <1>1, <1>2, <1>3, <1>4, <1>5, <1>6 DEF Next

\* Nothing runs at first.
LEMMA OwnedInit == Init => OwnedInv
<1> SUFFICES ASSUME Init PROVE OwnedInv OBVIOUS
<1>1. Started = {} /\ active = {} /\ sessions = {} BY DEF Init, Started, Unborn
<1>2. \A c \in Calls : call[c] = Idle /\ victims[c] = <<>> BY DEF Init, Threads
<1>3. \A c \in Calls : CallOf(c) /\ Held(c) /\ ListOf(c)
  BY <1>2 DEF CallOf, Held, ListOf, ToolFits, Idle, WithProcess, Leaving
<1>4. Order BY <1>1 DEF Init, Order
<1>5. Cardinality(sessions) <= MaxSessions BY <1>1, FS_EmptySet, BoundsAssumption
<1> QED BY <1>1, <1>3, <1>4, <1>5 DEF OwnedInv

\* No command is lost: whatever runs is an active command, a session, about to be
\* interrupted, killed, or about to be entered by the call that started it; the table
\* of sessions keeps its limit, and no call that returned is still active.
THEOREM CommandsOwned == Spec => []Owned
<1>1. TypeOK /\ OwnedInv => Owned BY OwnedFollows
<1>2. TypeOK /\ TypeOK' /\ OwnedInv /\ [Next]_vars => OwnedInv' BY OwnedStep
<1> QED BY <1>1, <1>2, OwnedInit, CommandsTyped, PTL DEF Spec

-----------------------------------------------------------------------------
(* Nothing runs beyond what was granted.                                   *)

\* Among the grants is one of these requests of the tool and the call's command
Has(grants, c, tool, reqs) ==
  \E g \in grants : g.tool = tool /\ g.req \in reqs /\ g.cmd = CmdOf[c] /\ g.to \in {c, "session"}

\* What a command may run with: permission to leave the sandbox if it does, but for
\* shell_command, which needs the one it asks for; and permission to run in it where
\* the policy asks first
Outside == {"escalated", "retry"}
MustAsk(config, r) == r.tool = "exec_command" /\ ~r.bypass /\ NeedsPreflight(config, FALSE)
Allowed(config, grants, c, r) ==
  /\ r.bypass => r.tool = "shell_command" \/ Has(grants, c, r.tool, Outside)
  /\ MustAsk(config, r) => Has(grants, c, r.tool, {"preflight"})
  /\ (r.tool = "shell_command" /\ r.req = "escalated") => Has(grants, c, r.tool, {"escalated"})

\* A call asks for what its command needs
AsksFor(config, r) ==
  /\ r.bypass => r.req \in Outside
  /\ MustAsk(config, r) => r.req = "preflight"

\* A call is at a step it may be at
Entitled(config, grants, c, r) ==
  /\ r.pc \in {"ask", "answer"} => AsksFor(config, r)
  /\ r.pc = "spawn" => Allowed(config, grants, c, r)

ApprovedInv ==
  /\ \A k \in cache : \E g \in granted : k = <<g.tool, g.req, g.cmd>> /\ g.to = "session"
  /\ \A c \in Calls : Entitled(cfg, granted, c, call[c])
  /\ \A p \in Started : Allowed(cfg, granted, proc[p].by, proc[p])

\* The invariant implies the property.
LEMMA ApprovedFollows == ASSUME TypeOK, ApprovedInv PROVE RunsAreApproved
<1> SUFFICES ASSUME NEW p \in Started
             PROVE  /\ proc[p].bypass => \/ proc[p].tool = "shell_command"
                                         \/ Has(granted, proc[p].by, proc[p].tool, Outside)
                    /\ (proc[p].tool = "exec_command" /\ Confined(cfg, proc[p].bypass)
                          /\ NeedsPreflight(cfg, FALSE))
                         => Has(granted, proc[p].by, proc[p].tool, {"preflight"})
                    /\ (proc[p].tool = "shell_command" /\ proc[p].req = "escalated")
                         => Has(granted, proc[p].by, proc[p].tool, {"escalated"})
  BY DEF RunsAreApproved, Has, Outside
<1> QED BY DEF ApprovedInv, Allowed, MustAsk, Confined

\* Grants are never withdrawn.
LEMMA GrantsGrow ==
  ASSUME NEW G, NEW H, G \subseteq H, NEW f, NEW c, NEW r
  PROVE  /\ Allowed(f, G, c, r) => Allowed(f, H, c, r)
         /\ Entitled(f, G, c, r) => Entitled(f, H, c, r)
BY DEF Allowed, Entitled, Has

\* What is granted to a call or for the session permits what it asks for.
LEMMA GrantPermits ==
  ASSUME NEW G, NEW f, NEW c, NEW r, AsksFor(f, r), Has(G, c, r.tool, {r.req})
  PROVE  Allowed(f, G, c, r)
BY DEF AsksFor, Allowed, Has, Outside

\* Where a call is does not change what its command needs.
LEMMA SameNeeds ==
  ASSUME NEW r, NEW s, r.tool = s.tool, r.bypass = s.bypass, r.req = s.req,
         NEW f, NEW G, NEW c
  PROVE  /\ Allowed(f, G, c, r) <=> Allowed(f, G, c, s)
         /\ AsksFor(f, r) <=> AsksFor(f, s)
BY DEF Allowed, AsksFor, MustAsk

\* Steps after which every call fits, with the processes and grants as they were.
LEMMA PlainApproved ==
  ASSUME TypeOK, ApprovedInv, UNCHANGED <<cfg, gate>>, Started' = Started,
         \A q \in Procs : proc'[q].by = proc[q].by /\ proc'[q].tool = proc[q].tool
                          /\ proc'[q].bypass = proc[q].bypass /\ proc'[q].req = proc[q].req,
         \A d \in Calls : call'[d] = call[d] \/ Entitled(cfg, granted, d, call'[d])
  PROVE  ApprovedInv'
<1>1. cfg' = cfg /\ cache' = cache /\ granted' = granted BY DEF gate
<1>2. Started \subseteq Procs BY DEF Started
<1>3. ASSUME NEW p \in Started PROVE Allowed(cfg, granted, proc'[p].by, proc'[p])
  <2>1. Allowed(cfg, granted, proc[p].by, proc[p]) BY DEF ApprovedInv
  <2> QED BY <1>2, <2>1, SameNeeds
<1>4. \A d \in Calls : Entitled(cfg, granted, d, call'[d]) BY DEF ApprovedInv
<1> QED BY <1>1, <1>3, <1>4 DEF ApprovedInv

\* A step after which one call goes where nothing is asked or started.
LEMMA GoesApproved ==
  ASSUME TypeOK, ApprovedInv, UNCHANGED <<cfg, gate>>, Started' = Started,
         \A q \in Procs : proc'[q].by = proc[q].by /\ proc'[q].tool = proc[q].tool
                          /\ proc'[q].bypass = proc[q].bypass /\ proc'[q].req = proc[q].req,
         NEW c \in Calls, call'[c].pc \notin {"ask", "answer", "spawn"},
         \A d \in Calls \ {c} : call'[d] = call[d]
  PROVE  ApprovedInv'
<1>1. Entitled(cfg, granted, c, call'[c]) BY DEF Entitled
<1>2. \A d \in Calls : call'[d] = call[d] \/ Entitled(cfg, granted, d, call'[d]) BY <1>1
<1> QED BY <1>2, PlainApproved

\* A batch: each call asks for what it needs, or needs nothing.
LEMMA BatchApproved ==
  ASSUME TypeOK, ApprovedInv, NEW S \in SUBSET Calls, Batch(S)
  PROVE  ApprovedInv'
<1>1. PICK E \in SUBSET Calls, tool \in [S -> {"exec_command", "shell_command", "write_stdin"}] :
        \A c \in Calls : call'[c] = IF c \in S THEN FirstStep(tool[c], c \in E) ELSE call[c]
  BY BatchIs, Zenon
<1>2. ASSUME NEW u \in {"exec_command", "shell_command", "write_stdin"}, NEW e \in BOOLEAN, NEW c
      PROVE  Entitled(cfg, granted, c, FirstStep(u, e))
  <2>1. CASE u = "exec_command"
    BY <2>1 DEF FirstStep, Idle, Entitled, AsksFor, Allowed, MustAsk, Outside, NeedsPreflight
  <2>2. CASE u = "shell_command"
    BY <2>2 DEF FirstStep, Idle, Entitled, AsksFor, Allowed, MustAsk, Outside
  <2>3. CASE u = "write_stdin"
    BY <2>3 DEF FirstStep, Idle, Entitled
  <2> QED BY <2>1, <2>2, <2>3
<1>3. ASSUME NEW c \in S PROVE Entitled(cfg, granted, c, call'[c])
  <2>1. (c \in E) \in BOOLEAN /\ tool[c] \in {"exec_command", "shell_command", "write_stdin"}
    OBVIOUS
  <2>2. call'[c] = FirstStep(tool[c], c \in E) BY <1>1
  <2> QED BY <2>1, <2>2, <1>2, Zenon
<1>4. UNCHANGED <<cfg, gate, proc>> /\ Started' = Started BY DEF Batch, Started
<1>5. \A d \in Calls : call'[d] = call[d] \/ Entitled(cfg, granted, d, call'[d]) BY <1>1, <1>3
<1> QED BY <1>4, <1>5, PlainApproved

\* A request that was granted for the session before.
LEMMA AskApproved ==
  ASSUME TypeOK, ApprovedInv, NEW c \in Calls, Ask(c)
  PROVE  ApprovedInv'
<1>1. /\ call[c].pc = "ask" /\ UNCHANGED <<cfg, gate, proc>>
      /\ \/ Goto(c, "answer")
         \/ Settled(cache, {Key(call[c].req, c)}) /\ Goto(c, "spawn")
  BY DEF Ask, At, Permitted
<1>2. AsksFor(cfg, call[c]) BY <1>1 DEF ApprovedInv, Entitled
<1>3. CASE Goto(c, "answer")
  <2>1. /\ call'[c].pc = "answer" /\ call'[c].tool = call[c].tool /\ call'[c].req = call[c].req
        /\ call'[c].bypass = call[c].bypass /\ \A d \in Calls \ {c} : call'[d] = call[d]
    BY <1>3, Goes
  <2>2. Entitled(cfg, granted, c, call'[c]) BY <1>2, <2>1, SameNeeds DEF Entitled
  <2>3. \A d \in Calls : call'[d] = call[d] \/ Entitled(cfg, granted, d, call'[d]) BY <2>1, <2>2
  <2> QED BY <1>1, <2>3, PlainApproved DEF Started
<1>4. CASE Settled(cache, {Key(call[c].req, c)}) /\ Goto(c, "spawn")
  <2>1. /\ call'[c].pc = "spawn" /\ call'[c].tool = call[c].tool /\ call'[c].req = call[c].req
        /\ call'[c].bypass = call[c].bypass /\ \A d \in Calls \ {c} : call'[d] = call[d]
    BY <1>4, Goes
  <2>2. <<call[c].tool, call[c].req, CmdOf[c]>> \in cache BY <1>4 DEF Settled, Key
  <2>3. PICK g \in granted : <<call[c].tool, call[c].req, CmdOf[c]>> = <<g.tool, g.req, g.cmd>> /\ g.to = "session"
    BY <2>2 DEF ApprovedInv
  <2>4. Has(granted, c, call[c].tool, {call[c].req}) BY <2>3 DEF Has
  <2>5. Allowed(cfg, granted, c, call[c]) BY <1>2, <2>4, GrantPermits
  <2>6. Allowed(cfg, granted, c, call'[c]) BY <2>1, <2>5, SameNeeds
  <2>7. Entitled(cfg, granted, c, call'[c]) BY <2>1, <2>6 DEF Entitled
  <2>8. \A d \in Calls : call'[d] = call[d] \/ Entitled(cfg, granted, d, call'[d]) BY <2>1, <2>7
  <2> QED BY <1>1, <2>8, PlainApproved DEF Started
<1> QED BY <1>1, <1>3, <1>4

\* An answer, which others may have got meanwhile.
LEMMA AnsweredApproved ==
  ASSUME TypeOK, ApprovedInv, NEW c \in Calls, Answered(c)
  PROVE  ApprovedInv'
<1>1. call[c].pc = "answer" /\ UNCHANGED <<cfg, proc>> BY DEF Answered, At
<1>2. PICK h \in Hooks, d \in Providers :
        LET answer == Outcome(h, d) IN
        IF answer = "denied"
        THEN Goto(c, "done") /\ UNCHANGED gate
        ELSE /\ Permitted(c)
             /\ cache' = Remember(c, answer)
             /\ granted' = granted \cup
                  {[tool |-> call[c].tool, req |-> call[c].req, cmd |-> CmdOf[c],
                    to |-> IF answer = "session" THEN "session" ELSE c]}
  BY DEF Answered
<1> DEFINE answer == Outcome(h, d)
           g == [tool |-> call[c].tool, req |-> call[c].req, cmd |-> CmdOf[c],
                 to |-> IF answer = "session" THEN "session" ELSE c]
<1>0. /\ g.tool = call[c].tool /\ g.req = call[c].req /\ g.cmd = CmdOf[c] /\ g.to \in {c, "session"}
      /\ answer = "session" => g.to = "session"
  OBVIOUS
<1>3. CASE answer = "denied"
  <2>1. Goto(c, "done") /\ UNCHANGED gate BY <1>2, <1>3
  <2> QED BY <1>1, <2>1, Goes, GoesApproved DEF Started
<1>4. CASE answer # "denied"
  <2>1. Goto(c, "spawn") /\ cache' = Remember(c, answer) /\ granted' = granted \cup {g}
    BY <1>2, <1>4 DEF Permitted
  <2> HIDE DEF g, answer
  <2>2. /\ call'[c].pc = "spawn" /\ call'[c].tool = call[c].tool /\ call'[c].req = call[c].req
        /\ call'[c].bypass = call[c].bypass /\ \A e \in Calls \ {c} : call'[e] = call[e]
    BY <2>1, Goes
  <2>3. AsksFor(cfg, call[c]) BY <1>1 DEF ApprovedInv, Entitled
  <2>4. Has(granted', c, call[c].tool, {call[c].req}) BY <1>0, <2>1 DEF Has
  <2>5. Allowed(cfg, granted', c, call'[c]) BY <2>2, <2>3, <2>4, GrantPermits, SameNeeds
  <2>6. ASSUME NEW e \in Calls PROVE Entitled(cfg, granted', e, call'[e])
    <3>1. CASE e = c BY <2>2, <2>5, <3>1 DEF Entitled
    <3>2. CASE e # c
      <4>1. Entitled(cfg, granted, e, call[e]) BY DEF ApprovedInv
      <4> QED BY <2>1, <2>2, <3>2, <4>1, GrantsGrow
    <3> QED BY <3>1, <3>2
  <2>7. ASSUME NEW p \in Started' PROVE Allowed(cfg, granted', proc'[p].by, proc'[p])
    <3>1. p \in Started /\ proc' = proc BY <1>1 DEF Started
    <3>2. Allowed(cfg, granted, proc[p].by, proc[p]) BY <3>1 DEF ApprovedInv
    <3> QED BY <2>1, <3>1, <3>2, GrantsGrow
  <2>8. ASSUME NEW k \in cache' PROVE \E x \in granted' : k = <<x.tool, x.req, x.cmd>> /\ x.to = "session"
    <3>1. CASE k \in cache BY <2>1, <3>1 DEF ApprovedInv
    <3>2. CASE k \notin cache
      <4>1. answer = "session" /\ k = <<call[c].tool, call[c].req, CmdOf[c]>>
        BY <2>1, <3>2 DEF Remember, Key
      <4> QED BY <1>0, <2>1, <4>1
    <3> QED BY <3>1, <3>2
  <2>9. cfg' = cfg BY <1>1
  <2> QED BY <2>6, <2>7, <2>8, <2>9 DEF ApprovedInv
<1> QED BY <1>3, <1>4

\* A command that starts has the permission its call has.
LEMMA SpawnApproved ==
  ASSUME TypeOK, ApprovedInv, NEW c \in Calls, At(c, "spawn"), NEW p \in Free, SpawnOf(c, p)
  PROVE  ApprovedInv'
<1>1. /\ p \in Procs /\ Started' = Started \cup {p} /\ p \notin Started
      /\ \A q \in Procs \ {p} : proc'[q] = proc[q]
      /\ proc'[p].by = c /\ proc'[p].tool = call[c].tool /\ proc'[p].bypass = Unsandboxed(c)
      /\ proc'[p].req = call[c].req
  BY SpawnType
<1>2. cfg' = cfg /\ cache' = cache /\ granted' = granted BY DEF SpawnOf, gate
<1>3. call'[c].pc = "register" /\ \A d \in Calls \ {c} : call'[d] = call[d]
  BY DEF SpawnOf, Continue, TypeOK, CallType
<1>4. Allowed(cfg, granted, c, call[c]) BY DEF ApprovedInv, Entitled, At
<1>5. Allowed(cfg, granted, proc'[p].by, proc'[p]) BY <1>1, <1>4 DEF Allowed, MustAsk, Unsandboxed
<1>6. ASSUME NEW q \in Started' PROVE Allowed(cfg, granted, proc'[q].by, proc'[q])
  <2>1. CASE q = p BY <1>5, <2>1
  <2>2. CASE q # p BY <1>1, <2>2 DEF ApprovedInv, Started
  <2> QED BY <2>1, <2>2
<1>7. \A d \in Calls : Entitled(cfg, granted, d, call'[d]) BY <1>3 DEF ApprovedInv, Entitled
<1> QED BY <1>2, <1>6, <1>7 DEF ApprovedInv

\* A command whose output reads like a denial may ask to run again, outside.
LEMMA TakeApproved ==
  ASSUME TypeOK, ApprovedInv, NEW c \in Calls, TakeOutput(c)
  PROVE  ApprovedInv'
<1> DEFINE next == [call[c] EXCEPT !.pc = "ask", !.req = "retry", !.bypass = TRUE]
<1>1. /\ UNCHANGED <<cfg, gate, proc>> /\ Started' = Started
      /\ Goto(c, "done") \/ Continue(c, next)
  BY DEF TakeOutput, Started
<1>2. CASE Goto(c, "done") BY <1>1, <1>2, Goes, GoesApproved
<1>3. CASE Continue(c, next)
  <2>1. next.pc = "ask" /\ next.req = "retry" /\ next.bypass = TRUE BY DEF TypeOK, CallType
  <2> HIDE DEF next
  <2>2. Entitled(cfg, granted, c, next) BY <2>1 DEF Entitled, AsksFor, Outside, MustAsk
  <2>3. \A d \in Calls : call'[d] = call[d] \/ Entitled(cfg, granted, d, call'[d])
    BY <1>3, <2>2 DEF Continue, TypeOK
  <2> QED BY <1>1, <2>3, PlainApproved
<1> QED BY <1>1, <1>2, <1>3

\* Every step keeps the invariant.
LEMMA ApprovedStep == ASSUME TypeOK, ApprovedInv, [Next]_vars PROVE ApprovedInv'
<1>1. CASE UNCHANGED vars BY <1>1, PlainApproved DEF vars, Started
<1>2. CASE StopAll BY <1>2, PlainApproved DEF StopAll, Started
<1>3. ASSUME NEW S \in SUBSET Calls \ {{}}, Batch(S) PROVE ApprovedInv' BY <1>3, BatchApproved
<1>4. ASSUME NEW c \in Calls, CallStep(c) PROVE ApprovedInv'
  <2>1. CASE Spawn(c)
    <3>1. CASE Goto(c, "done") /\ UNCHANGED <<cfg, stops, gate, victims, table, proc, outVars>>
      BY <3>1, Goes, GoesApproved DEF Started
    <3>2. ASSUME NEW p \in Free, SpawnOf(c, p) PROVE ApprovedInv'
      BY <2>1, <3>2, SpawnApproved DEF Spawn
    <3> QED BY <2>1, <3>1, <3>2, SpawnIs
  <2>2. CASE RegisterActive(c) BY <2>2, Goes, GoesApproved DEF RegisterActive, Started
  <2>3. CASE ExecWaited(c)
    <3>1. Goto(c, "keep") \/ Goto(c, "snap") BY <2>3 DEF ExecWaited
    <3> QED BY <2>3, <3>1, Goes, GoesApproved DEF ExecWaited, Started
  <2>4. CASE ShellWaited(c) \/ StdinWaited(c)
    BY <2>4, Goes, GoesApproved DEF ShellWaited, StdinWaited, Started
  <2>5. CASE RegisterSession(c)
    <3>1. call'[c].pc = "snap" /\ \A d \in Calls \ {c} : call'[d] = call[d]
      BY <2>5 DEF RegisterSession, Continue, TypeOK, CallType
    <3> QED BY <2>5, <3>1, GoesApproved DEF RegisterSession, Started
  <2>6. CASE Snapshot(c)
    <3>1. Goto(c, "take") \/ Goto(c, "join") BY <2>6 DEF Snapshot
    <3> QED BY <2>6, <3>1, Goes, GoesApproved DEF Snapshot, Started
  <2>7. CASE JoinAndClose(c)
    <3>1. call[c].proc \in Procs BY <2>7, HasProcess DEF JoinAndClose, At, WithProcess
    <3>2. \A q \in Procs : /\ proc'[q].by = proc[q].by /\ proc'[q].status = proc[q].status
                           /\ proc'[q].tool = proc[q].tool /\ proc'[q].bypass = proc[q].bypass
                           /\ proc'[q].req = proc[q].req
      BY <2>7, <3>1 DEF JoinAndClose, ClosePipes, TypeOK, ProcType
    <3>3. Started' = Started BY <3>2 DEF Started
    <3> QED BY <2>7, <3>2, <3>3, Goes, GoesApproved DEF JoinAndClose
  <2>8. CASE StdinGet(c)
    <3>1. UNCHANGED <<cfg, gate, proc>> BY <2>8 DEF StdinGet
    <3>2. \/ Goto(c, "done")
          \/ \E p \in sessions : Continue(c, [call[c] EXCEPT !.pc = "wait", !.proc = p])
      BY <2>8 DEF StdinGet, Goto
    <3>3. call'[c].pc \in {"done", "wait"} /\ \A d \in Calls \ {c} : call'[d] = call[d]
      <4>1. CASE Goto(c, "done") BY <4>1, Goes
      <4>2. ASSUME NEW p \in sessions, Continue(c, [call[c] EXCEPT !.pc = "wait", !.proc = p])
            PROVE  <3>3
        BY <4>2 DEF Continue, TypeOK, CallType
      <4> QED BY <3>2, <4>1, <4>2
    <3> QED BY <3>1, <3>3, GoesApproved DEF Started
  <2> QED BY <1>4, <2>1, <2>2, <2>3, <2>4, <2>5, <2>6, <2>7, <2>8, AskApproved, AnsweredApproved,
             TakeApproved DEF CallStep
<1>5. ASSUME NEW t \in Threads, Interrupt(t) PROVE ApprovedInv'
  <2> DEFINE p == victims[t][1]
  <2>1. p \in Procs
    <3>1. victims[t] \in Seq(Procs) /\ victims[t] # <<>> BY <1>5 DEF Interrupt, TypeOK
    <3> QED BY <3>1
  <2>2. proc' = [proc EXCEPT ![p].open = FALSE, ![p].doomed = Doom(p)] BY <1>5 DEF Interrupt
  <2> HIDE DEF p
  <2>3. \A q \in Procs : /\ proc'[q].by = proc[q].by /\ proc'[q].status = proc[q].status
                         /\ proc'[q].tool = proc[q].tool /\ proc'[q].bypass = proc[q].bypass
                         /\ proc'[q].req = proc[q].req
    BY <2>1, <2>2 DEF TypeOK, ProcType
  <2>4. Started' = Started BY <2>3 DEF Started
  <2> QED BY <1>5, <2>3, <2>4, PlainApproved DEF Interrupt
<1>6. ASSUME NEW p \in Procs, Write(p) \/ Exit(p) \/ ChildExits(p) \/ ReaderStep(p)
      PROVE  ApprovedInv'
  BY <1>6, ProcessType, PlainApproved DEF Same
<1> QED BY <1>1, <1>2, <1>3, <1>4, <1>5, <1>6 DEF Next

\* Nothing has been asked at first.
LEMMA ApprovedInit == Init => ApprovedInv
BY DEF Init, ApprovedInv, Entitled, Idle, Started, Unborn

\* A command runs outside the sandbox only with a permission to do just that, given to
\* its call or for the session; and where the policy asks first, no command that
\* exec_command runs in the sandbox starts without a permission either.
THEOREM CommandsApproved == Spec => []RunsAreApproved
<1>1. TypeOK /\ ApprovedInv => RunsAreApproved BY ApprovedFollows
<1>2. TypeOK /\ ApprovedInv /\ [Next]_vars => ApprovedInv' BY ApprovedStep
<1> QED BY <1>1, <1>2, ApprovedInit, CommandsTyped, PTL DEF Spec

-----------------------------------------------------------------------------
(* Output.                                                                 *)

\* The bytes of a process are numbered as it writes them
Bits == Procs \X Nat \X BOOLEAN
Sorted(s) == \A i, j \in DOMAIN s : i < j => s[i][2] < s[j][2]
Ahead(s, t) == \A x \in ToSet(s), y \in ToSet(t) : x[2] < y[2]

\* Two sequences of bytes, one after the other.
LEMMA JoinIs ==
  ASSUME NEW s \in Seq(Bits), NEW t \in Seq(Bits)
  PROVE  /\ s \o t \in Seq(Bits) /\ ToSet(s \o t) = ToSet(s) \cup ToSet(t)
         /\ Sorted(s \o t) <=> (Sorted(s) /\ Sorted(t) /\ Ahead(s, t))
<1> DEFINE u == s \o t
<1>1. /\ u \in Seq(Bits) /\ Len(u) = Len(s) + Len(t)
      /\ DOMAIN s = 1..Len(s) /\ DOMAIN t = 1..Len(t) /\ DOMAIN u = 1..Len(u)
      /\ Len(s) \in Nat /\ Len(t) \in Nat
  BY LenProperties, ConcatProperties
<1>2. \A i \in DOMAIN s : i \in DOMAIN u /\ u[i] = s[i] BY <1>1, ConcatProperties
<1>3. \A j \in DOMAIN t : Len(s) + j \in DOMAIN u /\ u[Len(s) + j] = t[j]
  BY <1>1, ConcatProperties
<1>4. \A k \in DOMAIN u : k \in DOMAIN s \/ (k - Len(s) \in DOMAIN t /\ k = Len(s) + (k - Len(s)))
  BY <1>1
<1> HIDE DEF u
<1>5. ToSet(u) = ToSet(s) \cup ToSet(t)
  <2>1. ASSUME NEW k \in DOMAIN u PROVE u[k] \in ToSet(s) \cup ToSet(t)
    <3>1. CASE k \in DOMAIN s BY <1>2, <3>1 DEF ToSet
    <3>2. CASE k - Len(s) \in DOMAIN t /\ k = Len(s) + (k - Len(s)) BY <1>3, <3>2 DEF ToSet
    <3> QED BY <1>4, <3>1, <3>2
  <2>2. ToSet(s) \subseteq ToSet(u) BY <1>2 DEF ToSet
  <2>3. ToSet(t) \subseteq ToSet(u) BY <1>3 DEF ToSet
  <2> QED BY <2>1, <2>2, <2>3 DEF ToSet
<1>6. ASSUME Sorted(u) PROVE Sorted(s) /\ Sorted(t) /\ Ahead(s, t)
  <2>1. Sorted(s) BY <1>2, <1>6 DEF Sorted
  <2>2. Sorted(t)
    <3>1. SUFFICES ASSUME NEW i \in DOMAIN t, NEW j \in DOMAIN t, i < j PROVE t[i][2] < t[j][2]
      BY DEF Sorted
    <3>2. Len(s) + i < Len(s) + j BY <1>1, <3>1
    <3> QED BY <1>3, <1>6, <3>2 DEF Sorted
  <2>3. ASSUME NEW i \in DOMAIN s, NEW j \in DOMAIN t PROVE s[i][2] < t[j][2]
    <3>1. i < Len(s) + j BY <1>1
    <3> QED BY <1>2, <1>3, <1>6, <3>1 DEF Sorted
  <2> QED BY <2>1, <2>2, <2>3 DEF Ahead, ToSet
<1>7. ASSUME Sorted(s), Sorted(t), Ahead(s, t) PROVE Sorted(u)
  <2>1. SUFFICES ASSUME NEW i \in DOMAIN u, NEW j \in DOMAIN u, i < j PROVE u[i][2] < u[j][2]
    BY DEF Sorted
  <2>2. CASE j \in DOMAIN s
    <3>1. i \in DOMAIN s BY <1>1, <2>1, <2>2
    <3> QED BY <1>2, <1>7, <2>1, <2>2, <3>1 DEF Sorted
  <2>3. CASE i \in DOMAIN s /\ j \notin DOMAIN s
    <3>1. j - Len(s) \in DOMAIN t /\ u[j] = t[j - Len(s)] BY <1>3, <1>4, <2>3
    <3>2. u[i] = s[i] BY <1>2, <2>3
    <3> QED BY <1>7, <2>3, <3>1, <3>2 DEF Ahead, ToSet
  <2>4. CASE i \notin DOMAIN s /\ j \notin DOMAIN s
    <3>1. j - Len(s) \in DOMAIN t /\ u[j] = t[j - Len(s)] BY <1>3, <1>4, <2>4
    <3>2. i - Len(s) \in DOMAIN t /\ u[i] = t[i - Len(s)] BY <1>3, <1>4, <2>4
    <3>3. i - Len(s) < j - Len(s) BY <1>1, <2>1
    <3> QED BY <1>7, <3>1, <3>2, <3>3 DEF Sorted
  <2> QED BY <2>2, <2>3, <2>4
<1> QED BY <1>1, <1>5, <1>6, <1>7 DEF u

\* A part of a sequence of bytes.
LEMMA PartIs ==
  ASSUME NEW s \in Seq(Bits), NEW m \in Nat \ {0}, NEW n \in Int, n <= Len(s)
  PROVE  /\ SubSeq(s, m, n) \in Seq(Bits) /\ ToSet(SubSeq(s, m, n)) \subseteq ToSet(s)
         /\ Sorted(s) => Sorted(SubSeq(s, m, n))
         /\ Len(SubSeq(s, m, n)) = IF m <= n THEN n - m + 1 ELSE 0
<1> DEFINE u == SubSeq(s, m, n)
<1>0. Len(s) \in Nat /\ DOMAIN s = 1..Len(s) BY LenProperties
<1>1. \A i \in m..n : s[i] \in Bits BY <1>0, ElementOfSeq
<1>2. /\ u \in Seq(Bits) /\ Len(u) = IF m <= n THEN n - m + 1 ELSE 0
      /\ \A i \in 1..(n - m + 1) : u[i] = s[m + i - 1]
  BY <1>1, SubSeqProperties
<1>3. DOMAIN u = 1..Len(u) BY <1>2, LenProperties
<1> HIDE DEF u
<1>4. \A i \in DOMAIN u : m + i - 1 \in DOMAIN s /\ u[i] = s[m + i - 1] BY <1>0, <1>2, <1>3
<1>5. ToSet(u) \subseteq ToSet(s) BY <1>4 DEF ToSet
<1>6. ASSUME Sorted(s) PROVE Sorted(u)
  <2>1. SUFFICES ASSUME NEW i \in DOMAIN u, NEW j \in DOMAIN u, i < j PROVE u[i][2] < u[j][2]
    BY DEF Sorted
  <2>2. m + i - 1 < m + j - 1 BY <1>3, <2>1
  <2> QED BY <1>4, <1>6, <2>2 DEF Sorted
<1> QED BY <1>2, <1>5, <1>6 DEF u

\* The tail keeps the end of what it had and of the new chunk, in order.
LEMMA TailKeeps ==
  ASSUME NEW max \in Nat \ {0}, NEW b \in TextType, NEW c \in Seq(Bits), Sorted(b.tail \o c)
  PROVE  /\ PushTail(max, b, c) \in TextType /\ PushTail(max, b, c).head = b.head
         /\ Sorted(PushTail(max, b, c).tail)
         /\ ToSet(PushTail(max, b, c).tail) \subseteq ToSet(b.tail) \cup ToSet(c)
<1> DEFINE budget == TailBudget(max)
           both == b.tail \o c
           excess == Len(both) - budget
           one == Last_(c, budget)
           two == SubSeq(both, excess + 1, Len(both))
<1>1. budget \in Nat \ {0} BY DEF TailBudget, HeadBudget
<1>2. b.tail \in Seq(Bits) /\ b.head \in Seq(Bits) BY DEF TextType, Chunks, Bits
<1>3. /\ both \in Seq(Bits) /\ ToSet(both) = ToSet(b.tail) \cup ToSet(c)
      /\ Sorted(c) /\ Len(both) \in Nat /\ Len(c) \in Nat
  BY <1>2, JoinIs, LenProperties
<1>4. ASSUME NEW t \in Seq(Bits), Sorted(t), ToSet(t) \subseteq ToSet(b.tail) \cup ToSet(c),
             PushTail(max, b, c) = [b EXCEPT !.tail = t]
      PROVE  /\ PushTail(max, b, c) \in TextType /\ PushTail(max, b, c).head = b.head
             /\ Sorted(PushTail(max, b, c).tail)
             /\ ToSet(PushTail(max, b, c).tail) \subseteq ToSet(b.tail) \cup ToSet(c)
  <2>1. [b EXCEPT !.tail = t] \in TextType BY <1>4 DEF TextType, Chunks, Bits
  <2>2. [b EXCEPT !.tail = t].tail = t /\ [b EXCEPT !.tail = t].head = b.head BY DEF TextType
  <2> QED BY <1>4, <2>1, <2>2
<1>5. CASE Len(c) >= budget
  <2>1. PushTail(max, b, c) = [b EXCEPT !.tail = one] BY <1>1, <1>5 DEF PushTail
  <2>2. one = SubSeq(c, Len(c) - budget + 1, Len(c)) BY <1>1, <1>3, <1>5 DEF Last_, Least
  <2>3. Len(c) - budget + 1 \in Nat \ {0} BY <1>1, <1>3, <1>5
  <2> HIDE DEF one, budget
  <2>4. one \in Seq(Bits) /\ Sorted(one) /\ ToSet(one) \subseteq ToSet(c)
    BY <1>3, <2>2, <2>3, PartIs
  <2> QED BY <1>4, <2>1, <2>4
<1>6. CASE Len(c) < budget /\ excess > 0
  <2>0. ~(budget = 0) /\ ~(Len(c) >= budget) /\ excess > 0 BY <1>1, <1>3, <1>6
  <2>1. PushTail(max, b, c) = [b EXCEPT !.tail = two] BY <2>0, Zenon DEF PushTail
  <2>2. excess + 1 \in Nat \ {0} BY <1>1, <1>3, <1>6
  <2>4. Sorted(both) OBVIOUS
  <2>5. Len(both) \in Int /\ Len(both) <= Len(both) BY <1>3
  <2> HIDE DEF budget, both, excess
  <2>3. two \in Seq(Bits) /\ Sorted(two) /\ ToSet(two) \subseteq ToSet(both)
    BY <1>3, <2>2, <2>4, <2>5, PartIs
  <2> HIDE DEF two
  <2> QED BY <1>3, <1>4, <2>1, <2>3
<1>7. CASE Len(c) < budget /\ ~(excess > 0)
  <2>0. ~(budget = 0) /\ ~(Len(c) >= budget) /\ ~(excess > 0) BY <1>1, <1>3, <1>7
  <2>1. PushTail(max, b, c) = [b EXCEPT !.tail = both] BY <2>0, Zenon DEF PushTail
  <2> HIDE DEF both
  <2> QED BY <1>3, <1>4, <2>1 DEF both
<1> QED BY <1>1, <1>3, <1>5, <1>6, <1>7

\* The tail is used when the head is full
Filled(max, b) == Len(b.head) < HeadBudget(max) => b.tail = <<>>

\* A buffer keeps bytes of its own and of the new chunk, in the order they came.
LEMMA PushKeeps ==
  ASSUME NEW max \in Nat, NEW b \in TextType, NEW c \in Seq(Bits), Filled(max, b),
         Sorted(Text(b) \o c)
  PROVE  /\ Push(max, b, c) \in TextType /\ Filled(max, Push(max, b, c))
         /\ Sorted(Text(Push(max, b, c)))
         /\ ToSet(Text(Push(max, b, c))) \subseteq ToSet(Text(b)) \cup ToSet(c)
<1>0. SUFFICES ASSUME NEW r, r = Push(max, b, c)
               PROVE  /\ r \in TextType /\ Filled(max, r) /\ Sorted(Text(r))
                      /\ ToSet(Text(r)) \subseteq ToSet(Text(b)) \cup ToSet(c)
  OBVIOUS
<1> DEFINE left == HeadBudget(max) - Len(b.head)
<1>1. b.head \in Seq(Bits) /\ b.tail \in Seq(Bits) BY DEF TextType, Chunks, Bits
<1>2. /\ Text(b) \in Seq(Bits) /\ ToSet(Text(b)) = ToSet(b.head) \cup ToSet(b.tail)
      /\ Sorted(Text(b)) /\ Sorted(c) /\ Ahead(Text(b), c)
      /\ Sorted(b.head) /\ Sorted(b.tail) /\ Ahead(b.head, b.tail)
  <2>1. Text(b) \in Seq(Bits) /\ ToSet(Text(b)) = ToSet(b.head) \cup ToSet(b.tail)
        /\ (Sorted(Text(b)) <=> (Sorted(b.head) /\ Sorted(b.tail) /\ Ahead(b.head, b.tail)))
    BY <1>1, JoinIs DEF Text
  <2> QED BY <2>1, JoinIs
<1>3. Ahead(b.head, c) /\ Ahead(b.tail, c) BY <1>2 DEF Ahead
<1>4. Sorted(b.tail \o c) BY <1>1, <1>2, <1>3, JoinIs
<1>5. HeadBudget(max) \in Nat /\ Len(b.head) \in Nat /\ Len(c) \in Nat /\ left \in Int
  BY <1>1, LenProperties DEF HeadBudget
\* the parts of a buffer, and what they make together
<1>6. ASSUME NEW h \in Seq(Bits), NEW t \in Seq(Bits), r = [head |-> h, tail |-> t],
             Sorted(h), Sorted(t), Ahead(h, t),
             ToSet(h) \cup ToSet(t) \subseteq ToSet(Text(b)) \cup ToSet(c)
      PROVE  /\ r \in TextType /\ Sorted(Text(r))
             /\ ToSet(Text(r)) \subseteq ToSet(Text(b)) \cup ToSet(c)
  <2>1. r \in TextType /\ r.head = h /\ r.tail = t BY <1>6 DEF TextType, Chunks, Bits
  <2>2. Text(r) = h \o t BY <2>1 DEF Text
  <2>3. ToSet(h \o t) = ToSet(h) \cup ToSet(t) /\ Sorted(h \o t) BY <1>6, JoinIs
  <2> QED BY <1>6, <2>1, <2>2, <2>3
<1>7. CASE c = <<>> \/ max = 0
  <2>1. r = b BY <1>0, <1>7 DEF Push
  <2> QED BY <1>2, <2>1
<1>8. CASE c # <<>> /\ max # 0 /\ left <= 0
  <2>1. r = PushTail(max, b, c) BY <1>0, <1>8 DEF Push
  <2>2. /\ r \in TextType /\ r.head = b.head /\ Sorted(r.tail)
        /\ ToSet(r.tail) \subseteq ToSet(b.tail) \cup ToSet(c)
    BY <1>4, <1>8, <2>1, TailKeeps
  <2>3. r = [head |-> r.head, tail |-> r.tail] /\ r.tail \in Seq(Bits)
    BY <2>2 DEF TextType, Chunks, Bits
  <2>4. Ahead(b.head, r.tail) BY <1>2, <1>3, <2>2 DEF Ahead
  <2>5. ~(Len(r.head) < HeadBudget(max)) BY <1>5, <1>8, <2>2
  <2> QED BY <1>1, <1>2, <1>6, <2>2, <2>3, <2>4, <2>5 DEF Filled
<1>9. CASE c # <<>> /\ max # 0 /\ left > 0 /\ Len(c) <= left
  <2>1. b.tail = <<>> BY <1>5, <1>9 DEF Filled
  <2>2. r = [b EXCEPT !.head = @ \o c] BY <1>0, <1>5, <1>9 DEF Push
  <2>3. r = [head |-> b.head \o c, tail |-> b.tail] BY <2>2 DEF TextType
  <2>4. /\ b.head \o c \in Seq(Bits) /\ ToSet(b.head \o c) = ToSet(b.head) \cup ToSet(c)
        /\ Sorted(b.head \o c)
    BY <1>1, <1>2, <1>3, JoinIs
  <2>5. Ahead(b.head \o c, b.tail) BY <2>1 DEF Ahead, ToSet
  <2>6. r.tail = <<>> BY <2>1, <2>3
  <2> QED BY <1>1, <1>2, <1>6, <2>3, <2>4, <2>5, <2>6 DEF Filled
<1>10. CASE c # <<>> /\ max # 0 /\ left > 0 /\ ~(Len(c) <= left)
  <2> DEFINE one == First(c, left)
             rest == SubSeq(c, left + 1, Len(c))
             b2 == [b EXCEPT !.head = @ \o one]
  <2>1. b.tail = <<>> BY <1>5, <1>10 DEF Filled
  <2>0. ~(c = <<>> \/ max = 0) /\ ~(left <= 0) /\ ~(Len(c) <= left) BY <1>5, <1>10
  <2>2. r = PushTail(max, b2, rest) BY <1>0, <2>0, Zenon DEF Push
  <2>3. one = SubSeq(c, 1, left) BY <1>5, <1>10 DEF First, Least
  <2>4. left \in Nat \ {0} /\ left <= Len(c) /\ 1 \in Nat \ {0} /\ left + 1 \in Nat \ {0}
    BY <1>5, <1>10
  <2> HIDE DEF left
  <2>5. one \in Seq(Bits) /\ Sorted(one) /\ ToSet(one) \subseteq ToSet(c) /\ Len(one) = left
    BY <1>2, <2>3, <2>4, PartIs
  <2>6. rest \in Seq(Bits) /\ Sorted(rest) /\ ToSet(rest) \subseteq ToSet(c)
    BY <1>2, <1>5, <2>4, PartIs
  <2>7. Ahead(one, rest)
    <3>1. SUFFICES ASSUME NEW i \in DOMAIN one, NEW j \in DOMAIN rest PROVE one[i][2] < rest[j][2]
      BY DEF Ahead, ToSet
    <3>2. /\ i \in 1..left /\ one[i] = c[i] /\ i \in DOMAIN c
      <4>1. DOMAIN one = 1..left /\ DOMAIN c = 1..Len(c) BY <2>5, LenProperties
      <4>2. \A k \in 1..left : c[k] \in Bits BY <2>4, <4>1, ElementOfSeq
      <4>3. \A k \in 1..left : SubSeq(c, 1, left)[k] = c[k]
        <5>1. \A k \in 1..(left - 1 + 1) : SubSeq(c, 1, left)[k] = c[1 + k - 1]
          BY <2>4, <4>2, SubSeqProperties
        <5> QED BY <2>4, <5>1
      <4> QED BY <1>5, <2>3, <2>4, <4>1, <4>3, SMTT(20)
    <3>3. /\ left + j \in DOMAIN c /\ rest[j] = c[left + j] /\ i < left + j
      <4>1. DOMAIN rest = 1..Len(rest) /\ DOMAIN c = 1..Len(c) BY <2>6, LenProperties
      <4>2. Len(rest) = Len(c) - left
        <5>1. Len(rest) = IF left + 1 <= Len(c) THEN Len(c) - (left + 1) + 1 ELSE 0
          BY <1>5, <2>4, PartIs
        <5> QED BY <1>5, <2>4, <5>1
      <4>0. \A k \in (left + 1)..Len(c) : k \in 1..Len(c) BY <1>5, <2>4
      <4>3. \A k \in (left + 1)..Len(c) : c[k] \in Bits BY <4>0, ElementOfSeq
      <4>4. \A k \in 1..(Len(c) - (left + 1) + 1) : rest[k] = c[(left + 1) + k - 1]
        BY <1>5, <2>4, <4>3, SubSeqProperties
      <4> HIDE DEF rest
      <4>5. j \in 1..(Len(c) - left) /\ left + j = (left + 1) + j - 1 BY <1>5, <2>4, <4>1, <4>2
      <4>6. rest[j] = c[left + j] BY <1>5, <2>4, <4>4, <4>5
      <4>7. left + j \in 1..Len(c) /\ i < left + j BY <1>5, <2>4, <3>2, <4>5
      <4> QED BY <4>1, <4>6, <4>7
    <3> QED BY <1>2, <3>2, <3>3 DEF Sorted
  <2> HIDE DEF one, rest
  <2>8. b2 \in TextType /\ b2.head = b.head \o one /\ b2.tail = <<>>
    <3>1. b.head \o one \in Seq(Bits) BY <1>1, <2>5, JoinIs
    <3> QED BY <2>1, <3>1 DEF TextType, Chunks, Bits
  <2> HIDE DEF b2
  <2>9. Sorted(b2.tail \o rest)
    <3>1. <<>> \in Seq(Bits) /\ Sorted(<<>>) /\ Ahead(<<>>, rest) BY DEF Sorted, Ahead, ToSet
    <3> QED BY <2>6, <2>8, <3>1, JoinIs
  <2>10. /\ r \in TextType /\ r.head = b.head \o one /\ Sorted(r.tail)
         /\ ToSet(r.tail) \subseteq ToSet(<<>>) \cup ToSet(rest)
    BY <1>10, <2>2, <2>6, <2>8, <2>9, TailKeeps
  <2>11. ToSet(<<>>) = {} BY DEF ToSet
  <2>12. r = [head |-> r.head, tail |-> r.tail] /\ r.tail \in Seq(Bits)
    BY <2>10 DEF TextType, Chunks, Bits
  <2>13. /\ b.head \o one \in Seq(Bits) /\ ToSet(b.head \o one) = ToSet(b.head) \cup ToSet(one)
         /\ Sorted(b.head \o one)
    <3>1. Ahead(b.head, one) BY <1>3, <2>5 DEF Ahead
    <3> QED BY <1>1, <1>2, <2>5, <3>1, JoinIs
  <2>14. Ahead(b.head \o one, r.tail)
    <3>1. ToSet(r.tail) \subseteq ToSet(rest) BY <2>10, <2>11
    <3>2. Ahead(b.head, rest) BY <1>3, <2>6 DEF Ahead
    <3> QED BY <2>7, <2>13, <3>1, <3>2 DEF Ahead
  <2>15. Filled(max, r)
    <3>1. Len(r.head) = Len(b.head) + left BY <1>1, <2>5, <2>10, ConcatProperties
    <3>2. ~(Len(r.head) < HeadBudget(max)) BY <1>5, <2>4, <3>1 DEF left
    <3> QED BY <3>2 DEF Filled
  <2> QED BY <1>2, <1>6, <2>5, <2>6, <2>10, <2>11, <2>12, <2>13, <2>14, <2>15
<1> QED BY <1>5, <1>7, <1>8, <1>9, <1>10

\* The numbers of two sequences, one after the other.
LEMMA NumbersJoin ==
  ASSUME NEW s \in Seq(Bits), NEW t \in Seq(Bits)
  PROVE  Numbers(s \o t) = Numbers(s) \cup Numbers(t)
<1>1. ToSet(s \o t) = ToSet(s) \cup ToSet(t) BY JoinIs
<1> QED BY <1>1 DEF Numbers

\* The elements of a sequence of bytes.
LEMMA BytesAre ==
  ASSUME NEW s \in Seq(Bits), NEW e \in ToSet(s)
  PROVE  e \in Bits /\ e = <<e[1], e[2], e[3]>> /\ e[2] \in Nat /\ e[3] \in BOOLEAN
<1>1. e \in Bits BY ElementOfSeq, LenProperties DEF ToSet
<1> QED BY <1>1 DEF Bits

\* In a sequence in order a number is there once.
LEMMA SortedOnce ==
  ASSUME NEW s \in Seq(Bits), Sorted(s), NEW e \in ToSet(s), NEW f \in ToSet(s), e[2] = f[2]
  PROVE  e = f
<1>1. PICK i \in DOMAIN s : e = s[i] BY DEF ToSet
<1>2. PICK j \in DOMAIN s : f = s[j] BY DEF ToSet
<1>3. DOMAIN s = 1..Len(s) /\ Len(s) \in Nat BY LenProperties
<1>4. e[2] \in Nat BY BytesAre
<1>5. ~(i < j) /\ ~(j < i) BY <1>1, <1>2, <1>4 DEF Sorted
<1>6. i = j BY <1>3, <1>5
<1> QED BY <1>1, <1>2, <1>6

\* A byte of a character that is among these bytes, or the rest of which is gone
Whole(p, n, bytes, gone) ==
  \E char \in cfg.chars : n \in char /\ \A m \in char : <<p, m, TRUE>> \in bytes \/ <<p, m>> \in gone

\* Bytes of a process, and what decoding makes of them
OfProcess(p, s) == s \in Seq(Bits) /\ \A e \in ToSet(s) : e[1] = p

IsDecoded(p, s, d) ==
  /\ d \in Seq(Bits) /\ Numbers(d) = Numbers(s) /\ (Sorted(s) => Sorted(d))
  /\ \A e \in ToSet(d) : (e[3] <=> Whole(p, e[2], ToSet(s), {})) /\ \E f \in ToSet(s) : f[2] = e[2]
  /\ \A n : (<<p, n, TRUE>> \in ToSet(s) /\ Whole(p, n, ToSet(s), {})) => <<p, n, TRUE>> \in ToSet(d)

\* Decoding keeps the bytes of whole characters, and the places of all.
LEMMA DecodeIs == ASSUME NEW p, NEW s, OfProcess(p, s) PROVE IsDecoded(p, s, Decode(s))
<1>0. s \in Seq(Bits) /\ \A e \in ToSet(s) : e[1] = p BY DEF OfProcess
<1> DEFINE d == Decode(s)
           at(i) == Whole(p, s[i][2], ToSet(s), {})
<1>1. DOMAIN s = 1..Len(s) /\ Len(s) \in Nat BY <1>0, LenProperties
<1>2. \A i \in DOMAIN s : s[i] \in ToSet(s) BY DEF ToSet
<1>3. \A i \in DOMAIN s : s[i][1] = p /\ s[i] \in Bits /\ s[i] = <<p, s[i][2], s[i][3]>> /\ s[i][2] \in Nat
  <2> SUFFICES ASSUME NEW i \in DOMAIN s
               PROVE  s[i][1] = p /\ s[i] \in Bits /\ s[i] = <<p, s[i][2], s[i][3]>> /\ s[i][2] \in Nat
    OBVIOUS
  <2>1. s[i][1] = p /\ s[i] \in ToSet(s) BY <1>0, <1>2
  <2>2. s[i] \in Bits /\ s[i] = <<s[i][1], s[i][2], s[i][3]>> /\ s[i][2] \in Nat BY <1>0, <2>1, BytesAre
  <2> QED BY <2>1, <2>2
<1>4. \A i \in DOMAIN s :
        (\E char \in cfg.chars : s[i][2] \in char /\ \A n \in char : <<s[i][1], n, TRUE>> \in ToSet(s)) <=> at(i)
  BY <1>3 DEF Whole
<1>5. d = [i \in DOMAIN s |->
             <<s[i][1], s[i][2],
               \E char \in cfg.chars : s[i][2] \in char /\ \A n \in char : <<s[i][1], n, TRUE>> \in ToSet(s)>>]
  BY DEF Decode
<1>6. DOMAIN d = DOMAIN s BY <1>5
<1>7. ASSUME NEW i \in DOMAIN s
      PROVE  d[i][1] = p /\ d[i][2] = s[i][2] /\ d[i][3] \in BOOLEAN /\ (d[i][3] <=> at(i))
             /\ d[i] = <<d[i][1], d[i][2], d[i][3]>>
  <2>1. d[i] = <<s[i][1], s[i][2],
               \E char \in cfg.chars : s[i][2] \in char /\ \A n \in char : <<s[i][1], n, TRUE>> \in ToSet(s)>>
    BY <1>5
  <2> HIDE DEF d, at
  <2> DEFINE here == \E char \in cfg.chars : s[i][2] \in char /\ \A n \in char : <<s[i][1], n, TRUE>> \in ToSet(s)
  <2>2. here \in BOOLEAN /\ (here <=> at(i)) BY <1>4
  <2>3. d[i] = <<s[i][1], s[i][2], here>> BY <2>1
  <2> HIDE DEF here
  <2>4. d[i][1] = s[i][1] /\ d[i][2] = s[i][2] /\ d[i][3] = here BY <2>3
  <2> QED BY <1>3, <2>2, <2>3, <2>4
<1> HIDE DEF d
<1>8. \A i \in DOMAIN s : d[i] \in Bits
  <2> SUFFICES ASSUME NEW i \in DOMAIN s PROVE d[i] \in Bits OBVIOUS
  <2>1. s[i] \in Bits /\ s[i][1] = p /\ s[i][2] \in Nat BY <1>3
  <2>2. p \in Procs BY <2>1 DEF Bits
  <2>3. d[i] = <<d[i][1], d[i][2], d[i][3]>> /\ d[i][1] = p /\ d[i][2] \in Nat /\ d[i][3] \in BOOLEAN
    BY <1>7, <2>1
  <2> HIDE DEF Procs
  <2> QED BY <2>2, <2>3 DEF Bits
<1>9. d \in Seq(Bits)
  <2>1. d = [i \in 1..Len(s) |-> d[i]] BY <1>1, <1>5
  <2>2. d \in [1..Len(s) -> Bits] BY <1>1, <1>8, <2>1
  <2> QED BY <1>1, <2>2, SeqDef
<1>10. Numbers(d) = Numbers(s)
  <2>1. ASSUME NEW i \in DOMAIN s PROVE <<d[i][1], d[i][2]>> = <<s[i][1], s[i][2]>> BY <1>3, <1>7
  <2>2. Numbers(d) = {<<d[i][1], d[i][2]>> : i \in DOMAIN s} BY <1>6 DEF Numbers, ToSet
  <2>3. Numbers(s) = {<<s[i][1], s[i][2]>> : i \in DOMAIN s} BY DEF Numbers, ToSet
  <2> QED BY <2>1, <2>2, <2>3
<1>11. Sorted(s) => Sorted(d) BY <1>6, <1>7 DEF Sorted
<1>12. ASSUME NEW e \in ToSet(d)
       PROVE  (e[3] <=> Whole(p, e[2], ToSet(s), {})) /\ \E f \in ToSet(s) : f[2] = e[2]
  <2>1. PICK i \in DOMAIN s : e = d[i] BY <1>6 DEF ToSet
  <2>2. (e[3] <=> Whole(p, s[i][2], ToSet(s), {})) /\ e[2] = s[i][2] BY <1>7, <2>1
  <2> QED BY <1>2, <2>2
<1>13. ASSUME NEW n, <<p, n, TRUE>> \in ToSet(s), Whole(p, n, ToSet(s), {})
       PROVE  <<p, n, TRUE>> \in ToSet(d)
  <2>1. PICK i \in DOMAIN s : <<p, n, TRUE>> = s[i] BY <1>13 DEF ToSet
  <2>2. s[i][2] = n BY <2>1
  <2>3. d[i] = <<p, n, TRUE>>
    <3>1. d[i][1] = p /\ d[i][2] = n /\ d[i][3] \in BOOLEAN /\ d[i][3] BY <1>7, <1>13, <2>2
    <3> QED BY <1>7, <3>1
  <2> QED BY <1>6, <2>3 DEF ToSet
<1> QED BY <1>9, <1>10, <1>11, <1>12, <1>13 DEF d, IsDecoded

\* Where the bytes of a process are, in the order it wrote them; a byte is there or
\* was let go, and none is there before it was written.
BitsOf(p) ==
  /\ Sorted(Whereabouts(p))
  /\ \A e \in ToSet(Whereabouts(p)) : e[1] = p /\ e[2] \in 1..proc[p].wrote
  /\ \A e \in dropped : e[1] = p => e[2] \in 1..proc[p].wrote
  /\ \A n \in 1..proc[p].wrote : (<<p, n>> \in Numbers(Whereabouts(p))) # (<<p, n>> \in dropped)
  /\ Filled(BufferBytes, fresh[p])

\* What is left of the characters of a process.  The stream has what was written since
\* the last read; the buffer has all of a character but what it let go, since one read
\* had all of it.
CharsOf(p) ==
  /\ \A e \in ToSet(Whereabouts(p)) : e[3] \/ Torn(p, e[2])
  /\ \A e \in ToSet(delivered[p]) : e[3] => Whole(p, e[2], ToSet(delivered[p]), {})
  /\ \A e \in ToSet(Text(fresh[p])) : e[3] => Whole(p, e[2], ToSet(Text(fresh[p])), dropped)
  /\ \A e \in ToSet(proc[p].pipe) : e[3]
  /\ \E r \in ends[p] : /\ r \in 0..proc[p].wrote
                        /\ Numbers(proc[p].pipe) = {<<p, n>> : n \in (r + 1)..proc[p].wrote}

\* A process that was not started has written nothing
Silent(p) ==
  /\ Whereabouts(p) = <<>> /\ proc[p].wrote = 0 /\ ~HasWriter(p) /\ reader[p] = "gone"

OutputInv ==
  /\ fresh \in [Procs -> TextType] /\ delivered \in [Procs -> Chunks]
  /\ reader \in [Procs -> {"select", "gone"}] /\ dropped \subseteq Procs \X Nat
  /\ ends \in [Procs -> SUBSET Nat]
  /\ \A p \in Procs : BitsOf(p) /\ CharsOf(p) /\ (p \notin Started => Silent(p))

\* The invariant implies the property.
LEMMA OutputFollows == ASSUME OutputInv PROVE OutputOnce
<1>1. Started \subseteq Procs BY DEF Started
<1>2. ASSUME NEW p \in Started
      PROVE  /\ \A i, j \in DOMAIN Whereabouts(p) : i < j => Whereabouts(p)[i][2] < Whereabouts(p)[j][2]
             /\ \A n \in 1..proc[p].wrote :
                  (<<p, n>> \in Numbers(Whereabouts(p))) # (<<p, n>> \in dropped)
             /\ \A b \in ToSet(Whereabouts(p)) : b[3] \/ Torn(p, b[2])
             /\ \A b \in ToSet(delivered[p]) : b[3] =>
                  \E char \in cfg.chars : b[2] \in char /\ \A n \in char : <<p, n, TRUE>> \in ToSet(delivered[p])
  <2>1. BitsOf(p) /\ CharsOf(p) BY <1>1 DEF OutputInv
  <2>2. \A b \in ToSet(delivered[p]) : b[3] =>
          \E char \in cfg.chars : b[2] \in char /\ \A n \in char : <<p, n, TRUE>> \in ToSet(delivered[p])
    BY <2>1 DEF CharsOf, Whole
  <2> QED BY <2>1, <2>2 DEF BitsOf, CharsOf, Sorted
<1> QED BY <1>2 DEF OutputOnce

\* Three sequences of bytes, one after the other.
LEMMA JoinsAssociate ==
  ASSUME NEW s \in Seq(Bits), NEW t \in Seq(Bits), NEW u \in Seq(Bits)
  PROVE  (s \o t) \o u = s \o (t \o u)
BY ConcatAssociative

\* Three sequences in order, one after the other.
LEMMA ThreeAre ==
  ASSUME NEW s \in Seq(Bits), NEW t \in Seq(Bits), NEW u \in Seq(Bits)
  PROVE  /\ (s \o t) \o u \in Seq(Bits)
         /\ ToSet((s \o t) \o u) = ToSet(s) \cup ToSet(t) \cup ToSet(u)
         /\ Numbers((s \o t) \o u) = Numbers(s) \cup Numbers(t) \cup Numbers(u)
         /\ Sorted((s \o t) \o u) <=> /\ Sorted(s) /\ Sorted(t) /\ Sorted(u)
                                       /\ Ahead(s, t) /\ Ahead(s, u) /\ Ahead(t, u)
<1>1. /\ s \o t \in Seq(Bits) /\ ToSet(s \o t) = ToSet(s) \cup ToSet(t)
      /\ Sorted(s \o t) <=> (Sorted(s) /\ Sorted(t) /\ Ahead(s, t))
      /\ Numbers(s \o t) = Numbers(s) \cup Numbers(t)
  BY JoinIs, NumbersJoin
<1> DEFINE v == s \o t
<1> HIDE DEF v
<1>2. /\ v \o u \in Seq(Bits) /\ ToSet(v \o u) = ToSet(v) \cup ToSet(u)
      /\ Sorted(v \o u) <=> (Sorted(v) /\ Sorted(u) /\ Ahead(v, u))
      /\ Numbers(v \o u) = Numbers(v) \cup Numbers(u)
  BY <1>1, JoinIs, NumbersJoin DEF v
<1>3. Ahead(v, u) <=> (Ahead(s, u) /\ Ahead(t, u)) BY <1>1 DEF Ahead, v
<1> QED BY <1>1, <1>2, <1>3 DEF v

\* The parts of what a process wrote.
LEMMA PartsOf ==
  ASSUME TypeOK, OutputInv, NEW p \in Procs
  PROVE  /\ delivered[p] \in Seq(Bits) /\ fresh[p] \in TextType /\ proc[p].pipe \in Seq(Bits)
         /\ fresh[p].head \in Seq(Bits) /\ fresh[p].tail \in Seq(Bits)
         /\ Text(fresh[p]) \in Seq(Bits) /\ Text(fresh[p]) \o proc[p].pipe \in Seq(Bits)
         /\ Whereabouts(p) = delivered[p] \o (Text(fresh[p]) \o proc[p].pipe)
         /\ Whereabouts(p) = (delivered[p] \o Text(fresh[p])) \o proc[p].pipe
         /\ proc[p].wrote \in Nat
<1>1. delivered[p] \in Seq(Bits) /\ fresh[p] \in TextType BY DEF OutputInv, Chunks, Bits
<1>2. proc[p].pipe \in Seq(Bits) /\ proc[p].wrote \in Nat BY DEF TypeOK, ProcType, Chunks, Bits
<1>3. fresh[p].head \in Seq(Bits) /\ fresh[p].tail \in Seq(Bits)
  BY <1>1 DEF TextType, Chunks, Bits
<1>4. Text(fresh[p]) \in Seq(Bits) BY <1>3 DEF Text
<1>5. Text(fresh[p]) \o proc[p].pipe \in Seq(Bits) BY <1>2, <1>4
<1>6. (delivered[p] \o Text(fresh[p])) \o proc[p].pipe = delivered[p] \o (Text(fresh[p]) \o proc[p].pipe)
  BY <1>1, <1>2, <1>4, JoinsAssociate, Zenon
<1> QED BY <1>1, <1>2, <1>3, <1>4, <1>5, <1>6 DEF Whereabouts

\* Steps that move no byte, and end no silence.
LEMMA StillOutput ==
  ASSUME TypeOK, OutputInv, UNCHANGED <<cfg, fresh, delivered, ends, dropped>>,
         reader' \in [Procs -> {"select", "gone"}],
         \A p \in Procs : proc'[p].pipe = proc[p].pipe /\ proc'[p].wrote = proc[p].wrote,
         \A p \in Procs : p \notin Started' =>
           (p \notin Started /\ reader'[p] = reader[p] /\ (HasWriter(p)' => HasWriter(p)))
  PROVE  OutputInv'
<1>1. ASSUME NEW p \in Procs PROVE BitsOf(p)' /\ CharsOf(p)' /\ (p \notin Started => Silent(p))'
  <2>1. BitsOf(p) /\ CharsOf(p) /\ (p \notin Started => Silent(p)) BY DEF OutputInv
  <2>2. Whereabouts(p)' = Whereabouts(p) BY <1>1 DEF Whereabouts
  <2>3. BitsOf(p)' BY <2>1, <2>2 DEF BitsOf
  <2>4. CharsOf(p)'
    <3>1. \A n : Torn(p, n)' <=> Torn(p, n) BY DEF Torn
    <3>2. \A n, B, G : Whole(p, n, B, G)' <=> Whole(p, n, B, G) BY DEF Whole
    <3> QED BY <2>1, <2>2, <3>1, <3>2 DEF CharsOf
  <2>5. p \notin Started' => Silent(p)' BY <2>1, <2>2 DEF Silent
  <2> QED BY <2>3, <2>4, <2>5
<1> QED BY <1>1 DEF OutputInv

\* Steps that leave every byte, and the readers, as they are, and end no silence.
LEMMA QuietOutput ==
  ASSUME TypeOK, OutputInv, UNCHANGED <<cfg, outVars>>,
         \A p \in Procs : proc'[p].pipe = proc[p].pipe /\ proc'[p].wrote = proc[p].wrote,
         \A p \in Procs : p \notin Started' => (p \notin Started /\ (HasWriter(p)' => HasWriter(p)))
  PROVE  OutputInv'
<1>1. /\ UNCHANGED <<cfg, fresh, delivered, ends, dropped>> /\ reader' = reader
      /\ reader' \in [Procs -> {"select", "gone"}]
  BY DEF OutputInv, outVars
<1> QED BY <1>1, StillOutput

\* What moves of another process is not of this one.
LEMMA OtherBits ==
  ASSUME NEW q \in Procs, BitsOf(q), CharsOf(q), cfg' = cfg,
         delivered'[q] = delivered[q], fresh'[q] = fresh[q], proc'[q] = proc[q], ends'[q] = ends[q],
         dropped \subseteq dropped', \A e \in dropped' \ dropped : e[1] # q
  PROVE  BitsOf(q)' /\ CharsOf(q)'
<1>1. \A n : <<q, n>>[1] = q OBVIOUS
<1>2. \A n : <<q, n>> \in dropped' <=> <<q, n>> \in dropped BY <1>1
<1>3. Whereabouts(q)' = Whereabouts(q) BY DEF Whereabouts
<1>4. BitsOf(q)' BY <1>2, <1>3 DEF BitsOf
<1>5. \A n : Torn(q, n)' <=> Torn(q, n) BY <1>2 DEF Torn
<1>6. \A n, B : Whole(q, n, B, dropped)' <=> Whole(q, n, B, dropped) BY <1>2 DEF Whole
<1>7. \A n, B : Whole(q, n, B, {})' <=> Whole(q, n, B, {}) BY DEF Whole
<1>8. CharsOf(q)' BY <1>3, <1>5, <1>6, <1>7 DEF CharsOf
<1> QED BY <1>4, <1>8

\* A call takes the output of its command.
LEMMA TakeOutputOnce == ASSUME TypeOK, OutputInv, NEW c \in Calls, TakeOutput(c) PROVE OutputInv'
<1>1. PICK p \in Procs : p = call[c].proc
  BY DEF TakeOutput, At, TypeOK, WithProcess, Started
<1>2. /\ delivered' = [delivered EXCEPT ![p] = @ \o Decode(Text(fresh[p]))]
      /\ fresh' = [fresh EXCEPT ![p] = NoText]
      /\ UNCHANGED <<cfg, proc, reader, ends, dropped>>
  BY <1>1 DEF TakeOutput, Emptied
<1>3. NoText \in TextType /\ Filled(BufferBytes, NoText) /\ Text(NoText) = <<>>
  <2>1. <<>> \o <<>> = <<>> BY ConcatEmptySeq, EmptySeq
  <2> QED BY <2>1 DEF NoText, TextType, Chunks, Filled, Text
<1> SUFFICES ASSUME NEW D, D = delivered[p], NEW T, T = Text(fresh[p]), NEW P, P = proc[p].pipe
             PROVE  OutputInv'
  OBVIOUS
<1>4. /\ D \in Seq(Bits) /\ T \in Seq(Bits) /\ P \in Seq(Bits) /\ Whereabouts(p) = (D \o T) \o P
      /\ BitsOf(p) /\ CharsOf(p)
  BY <1>1, PartsOf DEF OutputInv
<1>5. /\ ToSet(Whereabouts(p)) = ToSet(D) \cup ToSet(T) \cup ToSet(P)
      /\ Numbers(Whereabouts(p)) = Numbers(D) \cup Numbers(T) \cup Numbers(P)
      /\ Sorted(D) /\ Sorted(T) /\ Sorted(P) /\ Ahead(D, T) /\ Ahead(D, P) /\ Ahead(T, P)
  <2>1. Sorted(Whereabouts(p)) BY <1>4 DEF BitsOf
  <2> QED BY <1>4, <2>1, ThreeAre
<1>6. \A e \in ToSet(T) : e[1] = p BY <1>4, <1>5 DEF BitsOf
<1> DEFINE R == Decode(T)
<1>7. /\ R \in Seq(Bits) /\ Numbers(R) = Numbers(T) /\ Sorted(R)
      /\ \A e \in ToSet(R) : (e[3] <=> Whole(p, e[2], ToSet(T), {})) /\ \E f \in ToSet(T) : f[2] = e[2]
      /\ \A n : (<<p, n, TRUE>> \in ToSet(T) /\ Whole(p, n, ToSet(T), {})) => <<p, n, TRUE>> \in ToSet(R)
  <2>1. T \in Seq(Bits) /\ Sorted(T) /\ \A e \in ToSet(T) : e[1] = p BY <1>4, <1>5, <1>6
  <2> HIDE DEF R
  <2>2. R = Decode(T) BY DEF R
  <2>3. IsDecoded(p, T, R) BY <2>1, <2>2, DecodeIs DEF OfProcess
  <2> QED BY <2>1, <2>3 DEF IsDecoded
<1> HIDE DEF R
<1>8. Ahead(D, R) /\ Ahead(R, P) BY <1>5, <1>7 DEF Ahead
<1>9. /\ delivered'[p] = D \o R /\ fresh'[p] = NoText
      /\ \A q \in Procs \ {p} : delivered'[q] = delivered[q] /\ fresh'[q] = fresh[q]
  BY <1>1, <1>2 DEF OutputInv, R
<1>10. D \o R \in Seq(Bits) /\ ToSet(D \o R) = ToSet(D) \cup ToSet(R) BY <1>4, <1>7, JoinIs
<1>11. delivered' \in [Procs -> Chunks] /\ fresh' \in [Procs -> TextType]
  <2>1. D \o R \in Chunks BY <1>10 DEF Chunks, Bits
  <2> QED BY <1>2, <1>3, <1>9, <2>1 DEF OutputInv
<1>12. Whereabouts(p)' = (D \o R) \o P
  <2>1. Whereabouts(p)' = ((D \o R) \o <<>>) \o P BY <1>2, <1>3, <1>9 DEF Whereabouts
  <2> QED BY <1>10, <2>1, ConcatEmptySeq
<1>13. /\ ToSet(Whereabouts(p)') = ToSet(D) \cup ToSet(R) \cup ToSet(P)
       /\ Numbers(Whereabouts(p)') = Numbers(Whereabouts(p))
       /\ Sorted(Whereabouts(p)')
  <2>1. /\ ToSet(Whereabouts(p)') = ToSet(D) \cup ToSet(R) \cup ToSet(P)
        /\ Numbers(Whereabouts(p)') = Numbers(D) \cup Numbers(R) \cup Numbers(P)
        /\ Sorted(Whereabouts(p)')
    <3>1. \A s \in Seq(Bits) :
            /\ ToSet((D \o s) \o P) = ToSet(D) \cup ToSet(s) \cup ToSet(P)
            /\ Numbers((D \o s) \o P) = Numbers(D) \cup Numbers(s) \cup Numbers(P)
            /\ Sorted((D \o s) \o P) <=> /\ Sorted(D) /\ Sorted(s) /\ Sorted(P)
                                          /\ Ahead(D, s) /\ Ahead(D, P) /\ Ahead(s, P)
      BY <1>4, ThreeAre
    <3> QED BY <1>5, <1>7, <1>8, <1>12, <3>1
  <2> QED BY <1>5, <1>7, <2>1
<1>14. BitsOf(p)'
  <2>1. ASSUME NEW e \in ToSet(Whereabouts(p)') PROVE e[1] = p /\ e[2] \in 1..proc[p].wrote
    <3>1. Numbers(Whereabouts(p)') = {<<b[1], b[2]>> : b \in ToSet(Whereabouts(p)')} BY DEF Numbers
    <3>2. <<e[1], e[2]>> \in Numbers(Whereabouts(p)) BY <1>13, <3>1
    <3>3. PICK b \in ToSet(Whereabouts(p)) : <<e[1], e[2]>> = <<b[1], b[2]>> BY <3>2 DEF Numbers
    <3> QED BY <1>4, <3>3 DEF BitsOf
  <2>2. Numbers(Whereabouts(p))' = Numbers(Whereabouts(p)') BY DEF Numbers
  <2>3. Filled(BufferBytes, fresh'[p]) BY <1>3, <1>9
  <2>4. \A n \in 1..proc[p].wrote : (<<p, n>> \in Numbers(Whereabouts(p)')) # (<<p, n>> \in dropped)
    BY <1>4, <1>13 DEF BitsOf
  <2> QED BY <1>2, <1>4, <1>13, <2>1, <2>2, <2>3, <2>4 DEF BitsOf
<1>15. \A n : Torn(p, n)' <=> Torn(p, n) BY <1>2 DEF Torn
<1>16. \A n, B, G : Whole(p, n, B, G)' <=> Whole(p, n, B, G) BY <1>2 DEF Whole
<1>17. ASSUME NEW e \in ToSet(R), ~e[3] PROVE Torn(p, e[2])
  <2>1. PICK f \in ToSet(T) : f[2] = e[2] BY <1>7
  <2>2. CASE ~f[3] BY <1>4, <1>5, <2>1, <2>2 DEF CharsOf
  <2>3. CASE f[3]
    <3>1. PICK one \in cfg.chars : e[2] \in one /\ \A m \in one : <<p, m, TRUE>> \in ToSet(T) \/ <<p, m>> \in dropped
      BY <1>4, <2>1, <2>3 DEF CharsOf, Whole
    <3>2. PICK m \in one : <<p, m, TRUE>> \notin ToSet(T) BY <1>7, <1>17, <3>1 DEF Whole
    <3>3. \A two \in cfg.chars : e[2] \in two => two = one
      <4>1. cfg \in Settings BY DEF TypeOK
      <4>2. \A a, b \in cfg.chars : a \cap b # {} => a = b BY <4>1, CallsAssumption
      <4> QED BY <3>1, <4>2
    <3> QED BY <3>1, <3>2, <3>3 DEF Torn
  <2> QED BY <2>2, <2>3
<1>18. ASSUME NEW e \in ToSet(D \o R), e[3] PROVE Whole(p, e[2], ToSet(D \o R), {})
  <2>1. CASE e \in ToSet(D)
    <3>1. Whole(p, e[2], ToSet(D), {}) BY <1>4, <1>18, <2>1 DEF CharsOf
    <3> QED BY <1>10, <3>1 DEF Whole
  <2>2. CASE e \in ToSet(R)
    <3>1. PICK char \in cfg.chars : e[2] \in char /\ \A m \in char : <<p, m, TRUE>> \in ToSet(T)
      BY <1>7, <1>18, <2>2 DEF Whole
    <3>2. \A m \in char : Whole(p, m, ToSet(T), {}) BY <3>1 DEF Whole
    <3>3. \A m \in char : <<p, m, TRUE>> \in ToSet(R) BY <1>7, <3>1, <3>2
    <3> QED BY <1>10, <3>1, <3>3 DEF Whole
  <2> QED BY <1>10, <2>1, <2>2
<1>19. CharsOf(p)'
  <2>1. \A e \in ToSet(Whereabouts(p)') : e[3] \/ Torn(p, e[2])
    BY <1>4, <1>5, <1>13, <1>17 DEF CharsOf
  <2>2. ToSet(<<>>) = {} BY DEF ToSet
  <2>3. Text(fresh[p])' = <<>> BY <1>3, <1>9
  <2>4. (delivered[p])' = D \o R BY <1>9
  <2>5. \E r \in ends[p] : /\ r \in 0..proc[p].wrote
                           /\ Numbers(proc[p].pipe) = {<<p, n>> : n \in (r + 1)..proc[p].wrote}
    BY <1>4 DEF CharsOf
  <2>6. \A e \in ToSet(proc[p].pipe) : e[3] BY <1>4 DEF CharsOf
  <2> QED BY <1>2, <1>15, <1>16, <1>18, <2>1, <2>2, <2>3, <2>4, <2>5, <2>6 DEF CharsOf
<1>20. ASSUME NEW q \in Procs, q # p PROVE BitsOf(q)' /\ CharsOf(q)' /\ (q \notin Started => Silent(q))'
  <2>1. BitsOf(q) /\ CharsOf(q) /\ (q \notin Started => Silent(q)) BY <1>20 DEF OutputInv
  <2>2. BitsOf(q)' /\ CharsOf(q)' BY <1>2, <1>9, <1>20, <2>1, OtherBits
  <2>3. Whereabouts(q)' = Whereabouts(q) BY <1>2, <1>9, <1>20 DEF Whereabouts
  <2> QED BY <1>2, <2>1, <2>2, <2>3 DEF Silent, HasWriter, Running, Started
<1>21. p \in Started'
  <2>1. p \in Started BY <1>1 DEF TakeOutput, At, TypeOK, WithProcess
  <2> QED BY <1>2, <2>1 DEF Started
<1> QED BY <1>2, <1>11, <1>14, <1>19, <1>20, <1>21 DEF OutputInv

\* A process starts with nothing written.
LEMMA SpawnOutput ==
  ASSUME TypeOK, OutputInv, NEW c \in Calls, At(c, "spawn"), NEW p \in Free, SpawnOf(c, p)
  PROVE  OutputInv'
<1>1. /\ p \in Procs /\ Started' = Started \cup {p} /\ p \notin Started
      /\ \A q \in Procs \ {p} : proc'[q] = proc[q]
  BY SpawnType
<1>2. proc'[p].pipe = <<>> /\ proc'[p].wrote = 0
  BY <1>1 DEF SpawnOf, TypeOK, Unborn
<1>3. /\ reader' = [reader EXCEPT ![p] = "select"]
      /\ UNCHANGED <<cfg, fresh, delivered, ends, dropped>>
  BY DEF SpawnOf
<1>4. Silent(p) BY <1>1 DEF OutputInv
<1>5. proc[p].pipe = <<>>
  <2>1. \A s, t \in Seq(Bits) : s \o t = <<>> => t = <<>>
    <3>1. SUFFICES ASSUME NEW s \in Seq(Bits), NEW t \in Seq(Bits), s \o t = <<>> PROVE t = <<>>
      OBVIOUS
    <3>2. Len(s) + Len(t) = 0 /\ Len(s) \in Nat /\ Len(t) \in Nat
      BY <3>1, ConcatProperties, LenProperties, EmptySeq
    <3>3. Len(t) = 0 BY <3>2
    <3> QED BY <3>3, EmptySeq
  <2>2. /\ delivered[p] \in Seq(Bits) /\ proc[p].pipe \in Seq(Bits)
        /\ Text(fresh[p]) \o proc[p].pipe \in Seq(Bits) /\ Text(fresh[p]) \in Seq(Bits)
        /\ delivered[p] \o (Text(fresh[p]) \o proc[p].pipe) = <<>>
    BY <1>1, <1>4, PartsOf DEF Silent
  <2>3. Text(fresh[p]) \o proc[p].pipe = <<>> BY <2>1, <2>2
  <2> QED BY <2>1, <2>2, <2>3
<1>6. \A q \in Procs : proc'[q].pipe = proc[q].pipe /\ proc'[q].wrote = proc[q].wrote
  BY <1>1, <1>2, <1>4, <1>5 DEF Silent
<1>7. ASSUME NEW q \in Procs, q \notin Started'
      PROVE  q \notin Started /\ reader'[q] = reader[q] /\ (HasWriter(q)' => HasWriter(q))
  <2>1. q # p /\ q \notin Started /\ proc'[q] = proc[q] BY <1>1, <1>7
  <2> QED BY <1>3, <2>1 DEF OutputInv, HasWriter, Running
<1>8. reader' \in [Procs -> {"select", "gone"}] BY <1>3 DEF OutputInv
<1> QED BY <1>3, <1>6, <1>7, <1>8, StillOutput

\* A process writes one byte more.
LEMMA WriteOutput == ASSUME TypeOK, OutputInv, NEW p \in Procs, Write(p) PROVE OutputInv'
<1> DEFINE n == proc[p].wrote + 1
           b == <<p, n, TRUE>>
<1>0. BitsOf(p) /\ CharsOf(p) BY DEF OutputInv
<1>1. p \in Started BY DEF Write, OutputInv, Silent
<1>2. UNCHANGED <<cfg, reader, fresh, delivered, ends, dropped>> BY DEF Write, outVars
<1>3. /\ proc'[p].wrote = n /\ proc'[p].pipe = Append(proc[p].pipe, b)
      /\ proc'[p].status = proc[p].status /\ \A q \in Procs \ {p} : proc'[q] = proc[q]
  <2>1. proc \in [Procs -> ProcType] BY DEF TypeOK
  <2>2. proc' = [proc EXCEPT ![p].wrote = @ + 1, ![p].pipe = Append(@, <<p, proc[p].wrote + 1, TRUE>>)]
    BY DEF Write
  <2> QED BY <2>1, <2>2 DEF ProcType
<1>4. Started' = Started BY <1>1, <1>3 DEF Started
<1> SUFFICES ASSUME NEW D, D = delivered[p] \o Text(fresh[p]), NEW P, P = proc[p].pipe,
                    NEW W, W = Whereabouts(p)
             PROVE  OutputInv'
  OBVIOUS
<1>5. D \in Seq(Bits) /\ P \in Seq(Bits) /\ W = D \o P /\ W \in Seq(Bits) /\ proc[p].wrote \in Nat
  <2>1. /\ delivered[p] \in Seq(Bits) /\ Text(fresh[p]) \in Seq(Bits) /\ P \in Seq(Bits)
        /\ proc[p].wrote \in Nat /\ W = D \o P
    BY PartsOf
  <2>2. D \in Seq(Bits) BY <2>1, JoinIs
  <2>3. D \o P \in Seq(Bits) BY <2>1, <2>2, JoinIs
  <2> QED BY <2>1, <2>2, <2>3
<1>6. b \in Bits /\ <<b>> \in Seq(Bits) /\ ToSet(<<b>>) = {b} /\ Sorted(<<b>>)
  <2>1. n \in Nat BY <1>5
  <2> HIDE DEF n
  <2>3. b \in Procs \X Nat \X BOOLEAN BY <2>1
  <2>4. b \in Bits BY <2>3 DEF Bits
  <2> HIDE DEF b
  <2>2. <<b>> \in Seq(Bits) /\ DOMAIN <<b>> = {1} /\ <<b>>[1] = b BY <2>4
  <2> QED BY <2>2, <2>4 DEF ToSet, Sorted
<1>7. b[1] = p /\ b[2] = n /\ b[3] = TRUE /\ n \in Nat BY <1>5
<1> HIDE DEF b
<1>8. Numbers(<<b>>) = {<<p, n>>} BY <1>6, <1>7 DEF Numbers
<1>9. Append(P, b) = P \o <<b>> BY <1>5, <1>6, AppendIsConcat
<1>10. Whereabouts(p)' = W \o <<b>>
  <2>1. Whereabouts(p)' = D \o (P \o <<b>>) BY <1>2, <1>3, <1>9 DEF Whereabouts
  <2>2. (D \o P) \o <<b>> = D \o (P \o <<b>>) BY <1>5, <1>6, JoinsAssociate
  <2> QED BY <1>5, <2>1, <2>2
<1>11. /\ ToSet(W \o <<b>>) = ToSet(W) \cup {b} /\ Numbers(W \o <<b>>) = Numbers(W) \cup {<<p, n>>}
       /\ ToSet(P \o <<b>>) = ToSet(P) \cup {b} /\ Numbers(P \o <<b>>) = Numbers(P) \cup {<<p, n>>}
  <2> DEFINE one == <<b>>
  <2>1. one \in Seq(Bits) /\ ToSet(one) = {b} /\ Numbers(one) = {<<p, n>>} BY <1>6, <1>8
  <2> HIDE DEF one, n
  <2>2. /\ ToSet(W \o one) = ToSet(W) \cup ToSet(one) /\ ToSet(P \o one) = ToSet(P) \cup ToSet(one)
    BY <1>5, <2>1, JoinIs
  <2>3. Numbers(W \o one) = Numbers(W) \cup Numbers(one) /\ Numbers(P \o one) = Numbers(P) \cup Numbers(one)
    BY <1>5, <2>1, NumbersJoin
  <2> QED BY <2>1, <2>2, <2>3 DEF one
<1>12. 1..n = (1..proc[p].wrote) \cup {n} /\ n \in 1..n /\ n \notin 1..proc[p].wrote BY <1>5
<1>13. BitsOf(p)'
  <2>1. /\ Sorted(W) /\ \A e \in ToSet(W) : e[1] = p /\ e[2] \in 1..proc[p].wrote
        /\ \A e \in dropped : e[1] = p => e[2] \in 1..proc[p].wrote
        /\ \A m \in 1..proc[p].wrote : (<<p, m>> \in Numbers(W)) # (<<p, m>> \in dropped)
        /\ Filled(BufferBytes, fresh[p])
    BY <1>0 DEF BitsOf
  <2>2. Ahead(W, <<b>>)
    <3>1. ASSUME NEW x \in ToSet(W) PROVE x[2] < b[2] BY <1>5, <1>7, <2>1
    <3> QED BY <1>6, <3>1, Zenon DEF Ahead
  <2>3. Sorted(W \o <<b>>) BY <1>5, <1>6, <2>1, <2>2, JoinIs
  <2>4. \A e \in ToSet(W) \cup {b} : e[1] = p /\ e[2] \in 1..n BY <1>7, <1>12, <2>1
  <2>5. \A e \in dropped : e[1] = p => e[2] \in 1..n BY <1>12, <2>1
  <2>6. <<p, n>>[1] = p /\ <<p, n>>[2] = n OBVIOUS
  <2>7. <<p, n>> \notin dropped BY <1>12, <2>1, <2>6
  <2>8. \A m \in 1..n : (<<p, m>> \in Numbers(W) \cup {<<p, n>>}) # (<<p, m>> \in dropped)
    <3>1. ASSUME NEW m \in 1..proc[p].wrote PROVE <<p, m>> # <<p, n>> BY <1>12
    <3> QED BY <1>12, <2>1, <2>7, <3>1
  <2> HIDE DEF n
  <2> QED BY <1>2, <1>3, <1>10, <1>11, <2>1, <2>3, <2>4, <2>5, <2>8 DEF BitsOf
<1>14. CharsOf(p)'
  <2>1. /\ \A e \in ToSet(W) : e[3] \/ Torn(p, e[2])
        /\ \A e \in ToSet(delivered[p]) : e[3] => Whole(p, e[2], ToSet(delivered[p]), {})
        /\ \A e \in ToSet(Text(fresh[p])) : e[3] => Whole(p, e[2], ToSet(Text(fresh[p])), dropped)
        /\ \A e \in ToSet(P) : e[3]
    BY <1>0 DEF CharsOf
  <2>2. \A m : Torn(p, m)' <=> Torn(p, m) BY <1>2 DEF Torn
  <2>3. \A m, B, G : Whole(p, m, B, G)' <=> Whole(p, m, B, G) BY <1>2 DEF Whole
  <2>4. PICK r \in ends[p] : /\ r \in 0..proc[p].wrote
                             /\ Numbers(P) = {<<p, m>> : m \in (r + 1)..proc[p].wrote}
    BY <1>0 DEF CharsOf
  <2>5. r \in 0..n /\ (r + 1)..n = ((r + 1)..proc[p].wrote) \cup {n}
    <3>1. \A w, t \in Nat : t <= w => t \in 0..(w + 1) /\ (t + 1)..(w + 1) = ((t + 1)..w) \cup {w + 1}
      OBVIOUS
    <3>2. r \in Nat /\ r <= proc[p].wrote /\ proc[p].wrote \in Nat BY <1>5, <2>4
    <3> QED BY <3>1, <3>2
  <2>6. Numbers(P \o <<b>>) = {<<p, m>> : m \in (r + 1)..n} BY <1>11, <2>4, <2>5
  <2>7. \A e \in ToSet(W \o <<b>>) : e[3] \/ Torn(p, e[2]) BY <1>7, <1>11, <2>1
  <2>8. \A e \in ToSet(P \o <<b>>) : e[3] BY <1>7, <1>11, <2>1
  <2>9. /\ (proc[p].pipe)' = P \o <<b>> /\ (proc[p].wrote)' = n /\ (ends[p])' = ends[p]
        /\ (delivered[p])' = delivered[p] /\ Text(fresh[p])' = Text(fresh[p])
    BY <1>2, <1>3, <1>9
  <2> HIDE DEF n
  <2> QED BY <1>2, <1>10, <2>1, <2>2, <2>3, <2>4, <2>5, <2>6, <2>7, <2>8, <2>9 DEF CharsOf
<1>15. ASSUME NEW q \in Procs, q # p PROVE BitsOf(q)' /\ CharsOf(q)' /\ (q \notin Started => Silent(q))'
  <2>1. BitsOf(q) /\ CharsOf(q) /\ (q \notin Started => Silent(q)) BY DEF OutputInv
  <2>2. proc'[q] = proc[q] BY <1>3, <1>15
  <2>3. Whereabouts(q)' = Whereabouts(q) BY <1>2, <2>2 DEF Whereabouts
  <2>4. BitsOf(q)' /\ CharsOf(q)' BY <1>2, <2>1, <2>2, OtherBits
  <2>5. Silent(q) => Silent(q)' BY <1>2, <2>2, <2>3 DEF Silent, HasWriter, Running
  <2> QED BY <1>4, <2>1, <2>4, <2>5
<1>16. \A q \in Procs : BitsOf(q)' /\ CharsOf(q)' /\ (q \notin Started' => Silent(q)')
  BY <1>1, <1>4, <1>13, <1>14, <1>15
<1> QED BY <1>2, <1>16 DEF OutputInv

\* What a read takes, and what it leaves: the bytes between two ends of reads.
LEMMA ReadIs ==
  ASSUME TypeOK, OutputInv, NEW p \in Procs, proc[p].pipe # <<>>
  PROVE  LET C == ReadNext(p)
             P == Behind(p)
             last == Last(C)[2] IN
         /\ C \in Seq(Bits) /\ P \in Seq(Bits) /\ proc[p].pipe = C \o P /\ last \in 1..proc[p].wrote
         /\ Sorted(C) /\ Sorted(P) /\ Ahead(C, P)
         /\ \A e \in ToSet(C) \cup ToSet(P) : e[1] = p /\ e[3]
         /\ \A e \in ToSet(C) : e = <<p, e[2], TRUE>>
         /\ Numbers(P) = {<<p, n>> : n \in (last + 1)..proc[p].wrote}
         /\ \E r \in ends[p] : r \in Nat /\ Numbers(C) = {<<p, n>> : n \in (r + 1)..last}
<1> DEFINE C == ReadNext(p)
           P == Behind(p)
           last == Last(C)[2]
<1>1. C \in Seq(Bits) /\ P \in Seq(Bits) /\ proc[p].pipe = C \o P /\ C # <<>>
  BY StreamSplit DEF Chunks, Bits
<1> HIDE DEF C, P, last
<1>2. BitsOf(p) /\ CharsOf(p) BY DEF OutputInv
<1>3. /\ delivered[p] \o Text(fresh[p]) \in Seq(Bits)
      /\ Whereabouts(p) = (delivered[p] \o Text(fresh[p])) \o (C \o P)
      /\ proc[p].wrote \in Nat /\ C \o P \in Seq(Bits)
  <2>1. /\ delivered[p] \in Seq(Bits) /\ Text(fresh[p]) \in Seq(Bits)
        /\ Whereabouts(p) = (delivered[p] \o Text(fresh[p])) \o proc[p].pipe /\ proc[p].wrote \in Nat
    BY PartsOf
  <2>2. delivered[p] \o Text(fresh[p]) \in Seq(Bits) BY <2>1, JoinIs
  <2> QED BY <1>1, <2>1, <2>2, JoinIs
<1>4. Sorted(C \o P) /\ ToSet(C \o P) \subseteq ToSet(Whereabouts(p))
  <2>1. Sorted(Whereabouts(p)) BY <1>2 DEF BitsOf
  <2> DEFINE D == delivered[p] \o Text(fresh[p])
             S == C \o P
  <2>2. D \in Seq(Bits) /\ S \in Seq(Bits) /\ Whereabouts(p) = D \o S BY <1>3
  <2> HIDE DEF D, S
  <2>3. ToSet(D \o S) = ToSet(D) \cup ToSet(S) /\ (Sorted(D \o S) => Sorted(S)) BY <2>2, JoinIs
  <2>4. Sorted(S) /\ ToSet(S) \subseteq ToSet(Whereabouts(p)) BY <2>1, <2>2, <2>3
  <2> QED BY <2>4 DEF S
<1>5. /\ Sorted(C) /\ Sorted(P) /\ Ahead(C, P) /\ ToSet(C \o P) = ToSet(C) \cup ToSet(P)
      /\ Numbers(C \o P) = Numbers(C) \cup Numbers(P)
  BY <1>1, <1>4, JoinIs, NumbersJoin
<1>6. ASSUME NEW e \in ToSet(C) \cup ToSet(P)
      PROVE  e[1] = p /\ e[3] /\ e[2] \in 1..proc[p].wrote
  <2>1. e[1] = p /\ e[2] \in 1..proc[p].wrote BY <1>2, <1>4, <1>5 DEF BitsOf
  <2>2. e[3] BY <1>1, <1>2, <1>5 DEF CharsOf
  <2> QED BY <2>1, <2>2
<1>22. ASSUME NEW e \in ToSet(C) PROVE e = <<p, e[2], TRUE>>
  <2>1. e = <<e[1], e[2], e[3]>> /\ e[3] \in BOOLEAN BY <1>1, BytesAre
  <2> QED BY <1>6, <2>1
<1>7. PICK r \in ends[p] : /\ r \in 0..proc[p].wrote
                           /\ Numbers(C) \cup Numbers(P) = {<<p, n>> : n \in (r + 1)..proc[p].wrote}
  BY <1>1, <1>2, <1>5 DEF CharsOf
<1>8. /\ Last(C) \in ToSet(C) /\ \A e \in ToSet(C) : e[2] <= last
  <2>1. DOMAIN C = 1..Len(C) /\ Len(C) \in Nat /\ Len(C) # 0 BY <1>1, EmptySeq, LenProperties
  <2>2. Last(C) = C[Len(C)] /\ Len(C) \in DOMAIN C BY <2>1 DEF Last
  <2>3. ASSUME NEW i \in DOMAIN C PROVE C[i][2] <= last
    <3>1. i < Len(C) \/ i = Len(C)
      <4>1. i \in 1..Len(C) BY <2>1
      <4> QED BY <2>1, <4>1
    <3>2. C[i] \in ToSet(C) /\ C[Len(C)] \in ToSet(C) BY <2>2 DEF ToSet
    <3>3. C[i][2] \in Nat /\ C[Len(C)][2] \in Nat BY <1>6, <3>2
    <3> QED BY <1>5, <2>2, <3>1, <3>3 DEF Sorted, last
  <2> QED BY <2>2, <2>3 DEF ToSet
<1>9. last \in 1..proc[p].wrote BY <1>6, <1>8 DEF last
<1>10. \A e \in ToSet(P) : last < e[2] BY <1>5, <1>8 DEF Ahead, last
<1>11. Numbers(C) = {<<p, e[2]>> : e \in ToSet(C)} /\ Numbers(P) = {<<p, e[2]>> : e \in ToSet(P)}
  <2>1. \A e \in ToSet(C) \cup ToSet(P) : <<e[1], e[2]>> = <<p, e[2]>> BY <1>6
  <2> QED BY <2>1, Zenon DEF Numbers
<1>12. \A n : <<p, n>> \in Numbers(C) => n <= last
  <2> SUFFICES ASSUME NEW n, <<p, n>> \in Numbers(C) PROVE n <= last OBVIOUS
  <2>1. PICK e \in ToSet(C) : <<p, n>> = <<p, e[2]>> BY <1>11
  <2> QED BY <1>8, <2>1
<1>13. \A n : <<p, n>> \in Numbers(P) => last < n
  <2> SUFFICES ASSUME NEW n, <<p, n>> \in Numbers(P) PROVE last < n OBVIOUS
  <2>1. PICK e \in ToSet(P) : <<p, n>> = <<p, e[2]>> BY <1>11
  <2> QED BY <1>10, <2>1
<1>14. \A n : <<p, n>> \in Numbers(C) \cup Numbers(P) <=> n \in (r + 1)..proc[p].wrote
  <2> SUFFICES ASSUME NEW n
               PROVE  <<p, n>> \in {<<p, m>> : m \in (r + 1)..proc[p].wrote} <=> n \in (r + 1)..proc[p].wrote
    BY <1>7
  <2>1. \A m : <<p, n>> = <<p, m>> => n = m OBVIOUS
  <2> QED BY <2>1
<1>15. <<p, last>> \in Numbers(C) BY <1>8, <1>11 DEF last
<1>16. last \in (r + 1)..proc[p].wrote BY <1>14, <1>15
<1>17. \A n : <<p, n>> \in Numbers(P) <=> n \in (last + 1)..proc[p].wrote
  <2> SUFFICES ASSUME NEW n PROVE <<p, n>> \in Numbers(P) <=> n \in (last + 1)..proc[p].wrote
    OBVIOUS
  <2>1. ASSUME <<p, n>> \in Numbers(P) PROVE n \in (last + 1)..proc[p].wrote
    BY <1>3, <1>7, <1>9, <1>13, <1>14, <2>1
  <2>2. ASSUME n \in (last + 1)..proc[p].wrote PROVE <<p, n>> \in Numbers(P)
    <3>1. n \in (r + 1)..proc[p].wrote /\ ~(n <= last) BY <1>3, <1>7, <1>16, <2>2
    <3> QED BY <1>12, <1>14, <3>1
  <2> QED BY <2>1, <2>2
<1>18. \A n : <<p, n>> \in Numbers(C) <=> n \in (r + 1)..last
  <2> SUFFICES ASSUME NEW n PROVE <<p, n>> \in Numbers(C) <=> n \in (r + 1)..last
    OBVIOUS
  <2>1. ASSUME <<p, n>> \in Numbers(C) PROVE n \in (r + 1)..last
    BY <1>3, <1>7, <1>9, <1>12, <1>14, <2>1
  <2>2. ASSUME n \in (r + 1)..last PROVE <<p, n>> \in Numbers(C)
    <3>1. n \in (r + 1)..proc[p].wrote /\ ~(last < n) BY <1>3, <1>7, <1>16, <2>2
    <3> QED BY <1>13, <1>14, <3>1
  <2> QED BY <2>1, <2>2
<1>19. Numbers(P) = {<<p, n>> : n \in (last + 1)..proc[p].wrote} BY <1>11, <1>17
<1>20. Numbers(C) = {<<p, n>> : n \in (r + 1)..last} BY <1>11, <1>18
<1>21. r \in Nat BY <1>7
<1> QED BY <1>1, <1>5, <1>6, <1>9, <1>19, <1>20, <1>21, <1>22 DEF C, P, last

\* A reader decodes what it read, and moves it into the buffer.
LEMMA ReadOutput == ASSUME TypeOK, OutputInv, NEW p \in Procs, ReaderReads(p) PROVE OutputInv'
<1> SUFFICES ASSUME NEW D, D = delivered[p], NEW T, T = Text(fresh[p]), NEW C, C = ReadNext(p),
                    NEW P, P = Behind(p), NEW last, last = Last(C)[2]
             PROVE  OutputInv'
  OBVIOUS
<1>1. /\ D \in Seq(Bits) /\ T \in Seq(Bits) /\ fresh[p] \in TextType
      /\ Whereabouts(p) = (D \o T) \o proc[p].pipe /\ proc[p].wrote \in Nat /\ proc[p].pipe \in Seq(Bits)
      /\ proc[p].pipe # <<>> /\ BitsOf(p) /\ CharsOf(p)
  BY PartsOf DEF OutputInv, ReaderReads
<1>2. /\ C \in Seq(Bits) /\ P \in Seq(Bits) /\ proc[p].pipe = C \o P /\ last \in 1..proc[p].wrote
      /\ Sorted(C) /\ Sorted(P) /\ Ahead(C, P)
      /\ \A e \in ToSet(C) \cup ToSet(P) : e[1] = p /\ e[3]
      /\ Numbers(P) = {<<p, n>> : n \in (last + 1)..proc[p].wrote}
      /\ \E r \in ends[p] : r \in Nat /\ Numbers(C) = {<<p, n>> : n \in (r + 1)..last}
  BY <1>1, ReadIs, Zenon
<1>30. \A e \in ToSet(C) : e = <<p, e[2], TRUE>> BY <1>1, ReadIs, Zenon
<1> DEFINE R == Decode(C)
<1>3. /\ R \in Seq(Bits) /\ Numbers(R) = Numbers(C) /\ Sorted(R)
      /\ \A e \in ToSet(R) : (e[3] <=> Whole(p, e[2], ToSet(C), {})) /\ \E f \in ToSet(C) : f[2] = e[2]
      /\ \A n : (<<p, n, TRUE>> \in ToSet(C) /\ Whole(p, n, ToSet(C), {})) => <<p, n, TRUE>> \in ToSet(R)
  <2>1. C \in Seq(Bits) /\ Sorted(C) /\ \A e \in ToSet(C) : e[1] = p BY <1>2
  <2> HIDE DEF R
  <2>2. R = Decode(C) BY DEF R
  <2>3. IsDecoded(p, C, R) BY <2>1, <2>2, DecodeIs DEF OfProcess
  <2> QED BY <2>1, <2>3 DEF IsDecoded
<1>4. PICK buffer : /\ buffer = Push(BufferBytes, fresh[p], R)
                    /\ fresh' = [fresh EXCEPT ![p] = buffer]
                    /\ dropped' = dropped \cup (Numbers(T \o R) \ Numbers(Text(buffer)))
  BY DEF ReaderReads, Store
<1> HIDE DEF R
<1>5. /\ UNCHANGED <<cfg, reader, delivered>> /\ proc' = [proc EXCEPT ![p].pipe = P]
      /\ ends' = [ends EXCEPT ![p] = @ \cup {last}]
  BY DEF ReaderReads
<1>6. /\ proc'[p].wrote = proc[p].wrote /\ proc'[p].pipe = P
      /\ proc'[p].status = proc[p].status /\ \A q \in Procs \ {p} : proc'[q] = proc[q]
  <2>1. proc \in [Procs -> ProcType] BY DEF TypeOK
  <2> QED BY <1>5, <2>1 DEF ProcType
<1>7. /\ ends'[p] = ends[p] \cup {last} /\ ends' \in [Procs -> SUBSET Nat]
      /\ \A q \in Procs \ {p} : ends'[q] = ends[q]
  BY <1>1, <1>2, <1>5 DEF OutputInv
<1>8. p \in Started BY DEF ReaderReads, OutputInv, Silent
<1>9. Started' = Started BY <1>6, <1>8 DEF Started
\* the parts of what was written
<1>10. /\ ToSet(Whereabouts(p)) = ToSet(D) \cup ToSet(T) \cup ToSet(C) \cup ToSet(P)
       /\ Numbers(Whereabouts(p)) = Numbers(D) \cup Numbers(T) \cup Numbers(C) \cup Numbers(P)
       /\ Sorted(D) /\ Sorted(T) /\ Ahead(D, T) /\ Ahead(D, C) /\ Ahead(D, P) /\ Ahead(T, C) /\ Ahead(T, P)
  <2>1. /\ ToSet(Whereabouts(p)) = ToSet(D) \cup ToSet(T) \cup ToSet(proc[p].pipe)
        /\ Numbers(Whereabouts(p)) = Numbers(D) \cup Numbers(T) \cup Numbers(proc[p].pipe)
        /\ Sorted(D) /\ Sorted(T) /\ Ahead(D, T) /\ Ahead(D, proc[p].pipe) /\ Ahead(T, proc[p].pipe)
    <3>1. Sorted(Whereabouts(p)) BY <1>1 DEF BitsOf
    <3> QED BY <1>1, <3>1, ThreeAre
  <2>2. ToSet(proc[p].pipe) = ToSet(C) \cup ToSet(P) /\ Numbers(proc[p].pipe) = Numbers(C) \cup Numbers(P)
    BY <1>2, JoinIs, NumbersJoin
  <2> QED BY <2>1, <2>2 DEF Ahead
<1>11. Ahead(D, R) /\ Ahead(T, R) /\ Ahead(R, P) BY <1>2, <1>3, <1>10 DEF Ahead
<1>12. /\ T \o R \in Seq(Bits) /\ ToSet(T \o R) = ToSet(T) \cup ToSet(R) /\ Sorted(T \o R)
       /\ Numbers(T \o R) = Numbers(T) \cup Numbers(R)
  BY <1>1, <1>3, <1>10, <1>11, JoinIs, NumbersJoin
<1>13. /\ buffer \in TextType /\ Filled(BufferBytes, buffer) /\ Sorted(Text(buffer))
       /\ ToSet(Text(buffer)) \subseteq ToSet(T) \cup ToSet(R)
  <2>1. BufferBytes \in Nat /\ Filled(BufferBytes, fresh[p]) BY <1>1, BoundsAssumption DEF BitsOf
  <2> QED BY <1>1, <1>3, <1>4, <1>12, <2>1, PushKeeps
<1> SUFFICES ASSUME NEW B, B = Text(buffer) PROVE OutputInv' OBVIOUS
<1>14. B \in Seq(Bits)
  <2>1. buffer.head \in Seq(Bits) /\ buffer.tail \in Seq(Bits) BY <1>13 DEF TextType, Chunks, Bits
  <2> QED BY <2>1, JoinIs DEF Text
<1>15. fresh'[p] = buffer /\ fresh' \in [Procs -> TextType] /\ \A q \in Procs \ {p} : fresh'[q] = fresh[q]
  BY <1>4, <1>13 DEF OutputInv
<1>16. Whereabouts(p)' = (D \o B) \o P BY <1>5, <1>6, <1>15 DEF Whereabouts
<1>17. /\ ToSet(Whereabouts(p)') = ToSet(D) \cup ToSet(B) \cup ToSet(P)
       /\ Numbers(Whereabouts(p)') = Numbers(D) \cup Numbers(B) \cup Numbers(P)
       /\ Sorted(Whereabouts(p)')
  <2>1. Ahead(D, B) /\ Ahead(B, P) BY <1>10, <1>11, <1>13 DEF Ahead
  <2>2. /\ ToSet((D \o B) \o P) = ToSet(D) \cup ToSet(B) \cup ToSet(P)
        /\ Numbers((D \o B) \o P) = Numbers(D) \cup Numbers(B) \cup Numbers(P)
        /\ Sorted((D \o B) \o P) <=> /\ Sorted(D) /\ Sorted(B) /\ Sorted(P)
                                      /\ Ahead(D, B) /\ Ahead(D, P) /\ Ahead(B, P)
    <3>1. D \in Seq(Bits) /\ B \in Seq(Bits) /\ P \in Seq(Bits) BY <1>1, <1>2, <1>14
    <3> QED BY <3>1, ThreeAre
  <2> QED BY <1>2, <1>10, <1>13, <1>16, <2>1, <2>2
<1>18. Numbers(B) \subseteq Numbers(T) \cup Numbers(R) BY <1>13 DEF Numbers
<1>19. \A e \in ToSet(Whereabouts(p)) : e[1] = p /\ e[2] \in 1..proc[p].wrote BY <1>1 DEF BitsOf
<1>20. ASSUME NEW x \in Numbers(Whereabouts(p))
       PROVE  x[1] = p /\ x[2] \in 1..proc[p].wrote /\ x = <<p, x[2]>>
  <2>1. PICK e \in ToSet(Whereabouts(p)) : x = <<e[1], e[2]>> BY DEF Numbers
  <2> QED BY <1>19, <2>1
<1>21. Numbers(D) \cap (Numbers(T) \cup Numbers(R)) = {} /\ Numbers(P) \cap (Numbers(T) \cup Numbers(R)) = {}
  <2>1. ASSUME NEW e \in ToSet(D) \cup ToSet(P), NEW f \in ToSet(T) \cup ToSet(R)
        PROVE  <<e[1], e[2]>> # <<f[1], f[2]>>
    <3>1. e[2] < f[2] \/ f[2] < e[2] BY <1>10, <1>11, <2>1 DEF Ahead
    <3>2. e[2] \in Nat BY <1>1, <1>2, <2>1, BytesAre
    <3> QED BY <3>1, <3>2
  <2> QED BY <2>1 DEF Numbers
<1>22. BitsOf(p)'
  <2>1. ASSUME NEW e \in ToSet(Whereabouts(p)') PROVE e[1] = p /\ e[2] \in 1..proc[p].wrote
    <3>1. <<e[1], e[2]>> \in Numbers(Whereabouts(p)')  BY DEF Numbers
    <3>2. <<e[1], e[2]>> \in Numbers(Whereabouts(p)) BY <1>3, <1>10, <1>17, <1>18, <3>1
    <3>3. <<e[1], e[2]>>[1] = e[1] /\ <<e[1], e[2]>>[2] = e[2] OBVIOUS
    <3> QED BY <1>20, <3>2, <3>3
  <2>2. \A e \in dropped' : e[1] = p => e[2] \in 1..proc[p].wrote
    <3>1. \A e \in dropped : e[1] = p => e[2] \in 1..proc[p].wrote BY <1>1 DEF BitsOf
    <3> QED BY <1>3, <1>4, <1>10, <1>12, <1>20, <3>1
  <2>3. \A m \in 1..proc[p].wrote : (<<p, m>> \in Numbers(Whereabouts(p)')) # (<<p, m>> \in dropped')
    <3> SUFFICES ASSUME NEW m \in 1..proc[p].wrote
                 PROVE  (<<p, m>> \in Numbers(Whereabouts(p)')) # (<<p, m>> \in dropped')
      OBVIOUS
    <3>1. (<<p, m>> \in Numbers(Whereabouts(p))) # (<<p, m>> \in dropped) BY <1>1 DEF BitsOf
    <3> QED BY <1>3, <1>4, <1>10, <1>12, <1>17, <1>18, <1>21, <3>1
  <2>4. Numbers(Whereabouts(p))' = Numbers(Whereabouts(p)') BY DEF Numbers
  <2> QED BY <1>6, <1>13, <1>15, <1>17, <2>1, <2>2, <2>3, <2>4 DEF BitsOf
<1>23. \A n : Torn(p, n) => Torn(p, n)' BY <1>4, <1>5, <1>7 DEF Torn
<1>24. ASSUME NEW e \in ToSet(R), ~e[3] PROVE Torn(p, e[2])'
  <2>1. PICK r \in ends[p] : r \in Nat /\ Numbers(C) = {<<p, n>> : n \in (r + 1)..last} BY <1>2
  <2>2. \A n : <<p, n>> \in Numbers(C) <=> n \in (r + 1)..last
    <3>1. \A n, m : <<p, n>> = <<p, m>> <=> n = m OBVIOUS
    <3> QED BY <2>1, <3>1
  <2>3. PICK f \in ToSet(C) : f[2] = e[2] BY <1>3
  <2>4. <<p, e[2]>> \in Numbers(C) BY <1>2, <2>3 DEF Numbers
  <2>5. e[2] \in (r + 1)..last BY <2>2, <2>4
  <2>6. ASSUME NEW char \in cfg.chars, e[2] \in char
        PROVE  \E m \in char : \E t \in ends'[p] : (m <= t) # (e[2] <= t)
    <3>1. PICK m \in char : <<p, m, TRUE>> \notin ToSet(C) BY <1>3, <1>24, <2>6 DEF Whole
    <3>2. m \in Nat \ {0}
      <4>1. cfg \in Settings BY DEF TypeOK
      <4>2. cfg.chars \subseteq SUBSET (Nat \ {0}) BY <4>1, CallsAssumption
      <4> QED BY <3>1, <4>2
    <3>3. <<p, m>> \notin Numbers(C)
      <4> SUFFICES ASSUME NEW g \in ToSet(C), <<p, m>> = <<g[1], g[2]>> PROVE FALSE BY DEF Numbers
      <4>1. g \in ToSet(C) /\ g[2] = m OBVIOUS
      <4>2. g = <<p, m, TRUE>> BY <1>30, <4>1, Zenon
      <4> QED BY <3>1, <4>1, <4>2
    <3>4. m <= r \/ last < m
      <4>1. m \notin (r + 1)..last BY <2>2, <3>3
      <4>2. last \in Nat BY <1>1, <1>2
      <4> QED BY <2>1, <3>2, <4>1, <4>2
    <3>5. CASE m <= r
      <4>1. r \in ends'[p] /\ (m <= r) /\ ~(e[2] <= r) BY <1>1, <1>2, <1>7, <2>1, <2>5, <3>5
      <4> QED BY <4>1
    <3>6. CASE last < m
      <4>1. last \in ends'[p] /\ ~(m <= last) /\ (e[2] <= last) BY <1>1, <1>2, <1>7, <2>1, <2>5, <3>2, <3>6
      <4> QED BY <4>1
    <3> QED BY <3>4, <3>5, <3>6
  <2> QED BY <1>5, <2>6 DEF Torn
<1>25. ASSUME NEW e \in ToSet(B), e[3] PROVE Whole(p, e[2], ToSet(B), dropped')
  <2>1. ASSUME NEW m, <<p, m, TRUE>> \in ToSet(T) \cup ToSet(R)
        PROVE  <<p, m, TRUE>> \in ToSet(B) \/ <<p, m>> \in dropped'
    <3>1. <<p, m>> \in Numbers(T \o R)
      <4>1. <<p, m, TRUE>>[1] = p /\ <<p, m, TRUE>>[2] = m OBVIOUS
      <4> QED BY <1>12, <2>1, <4>1 DEF Numbers
    <3>2. ASSUME <<p, m>> \in Numbers(B) PROVE <<p, m, TRUE>> \in ToSet(B)
      <4>1. PICK g \in ToSet(B) : <<p, m>> = <<g[1], g[2]>> BY <3>2 DEF Numbers
      <4>2. g \in ToSet(T \o R) /\ <<p, m, TRUE>> \in ToSet(T \o R) BY <1>12, <1>13, <2>1
      <4>3. g[2] = <<p, m, TRUE>>[2] BY <4>1
      <4>4. g = <<p, m, TRUE>> BY <1>12, <4>2, <4>3, SortedOnce
      <4> QED BY <4>4
    <3> QED BY <1>4, <3>1, <3>2
  <2>2. CASE e \in ToSet(T)
    <3>1. Whole(p, e[2], ToSet(T), dropped) BY <1>1, <1>25, <2>2 DEF CharsOf
    <3>2. PICK char \in cfg.chars : e[2] \in char /\ \A m \in char : <<p, m, TRUE>> \in ToSet(T) \/ <<p, m>> \in dropped
      BY <3>1 DEF Whole
    <3>3. \A m \in char : <<p, m, TRUE>> \in ToSet(B) \/ <<p, m>> \in dropped' BY <1>4, <2>1, <3>2
    <3> QED BY <3>2, <3>3 DEF Whole
  <2>3. CASE e \in ToSet(R)
    <3>1. PICK char \in cfg.chars : e[2] \in char /\ \A m \in char : <<p, m, TRUE>> \in ToSet(C)
      BY <1>3, <1>25, <2>3 DEF Whole
    <3>2. \A m \in char : Whole(p, m, ToSet(C), {}) BY <3>1 DEF Whole
    <3>3. \A m \in char : <<p, m, TRUE>> \in ToSet(R) BY <1>3, <3>1, <3>2
    <3>4. \A m \in char : <<p, m, TRUE>> \in ToSet(B) \/ <<p, m>> \in dropped' BY <2>1, <3>3
    <3> QED BY <3>1, <3>4 DEF Whole
  <2> QED BY <1>13, <2>2, <2>3
<1>26. CharsOf(p)'
  <2>1. \A n, S, G : Whole(p, n, S, G)' <=> Whole(p, n, S, G) BY <1>5 DEF Whole
  <2>2. ASSUME NEW e \in ToSet(Whereabouts(p)') PROVE e[3] \/ Torn(p, e[2])'
    <3>1. \A f \in ToSet(Whereabouts(p)) : f[3] \/ Torn(p, f[2]) BY <1>1 DEF CharsOf
    <3>2. CASE e \in ToSet(Whereabouts(p)) BY <1>23, <3>1, <3>2
    <3>3. CASE e \in ToSet(R) BY <1>24, <3>3
    <3> QED BY <1>10, <1>13, <1>17, <3>2, <3>3
  <2>3. \A e \in ToSet(D) : e[3] => Whole(p, e[2], ToSet(D), {}) BY <1>1 DEF CharsOf
  <2>4. \A e \in ToSet(P) : e[3] BY <1>2
  <2>5. /\ last \in ends'[p] /\ last \in 0..proc'[p].wrote
        /\ Numbers(P) = {<<p, n>> : n \in (last + 1)..proc'[p].wrote}
    BY <1>1, <1>2, <1>6, <1>7
  <2>6. /\ (delivered[p])' = D /\ Text(fresh[p])' = B /\ (proc[p].pipe)' = P
        /\ (proc[p].wrote)' = proc'[p].wrote /\ (ends[p])' = ends'[p]
    BY <1>5, <1>6, <1>15
  <2> QED BY <1>25, <2>1, <2>2, <2>3, <2>4, <2>5, <2>6 DEF CharsOf
<1>27. ASSUME NEW q \in Procs, q # p PROVE BitsOf(q)' /\ CharsOf(q)' /\ (q \notin Started => Silent(q))'
  <2>1. BitsOf(q) /\ CharsOf(q) /\ (q \notin Started => Silent(q)) BY DEF OutputInv
  <2>2. proc'[q] = proc[q] /\ fresh'[q] = fresh[q] /\ ends'[q] = ends[q] BY <1>6, <1>7, <1>15, <1>27
  <2>3. Whereabouts(q)' = Whereabouts(q) BY <1>5, <2>2 DEF Whereabouts
  <2>4. dropped \subseteq dropped' /\ \A e \in dropped' \ dropped : e[1] # q
    BY <1>3, <1>4, <1>10, <1>12, <1>20, <1>27
  <2>5. BitsOf(q)' /\ CharsOf(q)' BY <1>5, <2>1, <2>2, <2>4, OtherBits
  <2>6. Silent(q) => Silent(q)' BY <1>5, <2>2, <2>3 DEF Silent, HasWriter, Running
  <2> QED BY <1>9, <2>1, <2>5, <2>6
<1>28. \A q \in Procs : BitsOf(q)' /\ CharsOf(q)' /\ (q \notin Started' => Silent(q)')
  BY <1>8, <1>9, <1>22, <1>26, <1>27
<1>29. dropped' \subseteq Procs \X Nat
  <2>1. dropped \subseteq Procs \X Nat BY DEF OutputInv
  <2>2. \A x \in Numbers(T \o R) : x \in Procs \X Nat BY <1>1, <1>3, <1>10, <1>12, <1>20
  <2> QED BY <1>4, <2>1, <2>2
<1> QED BY <1>5, <1>7, <1>15, <1>28, <1>29 DEF OutputInv

\* Steps that change one process, but none of its bytes, and end no silence.
LEMMA ProcessOutput ==
  ASSUME TypeOK, OutputInv, UNCHANGED <<cfg, outVars>>, NEW p \in Procs, NEW r \in ProcType,
         proc' = [proc EXCEPT ![p] = r], r.pipe = proc[p].pipe, r.wrote = proc[p].wrote,
         r.status = "none" => (proc[p].status = "none" /\ (r.child => proc[p].child))
  PROVE  OutputInv'
<1>1. proc'[p] = r /\ \A q \in Procs \ {p} : proc'[q] = proc[q] BY OneChanges
<1>2. \A q \in Procs : proc'[q].pipe = proc[q].pipe /\ proc'[q].wrote = proc[q].wrote BY <1>1
<1>3. ASSUME NEW q \in Procs, q \notin Started'
      PROVE  q \notin Started /\ (HasWriter(q)' => HasWriter(q))
  <2>1. proc'[q].status = "none" BY <1>3 DEF Started
  <2>2. proc[q].status = "none" /\ (proc'[q].child => proc[q].child)
    <3>1. CASE q = p BY <1>1, <2>1, <3>1
    <3>2. CASE q # p BY <1>1, <1>3, <2>1, <3>2
    <3> QED BY <3>1, <3>2
  <2> QED BY <2>1, <2>2 DEF Started, HasWriter, Running
<1> QED BY <1>2, <1>3, QuietOutput

\* Every step keeps the invariant.
LEMMA OutputStep == ASSUME TypeOK, OutputInv, [Next]_vars PROVE OutputInv'
<1>0. ASSUME UNCHANGED <<cfg, proc, outVars>> PROVE OutputInv'
  <2>1. \A p \in Procs : p \notin Started' => (p \notin Started /\ (HasWriter(p)' => HasWriter(p)))
    BY <1>0 DEF Started, HasWriter, Running
  <2> QED BY <1>0, <2>1, QuietOutput
<1>1. CASE UNCHANGED vars BY <1>0, <1>1 DEF vars
<1>2. CASE StopAll BY <1>0, <1>2 DEF StopAll
<1>3. ASSUME NEW S \in SUBSET Calls \ {{}}, Batch(S) PROVE OutputInv' BY <1>0, <1>3 DEF Batch
<1>4. ASSUME NEW c \in Calls, CallStep(c) PROVE OutputInv'
  <2>1. CASE Ask(c) BY <1>0, <2>1 DEF Ask
  <2>2. CASE Answered(c) BY <1>0, <2>2 DEF Answered
  <2>3. CASE Spawn(c)
    <3>1. CASE Goto(c, "done") /\ UNCHANGED <<cfg, stops, gate, victims, table, proc, outVars>>
      BY <1>0, <3>1
    <3>2. ASSUME NEW p \in Free, SpawnOf(c, p) PROVE OutputInv'
      BY <2>3, <3>2, SpawnOutput DEF Spawn
    <3> QED BY <2>3, <3>1, <3>2, SpawnIs
  <2>4. CASE RegisterActive(c) BY <1>0, <2>4 DEF RegisterActive
  <2>5. CASE ExecWaited(c) \/ ShellWaited(c) \/ StdinWaited(c)
    BY <1>0, <2>5 DEF ExecWaited, ShellWaited, StdinWaited
  <2>6. CASE RegisterSession(c) BY <1>0, <2>6 DEF RegisterSession
  <2>7. CASE Snapshot(c) BY <1>0, <2>7 DEF Snapshot
  <2>8. CASE JoinAndClose(c)
    <3>1. PICK p \in Procs : p = call[c].proc
      BY <2>8, HasProcess DEF JoinAndClose, At, WithProcess
    <3>2. UNCHANGED <<cfg, outVars>> /\ proc' = [proc EXCEPT ![p].open = FALSE]
      BY <2>8, <3>1 DEF JoinAndClose, ClosePipes
    <3> DEFINE r == [proc[p] EXCEPT !.open = FALSE]
    <3>3. proc[p] \in ProcType BY DEF TypeOK
    <3>4. /\ r \in ProcType /\ r.pipe = proc[p].pipe /\ r.wrote = proc[p].wrote
          /\ r.status = proc[p].status /\ r.child = proc[p].child
      BY <3>3 DEF ProcType
    <3>5. proc' = [proc EXCEPT ![p] = r] BY <3>2
    <3> HIDE DEF r
    <3> QED BY <3>2, <3>4, <3>5, ProcessOutput
  <2>9. CASE TakeOutput(c) BY <2>9, TakeOutputOnce
  <2>10. CASE StdinGet(c) BY <1>0, <2>10 DEF StdinGet
  <2> QED BY <1>4, <2>1, <2>2, <2>3, <2>4, <2>5, <2>6, <2>7, <2>8, <2>9, <2>10 DEF CallStep
<1>5. ASSUME NEW t \in Threads, Interrupt(t) PROVE OutputInv'
  <2>1. PICK p \in Procs : p = victims[t][1]
    <3>1. victims[t] \in Seq(Procs) /\ victims[t] # <<>> BY <1>5 DEF Interrupt, TypeOK
    <3> QED BY <3>1
  <2>2. UNCHANGED <<cfg, outVars>> /\ proc' = [proc EXCEPT ![p].open = FALSE, ![p].doomed = Doom(p)]
    BY <1>5, <2>1 DEF Interrupt
  <2> DEFINE r == [proc[p] EXCEPT !.open = FALSE, !.doomed = Doom(p)]
  <2>3. proc[p] \in ProcType /\ Doom(p) \in BOOLEAN BY DEF TypeOK, ProcType, Doom, Running
  <2>4. /\ r \in ProcType /\ r.pipe = proc[p].pipe /\ r.wrote = proc[p].wrote
        /\ r.status = proc[p].status /\ r.child = proc[p].child
    BY <2>3 DEF ProcType
  <2>5. proc' = [proc EXCEPT ![p] = r] BY <2>2 DEF TypeOK
  <2> HIDE DEF r
  <2> QED BY <2>2, <2>4, <2>5, ProcessOutput
<1>6. ASSUME NEW p \in Procs, Exit(p) PROVE OutputInv'
  <2>1. PICK child \in BOOLEAN : proc' = [proc EXCEPT ![p].status = "ended", ![p].child = child]
    BY <1>6, Zenon DEF Exit
  <2> DEFINE r == [proc[p] EXCEPT !.status = "ended", !.child = child]
  <2>2. proc[p] \in ProcType BY DEF TypeOK
  <2>3. r \in ProcType /\ r.pipe = proc[p].pipe /\ r.wrote = proc[p].wrote /\ r.status = "ended"
    BY <2>2 DEF ProcType
  <2>4. proc' = [proc EXCEPT ![p] = r] BY <2>1
  <2> HIDE DEF r
  <2> QED BY <1>6, <2>3, <2>4, ProcessOutput DEF Exit
<1>7. ASSUME NEW p \in Procs, ChildExits(p) PROVE OutputInv'
  <2> DEFINE r == [proc[p] EXCEPT !.child = FALSE]
  <2>1. proc[p] \in ProcType BY DEF TypeOK
  <2>2. /\ r \in ProcType /\ r.pipe = proc[p].pipe /\ r.wrote = proc[p].wrote
        /\ r.status = proc[p].status /\ ~r.child
    BY <2>1 DEF ProcType
  <2>3. proc' = [proc EXCEPT ![p] = r] BY <1>7 DEF ChildExits
  <2> HIDE DEF r
  <2> QED BY <1>7, <2>2, <2>3, ProcessOutput DEF ChildExits
<1>8. ASSUME NEW p \in Procs, ReaderEnds(p) PROVE OutputInv'
  <2>1. /\ reader' = [reader EXCEPT ![p] = "gone"]
        /\ UNCHANGED <<cfg, proc, fresh, delivered, ends, dropped>>
    BY <1>8 DEF ReaderEnds
  <2>2. reader' \in [Procs -> {"select", "gone"}] BY <2>1 DEF OutputInv
  <2>3. p \in Started BY <1>8 DEF ReaderEnds, OutputInv, Silent
  <2>4. \A q \in Procs : q \notin Started' =>
          (q \notin Started /\ reader'[q] = reader[q] /\ (HasWriter(q)' => HasWriter(q)))
    BY <2>1, <2>3 DEF OutputInv, Started, HasWriter, Running
  <2> QED BY <2>1, <2>2, <2>4, StillOutput
<1> QED BY <1>1, <1>2, <1>3, <1>4, <1>5, <1>6, <1>7, <1>8, WriteOutput, ReadOutput
        DEF Next, ReaderStep

\* Nothing has been written at first.
LEMMA OutputInit == Init => OutputInv
<1> SUFFICES ASSUME Init PROVE OutputInv OBVIOUS
<1>1. NoText \in TextType /\ Filled(BufferBytes, NoText) BY DEF NoText, TextType, Chunks, Filled
<1>2. <<>> \o <<>> = <<>> /\ <<>> \in Chunks /\ ToSet(<<>>) = {} /\ Sorted(<<>>)
  BY ConcatEmptySeq, EmptySeq DEF Chunks, ToSet, Sorted
<1>3. Numbers(<<>>) = {} BY <1>2 DEF Numbers
<1>4. ASSUME NEW p \in Procs PROVE BitsOf(p) /\ CharsOf(p) /\ Silent(p)
  <2>1. fresh[p] = NoText /\ delivered[p] = <<>> /\ reader[p] = "gone" /\ proc[p] = Unborn /\ ends[p] = {0}
    BY DEF Init
  <2>2. Whereabouts(p) = <<>> /\ Text(fresh[p]) = <<>> BY <1>2, <2>1 DEF Whereabouts, Text, NoText, Unborn
  <2>3. proc[p].wrote = 0 /\ proc[p].pipe = <<>> /\ ~HasWriter(p) BY <2>1 DEF Unborn, HasWriter, Running
  <2>4. dropped = {} BY DEF Init
  <2>5. {<<p, n>> : n \in (0 + 1)..proc[p].wrote} = {} BY <2>3
  <2>6. CharsOf(p) BY <1>2, <1>3, <2>1, <2>2, <2>3, <2>5 DEF CharsOf
  <2>7. BitsOf(p) BY <1>1, <1>2, <1>3, <2>1, <2>2, <2>3, <2>4 DEF BitsOf
  <2> QED BY <2>1, <2>2, <2>3, <2>6, <2>7 DEF Silent
<1>5. ends \in [Procs -> SUBSET Nat] BY DEF Init
<1> QED BY <1>1, <1>2, <1>4, <1>5 DEF Init, OutputInv

\* No output is delivered twice, out of order, to a command that did not write it, or
\* lost on its way, however much a command writes and whoever takes it; and every
\* character is delivered as it was written, or replaced where a read ended within it or
\* the full buffer let go a part of it, and never in part.
THEOREM CommandsOutput == Spec => []OutputOnce
<1>1. OutputInv => OutputOnce BY OutputFollows
<1>2. TypeOK /\ OutputInv /\ [Next]_vars => OutputInv' BY OutputStep
<1> QED BY <1>1, <1>2, OutputInit, CommandsTyped, PTL DEF Spec

-----------------------------------------------------------------------------
(* Patches.  FoldLeft over a sequence of changes or of lines is a loop.    *)

\* A set of numbers that is bounded has a greatest, which is its Max.
LEMMA MaxIs ==
  ASSUME NEW S, S \subseteq Nat, S # {}, NEW b \in Nat, \A x \in S : x <= b
  PROVE  Max(S) \in S /\ \A y \in S : y <= Max(S)
<1> DEFINE T == {b - x : x \in S}
<1>0. \A x \in S : b - x \in Nat OBVIOUS
<1>1. T \subseteq Nat /\ T # {} BY <1>0, Zenon
<1>2. PICK m \in T : \A y \in T : m <= y BY <1>1, LeastNumber
<1>3. PICK x \in S : m = b - x BY <1>2
<1>4. \A y \in S : b - x <= b - y BY <1>2, <1>3
<1>5. \A y \in S : x >= y BY <1>4
<1>6. Max(S) \in S /\ \A y \in S : Max(S) >= y BY <1>5 DEF Max
<1> QED BY <1>6

\* What holds of 0, and of a number when it holds of the one before it, holds of all.
LEMMA Counting ==
  ASSUME NEW T, 0 \in T, \A i \in Nat : i \in T => i + 1 \in T
  PROVE  Nat \subseteq T
<1> DEFINE Bad == {i \in Nat : i \notin T}
<1>1. SUFFICES ASSUME Bad # {} PROVE FALSE OBVIOUS
<1>2. PICK n \in Bad : \A y \in Bad : n <= y
  <2>1. Bad \subseteq Nat OBVIOUS
  <2> HIDE DEF Bad
  <2> QED BY <1>1, <2>1, LeastNumber
<1>3. n \in Nat /\ n # 0 BY <1>2
<1>4. n - 1 \in Nat /\ ~(n <= n - 1) BY <1>3
<1>5. n - 1 \in T BY <1>2, <1>4
<1>6. (n - 1) + 1 = n BY <1>3
<1> QED BY <1>2, <1>4, <1>5, <1>6

\* The greatest number can be taken away from a set of numbers up to n, and what is
\* left is smaller.
LEMMA WithoutMax ==
  ASSUME NEW n \in Nat, NEW A \in SUBSET (1..n), A # {}
  PROVE  /\ Max(A) \in A /\ A \ {Max(A)} \in SUBSET (1..n)
         /\ IsFiniteSet(A) /\ Cardinality(A) \in Nat
         /\ Cardinality(A \ {Max(A)}) = Cardinality(A) - 1
<1>1. A \subseteq Nat /\ \A x \in A : x <= n OBVIOUS
<1>2. Max(A) \in A BY <1>1, MaxIs
<1>3. IsFiniteSet(1..n) BY FS_Interval
<1>4. IsFiniteSet(A) BY <1>3, FS_Subset
<1> QED BY <1>2, <1>4, FS_RemoveElement, FS_CardinalityType

\* A change is tracked (_track_apply_patch_change), or a line is parsed.
Taken(how, t, x) == IF how = "track" THEN Track(t, x) ELSE ParseLine(t, x)
\* The function that a fold is read off, defined on sets of places.
Folded(how, g, t, s, D) ==
  g = [A \in D |-> IF A = {} THEN t ELSE Taken(how, g[A \ {Max(A)}], s[Max(A)])]

\* There is such a function,
LEMMA FoldsExist ==
  ASSUME NEW n \in Nat, NEW how, NEW t, NEW s
  PROVE  \E g : Folded(how, g, t, s, SUBSET (1..n))
<1> DEFINE Small(m) == {A \in SUBSET (1..n) : Cardinality(A) <= m}
           Good == {m \in Nat : \E g : Folded(how, g, t, s, Small(m))}
<1>1. \A B \in SUBSET (1..n) : IsFiniteSet(B) /\ Cardinality(B) \in Nat /\ Cardinality(B) <= n
  <2>1. IsFiniteSet(1..n) /\ Cardinality(1..n) = n BY FS_Interval
  <2> QED BY <2>1, FS_Subset, FS_CardinalityType
<1>2. 0 \in Good
  <2> DEFINE g == [A \in Small(0) |-> t]
  <2>1. \A A \in Small(0) : A = {} BY <1>1, FS_EmptySet
  <2>2. Folded(how, g, t, s, Small(0)) BY <2>1 DEF Folded
  <2> QED BY <2>2
<1>3. ASSUME NEW m \in Nat, m \in Good PROVE m + 1 \in Good
  <2>1. PICK g : Folded(how, g, t, s, Small(m)) BY <1>3
  <2> DEFINE h == [A \in Small(m + 1) |-> IF A = {} THEN t ELSE Taken(how, g[A \ {Max(A)}], s[Max(A)])]
  <2>2. \A A \in Small(m) : g[A] = IF A = {} THEN t ELSE Taken(how, g[A \ {Max(A)}], s[Max(A)])
    BY <2>1 DEF Folded
  <2>3. \A A \in Small(m) : A \in Small(m + 1) BY <1>1
  <2>4. \A A \in Small(m) : h[A] = g[A] BY <2>2, <2>3
  <2>5. \A A \in Small(m + 1) : A # {} => A \ {Max(A)} \in Small(m)
    <3> TAKE A \in Small(m + 1)
    <3> HAVE A # {}
    <3>1. A \ {Max(A)} \in SUBSET (1..n) /\ Cardinality(A \ {Max(A)}) = Cardinality(A) - 1
          /\ Cardinality(A) \in Nat
      BY WithoutMax
    <3> QED BY <3>1
  <2>6. \A A \in Small(m + 1) : h[A] = IF A = {} THEN t ELSE Taken(how, h[A \ {Max(A)}], s[Max(A)])
    BY <2>4, <2>5
  <2>7. h = [A \in Small(m + 1) |-> h[A]] OBVIOUS
  <2> HIDE DEF h, Small
  <2>8. Folded(how, h, t, s, Small(m + 1)) BY <2>6, <2>7 DEF Folded
  <2> QED BY <2>8
<1>4. n \in Good
  <2> HIDE DEF Good
  <2> QED BY <1>2, <1>3, Counting
<1>5. Small(n) = SUBSET (1..n) BY <1>1
<1> QED BY <1>4, <1>5

\* its values at 1..i are those of a loop over the sequence,
Loops(how, g, t, s, n) == g[1..0] = t /\ \A i \in 1..n : g[1..i] = Taken(how, g[1..(i - 1)], s[i])
\* ... of which those are the values.
LEMMA FoldsLoop ==
  ASSUME NEW n \in Nat, NEW how, NEW t, NEW s, NEW g, Folded(how, g, t, s, SUBSET (1..n))
  PROVE  Loops(how, g, t, s, n)
<1>1. \A A \in SUBSET (1..n) : g[A] = IF A = {} THEN t ELSE Taken(how, g[A \ {Max(A)}], s[Max(A)])
  BY DEF Folded
<1>2. 1..0 = {} /\ 1..0 \in SUBSET (1..n) OBVIOUS
<1>3. ASSUME NEW i \in 1..n PROVE g[1..i] = Taken(how, g[1..(i - 1)], s[i])
  <2>1. 1..i \in SUBSET (1..n) /\ i \in 1..i /\ 1..i # {} OBVIOUS
  <2>5. 1..i \subseteq Nat /\ i \in Nat /\ \A x \in 1..i : x <= i OBVIOUS
  <2>2. Max(1..i) \in 1..i /\ \A y \in 1..i : y <= Max(1..i)
    BY <2>1, <2>5, MaxIs
  <2>3. Max(1..i) = i BY <2>1, <2>2
  <2>4. (1..i) \ {i} = 1..(i - 1) OBVIOUS
  <2> QED BY <1>1, <2>1, <2>3, <2>4
<1> QED BY <1>1, <1>2, <1>3 DEF Loops

\* And the fold over the changes of a patch is the last of them.
LEMMA TracksRead ==
  ASSUME NEW t, NEW U, NEW s \in Seq(U)
  PROVE  \E g : FoldLeft(Track, t, s) = g[1..Len(s)] /\ Loops("track", g, t, s, Len(s))
<1> DEFINE Is(g) ==
             g = [A \in SUBSET (1..Len(s)) |-> IF A = {} THEN t ELSE Track(g[A \ {Max(A)}], s[Max(A)])]
           g == CHOOSE g : Is(g)
<1>1. Len(s) \in Nat /\ DOMAIN s = 1..Len(s) BY LenProperties
<1>2. \A f : Is(f) <=> Folded("track", f, t, s, SUBSET (1..Len(s))) BY DEF Folded, Taken
<1>3. FoldLeft(Track, t, s) = g[1..Len(s)] BY <1>1 DEF FoldLeft, MapThenFoldSet
<1>4. \E f : Folded("track", f, t, s, SUBSET (1..Len(s))) BY <1>1, FoldsExist
<1> HIDE DEF Is
<1>5. Is(g) BY <1>2, <1>4
<1> HIDE DEF g
<1>6. Loops("track", g, t, s, Len(s)) BY <1>1, <1>2, <1>5, FoldsLoop, Zenon
<1> QED BY <1>3, <1>6

\* So it is for the lines of a patch.
LEMMA ParseRead ==
  ASSUME NEW U, NEW s \in Seq(U)
  PROVE  \E g : FoldLeft(ParseLine, ParserInit, s) = g[1..Len(s)] /\ Loops("parse", g, ParserInit, s, Len(s))
<1> DEFINE Is(g) ==
             g = [A \in SUBSET (1..Len(s)) |-> IF A = {} THEN ParserInit ELSE ParseLine(g[A \ {Max(A)}], s[Max(A)])]
           g == CHOOSE g : Is(g)
<1>1. Len(s) \in Nat /\ DOMAIN s = 1..Len(s) BY LenProperties
<1>2. \A f : Is(f) <=> Folded("parse", f, ParserInit, s, SUBSET (1..Len(s))) BY DEF Folded, Taken
<1>3. FoldLeft(ParseLine, ParserInit, s) = g[1..Len(s)] BY <1>1 DEF FoldLeft, MapThenFoldSet
<1>4. \E f : Folded("parse", f, ParserInit, s, SUBSET (1..Len(s))) BY <1>1, FoldsExist
<1> HIDE DEF Is
<1>5. Is(g) BY <1>2, <1>4
<1> HIDE DEF g
<1>6. Loops("parse", g, ParserInit, s, Len(s)) BY <1>1, <1>2, <1>5, FoldsLoop, Zenon
<1> QED BY <1>3, <1>6

\* No changes leave the tracker as it is.
LEMMA TrackNone ==
  ASSUME NEW t
  PROVE  FoldLeft(Track, t, <<>>) = t
<1>1. <<>> \in Seq({}) /\ Len(<<>>) = 0 BY EmptySeq
<1>2. PICK g : FoldLeft(Track, t, <<>>) = g[1..Len(<<>>)] /\ Loops("track", g, t, <<>>, Len(<<>>))
  BY <1>1, TracksRead, Zenon
<1> QED BY <1>1, <1>2 DEF Loops, Taken

\* One more change is tracked after the others.
LEMMA TrackOneMore ==
  ASSUME NEW t, NEW U, NEW s \in Seq(U), NEW c \in U
  PROVE  FoldLeft(Track, t, Append(s, c)) = Track(FoldLeft(Track, t, s), c)
<1> DEFINE n == Len(s)
           r == Append(s, c)
<1>1. n \in Nat /\ r \in Seq(U) /\ Len(r) = n + 1 /\ r[n + 1] = c /\ \A i \in 1..n : r[i] = s[i]
  BY AppendProperties, LenProperties
<1>2. PICK g : FoldLeft(Track, t, s) = g[1..Len(s)] /\ Loops("track", g, t, s, Len(s))
  BY TracksRead, Zenon
<1>3. PICK h : FoldLeft(Track, t, r) = h[1..Len(r)] /\ Loops("track", h, t, r, Len(r))
  BY <1>1, TracksRead, Zenon
<1>4. \A i \in 1..n : g[1..i] = Track(g[1..(i - 1)], s[i]) BY <1>2 DEF Loops, Taken
<1>5. \A i \in 1..(n + 1) : h[1..i] = Track(h[1..(i - 1)], r[i]) BY <1>1, <1>3 DEF Loops, Taken
<1>a. FoldLeft(Track, t, s) = g[1..n] /\ FoldLeft(Track, t, r) = h[1..(n + 1)] /\ g[1..0] = h[1..0]
  BY <1>1, <1>2, <1>3 DEF Loops, Taken
<1> HIDE DEF n, r
<1> DEFINE T == {i \in Nat : i <= n => h[1..i] = g[1..i]}
<1>6. 0 \in T BY <1>a
<1>7. ASSUME NEW i \in Nat, i \in T PROVE i + 1 \in T
  <2>1. CASE i + 1 <= n
    <3>1. i + 1 \in 1..n /\ i + 1 \in 1..(n + 1) /\ (i + 1) - 1 = i /\ i <= n BY <1>1, <2>1
    <3>2. h[1..i] = g[1..i] BY <1>7, <3>1
    <3>3. g[1..(i + 1)] = Track(g[1..i], s[i + 1]) BY <1>4, <3>1
    <3>4. h[1..(i + 1)] = Track(h[1..i], r[i + 1]) BY <1>5, <3>1
    <3> QED BY <1>1, <3>1, <3>2, <3>3, <3>4
  <2>2. CASE ~(i + 1 <= n) BY <2>2
  <2> QED BY <2>1, <2>2
<1>8. n \in T
  <2> HIDE DEF T
  <2> QED BY <1>1, <1>6, <1>7, Counting
<1>9. n + 1 \in 1..(n + 1) /\ (n + 1) - 1 = n BY <1>1
<1>10. h[1..(n + 1)] = Track(h[1..n], c) BY <1>1, <1>5, <1>9
<1>11. h[1..n] = g[1..n] BY <1>1, <1>8
<1> QED BY <1>a, <1>10, <1>11 DEF r

-----------------------------------------------------------------------------
(* What a patch is read as is a sequence.                                  *)

IsSeq(x) == x \in Seq(Range(x))

\* A sequence over some set is a sequence over what is in it.
LEMMA SeqIs ==
  ASSUME NEW U, NEW x \in Seq(U)
  PROVE  IsSeq(x)
<1>1. x \in [1..Len(x) -> U] /\ Len(x) \in Nat BY LenProperties
<1>2. x \in [1..Len(x) -> Range(x)] BY <1>1 DEF Range
<1> QED BY <1>1, <1>2, SeqDef DEF IsSeq

\* ... and stays one with one more at its end.
LEMMA SeqAppend ==
  ASSUME NEW x, IsSeq(x), NEW e
  PROVE  IsSeq(Append(x, e))
<1>1. x \in Seq(Range(x) \cup {e}) BY SeqMonotonic DEF IsSeq
<1>2. Append(x, e) \in Seq(Range(x) \cup {e}) BY <1>1, AppendProperties
<1> QED BY <1>2, SeqIs

\* The state of the parser, as far as it has to be.
Parser(s) ==
  /\ DOMAIN s = {"where", "changes", "change", "chunk", "read"}
  /\ s = [f \in DOMAIN s |-> s[f]]
  /\ IsSeq(s.changes)

\* The parts of _parse_volley_patch keep the changes read so far a sequence,
LEMMA ParserSteps ==
  ASSUME NEW s, Parser(s), NEW l
  PROVE  /\ Parser(Stop(s)) /\ Parser(Done(s)) /\ Parser(AtTop(s, l)) /\ Parser(ChunkDone(s))
         /\ \A c : Parser(NewChunk(s, c))
         /\ l.mark \in ChunkMarks => Parser(ChunkLine(s, l))
<1>a. ASSUME NEW t, Parser(t) PROVE Parser(Stop(t)) BY <1>a DEF Stop, Parser
<1>b. ASSUME NEW t, Parser(t) PROVE Parser(Done(t)) BY <1>a, <1>b, SeqAppend, ZenonT(40) DEF Done, Parser
<1>c. ASSUME NEW t, Parser(t) PROVE Parser(TopLine(t, l)) BY <1>a, <1>c, SeqAppend DEF TopLine, Parser
<1>1. Parser(Stop(s)) /\ Parser(Done(s)) BY <1>a, <1>b
<1>2. Parser(AtTop(s, l)) BY <1>1, <1>c DEF AtTop
<1>3. Parser(ChunkDone(s)) BY <1>a DEF ChunkDone, Parser
<1>4. \A c : Parser(NewChunk(s, c)) BY DEF NewChunk, Parser
<1>5. l.mark \in ChunkMarks => Parser(ChunkLine(s, l)) BY DEF ChunkLine, InChunk, Parser, ChunkMarks
<1> QED BY <1>1, <1>2, <1>3, <1>4, <1>5

\* ... and so does each line.
LEMMA ParserStep ==
  ASSUME NEW s, Parser(s), NEW l
  PROVE  Parser(ParseLine(s, l))
<1>1. ASSUME NEW t, Parser(t) PROVE Parser(HunksLine(t, l))
  <2>1. \A c : Parser(NewChunk(t, c)) BY <1>1, ParserSteps
  <2>2. l.mark \in ChunkMarks => Parser(ChunkLine(NewChunk(t, <<>>), l)) BY <2>1, ParserSteps
  <2>3. Parser(AtTop(t, l)) /\ Parser(Stop(t)) BY <1>1, ParserSteps
  <2>4. Parser([t EXCEPT !.where = "hunks"]) BY <1>1 DEF Parser
  <2> QED BY <2>1, <2>2, <2>3, <2>4 DEF HunksLine
<1>2. Parser(AtTop(s, l)) /\ Parser(Stop(s)) /\ Parser(ChunkDone(s)) BY ParserSteps
<1>3. l.mark \in ChunkMarks => Parser(ChunkLine(s, l)) BY ParserSteps
<1>4. Parser([s EXCEPT !.chunk.eof = TRUE]) BY DEF Parser
<1>5. Parser(ChunkDone([s EXCEPT !.chunk.eof = TRUE])) BY <1>4, ParserSteps
<1>6. Parser([s EXCEPT !.change.content = Append(@, l.line)])
      /\ Parser([s EXCEPT !.where = "hunks", !.change.to = {l.line.words}]) BY DEF Parser
<1>7. Parser(HunksLine(s, l)) /\ Parser(HunksLine(ChunkDone(s), l)) BY <1>1, <1>2
<1> QED BY <1>2, <1>3, <1>5, <1>6, <1>7 DEF ParseLine

\* A patch is read as a sequence of changes.
LEMMA ParsedIsSeq ==
  ASSUME NEW U, NEW lines \in Seq(U), NEW changes \in Parse(lines)
  PROVE  IsSeq(changes)
<1> DEFINE final == FoldLeft(ParseLine, ParserInit, lines)
           n == Len(lines)
<1>1. Parser(ParserInit)
  <2>1. <<>> \in Seq({}) BY EmptySeq
  <2>2. IsSeq(<<>>) BY <2>1, SeqIs
  <2> QED BY <2>2 DEF Parser, ParserInit
<1>2. PICK g : final = g[1..n] /\ Loops("parse", g, ParserInit, lines, n) BY ParseRead, Zenon
<1>3. n \in Nat BY LenProperties
<1>4. g[1..0] = ParserInit /\ \A i \in 1..n : g[1..i] = ParseLine(g[1..(i - 1)], lines[i])
  BY <1>2 DEF Loops, Taken
<1> HIDE DEF final, n
<1> DEFINE T == {i \in Nat : i <= n => Parser(g[1..i])}
<1>5. 0 \in T BY <1>1, <1>4
<1>6. ASSUME NEW i \in Nat, i \in T PROVE i + 1 \in T
  <2>1. CASE i + 1 <= n
    <3>1. i + 1 \in 1..n /\ (i + 1) - 1 = i /\ i <= n BY <1>3, <2>1
    <3>2. Parser(g[1..i]) BY <1>6, <3>1
    <3>3. g[1..(i + 1)] = ParseLine(g[1..i], lines[i + 1]) BY <1>4, <3>1
    <3> QED BY <3>2, <3>3, ParserStep
  <2>2. CASE ~(i + 1 <= n) BY <2>2
  <2> QED BY <2>1, <2>2
<1>7. n \in T
  <2> HIDE DEF T
  <2> QED BY <1>3, <1>5, <1>6, Counting
<1>8. Parser(final) BY <1>2, <1>3, <1>7
<1> DEFINE closed == Done(IF final.where = "chunk" THEN ChunkDone(final) ELSE final)
<1>9. Parser(closed)
  <2>1. Parser(IF final.where = "chunk" THEN ChunkDone(final) ELSE final) BY <1>8, ParserSteps
  <2> QED BY <2>1, ParserSteps
<1>10. Parse(lines) \subseteq {closed.changes} BY DEF Parse, final
<1> HIDE DEF closed
<1> QED BY <1>9, <1>10 DEF Parser

-----------------------------------------------------------------------------
(* Functions of paths.                                                     *)

\* What is known of a path that nobody has written unseen: what it was and what it is.
FollowedAt(t, S, F, p) ==
  IF Known(t, p)
  THEN TextAt(S, p) = TextAt(t.baseline, p) /\ TextAt(F, p) = TextAt(t.current, p)
  ELSE TextAt(S, p) = TextAt(F, p)
Followed(t, S, F, U) ==
  /\ DOMAIN t = {"baseline", "current", "origin"}
  /\ \A p : p \notin U => FollowedAt(t, S, F, p)

\* The first text seen of a path is kept: the one at the beginning of the turn, as long
\* as nobody wrote the path unseen.
LEMMA BaselineIs ==
  ASSUME NEW t, NEW S, NEW F, NEW p, NEW U, Followed(t, S, F, U)
  PROVE  /\ \A q : q # p => TextAt(Baseline(t, p, TextAt(F, p)), q) = TextAt(t.baseline, q)
         /\ p \notin U => TextAt(Baseline(t, p, TextAt(F, p)), p) = TextAt(S, p)
         /\ \A q : q \in DOMAIN Baseline(t, p, TextAt(F, p)) => q \in DOMAIN t.baseline \/ q = p
         /\ DOMAIN t.baseline \subseteq DOMAIN Baseline(t, p, TextAt(F, p))
<1>1. CASE Known(t, p) \/ TextAt(F, p) = {}
  <2>1. Baseline(t, p, TextAt(F, p)) = t.baseline BY <1>1 DEF Baseline
  <2>2. p \notin U => FollowedAt(t, S, F, p) BY DEF Followed
  <2>3. ~Known(t, p) => p \notin DOMAIN t.baseline BY DEF Known
  <2> QED BY <1>1, <2>1, <2>2, <2>3 DEF FollowedAt, TextAt
<1>2. CASE ~(Known(t, p) \/ TextAt(F, p) = {})
  <2>1. p \in DOMAIN F /\ TextAt(F, p) = {F[p]} BY <1>2 DEF TextAt
  <2>2. (CHOOSE text \in {F[p]} : TRUE) = F[p] OBVIOUS
  <2>3. Baseline(t, p, TextAt(F, p)) = Put(t.baseline, p, F[p])
    BY <1>2, <2>1, <2>2 DEF Baseline
  <2>4. p \notin U => TextAt(S, p) = TextAt(F, p) BY <1>2 DEF Followed, FollowedAt
  <2> DEFINE b == Put(t.baseline, p, F[p])
  <2>5. /\ DOMAIN b = DOMAIN t.baseline \cup {p} /\ TextAt(b, p) = {F[p]}
        /\ \A q : q # p => TextAt(b, q) = TextAt(t.baseline, q)
    BY DEF Put, TextAt
  <2> HIDE DEF b
  <2> QED BY <2>1, <2>3, <2>4, <2>5 DEF b
<1> QED BY <1>1, <1>2

\* A change that says truly what it replaced is followed.
LEMMA AddFollowed ==
  ASSUME NEW t, NEW S, NEW F, NEW U, NEW c, Followed(t, S, F, U), c.over = TextAt(F, c.path)
  PROVE  Followed(TrackAdd(t, c), S, Put(F, c.path, c.new), U)
<1> DEFINE p == c.path
           r == TrackAdd(t, c)
           b == Baseline(t, p, TextAt(F, p))
           k == Put(t.current, p, c.new)
           G == Put(F, p, c.new)
<1>1. DOMAIN r = {"baseline", "current", "origin"} /\ r.baseline = b /\ r.current = k BY DEF TrackAdd
<1>2. /\ \A q : q # p => TextAt(b, q) = TextAt(t.baseline, q)
      /\ p \notin U => TextAt(b, p) = TextAt(S, p)
      /\ \A q : q \in DOMAIN b => q \in DOMAIN t.baseline \/ q = p
      /\ DOMAIN t.baseline \subseteq DOMAIN b
  BY BaselineIs
<1>3. /\ DOMAIN k = DOMAIN t.current \cup {p} /\ TextAt(k, p) = {c.new}
      /\ \A q : q # p => TextAt(k, q) = TextAt(t.current, q)
  BY DEF Put, TextAt
<1>4. TextAt(G, p) = {c.new} /\ \A q : q # p => TextAt(G, q) = TextAt(F, q) BY DEF Put, TextAt
<1> HIDE DEF p, r, b, k, G
<1>5. ASSUME NEW q, q \notin U PROVE FollowedAt(r, S, G, q)
  <2>1. CASE q = p BY <1>1, <1>2, <1>3, <1>4, <1>5, <2>1 DEF FollowedAt, Known
  <2>2. CASE q # p
    <3>1. Known(r, q) <=> Known(t, q) BY <1>1, <1>2, <1>3, <2>2 DEF Known
    <3>2. FollowedAt(t, S, F, q) BY <1>5 DEF Followed
    <3> QED BY <1>1, <1>2, <1>3, <1>4, <2>2, <3>1, <3>2 DEF FollowedAt
  <2> QED BY <2>1, <2>2
<1> QED BY <1>1, <1>5 DEF Followed, r, G, p

\* So is a removal that says truly what it removed,
LEMMA DeleteFollowed ==
  ASSUME NEW t, NEW S, NEW F, NEW U, NEW c, Followed(t, S, F, U),
         c.path \in DOMAIN F, c.old = F[c.path]
  PROVE  Followed(TrackDelete(t, c), S, Without(F, c.path), U)
<1> DEFINE p == c.path
           r == TrackDelete(t, c)
           b == Baseline(t, p, TextAt(F, p))
           k == Without(t.current, p)
           G == Without(F, p)
<1>0. {c.old} = TextAt(F, p) BY DEF TextAt
<1>1. DOMAIN r = {"baseline", "current", "origin"} /\ r.baseline = b /\ r.current = k
  BY <1>0 DEF TrackDelete
<1>2. /\ \A q : q # p => TextAt(b, q) = TextAt(t.baseline, q)
      /\ p \notin U => TextAt(b, p) = TextAt(S, p)
      /\ \A q : q \in DOMAIN b => q \in DOMAIN t.baseline \/ q = p
      /\ DOMAIN t.baseline \subseteq DOMAIN b
  BY BaselineIs
<1>3. /\ DOMAIN k = DOMAIN t.current \ {p} /\ TextAt(k, p) = {}
      /\ \A q : q # p => TextAt(k, q) = TextAt(t.current, q)
  BY DEF Without, Restrict, TextAt
<1>4. TextAt(G, p) = {} /\ \A q : q # p => TextAt(G, q) = TextAt(F, q) BY DEF Without, Restrict, TextAt
<1>a. p \notin DOMAIN b => TextAt(b, p) = {} BY DEF TextAt
<1> HIDE DEF p, r, b, k, G
<1>5. ASSUME NEW q, q \notin U PROVE FollowedAt(r, S, G, q)
  <2>1. CASE q = p BY <1>1, <1>2, <1>3, <1>4, <1>5, <1>a, <2>1 DEF FollowedAt, Known
  <2>2. CASE q # p
    <3>1. Known(r, q) <=> Known(t, q) BY <1>1, <1>2, <1>3, <2>2 DEF Known
    <3>2. FollowedAt(t, S, F, q) BY <1>5 DEF Followed
    <3> QED BY <1>1, <1>2, <1>3, <1>4, <2>2, <3>1, <3>2 DEF FollowedAt
  <2> QED BY <2>1, <2>2
<1> QED BY <1>1, <1>5 DEF Followed, r, G, p

\* ... an update that says truly what the text was,
LEMMA UpdateFollowed ==
  ASSUME NEW t, NEW S, NEW F, NEW U, NEW c, Followed(t, S, F, U),
         c.path \in DOMAIN F, c.old = F[c.path]
  PROVE  Followed(TrackUpdate(t, c), S, Put(F, c.path, c.new), U)
<1> DEFINE d == [path |-> c.path, over |-> TextAt(F, c.path), new |-> c.new]
<1>1. Followed(TrackAdd(t, d), S, Put(F, d.path, d.new), U) BY AddFollowed
<1>2. d.path = c.path /\ d.new = c.new /\ d.over = {c.old} BY DEF TextAt
<1>3. DOMAIN t = {"baseline", "current", "origin"} BY DEF Followed
<1> HIDE DEF d
<1>4. /\ DOMAIN TrackUpdate(t, c) = DOMAIN TrackAdd(t, d)
      /\ TrackUpdate(t, c).baseline = TrackAdd(t, d).baseline
      /\ TrackUpdate(t, c).current = TrackAdd(t, d).current
  BY <1>2, <1>3 DEF TrackUpdate, TrackAdd
<1> QED BY <1>1, <1>2, <1>4 DEF Followed, FollowedAt, Known

\* ... and a move, unless it is of a file onto itself: the tracker takes that for an
\* update, but the file is gone, so the path counts as written unseen.
LEMMA MoveFollowed ==
  ASSUME NEW t, NEW S, NEW F, NEW U, NEW c, Followed(t, S, F, U),
         c.path \in DOMAIN F, c.old = F[c.path], c.over = TextAt(F, c.to)
  PROVE  Followed(TrackMove(t, c), S, Without(Put(F, c.to, c.new), c.path),
                  IF c.to = c.path THEN U \cup {c.to} ELSE U)
<1> DEFINE p == c.path
           w == c.to
           r == TrackMove(t, c)
           a == Baseline(t, p, TextAt(F, p))
           seen == [t EXCEPT !.baseline = a]
           b == Baseline(seen, w, TextAt(F, w))
           k == Put(Without(t.current, p), w, c.new)
           G == Without(Put(F, w, c.new), p)
           V == IF w = p THEN U \cup {w} ELSE U
<1>0. {c.old} = TextAt(F, p) /\ DOMAIN t = {"baseline", "current", "origin"} BY DEF TextAt, Followed
<1>1. DOMAIN r = {"baseline", "current", "origin"} /\ r.baseline = b /\ r.current = k
  BY <1>0 DEF TrackMove
<1>2. /\ \A q : q # p => TextAt(a, q) = TextAt(t.baseline, q)
      /\ p \notin U => TextAt(a, p) = TextAt(S, p)
      /\ \A q : q \in DOMAIN a => q \in DOMAIN t.baseline \/ q = p
      /\ DOMAIN t.baseline \subseteq DOMAIN a
  BY BaselineIs
<1>3. DOMAIN seen = {"baseline", "current", "origin"} /\ seen.baseline = a /\ seen.current = t.current
  BY <1>0
<1> HIDE DEF p, w, r, a, seen, k, G
<1>4. Followed(seen, S, F, U \cup {p})
  <2>1. ASSUME NEW q, q \notin U \cup {p} PROVE FollowedAt(seen, S, F, q)
    <3>1. FollowedAt(t, S, F, q) BY <2>1 DEF Followed
    <3>2. Known(seen, q) <=> Known(t, q) BY <1>2, <1>3, <2>1 DEF Known
    <3> QED BY <1>2, <1>3, <2>1, <3>1, <3>2 DEF FollowedAt
  <2> QED BY <1>3, <2>1 DEF Followed
<1>5. /\ \A q : q # w => TextAt(b, q) = TextAt(a, q)
      /\ w \notin U \cup {p} => TextAt(b, w) = TextAt(S, w)
      /\ \A q : q \in DOMAIN b => q \in DOMAIN a \/ q = w
      /\ DOMAIN a \subseteq DOMAIN b
  BY <1>3, <1>4, BaselineIs
<1>6. /\ DOMAIN k = (DOMAIN t.current \ {p}) \cup {w} /\ TextAt(k, w) = {c.new}
      /\ w # p => TextAt(k, p) = {}
      /\ \A q : q # p /\ q # w => TextAt(k, q) = TextAt(t.current, q)
  <2> DEFINE m == Without(t.current, p)
  <2>1. /\ DOMAIN m = DOMAIN t.current \ {p} /\ TextAt(m, p) = {}
        /\ \A q : q # p => TextAt(m, q) = TextAt(t.current, q)
    BY DEF Without, Restrict, TextAt
  <2>2. /\ DOMAIN k = DOMAIN m \cup {w} /\ TextAt(k, w) = {c.new}
        /\ \A q : q # w => TextAt(k, q) = TextAt(m, q)
    BY DEF k, Put, TextAt
  <2> HIDE DEF m
  <2> QED BY <2>1, <2>2
<1>7. /\ TextAt(G, p) = {}
      /\ w # p => TextAt(G, w) = {c.new}
      /\ \A q : q # p /\ q # w => TextAt(G, q) = TextAt(F, q)
  <2> DEFINE m == Put(F, w, c.new)
  <2>1. /\ TextAt(G, p) = {} /\ \A q : q # p => TextAt(G, q) = TextAt(m, q)
    BY DEF G, Without, Restrict, TextAt
  <2>2. TextAt(m, w) = {c.new} /\ \A q : q # w => TextAt(m, q) = TextAt(F, q)
    BY DEF Put, TextAt
  <2> HIDE DEF m
  <2> QED BY <2>1, <2>2
<1>a. p \notin DOMAIN b => TextAt(b, p) = {} BY DEF TextAt
<1> HIDE DEF b
<1>8. ASSUME NEW q, q \notin V PROVE FollowedAt(r, S, G, q)
  <2>0. q \notin U /\ (q = w => w # p) BY <1>8
  <2>1. CASE q = p
    <3>1. w # p BY <2>0, <2>1
    <3>2. TextAt(b, p) = TextAt(S, p) BY <1>2, <1>5, <2>0, <2>1, <3>1
    <3> QED BY <1>1, <1>6, <1>7, <1>a, <2>1, <3>1, <3>2 DEF FollowedAt, Known
  <2>2. CASE q = w
    <3>1. TextAt(b, w) = TextAt(S, w) BY <1>5, <2>0, <2>2
    <3>2. Known(r, w) BY <1>1, <1>6 DEF Known
    <3> QED BY <1>1, <1>6, <1>7, <2>0, <2>2, <3>1, <3>2 DEF FollowedAt
  <2>3. CASE q # p /\ q # w
    <3>1. Known(r, q) <=> Known(t, q) BY <1>1, <1>2, <1>5, <1>6, <2>3 DEF Known
    <3>2. FollowedAt(t, S, F, q) BY <2>0 DEF Followed
    <3> QED BY <1>1, <1>2, <1>5, <1>6, <1>7, <2>3, <3>1, <3>2 DEF FollowedAt
  <2> QED BY <2>1, <2>2, <2>3
<1> HIDE DEF V
<1>9. Followed(r, S, G, V) BY <1>1, <1>8 DEF Followed
<1> QED BY <1>9 DEF r, G, V, p, w

\* A change by others or without a record, of paths that are set apart.
LEMMA UnseenFollowed ==
  ASSUME NEW t, NEW S, NEW F, NEW U, NEW G, NEW V, Followed(t, S, F, U), U \subseteq V,
         \A q : q \notin V => TextAt(G, q) = TextAt(F, q)
  PROVE  Followed(t, S, G, V)
BY DEF Followed, FollowedAt

-----------------------------------------------------------------------------
(* The diff of what is followed is what was done.                          *)

\* Of a path that nobody wrote unseen, a reader of the diff makes the text it has: the
\* path is the target of a rename, its origin, or neither (_turn_diff_unified_diff).
LEMMA DiffShows ==
  ASSUME NEW p, Followed(tracker, start, files, unseen), p \notin unseen \cup MovedUnchanged
  PROVE  Shown(p) = TextAt(files, p)
<1> DEFINE to == MovedTo(tracker)
           B == tracker.baseline
           C == tracker.current
           paths == (DOMAIN B \cup DOMAIN C) \ Range(to)
           right(q) == IF q \in DOMAIN to THEN to[q] ELSE q
           entry(q) == [left |-> q, old |-> TextAt(B, q), right |-> right(q), new |-> TextAt(C, right(q))]
           D == {e \in {entry(q) : q \in paths} : e.old # e.new}
           written == {e \in D : e.right = p /\ e.new # {}}
<1>1. Diff(tracker) = D BY DEF Diff
<1>2. Shown(p) = IF written # {} THEN UNION {e.new : e \in written}
                 ELSE IF \E e \in D : e.left = p THEN {} ELSE TextAt(start, p)
  BY <1>1 DEF Shown
<1>3. FollowedAt(tracker, start, files, p) BY DEF Followed
<1>4. \A o \in DOMAIN to : /\ o \in DOMAIN B /\ o \notin DOMAIN C
                            /\ to[o] \in DOMAIN C /\ to[o] \notin DOMAIN B
                            /\ tracker.origin[to[o]] = o
  <2> TAKE o \in DOMAIN to
  <2>1. \E q \in Moves(tracker) : tracker.origin[q] = o BY DEF MovedTo
  <2>2. to[o] = CHOOSE q \in Moves(tracker) : tracker.origin[q] = o BY DEF MovedTo
  <2>3. to[o] \in Moves(tracker) /\ tracker.origin[to[o]] = o BY <2>1, <2>2
  <2> QED BY <2>3 DEF Moves
<1>5. \A q \in DOMAIN to : B[q] = C[to[q]] => q \in MovedUnchanged /\ to[q] \in MovedUnchanged
  <2> TAKE q \in DOMAIN to
  <2> HAVE B[q] = C[to[q]]
  <2>1. {q, to[q]} \in {{o, to[o]} : o \in {r \in DOMAIN to : B[r] = C[to[r]]}} OBVIOUS
  <2> QED BY <2>1 DEF MovedUnchanged
<1>6. \A x : x \in Range(to) <=> \E o \in DOMAIN to : x = to[o] BY DEF Range
<1>7. \A e : e \in D <=> \E q \in paths : e = entry(q) /\ TextAt(B, q) # TextAt(C, right(q)) OBVIOUS
<1> HIDE DEF to, B, C, D, written
<1>8. CASE p \in Range(to)
  <2>1. PICK o \in DOMAIN to : p = to[o] BY <1>6, <1>8
  <2>2. o \in paths BY <1>4, <1>6, <2>1
  <2>3. right(o) = p /\ TextAt(B, o) = {B[o]} /\ TextAt(C, p) = {C[p]} BY <1>4, <2>1 DEF TextAt
  <2>4. B[o] # C[p] BY <1>5, <2>1
  <2>5. entry(o) \in D BY <1>7, <2>2, <2>3, <2>4
  <2>6. \A q \in paths : right(q) = p => q = o BY <1>4, <1>8, <2>1
  <2>7. \A e \in written : e = entry(o) BY <1>7, <2>6 DEF written
  <2>8. entry(o) \in written BY <2>3, <2>5 DEF written
  <2>9. written = {entry(o)} BY <2>7, <2>8
  <2>10. Shown(p) = TextAt(C, p) BY <1>2, <2>3, <2>9
  <2>11. Known(tracker, p) BY <1>4, <2>1 DEF Known, C
  <2> QED BY <1>3, <2>10, <2>11 DEF FollowedAt, C
<1>9. CASE p \notin Range(to) /\ p \in DOMAIN to
  <2>1. p \in paths /\ p \notin DOMAIN C BY <1>4, <1>9
  <2>2. right(p) # p BY <1>4, <1>9
  <2>3. \A q \in paths : right(q) # p BY <1>6, <1>9, <2>2
  <2>4. written = {} BY <1>7, <2>3 DEF written
  <2>5. B[p] # C[to[p]] BY <1>5, <1>9
  <2>6. TextAt(B, p) = {B[p]} /\ TextAt(C, right(p)) = {C[to[p]]} BY <1>4, <1>9 DEF TextAt
  <2>7. entry(p) \in D BY <1>7, <2>1, <2>5, <2>6
  <2>8. Shown(p) = {} BY <1>2, <2>4, <2>7
  <2>9. TextAt(C, p) = {} BY <2>1 DEF TextAt
  <2>10. Known(tracker, p) BY <1>4, <1>9 DEF Known, B
  <2> QED BY <1>3, <2>8, <2>9, <2>10 DEF FollowedAt, C
<1>10. CASE p \notin Range(to) /\ p \notin DOMAIN to
  <2>1. right(p) = p BY <1>10
  <2>2. \A q \in paths : right(q) = p => q = p BY <1>6, <1>10
  <2>3. \A e \in D : e.right = p \/ e.left = p => e = entry(p) /\ p \in paths BY <1>7, <2>2
  <2>4. CASE p \notin DOMAIN B \cup DOMAIN C
    <3>1. written = {} /\ ~\E e \in D : e.left = p BY <2>3, <2>4 DEF written
    <3>2. ~Known(tracker, p) BY <2>4 DEF Known, B, C
    <3> QED BY <1>2, <1>3, <3>1, <3>2 DEF FollowedAt
  <2>5. CASE p \in DOMAIN B \cup DOMAIN C
    <3>1. p \in paths /\ Known(tracker, p) BY <1>10, <2>5 DEF Known, B, C
    <3>2. TextAt(start, p) = TextAt(B, p) /\ TextAt(files, p) = TextAt(C, p)
      BY <1>3, <3>1 DEF FollowedAt, B, C
    <3>3. CASE TextAt(B, p) = TextAt(C, p)
      <4>1. entry(p) \notin D BY <1>7, <2>1, <3>3
      <4>2. written = {} /\ ~\E e \in D : e.left = p BY <2>3, <4>1 DEF written
      <4> QED BY <1>2, <3>2, <3>3, <4>2
    <3>4. CASE TextAt(B, p) # TextAt(C, p)
      <4>1. entry(p) \in D BY <1>7, <2>1, <3>1, <3>4
      <4>2. CASE TextAt(C, p) = {}
        <5>1. \A e \in written : e = entry(p) /\ e.new # {} BY <2>3 DEF written
        <5>2. written = {} BY <2>1, <4>2, <5>1
        <5> QED BY <1>2, <3>2, <4>1, <4>2, <5>2
      <4>3. CASE TextAt(C, p) # {}
        <5>1. written = {entry(p)} BY <2>1, <2>3, <4>1, <4>3 DEF written
        <5> QED BY <1>2, <2>1, <3>2, <5>1
      <4> QED BY <4>2, <4>3
    <3> QED BY <3>3, <3>4
  <2> QED BY <2>4, <2>5
<1> QED BY <1>8, <1>9, <1>10

\* And the text that the diff starts from is the one the turn began with.
LEMMA DiffBegins ==
  ASSUME Followed(tracker, start, files, unseen), NEW e \in Diff(tracker), e.left \notin unseen
  PROVE  e.old = TextAt(start, e.left)
<1>1. PICK p \in DOMAIN tracker.baseline \cup DOMAIN tracker.current :
        e.left = p /\ e.old = TextAt(tracker.baseline, p)
  BY DEF Diff
<1>2. Known(tracker, p) /\ FollowedAt(tracker, start, files, p) BY <1>1 DEF Known, Followed
<1> QED BY <1>1, <1>2 DEF FollowedAt

-----------------------------------------------------------------------------
(* The invariant.                                                          *)

\* What a change needs of the files, and what keeps changes out of each other's way.
CanBeMade(c) ==
  c.type # "add" =>
    /\ c.path \in DOMAIN files /\ Decodes(files[c.path])
    /\ c.type = "update" => Patched(files[c.path], c.chunks) # {}
Clear(changes) == Distinct(changes) /\ Touched(changes) \cap script.stuck = {}

\* The tracker follows the files, with what was applied and is not recorded yet.
TrackInv ==
  Followed(IF pc = "idle" THEN tracker ELSE FoldLeft(Track, tracker, affected), start, files, unseen)
\* The first changes of the patch are made, the others are left, and no path is touched
\* but those of the first.
Halfway ==
  /\ \A i \in DOMAIN queue : /\ i + Len(affected) \in DOMAIN read
                             /\ queue[i] = read[i + Len(affected)]
  /\ \A p : TextAt(files, p) # TextAt(before, p) =>
            \E j \in 1..Len(affected) : p \in Touched(<<read[j]>>)
\* Until the first change nothing is changed; from then on all that is left can be made,
\* but for what a file that is written over may be.
WholeInv ==
  /\ pc \in {"verify", "ask"} => queue = read /\ affected = <<>> /\ (quiet => files = before)
  /\ pc = "apply" /\ quiet /\ Clear(read) =>
       Clear(queue) /\ (\A i \in DOMAIN queue : CanBeMade(queue[i])) /\ Halfway
  /\ AllOrNothing
PatchesInv ==
  /\ WellFormed(script.patches) /\ IsSeq(queue) /\ IsSeq(affected) /\ IsSeq(read)
  /\ pc \in {"idle", "verify", "ask", "apply", "applied", "failed"}
  /\ TrackInv /\ WholeInv

\* The head and the tail of a sequence that is not empty.
LEMMA SeqTail ==
  ASSUME NEW x, IsSeq(x), x # <<>>
  PROVE  /\ IsSeq(Tail(x)) /\ Head(x) = x[1] /\ 1 \in DOMAIN x
         /\ \A i \in DOMAIN Tail(x) : i + 1 \in DOMAIN x /\ i \in Nat /\ Tail(x)[i] = x[i + 1]
         /\ Range(Tail(x)) \subseteq Range(x) /\ Head(x) \in Range(x)
<1>1. x \in Seq(Range(x)) BY DEF IsSeq
<1>2. /\ Tail(x) \in Seq(Range(x)) /\ Len(Tail(x)) = Len(x) - 1 /\ Head(x) = x[1]
      /\ \A i \in 1..Len(Tail(x)) : Tail(x)[i] = x[i + 1]
  BY <1>1, HeadTailProperties
<1>3. Len(x) \in Nat /\ Len(x) # 0 /\ DOMAIN x = 1..Len(x) BY <1>1, LenProperties, EmptySeq
<1>4. DOMAIN Tail(x) = 1..Len(Tail(x)) BY <1>2, LenProperties
<1>5. IsSeq(Tail(x)) BY <1>2, SeqIs
<1>6. \A i \in DOMAIN Tail(x) : i + 1 \in DOMAIN x /\ i \in Nat BY <1>2, <1>3, <1>4
<1>7. 1 \in DOMAIN x BY <1>3
<1> QED BY <1>2, <1>4, <1>5, <1>6, <1>7 DEF Range

\* The patches that are left are well formed.
LEMMA TailWellFormed ==
  ASSUME NEW ps, WellFormed(ps), ps # <<>>
  PROVE  /\ WellFormed(Tail(ps))
         /\ Head(ps).kind = "volley" => Head(ps).lines \in Seq(Range(Head(ps).lines))
<1>1. IsSeq(ps) BY DEF WellFormed, IsSeq
<1>2. IsSeq(Tail(ps)) /\ Range(Tail(ps)) \subseteq Range(ps) /\ Head(ps) \in Range(ps) BY <1>1, SeqTail
<1> QED BY <1>2 DEF WellFormed, IsSeq

\* The empty sequence is one.
LEMMA EmptyIsSeq == IsSeq(<<>>)
<1>1. <<>> \in Seq({}) BY EmptySeq
<1> QED BY <1>1, SeqIs

\* A tracker that knows nothing follows a turn in which nothing was done.
LEMMA UntrackedFollowed ==
  ASSUME NEW S
  PROVE  Followed(Untracked, S, S, {})
<1>1. DOMAIN <<>> = {} BY EmptySeq
<1> QED BY <1>1 DEF Followed, FollowedAt, Known, Untracked

\* A new session has done nothing.
LEMMA PatchesStart == PatchesInit => PatchesInv
<1> SUFFICES ASSUME PatchesInit PROVE PatchesInv OBVIOUS
<1> USE DEF PatchesInit
<1>1. WellFormed(script.patches) BY ScriptsAssumption
<1>2. IsSeq(queue) /\ IsSeq(affected) /\ IsSeq(read) BY EmptyIsSeq
<1>3. TrackInv BY UntrackedFollowed DEF TrackInv
<1>4. WholeInv BY DEF WholeInv, AllOrNothing
<1> QED BY <1>1, <1>2, <1>3, <1>4 DEF PatchesInv

\* The paths of one change.
LEMMA TouchedOne == ASSUME NEW c PROVE Touched(<<c>>) = {c.path} \cup Target(c)
<1>1. Range(<<c>>) = {c} BY DEF Range
<1> QED BY <1>1 DEF Touched

\* The next change is out of the way of those behind it.
LEMMA Onwards ==
  ASSUME NEW qs, IsSeq(qs), qs # <<>>, Clear(qs)
  PROVE  /\ Clear(Tail(qs))
         /\ \A i \in DOMAIN Tail(qs) : Tail(qs)[i].path \notin {Head(qs).path} \cup Target(Head(qs))
<1>1. /\ Head(qs) = qs[1] /\ 1 \in DOMAIN qs
      /\ \A i \in DOMAIN Tail(qs) : i + 1 \in DOMAIN qs /\ i \in Nat /\ Tail(qs)[i] = qs[i + 1]
      /\ Range(Tail(qs)) \subseteq Range(qs)
  BY SeqTail
<1>2. Touched(Tail(qs)) \subseteq Touched(qs) BY <1>1 DEF Touched
<1>3. /\ \A i \in DOMAIN qs : qs[i].path \notin Target(qs[i])
      /\ \A i, j \in DOMAIN qs : i # j => Touched(<<qs[i]>>) \cap Touched(<<qs[j]>>) = {}
  BY DEF Clear, Distinct
<1>4. Distinct(Tail(qs))
  <2>1. \A i \in DOMAIN Tail(qs) : Tail(qs)[i].path \notin Target(Tail(qs)[i]) BY <1>1, <1>3
  <2>2. ASSUME NEW i \in DOMAIN Tail(qs), NEW j \in DOMAIN Tail(qs), i # j
        PROVE  Touched(<<Tail(qs)[i]>>) \cap Touched(<<Tail(qs)[j]>>) = {}
    <3>1. i + 1 \in DOMAIN qs /\ j + 1 \in DOMAIN qs /\ i + 1 # j + 1 BY <1>1, <2>2
    <3>2. Touched(<<qs[i + 1]>>) \cap Touched(<<qs[j + 1]>>) = {} BY <1>3, <3>1
    <3> QED BY <1>1, <3>2
  <2> QED BY <2>1, <2>2 DEF Distinct
<1>5. \A c : Touched(<<c>>) = {c.path} \cup Target(c) BY TouchedOne
<1>6. ASSUME NEW i \in DOMAIN Tail(qs) PROVE Tail(qs)[i].path \notin {Head(qs).path} \cup Target(Head(qs))
  <2>1. i + 1 \in DOMAIN qs /\ i + 1 # 1 BY <1>1
  <2>2. Touched(<<qs[i + 1]>>) \cap Touched(<<qs[1]>>) = {} BY <1>1, <1>3, <2>1
  <2> QED BY <1>1, <1>5, <2>2
<1> QED BY <1>2, <1>4, <1>6 DEF Clear

\* The part of the invariant about whole patches, of a change that was made.
LEMMA ChangeMade ==
  ASSUME PatchesInv, Applying, UNCHANGED <<script, read, quiet, before>>, pc' = pc,
         NEW c, NEW texts, Did(c, texts),
         \A q : q \notin {Current.path} \cup Target(Current) => TextAt(texts, q) = TextAt(files, q)
  PROVE  WholeInv'
<1> DEFINE k == Len(affected)
<1>1. /\ pc = "apply" /\ pc' = "apply" /\ IsSeq(queue) /\ queue # <<>> /\ IsSeq(affected)
      /\ affected' = Append(affected, c) /\ queue' = Tail(queue) /\ files' = texts
  BY DEF Applying, PatchesInv, Did
<1>2. k \in Nat /\ Len(affected') = k + 1
  <2>1. affected \in Seq(Range(affected) \cup {c}) BY <1>1, SeqMonotonic DEF IsSeq
  <2> QED BY <1>1, <2>1, AppendProperties, LenProperties
<1>3. /\ Current = queue[1] /\ 1 \in DOMAIN queue
      /\ \A i \in DOMAIN Tail(queue) : i + 1 \in DOMAIN queue /\ i \in Nat /\ Tail(queue)[i] = queue[i + 1]
  BY <1>1, SeqTail DEF Current
<1> HIDE DEF k
<1>4. ASSUME quiet', Clear(read)'
      PROVE  (Clear(queue) /\ (\A i \in DOMAIN queue : CanBeMade(queue[i])) /\ Halfway)'
  <2>1. quiet /\ Clear(read) BY <1>4 DEF Clear
  <2>2. Clear(queue) /\ (\A i \in DOMAIN queue : CanBeMade(queue[i])) /\ Halfway
    BY <1>1, <2>1 DEF PatchesInv, WholeInv
  <2>3. /\ Clear(Tail(queue))
        /\ \A i \in DOMAIN Tail(queue) : Tail(queue)[i].path \notin {Current.path} \cup Target(Current)
    BY <1>1, <2>2, Onwards DEF Current
  <2>4. Clear(queue)' BY <1>1, <2>3 DEF Clear
  <2>5. ASSUME NEW i \in DOMAIN queue' PROVE CanBeMade(queue[i])'
    <3> DEFINE d == Tail(queue)[i]
    <3>1. CanBeMade(d) BY <1>1, <1>3, <2>2
    <3>2. TextAt(files', d.path) = TextAt(files, d.path) BY <1>1, <2>3
    <3>c. queue'[i] = d BY <1>1
    <3> HIDE DEF d
    <3>3. d.path \in DOMAIN files => d.path \in DOMAIN files' /\ files'[d.path] = files[d.path]
      BY <3>2 DEF TextAt
    <3>4. d.type # "add" =>
            /\ d.path \in DOMAIN files' /\ Decodes(files'[d.path])
            /\ d.type = "update" => Patched(files'[d.path], d.chunks) # {}
      BY <3>1, <3>3 DEF CanBeMade
    <3> QED BY <3>4, <3>c DEF CanBeMade
  <2>6. \A i \in DOMAIN queue : i + k \in DOMAIN read /\ queue[i] = read[i + k] BY <2>2 DEF Halfway, k
  <2>7. \A p : TextAt(files, p) # TextAt(before, p) => \E j \in 1..k : p \in Touched(<<read[j]>>)
    BY <2>2 DEF Halfway, k
  <2>8. ASSUME NEW i \in DOMAIN queue'
        PROVE  i + Len(affected') \in DOMAIN read /\ queue'[i] = read[i + Len(affected')]
    <3>1. i + 1 \in DOMAIN queue /\ i \in Nat /\ queue'[i] = queue[i + 1] BY <1>1, <1>3
    <3>2. (i + 1) + k \in DOMAIN read /\ queue[i + 1] = read[(i + 1) + k] BY <2>6, <3>1
    <3>3. (i + 1) + k = i + Len(affected') BY <1>2, <3>1
    <3> QED BY <3>1, <3>2, <3>3
  <2>9. ASSUME NEW p, TextAt(files', p) # TextAt(before, p)
        PROVE  \E j \in 1..Len(affected') : p \in Touched(<<read[j]>>)
    <3>1. CASE p \in {Current.path} \cup Target(Current)
      <4>1. 1 + k = k + 1 /\ k + 1 \in 1..Len(affected') BY <1>2
      <4>2. Current = read[k + 1] BY <1>3, <2>6, <4>1
      <4>3. p \in Touched(<<read[k + 1]>>) BY <3>1, <4>2, TouchedOne
      <4> QED BY <4>1, <4>3
    <3>2. CASE p \notin {Current.path} \cup Target(Current)
      <4>1. TextAt(files, p) # TextAt(before, p) BY <1>1, <2>9, <3>2
      <4>2. PICK j \in 1..k : p \in Touched(<<read[j]>>) BY <2>7, <4>1
      <4>3. j \in 1..Len(affected') BY <1>2
      <4> QED BY <4>2, <4>3
    <3> QED BY <3>1, <3>2
  <2>10. Halfway' BY <2>8, <2>9 DEF Halfway
  <2> QED BY <2>4, <2>5, <2>10
<1>5. AllOrNothing' BY <1>1 DEF AllOrNothing
<1> QED BY <1>1, <1>4, <1>5 DEF WholeInv

\* The other parts, of a change that was made and said so.
LEMMA ChangeTracked ==
  ASSUME PatchesInv, Applying, pc' = pc, UNCHANGED <<script, tracker, start>>, NEW c, NEW texts,
         Did(c, texts), Followed(Track(FoldLeft(Track, tracker, affected), c), start, texts, unseen')
  PROVE  /\ WellFormed(script'.patches) /\ IsSeq(queue') /\ IsSeq(affected') /\ TrackInv'
         /\ pc' \in {"idle", "verify", "ask", "apply", "applied", "failed"}
<1>1. /\ pc' # "idle" /\ IsSeq(queue) /\ IsSeq(affected) /\ queue # <<>> /\ WellFormed(script.patches)
      /\ pc \in {"idle", "verify", "ask", "apply", "applied", "failed"}
  BY DEF PatchesInv, Applying
<1>2. affected' = Append(affected, c) /\ files' = texts /\ queue' = Tail(queue) BY DEF Did
<1>3. affected \in Seq(Range(affected) \cup {c}) BY <1>1, SeqMonotonic DEF IsSeq
<1>4. FoldLeft(Track, tracker, affected') = Track(FoldLeft(Track, tracker, affected), c)
  <2>1. c \in Range(affected) \cup {c} OBVIOUS
  <2>2. FoldLeft(Track, tracker, Append(affected, c)) = Track(FoldLeft(Track, tracker, affected), c)
    BY <1>3, <2>1, TrackOneMore, Zenon
  <2> QED BY <1>2, <2>2, Zenon
<1>5. IsSeq(affected') /\ IsSeq(queue') BY <1>1, <1>2, SeqAppend, SeqTail
<1> QED BY <1>1, <1>2, <1>4, <1>5 DEF TrackInv

\* Its own part of a step that changes no file and applies nothing.
LEMMA NothingDone ==
  ASSUME PatchesInv, pc # "idle", pc' \in {"idle", "verify", "ask", "apply", "applied", "failed"} \ {"idle"},
         UNCHANGED <<script, files, tracker, queue, affected, start, unseen>>
  PROVE  /\ WellFormed(script'.patches) /\ IsSeq(queue') /\ IsSeq(affected') /\ TrackInv'
         /\ pc' \in {"idle", "verify", "ask", "apply", "applied", "failed"}
BY DEF PatchesInv, TrackInv

\* A new patch has applied nothing yet (apply_patch).
LEMMA CallKeeps ==
  ASSUME PatchesInv, Call
  PROVE  PatchesInv'
<1> DEFINE p == Head(script.patches)
<1>1. /\ pc = "idle" /\ script.patches # <<>> /\ script' = [script EXCEPT !.patches = Tail(@)]
      /\ before' = files /\ quiet' /\ p.kind = "volley" /\ affected' = <<>> /\ read' = queue'
      /\ UNCHANGED <<files, tracker, start, unseen>>
      /\ \/ queue' = <<>> /\ pc' = "failed"
         \/ queue' \in Parse(p.lines) /\ pc' = "verify"
  BY DEF Call, Result
<1>2. WellFormed(Tail(script.patches)) /\ p.lines \in Seq(Range(p.lines))
  BY <1>1, TailWellFormed DEF PatchesInv
<1>3. IsSeq(queue') /\ IsSeq(affected') BY <1>1, <1>2, ParsedIsSeq, EmptyIsSeq
<1>4. TrackInv'
  <2>1. pc' # "idle" BY <1>1
  <2>2. FoldLeft(Track, tracker, <<>>) = tracker BY TrackNone
  <2>3. Followed(tracker, start, files, unseen) BY <1>1 DEF PatchesInv, TrackInv
  <2> QED BY <1>1, <2>1, <2>2, <2>3 DEF TrackInv
<1>5. WholeInv' BY <1>1 DEF WholeInv, AllOrNothing
<1>6. WellFormed(script'.patches)
  <2>1. script'.patches = Tail(script.patches) \/ script'.patches = script.patches BY <1>1
  <2> QED BY <1>2, <2>1 DEF PatchesInv
<1> QED BY <1>1, <1>3, <1>4, <1>5, <1>6 DEF PatchesInv

\* A patch that passes the check passes it with every change (_verify_volley_patch_changes).
LEMMA Verdicts ==
  ASSUME IsSeq(queue)
  PROVE  /\ Verdict \in {"ok", "error", "escape"}
         /\ Verdict = "ok" => \A i \in DOMAIN queue : Verified(queue[i]) = "ok"
<1> DEFINE bad == {i \in DOMAIN queue : Verified(queue[i]) # "ok"}
<1>1. \A c : Verified(c) \in {"ok", "error", "escape"} BY DEF Verified
<1>2. CASE bad = {} BY <1>2 DEF Verdict
<1>3. CASE bad # {}
  <2>1. bad \subseteq Nat BY LenProperties DEF IsSeq
  <2>2. \E x \in bad : \A y \in bad : x <= y
    <3> HIDE DEF bad
    <3> QED BY <1>3, <2>1, LeastNumber
  <2>3. Min(bad) \in bad BY <2>2 DEF Min
  <2>4. Verified(queue[Min(bad)]) \in {"error", "escape"} BY <1>1, <2>3
  <2>5. Verdict = "error" \/ Verdict = Verified(queue[Min(bad)]) BY <1>3 DEF Verdict
  <2> QED BY <2>4, <2>5
<1> QED BY <1>2, <1>3

\* A patch that is checked has changed nothing; when it passes, each change can be made
\* of the files as they are.
LEMMA VerifyKeeps ==
  ASSUME PatchesInv, Verify
  PROVE  PatchesInv'
<1>1. /\ pc = "verify" /\ pc' \in {"apply", "failed", "ask"}
      /\ UNCHANGED <<script, files, tracker, queue, affected, read, before, quiet, start, unseen>>
      /\ pc' = "apply" => Verdict = "ok"
  BY Verdicts DEF Verify, Result, PatchesInv, patch, history
<1>2. queue = read /\ affected = <<>> /\ (quiet => files = before) BY <1>1 DEF PatchesInv, WholeInv
<1>3. ASSUME pc' = "apply", NEW i \in DOMAIN queue PROVE CanBeMade(queue[i])
  <2>1. Verified(queue[i]) = "ok" BY <1>1, <1>3, Verdicts DEF PatchesInv
  <2> QED BY <2>1 DEF Verified, CanBeMade
<1>4. pc' = "apply" /\ quiet => Halfway
  <2>1. Len(affected) = 0 /\ (quiet => files = before) BY <1>2, EmptySeq
  <2>2. \A i \in DOMAIN queue : i \in Nat BY LenProperties DEF PatchesInv, IsSeq
  <2> QED BY <1>2, <2>1, <2>2 DEF Halfway
<1>5. (pc = "apply" /\ quiet /\ Clear(read) =>
         Clear(queue) /\ (\A i \in DOMAIN queue : CanBeMade(queue[i])) /\ Halfway)'
  <2> SUFFICES ASSUME pc' = "apply", quiet', Clear(read)'
               PROVE  (Clear(queue) /\ (\A i \in DOMAIN queue : CanBeMade(queue[i])) /\ Halfway)'
    OBVIOUS
  <2>1. quiet /\ Clear(read) /\ Clear(queue) BY <1>1, <1>2 DEF Clear
  <2>2. Halfway' BY <1>1, <1>4, <2>1 DEF Halfway
  <2>3. Clear(queue)' BY <1>1, <2>1 DEF Clear
  <2>4. (\A i \in DOMAIN queue : CanBeMade(queue[i]))' BY <1>1, <1>3 DEF CanBeMade
  <2> QED BY <2>2, <2>3, <2>4
<1>6. WholeInv' BY <1>1, <1>2, <1>5 DEF WholeInv, AllOrNothing
<1> QED BY <1>1, <1>6, NothingDone DEF PatchesInv

\* Asking changes no file: a patch that is denied has changed nothing.
LEMMA AskApprovalKeeps ==
  ASSUME PatchesInv, AskApproval
  PROVE  PatchesInv'
<1>1. /\ pc = "ask" /\ pc' \in {"verify", "failed"}
      /\ UNCHANGED <<script, files, tracker, queue, affected, read, before, quiet, start, unseen>>
  BY DEF AskApproval, Result, history
<1>2. WholeInv' BY <1>1 DEF PatchesInv, WholeInv, AllOrNothing
<1> QED BY <1>1, <1>2, NothingDone DEF PatchesInv

\* While a patch is applied, what it has applied so far is followed.
LEMMA Tracking ==
  ASSUME PatchesInv, Applying
  PROVE  Followed(FoldLeft(Track, tracker, affected), start, files, unseen)
BY DEF PatchesInv, TrackInv, Applying

\* How a change is tracked depends on its type.
LEMMA TrackKinds ==
  ASSUME NEW t, NEW c
  PROVE  /\ c.type = "add" => Track(t, c) = TrackAdd(t, c)
         /\ c.type = "delete" => Track(t, c) = TrackDelete(t, c)
         /\ c.type = "update" => Track(t, c) = TrackUpdate(t, c)
         /\ c.type = "move" => Track(t, c) = TrackMove(t, c)
BY DEF Track

\* A file that is added says what it replaced.
LEMMA AddFileKeeps ==
  ASSUME PatchesInv, AddFile
  PROVE  PatchesInv'
<1> DEFINE p == Current.path
           text == IF Current.content = <<>> THEN <<Blank>> ELSE Current.content
           c == [type |-> "add", path |-> p, over |-> TextAt(files, p), new |-> text]
<1>1. /\ Applying /\ Did(c, Put(files, p, text)) /\ pc' = pc
      /\ UNCHANGED <<script, tracker, read, quiet, before, start, unseen>>
  BY DEF AddFile, history
<1>2. c.type = "add" /\ c.path = p /\ c.over = TextAt(files, p) /\ c.new = text OBVIOUS
<1>3. \A q : q # p => TextAt(Put(files, p, text), q) = TextAt(files, q) BY DEF Put, TextAt
<1> HIDE DEF p, text, c
<1>4. Followed(Track(FoldLeft(Track, tracker, affected), c), start, Put(files, p, text), unseen')
  BY <1>1, <1>2, Tracking, AddFollowed, TrackKinds
<1>5. WholeInv' BY <1>1, <1>3, ChangeMade DEF p
<1> QED BY <1>1, <1>4, <1>5, ChangeTracked DEF PatchesInv

\* A file that is deleted says what it was.
LEMMA DeleteFileKeeps ==
  ASSUME PatchesInv, DeleteFile
  PROVE  PatchesInv'
<1> DEFINE p == Current.path
           c == [type |-> "delete", path |-> p, old |-> files[p]]
<1>1. /\ Applying /\ Did(c, Without(files, p)) /\ pc' = pc /\ p \in DOMAIN files
      /\ UNCHANGED <<script, tracker, read, quiet, before, start, unseen>>
  BY DEF DeleteFile, MayDelete, history
<1>2. c.type = "delete" /\ c.path = p /\ c.old = files[p] OBVIOUS
<1>3. \A q : q # p => TextAt(Without(files, p), q) = TextAt(files, q) BY DEF Without, Restrict, TextAt
<1> HIDE DEF p, c
<1>4. Followed(Track(FoldLeft(Track, tracker, affected), c), start, Without(files, p), unseen')
  BY <1>1, <1>2, Tracking, DeleteFollowed, TrackKinds
<1>5. WholeInv' BY <1>1, <1>3, ChangeMade DEF p
<1> QED BY <1>1, <1>4, <1>5, ChangeTracked DEF PatchesInv

\* A file that is updated says what it was and what it is.
LEMMA UpdateFileKeeps ==
  ASSUME PatchesInv, UpdateFile
  PROVE  PatchesInv'
<1> DEFINE p == Current.path
           c(text) == [type |-> "update", path |-> p, old |-> files[p], new |-> text]
<1>1. PICK text \in NewTexts(Current) : Did(c(text), Put(files, p, text)) BY DEF UpdateFile
<1>2. /\ Applying /\ pc' = pc /\ p \in DOMAIN files
      /\ UNCHANGED <<script, tracker, read, quiet, before, start, unseen>>
  BY <1>1 DEF UpdateFile, history, NewTexts
<1>3. c(text).type = "update" /\ c(text).path = p /\ c(text).old = files[p] /\ c(text).new = text
  OBVIOUS
<1>4. \A q : q # p => TextAt(Put(files, p, text), q) = TextAt(files, q) BY DEF Put, TextAt
<1> HIDE DEF p, c
<1>5. Followed(Track(FoldLeft(Track, tracker, affected), c(text)), start, Put(files, p, text), unseen')
  BY <1>2, <1>3, Tracking, UpdateFollowed, TrackKinds
<1>6. WholeInv' BY <1>1, <1>2, <1>4, ChangeMade DEF p
<1> QED BY <1>1, <1>2, <1>5, <1>6, ChangeTracked DEF PatchesInv

\* A file that is moved says that of both paths.
LEMMA MoveFileKeeps ==
  ASSUME PatchesInv, MoveFile
  PROVE  PatchesInv'
<1> DEFINE p == Current.path
           c(text, to) == [type |-> "move", path |-> p, to |-> to, over |-> TextAt(files, to),
                           old |-> files[p], new |-> text]
           G(text, to) == Without(Put(files, to, text), p)
<1>1. PICK text \in NewTexts(Current), to \in Current.to :
        /\ Did(c(text, to), G(text, to))
        /\ unseen' = IF to = p THEN unseen \cup {to} ELSE unseen
  BY DEF MoveFile
<1>2. /\ Applying /\ pc' = pc /\ p \in DOMAIN files /\ to \in Target(Current)
      /\ UNCHANGED <<script, tracker, read, quiet, before, start>>
  BY <1>1 DEF MoveFile, history, NewTexts, Target
<1>3. /\ c(text, to).type = "move" /\ c(text, to).path = p /\ c(text, to).to = to
      /\ c(text, to).over = TextAt(files, to) /\ c(text, to).old = files[p] /\ c(text, to).new = text
  OBVIOUS
<1>4. \A q : q # p /\ q # to => TextAt(G(text, to), q) = TextAt(files, q)
  BY DEF Put, Without, Restrict, TextAt
<1> DEFINE t == FoldLeft(Track, tracker, affected)
<1>5. Followed(t, start, files, unseen) BY <1>2, Tracking
<1>6. Followed(TrackMove(t, c(text, to)), start, G(text, to), unseen')
  <2> HIDE DEF t, c
  <2>1. Followed(TrackMove(t, c(text, to)), start,
                 Without(Put(files, c(text, to).to, c(text, to).new), c(text, to).path),
                 IF c(text, to).to = c(text, to).path THEN unseen \cup {c(text, to).to} ELSE unseen)
    BY <1>2, <1>3, <1>5, MoveFollowed
  <2> QED BY <1>1, <1>3, <2>1
<1>7. Track(t, c(text, to)) = TrackMove(t, c(text, to)) BY <1>3, TrackKinds
<1> HIDE DEF p, c, G, t
<1>8. Followed(Track(FoldLeft(Track, tracker, affected), c(text, to)), start, G(text, to), unseen')
  BY <1>6, <1>7 DEF t
<1>9. WholeInv' BY <1>1, <1>2, <1>4, ChangeMade DEF p
<1> QED BY <1>1, <1>2, <1>8, <1>9, ChangeTracked DEF PatchesInv

\* A change that can no longer be made is the work of others or of a directory, or it
\* would write over a file that was not UTF-8 before, and has done nothing.
LEMMA Stopped ==
  ASSUME PatchesInv, Applying, Broken, quiet, Clear(read)
  PROVE  /\ ~HalfMoved /\ Halfway /\ Len(affected) \in Nat
         /\ 1 + Len(affected) \in DOMAIN read /\ OverGarbled(read[1 + Len(affected)])
<1> DEFINE over == IF Current.type = "add" THEN {Current.path} ELSE Target(Current)
           k == Len(affected)
<1>1. Clear(queue) /\ (\A i \in DOMAIN queue : CanBeMade(queue[i])) /\ Halfway
  BY DEF PatchesInv, WholeInv, Applying
<1>2. IsSeq(queue) /\ queue # <<>> /\ k \in Nat BY LenProperties DEF PatchesInv, Applying, IsSeq
<1>3. Current = queue[1] /\ 1 \in DOMAIN queue /\ Current \in Range(queue) BY <1>2, SeqTail DEF Current
<1>4. CanBeMade(Current) BY <1>1, <1>3
<1>5. ({Current.path} \cup Target(Current)) \cap script.stuck = {}
  <2>1. {Current.path} \cup Target(Current) \subseteq Touched(queue) BY <1>3 DEF Touched
  <2> QED BY <1>1, <2>1 DEF Clear
<1>6. Current.type = "delete" => MayDelete(Current.path) BY <1>4, <1>5 DEF CanBeMade, MayDelete
<1>7. Current.type = "update" => NewTexts(Current) # {} /\ Current.path \notin script.stuck
  BY <1>4, <1>5 DEF CanBeMade, NewTexts
<1>8. \A p \in over : MayHold(p) BY <1>5 DEF MayHold, Target
<1>9. /\ Current.type \in {"add", "update"} /\ \E p \in over : ~MayWrite(p)
      /\ Current.type = "update" => over = Current.to
  BY <1>6, <1>7 DEF Broken, Target
<1> HIDE DEF over
<1>10. PICK p \in over : ~MayWrite(p) BY <1>9
<1>11. PICK text \in TextAt(files, p) : ~Decodes(text) BY <1>8, <1>10 DEF MayWrite
<1>12. 1 + k \in DOMAIN read /\ Current = read[1 + k] BY <1>1, <1>3 DEF Halfway
<1>13. TextAt(files, p) = TextAt(before, p)
  <2> SUFFICES ASSUME TextAt(files, p) # TextAt(before, p) PROVE FALSE OBVIOUS
  <2>1. PICK j \in 1..k : p \in Touched(<<read[j]>>) BY <1>1 DEF Halfway
  <2>2. j # 1 + k /\ j \in 1..(1 + k) BY <1>2
  <2>3. DOMAIN read = 1..Len(read) /\ Len(read) \in Nat BY LenProperties DEF PatchesInv, IsSeq
  <2>4. j \in DOMAIN read BY <1>2, <1>12, <2>2, <2>3
  <2>5. Touched(<<read[j]>>) \cap Touched(<<read[1 + k]>>) = {} BY <1>12, <2>2, <2>4 DEF Clear, Distinct
  <2>6. p \in Touched(<<Current>>) BY TouchedOne DEF over
  <2> QED BY <1>12, <2>1, <2>5, <2>6
<1>14. OverGarbled(Current) BY <1>11, <1>13 DEF OverGarbled, over
<1>15. ~HalfMoved BY <1>9, <1>10 DEF HalfMoved
<1> QED BY <1>1, <1>2, <1>12, <1>14, <1>15

\* A change that fails may have written the target of a move, with no record; when nobody
\* else writes it has written nothing.
LEMMA ChangeFailsKeeps ==
  ASSUME PatchesInv, ChangeFails
  PROVE  PatchesInv'
<1>1. /\ Applying /\ Broken /\ pc' = "failed"
      /\ UNCHANGED <<script, tracker, queue, affected, read, quiet, before, start>>
  BY DEF ChangeFails, Result, patch, history
<1>2. unseen \subseteq unseen' /\ \A q : q \notin unseen' => TextAt(files', q) = TextAt(files, q)
  <2>1. CASE UNCHANGED <<files, unseen>> BY <2>1
  <2>2. CASE \E text \in NewTexts(Current), to \in Current.to :
               files' = Put(files, to, text) /\ unseen' = unseen \cup {to}
    <3>1. PICK text, to : files' = Put(files, to, text) /\ unseen' = unseen \cup {to} BY <2>2
    <3>2. \A q : q # to => TextAt(Put(files, to, text), q) = TextAt(files, q) BY DEF Put, TextAt
    <3> QED BY <3>1, <3>2
  <2> QED BY <2>1, <2>2 DEF ChangeFails
<1>3. TrackInv'
  <2>1. Followed(FoldLeft(Track, tracker, affected), start, files', unseen')
    BY <1>1, <1>2, Tracking, UnseenFollowed
  <2> QED BY <1>1, <2>1 DEF TrackInv
<1>4. AllOrNothing'
  <2> DEFINE k == Len(affected)
  <2> SUFFICES ASSUME quiet, Clear(read)
               PROVE  \E i \in DOMAIN read :
                        /\ OverGarbled(read[i]) /\ k = i - 1
                        /\ \A p \in DOMAIN before \cup DOMAIN files' :
                             TextAt(files', p) # TextAt(before, p) => \E j \in 1..(i - 1) : p \in Touched(<<read[j]>>)
    BY <1>1 DEF AllOrNothing, Clear, OverGarbled
  <2>1. ~HalfMoved /\ Halfway /\ k \in Nat /\ 1 + k \in DOMAIN read /\ OverGarbled(read[1 + k])
    BY <1>1, Stopped
  <2>2. files' = files BY <2>1 DEF ChangeFails
  <2>3. \A p : TextAt(files, p) # TextAt(before, p) => \E j \in 1..k : p \in Touched(<<read[j]>>)
    BY <2>1 DEF Halfway
  <2>4. (1 + k) - 1 = k BY <2>1
  <2> HIDE DEF k
  <2> QED BY <2>1, <2>2, <2>3, <2>4
<1>5. WholeInv' BY <1>1, <1>4 DEF WholeInv
<1> QED BY <1>1, <1>3, <1>5 DEF PatchesInv

\* The end of a patch changes no file.
LEMMA AllDoneKeeps ==
  ASSUME PatchesInv, AllDone
  PROVE  PatchesInv'
<1>1. /\ pc = "apply" /\ pc' = "applied"
      /\ UNCHANGED <<script, files, tracker, queue, affected, read, before, quiet, start, unseen>>
  BY DEF AllDone, Result, patch, history
<1>2. WholeInv' BY <1>1 DEF WholeInv, AllOrNothing
<1> QED BY <1>1, <1>2, NothingDone DEF PatchesInv

\* What was applied is recorded, of a patch that failed too (_record_tool_result).
LEMMA RecordKeeps ==
  ASSUME PatchesInv, Record
  PROVE  PatchesInv'
<1>1. /\ pc \in {"applied", "failed"} /\ pc' = "idle" /\ tracker' = FoldLeft(Track, tracker, affected)
      /\ UNCHANGED <<script, files, queue, affected, read, start, unseen>>
  BY DEF Record, patch, history
<1>2. TrackInv' BY <1>1 DEF PatchesInv, TrackInv
<1>3. WholeInv' BY <1>1 DEF WholeInv, AllOrNothing
<1> QED BY <1>1, <1>2, <1>3 DEF PatchesInv

\* A patch in another format writes with no record: its paths are set apart.
LEMMA DiffPatchKeeps ==
  ASSUME PatchesInv, DiffPatch
  PROVE  PatchesInv'
<1>1. /\ pc = "idle" /\ pc' = "idle" /\ script.patches # <<>>
      /\ script' = [script EXCEPT !.patches = Tail(@)]
      /\ UNCHANGED <<tracker, queue, affected, read, start>>
  BY DEF DiffPatch, patch, history
<1>2. unseen \subseteq unseen' /\ \A q : q \notin unseen' => TextAt(files', q) = TextAt(files, q)
  <2>1. CASE UNCHANGED <<files, unseen>> BY <2>1
  <2>2. CASE \E F, text : /\ files' = [q \in DOMAIN files \cup F |-> IF q \in F THEN text ELSE files[q]]
                          /\ unseen' = unseen \cup F
    <3>1. PICK F, text : /\ files' = [q \in DOMAIN files \cup F |-> IF q \in F THEN text ELSE files[q]]
                         /\ unseen' = unseen \cup F
      BY <2>2
    <3>2. \A q : q \notin F => TextAt(files', q) = TextAt(files, q) BY <3>1 DEF TextAt
    <3> QED BY <3>1, <3>2
  <2> QED BY <2>1, <2>2 DEF DiffPatch
<1>3. TrackInv'
  <2>1. Followed(tracker, start, files, unseen) BY <1>1 DEF PatchesInv, TrackInv
  <2>2. Followed(tracker, start, files', unseen') BY <1>2, <2>1, UnseenFollowed
  <2> QED BY <1>1, <2>2 DEF TrackInv
<1>4. WellFormed(script'.patches)
  <2>1. script'.patches = Tail(script.patches) \/ script'.patches = script.patches BY <1>1
  <2> QED BY <1>1, <2>1, TailWellFormed DEF PatchesInv
<1>5. WholeInv' BY <1>1 DEF WholeInv, AllOrNothing
<1> QED BY <1>1, <1>3, <1>4, <1>5 DEF PatchesInv

\* A turn starts with a tracker that knows nothing (start_turn).
LEMMA StartTurnKeeps ==
  ASSUME PatchesInv, StartTurn
  PROVE  PatchesInv'
<1>1. /\ pc = "idle" /\ pc' = "idle" /\ tracker' = Untracked /\ start' = files /\ unseen' = {}
      /\ UNCHANGED <<script, files, queue, affected, read>>
  BY DEF StartTurn, patch
<1>2. TrackInv' BY <1>1, UntrackedFollowed DEF TrackInv
<1>3. WholeInv' BY <1>1 DEF WholeInv, AllOrNothing
<1> QED BY <1>1, <1>2, <1>3 DEF PatchesInv

\* What others write is set apart, and nothing is promised of the patch at hand.
LEMMA OthersKeep ==
  ASSUME PatchesInv, Others
  PROVE  PatchesInv'
<1>1. /\ ~quiet' /\ pc' = pc /\ UNCHANGED <<script, tracker, queue, affected, read, before, start>>
  BY DEF Others, patch
<1>2. unseen \subseteq unseen' /\ \A q : q \notin unseen' => TextAt(files', q) = TextAt(files, q)
  <2>1. PICK w \in Foreign :
          /\ files' = IF w.text = {} THEN Restrict(files, DOMAIN files \ {w.path})
                      ELSE Put(files, w.path, CHOOSE text \in w.text : TRUE)
          /\ unseen' = unseen \cup {w.path}
    BY DEF Others
  <2>2. \A q : q # w.path => TextAt(files', q) = TextAt(files, q) BY <2>1 DEF Put, Restrict, TextAt
  <2> QED BY <2>1, <2>2
<1>3. TrackInv'
  <2> DEFINE t == IF pc = "idle" THEN tracker ELSE FoldLeft(Track, tracker, affected)
  <2>1. Followed(t, start, files, unseen) BY DEF PatchesInv, TrackInv
  <2>2. t' = t BY <1>1
  <2> HIDE DEF t
  <2>3. Followed(t, start, files', unseen') BY <1>2, <2>1, UnseenFollowed
  <2> QED BY <1>1, <2>2, <2>3 DEF TrackInv, t
<1>4. WholeInv' BY <1>1 DEF PatchesInv, WholeInv, AllOrNothing
<1> QED BY <1>1, <1>3, <1>4 DEF PatchesInv

\* Every step keeps the invariant.
LEMMA PatchesGoOn == PatchesInv /\ [PatchesNext]_patchesVars => PatchesInv'
<1> SUFFICES ASSUME PatchesInv, [PatchesNext]_patchesVars PROVE PatchesInv' OBVIOUS
<1>1. CASE UNCHANGED patchesVars
  <2>1. UNCHANGED <<script, files, tracker, pc, queue, affected, read, before, quiet, start, unseen>>
    BY <1>1 DEF patchesVars, patch, history
  <2>2. TrackInv' BY <2>1 DEF PatchesInv, TrackInv
  <2>3. WholeInv' BY <2>1 DEF PatchesInv, WholeInv, AllOrNothing, OverGarbled, Clear, CanBeMade, Halfway
  <2> QED BY <2>1, <2>2, <2>3 DEF PatchesInv
<1>2. CASE PatchesNext
  BY <1>2, CallKeeps, VerifyKeeps, AskApprovalKeeps, AddFileKeeps, DeleteFileKeeps, UpdateFileKeeps,
     MoveFileKeeps, ChangeFailsKeeps, AllDoneKeeps, RecordKeeps, DiffPatchKeeps, StartTurnKeeps, OthersKeep
  DEF PatchesNext
<1> QED BY <1>1, <1>2

\* So it always holds.
LEMMA PatchesInvHolds == PatchesSpec => []PatchesInv
BY PatchesStart, PatchesGoOn, PTL DEF PatchesSpec

\* Between calls the diff of the turn, read on the files it began with, gives the files
\* as they are, of each path that only this session's patches wrote: what is recorded is
\* followed, also of patches that stopped halfway, and the diff says what is followed
\* (record_apply_patch_turn_diff, src/volley/state.py).
THEOREM DiffIsNet == PatchesSpec => []TurnDiffIsNet
<1>1. PatchesInv => TurnDiffIsNet
  <2> SUFFICES ASSUME PatchesInv, pc = "idle" PROVE
        /\ \A p \in DOMAIN start \cup DOMAIN files \cup DOMAIN tracker.baseline \cup DOMAIN tracker.current :
             p \notin unseen \cup MovedUnchanged => Shown(p) = TextAt(files, p)
        /\ \A e \in Diff(tracker) : e.left \notin unseen => e.old = TextAt(start, e.left)
    BY DEF TurnDiffIsNet
  <2>1. Followed(tracker, start, files, unseen) BY DEF PatchesInv, TrackInv
  <2> QED BY <2>1, DiffShows, DiffBegins
<1> QED BY <1>1, PatchesInvHolds, PTL

\* A patch that is refused has changed nothing, if nobody else writes meanwhile, its
\* changes name different paths, and no directory refuses: a change that was found
\* possible in the check is still possible when its turn comes.  Only a change that would
\* write over a file that is not UTF-8 stops a patch halfway: it has then made the changes
\* before that one, no other, and recorded them
\* (_apply_volley_patch_changes_with_approval, src/volley/tools.py).
THEOREM PatchesWhole == PatchesSpec => []AllOrNothing
<1>1. PatchesInv => AllOrNothing BY DEF PatchesInv, WholeInv
<1> QED BY <1>1, PatchesInvHolds, PTL

=============================================================================
