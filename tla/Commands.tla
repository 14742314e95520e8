------------------------------ MODULE Commands ------------------------------
(***************************************************************************)
(* The commands of one session (ToolRuntime and RunningCommand in          *)
(* src/volley/tools.py, dispatched by src/volley/core.py): the turn's      *)
(* thread starts tool calls, alone or in parallel batches; each call asks  *)
(* for approval, starts a process, waits and takes its output; readers     *)
(* fill the buffers; /stop and the worker's shutdown interrupt what runs,  *)
(* from a thread of their own.                                             *)
(*                                                                         *)
(* A step is a block under _session_lock or a RunningCommand's lock, or    *)
(* what a thread does between two of them.  A wait may end at any moment: the   *)
(* interrupt event only shortens it.  A process has one output stream,     *)
(* whose bytes are numbered as they are written.                           *)
(***************************************************************************)
EXTENDS Approvals, Texts, Functions

CONSTANTS
  Calls,          \* the calls the model makes, one use each
  CmdOf,          \* the command each of them names
  Together,       \* the calls of one response that may run in one batch
  Ttys,           \* the calls that ask for a terminal
  Escalable,      \* the calls that may ask for require_escalated
  Settings,       \* policy and sandbox of the session, the tools that each call
                  \* may use, the characters of what the processes write, as sets
                  \* of bytes (a byte in none is not UTF-8), and bounds: bytes
                  \* each process writes, processes that may leave a child
                  \* behind, uses of /stop
  Hooks,          \* what the permission hook may answer
  Providers,      \* what the provider may answer
  MaxProcs,       \* bound: processes started
  ReadBytes,      \* what os.read takes at most (4096)
  BufferBytes,    \* UNIFIED_EXEC_OUTPUT_MAX_BYTES
  MaxSessions,    \* MAX_UNIFIED_EXEC_PROCESSES
  Protected       \* the most recent sessions that are not pruned (8)

\* A table with room for more sessions than are protected; the thread of /stop is
\* none of the calls
ASSUME BoundsAssumption ==
  /\ {MaxProcs, BufferBytes, MaxSessions, Protected} \subseteq Nat
  /\ Protected < MaxSessions /\ ReadBytes \in Nat \ {0}
  /\ "stop" \notin Calls

ASSUME CallsAssumption ==
  /\ Together \cup Ttys \cup Escalable \subseteq Calls
  /\ \A s \in Settings :
       /\ s.policy \in Policies /\ s.sandbox \in Sandboxes
       /\ s.tools \in [Calls -> SUBSET {"exec_command", "shell_command", "write_stdin"}]
       /\ s.bytes \in Seq(Nat) /\ s.parents \subseteq 1..MaxProcs /\ s.stops \in Nat
       /\ s.chars \subseteq SUBSET (Nat \ {0})
       /\ \A one, two \in s.chars : one \cap two # {} => one = two
  /\ Hooks \cup Providers \subseteq Decisions

Procs == 1..MaxProcs
Stopper == "stop"
Threads == Calls \cup {Stopper}
Cmds == {CmdOf[c] : c \in Calls}

VARIABLES
  cfg,         \* config
  stops,       \* uses of /stop so far
  call,        \* the calls' threads
  cache,       \* _approval_cache
  active,      \* _active_commands
  sessions,    \* _sessions; a process has the session of its own number
  later,       \* last_used, as an order: the processes used later than each
  proc,        \* the processes
  victims,     \* what each thread has still to interrupt
  reader,      \* the readers
  fresh,       \* the output not yet taken, of each RunningCommand
  granted,     \* history: the requests granted, to a call and for the session
  delivered,   \* history: the output taken, of each RunningCommand
  ends,        \* history: the last byte of each read, of each process
  dropped      \* history: the bytes a full buffer let go

outVars == <<reader, fresh, delivered, ends, dropped>>
table == <<active, sessions, later>>
gate == <<cache, granted>>
vars == <<cfg, stops, call, gate, table, proc, victims, outVars>>

-----------------------------------------------------------------------------
Idle == [pc |-> "new", tool |-> "none", req |-> "none", proc |-> 0, bypass |-> FALSE, more |-> FALSE]
Unborn == [status |-> "none", wrote |-> 0, pipe |-> <<>>, open |-> FALSE, child |-> FALSE,
           doomed |-> FALSE, bypass |-> FALSE, by |-> 0, tool |-> "none", req |-> "none"]

Started == {p \in Procs : proc[p].status # "none"}
Running(p) == proc[p].status = "running"
InFlight == {c \in Calls : call[c].pc \notin {"new", "done"}}
Owner(p) == call[proc[p].by]
Tty(p) == proc[p].by \in Ttys

\* Somebody can still write to the stream: the process, or a child it left behind
HasWriter(p) == Running(p) \/ proc[p].child

Init ==
  /\ cfg \in Settings
  /\ stops = 0
  /\ call = [c \in Calls |-> Idle]
  /\ cache = {} /\ granted = {}
  /\ active = {} /\ sessions = {} /\ later = [p \in Procs |-> {}]
  /\ proc = [p \in Procs |-> Unborn]
  /\ victims = [t \in Threads |-> <<>>]
  /\ reader = [p \in Procs |-> "gone"]
  /\ fresh = [p \in Procs |-> NoText]
  /\ delivered = [p \in Procs |-> <<>>]
  /\ ends = [p \in Procs |-> {0}]
  /\ dropped = {}

-----------------------------------------------------------------------------
\* The turn's thread

\* _dispatch_tool_calls: calls of parallel tools in one batch, any other alone.
\* Then the call's own checks: what it has to ask before it may start
FirstStep(tool, escalated) ==
  LET New == [Idle EXCEPT !.tool = tool] IN
  IF tool = "write_stdin" THEN [New EXCEPT !.pc = "get"]
  ELSE IF escalated
  THEN IF EscalationRefused(cfg) THEN [New EXCEPT !.pc = "done"]
       ELSE [New EXCEPT !.pc = "ask", !.req = "escalated", !.bypass = TRUE]
  ELSE IF tool = "exec_command" /\ NeedsPreflight(cfg, escalated)
  THEN [New EXCEPT !.pc = "ask", !.req = "preflight"]
  ELSE [New EXCEPT !.pc = "spawn"]

\* The tools with supports_parallel
Parallel == {"exec_command", "shell_command"}

Batch(S) ==
  /\ InFlight = {}
  /\ \A c \in S : call[c] = Idle
  /\ \E E \in SUBSET (S \cap Escalable), tool \in [S -> UNION {cfg.tools[c] : c \in S}] :
       /\ \A c \in S : tool[c] \in cfg.tools[c]
       /\ Cardinality(S) = 1 \/ (S \subseteq Together /\ \A c \in S : tool[c] \in Parallel)
       /\ call' = [c \in Calls |-> IF c \in S THEN FirstStep(tool[c], c \in E) ELSE call[c]]
  /\ UNCHANGED <<cfg, stops, gate, table, proc, victims, outVars>>

Continue(c, next) == call' = [call EXCEPT ![c] = next]
At(c, pc) == call[c].pc = pc
Goto(c, pc) == Continue(c, [call[c] EXCEPT !.pc = pc])
-----------------------------------------------------------------------------
\* Approvals

\* A slip: the kind of the request is left out of its key
CommandKey(req, c) == <<call[c].tool, "any", CmdOf[c]>>

\* _approval_cache_key: the tool and the kind of the request are part of it
Key(req, c) == <<call[c].tool, req, CmdOf[c]>>

\* What a call does once a request is granted
Permitted(c) == Goto(c, "spawn")

\* _approval_error, with the keys granted for the session
Ask(c) ==
  /\ At(c, "ask")
  /\ IF Settled(cache, {Key(call[c].req, c)}) THEN Permitted(c) ELSE Goto(c, "answer")
  /\ UNCHANGED <<cfg, stops, gate, table, proc, victims, outVars>>

\* The hook and the provider are asked without a lock: others may be asked the
\* same meanwhile
Remember(c, answer) == IF answer = "session" THEN cache \cup {Key(call[c].req, c)} ELSE cache

Answered(c) ==
  /\ At(c, "answer")
  /\ \E h \in Hooks, d \in Providers :
       LET answer == Outcome(h, d) IN
       IF answer = "denied"
       THEN Goto(c, "done") /\ UNCHANGED gate
       ELSE /\ Permitted(c)
            /\ cache' = Remember(c, answer)
            /\ granted' = granted \cup
                 {[tool |-> call[c].tool, req |-> call[c].req, cmd |-> CmdOf[c],
                   to |-> IF answer = "session" THEN "session" ELSE c]}
  /\ UNCHANGED <<cfg, stops, table, proc, victims, outVars>>

-----------------------------------------------------------------------------
\* exec_command and shell_command

Free == {p \in Procs : proc[p].status = "none"}

\* last_used is now
Touch(p) == later' = [q \in Procs |-> IF q = p THEN {} ELSE later[q] \cup {p}]

\* The sandbox is around what exec_command runs, and never around a shell_command
Unsandboxed(c) == call[c].bypass \/ call[c].tool = "shell_command"

\* _spawn_process, the RunningCommand and start_readers; or the error of a command
\* that cannot be started
Spawn(c) ==
  /\ At(c, "spawn")
  /\ \/ /\ Goto(c, "done")
        /\ UNCHANGED <<table, proc, outVars>>
     \/ /\ Free # {}
        /\ LET p == CHOOSE q \in Free : \A r \in Free : q <= r IN
           /\ proc' = [proc EXCEPT ![p] =
                [Unborn EXCEPT !.status = "running", !.open = TRUE, !.by = c,
                               !.tool = call[c].tool, !.req = call[c].req,
                               !.bypass = Unsandboxed(c)]]
           /\ Continue(c, [call[c] EXCEPT !.pc = "register", !.proc = p])
           /\ reader' = [reader EXCEPT ![p] = "select"]
           /\ Touch(p)
        /\ UNCHANGED <<active, sessions, fresh, delivered, ends, dropped>>
  /\ UNCHANGED <<cfg, stops, gate, victims>>

\* _register_active_command
RegisterActive(c) ==
  /\ At(c, "register")
  /\ active' = active \cup {call[c].proc}
  /\ Goto(c, "wait")
  /\ UNCHANGED <<cfg, stops, gate, sessions, later, proc, victims, outVars>>

\* _wait_for_process_or_timeout and the poll after it
ExecWaited(c) ==
  /\ At(c, "wait") /\ call[c].tool = "exec_command"
  /\ Goto(c, IF Running(call[c].proc) THEN "keep" ELSE "snap")
  /\ UNCHANGED <<cfg, stops, gate, table, proc, victims, outVars>>

\* shell_command does not leave a process behind
ShellWaited(c) ==
  /\ At(c, "wait") /\ call[c].tool = "shell_command"
  /\ IF Running(call[c].proc)
     THEN victims' = [victims EXCEPT ![c] = <<call[c].proc>>] ELSE UNCHANGED victims
  /\ Goto(c, "snap")
  /\ UNCHANGED <<cfg, stops, gate, table, proc, outVars>>

\* _session_id_to_prune: the least recently used, an exited one first, but none
\* of the most recent
Unprotected == {p \in sessions : Cardinality(later[p] \cap sessions) >= Protected}

ToPrune ==
  LET exited == {p \in Unprotected : ~Running(p)}
      may == IF exited # {} THEN exited ELSE Unprotected
  IN  {p \in may : may \ {p} \subseteq later[p]}

\* _register_session
Pruned == IF Cardinality(sessions) >= MaxSessions THEN ToPrune ELSE {}

\* A slip: the table forgets a session that nobody stops
ForgetPruned == <<>>

StopPruned == SetToSeq(Pruned)

RegisterSession(c) ==
  /\ At(c, "keep")
  /\ sessions' = (sessions \ Pruned) \cup {call[c].proc}
  /\ victims' = [victims EXCEPT ![c] = StopPruned]
  /\ Continue(c, [call[c] EXCEPT !.pc = "snap", !.more = TRUE])
  /\ UNCHANGED <<cfg, stops, gate, active, later, proc, outVars>>

\* snapshot, after the interrupts of the call's own
Snapshot(c) ==
  /\ At(c, "snap") /\ victims[c] = <<>>
  /\ Touch(call[c].proc)
  /\ Goto(c, IF Running(call[c].proc) THEN "take" ELSE "join")
  /\ UNCHANGED <<cfg, stops, gate, active, sessions, proc, victims, outVars>>

\* ... the readers of a process that ended are given a moment, then its streams
\* are closed
ClosePipes(p) == [proc EXCEPT ![p].open = FALSE]

JoinAndClose(c) ==
  /\ At(c, "join")
  /\ proc' = ClosePipes(call[c].proc)
  /\ Goto(c, "take")
  /\ UNCHANGED <<cfg, stops, gate, table, victims, outVars>>

\* _decode_output_chunk and to_text: a character comes out as it is where all its
\* bytes are there.  What stands for the bytes of the others, U+FFFD, or a character
\* they make by chance with those of another beyond what a full buffer let go, is
\* given room for room: byte n, but no longer the process's own
Decode(s) ==
  [i \in DOMAIN s |->
     <<s[i][1], s[i][2],
       \E char \in cfg.chars : s[i][2] \in char /\ \A n \in char : <<s[i][1], n, TRUE>> \in ToSet(s)>>]

\* A slip: the buffer is not cleared
Kept(p) == fresh

\* ... and the output is taken, under the RunningCommand's lock; the command, or
\* the session if it has ended, leaves the table
Emptied(p) == [fresh EXCEPT ![p] = NoText]

\* _should_retry_without_sandbox of a result with an exit code: the output may
\* read like a denial, or not
MayAskRetry(c) ==
  /\ call[c].tool = "exec_command" /\ ~call[c].more /\ MayRetry(cfg) /\ call[c].req # "retry"

TakeOutput(c) ==
  /\ At(c, "take")
  /\ LET p == call[c].proc IN
     /\ delivered' = [delivered EXCEPT ![p] = @ \o Decode(Text(fresh[p]))]
     /\ fresh' = Emptied(p)
     /\ IF call[c].tool = "write_stdin"
        THEN /\ sessions' = IF Running(p) THEN sessions ELSE sessions \ {p}
             /\ UNCHANGED active
        ELSE active' = active \ {p} /\ UNCHANGED sessions
  /\ \/ Goto(c, "done")
     \/ /\ MayAskRetry(c)
        /\ Continue(c, [call[c] EXCEPT !.pc = "ask", !.req = "retry", !.bypass = TRUE])
  /\ UNCHANGED <<cfg, stops, gate, later, proc, victims, reader, ends, dropped>>

-----------------------------------------------------------------------------
\* write_stdin

\* The model names a session; input needs a terminal
StdinGet(c) ==
  /\ At(c, "get")
  /\ \/ \E p \in sessions, input \in BOOLEAN :
          Continue(c, IF input /\ ~Tty(p) THEN [call[c] EXCEPT !.pc = "done"]
                      ELSE [call[c] EXCEPT !.pc = "wait", !.proc = p])
     \/ Started \ sessions # {} /\ Goto(c, "done")          \* unknown exec session
     \/ Started = {} /\ Goto(c, "done")
  /\ UNCHANGED <<cfg, stops, gate, table, proc, victims, outVars>>

StdinWaited(c) ==
  /\ At(c, "wait") /\ call[c].tool = "write_stdin"
  /\ Goto(c, "snap")
  /\ UNCHANGED <<cfg, stops, gate, table, proc, victims, outVars>>

-----------------------------------------------------------------------------
\* interrupt_all and RunningCommand.interrupt

\* /stop, and the worker's shutdown, while calls run or not
StopAll ==
  /\ stops < cfg.stops /\ victims[Stopper] = <<>>
  /\ stops' = stops + 1
  /\ victims' = [victims EXCEPT ![Stopper] = SetToSeq(active \cup sessions)]
  /\ sessions' = {}
  /\ UNCHANGED <<cfg, call, gate, active, later, proc, outVars>>

\* SIGTERM to its group if it still runs; when it has ended, or the wait for it is
\* over, in which case it is killed, its streams are closed, while readers may
\* still wait for them
Doom(p) == proc[p].doomed \/ Running(p)

Interrupt(t) ==
  /\ victims[t] # <<>>
  /\ LET p == victims[t][1] IN
     proc' = [proc EXCEPT ![p].open = FALSE, ![p].doomed = Doom(p)]
  /\ victims' = [victims EXCEPT ![t] = Tail(@)]
  /\ UNCHANGED <<cfg, stops, call, gate, table, outVars>>

-----------------------------------------------------------------------------
\* The processes, which may ignore SIGTERM but not SIGKILL, and may leave a child
\* that keeps the stream

Write(p) ==
  /\ HasWriter(p) /\ proc[p].open /\ proc[p].wrote < cfg.bytes[p]
  /\ proc' = [proc EXCEPT ![p].wrote = @ + 1, ![p].pipe = Append(@, <<p, proc[p].wrote + 1, TRUE>>)]
  /\ UNCHANGED <<cfg, stops, call, gate, table, victims, outVars>>

Exit(p) ==
  /\ Running(p)
  /\ \E child \in BOOLEAN :
       /\ child => p \in cfg.parents /\ ~proc[p].doomed
       /\ proc' = [proc EXCEPT ![p].status = "ended", ![p].child = child]
  /\ UNCHANGED <<cfg, stops, call, gate, table, victims, outVars>>

ChildExits(p) ==
  /\ proc[p].child
  /\ proc' = [proc EXCEPT ![p].child = FALSE]
  /\ UNCHANGED <<cfg, stops, call, gate, table, victims, outVars>>

-----------------------------------------------------------------------------
\* _read_stream and _read_pty

Numbers(s) == {<<b[1], b[2]>> : b \in ToSet(s)}

Store(p, text) ==
  LET buffer == Push(BufferBytes, fresh[p], text) IN
  /\ fresh' = [fresh EXCEPT ![p] = buffer]
  /\ dropped' = dropped \cup (Numbers(Text(fresh[p]) \o text) \ Numbers(Text(buffer)))

\* os.read, and what it leaves in the stream
ReadNext(p) == First(proc[p].pipe, ReadBytes)
Behind(p) == SubSeq(proc[p].pipe, Len(ReadNext(p)) + 1, Len(proc[p].pipe))

\* select finds something to read, which is decoded by itself: a character of which
\* a part is still in the stream, or not yet written, is replaced, and so is the rest
\* of it by the next read.  After the process has ended the reader of a terminal
\* reads once more before it looks for the end
ReaderReads(p) ==
  /\ reader[p] = "select" /\ proc[p].open /\ proc[p].pipe # <<>>
  /\ Store(p, Decode(ReadNext(p)))
  /\ proc' = [proc EXCEPT ![p].pipe = Behind(p)]
  /\ ends' = [ends EXCEPT ![p] = @ \cup {Last(ReadNext(p))[2]}]
  /\ UNCHANGED <<cfg, stops, call, gate, table, victims, reader, delivered>>

\* The end of the stream, or a stream that was closed; and the reader of a pipe that
\* found nothing and then sees that the process has ended: what was written in
\* between stays behind
ReaderEnds(p) ==
  /\ reader[p] = "select"
  /\ \/ ~proc[p].open
     \/ proc[p].pipe = <<>> /\ ~HasWriter(p)
     \/ ~Tty(p) /\ ~Running(p)
  /\ reader' = [reader EXCEPT ![p] = "gone"]
  /\ UNCHANGED <<cfg, stops, call, gate, table, proc, victims, fresh, delivered, ends, dropped>>

-----------------------------------------------------------------------------
CallStep(c) ==
  \/ Ask(c) \/ Answered(c) \/ Spawn(c) \/ RegisterActive(c) \/ ExecWaited(c) \/ ShellWaited(c)
  \/ RegisterSession(c) \/ Snapshot(c) \/ JoinAndClose(c) \/ TakeOutput(c)
  \/ StdinGet(c) \/ StdinWaited(c)

ReaderStep(p) == ReaderReads(p) \/ ReaderEnds(p)

Next ==
  \/ StopAll
  \/ \E S \in SUBSET Calls \ {{}} : Batch(S)
  \/ \E c \in Calls : CallStep(c)
  \/ \E t \in Threads : Interrupt(t)
  \/ \E p \in Procs : Write(p) \/ Exit(p) \/ ChildExits(p) \/ ReaderStep(p)

Spec == Init /\ [][Next]_vars

-----------------------------------------------------------------------------
\* A process that runs can be found and stopped: it is an active command, a session,
\* on the list of a thread that is about to interrupt it, or killed; or its call has
\* just started it and will enter it next.  No call that returned is still active,
\* and the table of sessions keeps its limit.
Owned ==
  /\ Cardinality(sessions) <= MaxSessions
  /\ \A p \in Started : Running(p) =>
       \/ p \in active \cup sessions \/ proc[p].doomed
       \/ \E t \in Threads : p \in ToSet(victims[t])
       \/ At(proc[p].by, "register") /\ Owner(p).proc = p
  /\ \A p \in active : proc[p].by \in InFlight

\* No output is delivered twice, out of order, to a command that did not write it,
\* or lost on its way: every byte a process wrote is in its stream, in the buffer,
\* delivered, or one the full buffer let go.  What is delivered is as it was written,
\* character by character, but where a read ended within a character, where the full
\* buffer let go a part of it, or where a byte was no character's: there something
\* else stands for it, and never a part of it.
Whereabouts(p) == delivered[p] \o Text(fresh[p]) \o proc[p].pipe

\* Bytes the reader may replace
Torn(p, n) ==
  \A char \in cfg.chars : n \in char =>
    \E m \in char : \/ <<p, m>> \in dropped
                   \/ \E e \in ends[p] : (m <= e) # (n <= e)

OutputOnce ==
  \A p \in Started :
    /\ \A i, j \in DOMAIN Whereabouts(p) : i < j => Whereabouts(p)[i][2] < Whereabouts(p)[j][2]
    /\ \A n \in 1..proc[p].wrote :
         (<<p, n>> \in Numbers(Whereabouts(p))) # (<<p, n>> \in dropped)
    /\ \A b \in ToSet(Whereabouts(p)) : b[3] \/ Torn(p, b[2])
    /\ \A b \in ToSet(delivered[p]) : b[3] =>
         \E char \in cfg.chars : b[2] \in char /\ \A n \in char : <<p, n, TRUE>> \in ToSet(delivered[p])

\* exec_command: a command runs outside the sandbox only if somebody granted just
\* that, for this call or for the session; permission to run it confined is not
\* enough, nor one to run it as a shell_command.  Under a policy that asks first,
\* nothing runs confined without a permission either.  shell_command runs outside
\* the sandbox, and nobody is asked: but a call of it that says require_escalated
\* runs only if that was granted.
RunsAreApproved ==
  \A p \in Started :
    LET c == proc[p].by
        tool == proc[p].tool
        May(reqs) == \E g \in granted : /\ g.tool = tool /\ g.req \in reqs /\ g.cmd = CmdOf[c]
                                        /\ g.to \in {c, "session"}
    IN  /\ proc[p].bypass => tool = "shell_command" \/ May({"escalated", "retry"})
        /\ (tool = "exec_command" /\ Confined(cfg, proc[p].bypass) /\ NeedsPreflight(cfg, FALSE))
              => May({"preflight"})
        /\ (tool = "shell_command" /\ proc[p].req = "escalated") => May({"escalated"})
=============================================================================
