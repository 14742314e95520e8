----------------------------- MODULE Approvals -----------------------------
(***************************************************************************)
(* What ToolRuntime (src/volley/tools.py) asks before it runs a command or *)
(* writes a file, and how it reads the answer.  A configuration is a       *)
(* record of the approval policy and the sandbox mode.                     *)
(***************************************************************************)
EXTENDS FiniteSets

Policies == {"never", "on-request", "on-failure", "untrusted"}
Sandboxes == {"read-only", "workspace-write", "danger-full-access"}
Configs == [policy : Policies, sandbox : Sandboxes]

-----------------------------------------------------------------------------
\* The answers of a hook or a provider

\* A dictionary has flags and a word: the first of "approved", "allow" and
\* "granted", the first of the for-session flags, and its "decision".  Any other
\* answer is plain: a string, or what is as good as one of them when asked for its
\* truth
Flags == {"absent", "yes", "no"}
Words == {"absent", "granted", "for_session", "other"}
Dictionaries == [plain : {FALSE}, flag : Flags, session : Flags, word : Words]
Plain == [plain : {TRUE}, flag : {"absent"}, session : {"absent"}, word : Words \ {"absent"}]
Decisions == Dictionaries \cup Plain

\* _approval_decision_granted
Granted(d) == d.flag = "yes" \/ (d.flag = "absent" /\ d.word \in {"granted", "for_session"})

\* _approval_decision_for_session: the word of a string is not enough
ForSession(d) ==
  ~d.plain /\ (d.session = "yes" \/ (d.session = "absent" /\ d.word = "for_session"))

Answers == {"denied", "once", "session"}

\* What _approval_error makes of it
Answer(d) == IF ~Granted(d) THEN "denied" ELSE IF ForSession(d) THEN "session" ELSE "once"

\* _permission_request_hook_decision: a dictionary without any of the keys it
\* knows decides nothing, like a hook that fails.  The for-session flags are not
\* among these keys
HookDecides(d) == d.flag # "absent" \/ d.word # "absent"

\* Who answers a request: the hook if it decides, else the provider, and where
\* there is no provider nobody grants it
Outcome(hook, provider) ==
  IF HookDecides(hook) THEN Answer(hook) ELSE Answer(provider)

\* A provider that is not configured, a hook that is not or that fails
Absent == [plain |-> FALSE, flag |-> "absent", session |-> "absent", word |-> "absent"]

-----------------------------------------------------------------------------
\* When a request is made

\* _approval_error asks nobody when every key was granted for the session
Settled(cache, keys) == keys # {} /\ keys \subseteq cache

\* _sandbox_permission_error: require_escalated is an error under this policy
EscalationRefused(cfg) == cfg.policy # "on-request"

\* _default_sandbox_approval_error
NeedsPreflight(cfg, escalated) ==
  /\ cfg.sandbox # "danger-full-access"
  /\ cfg.policy \in {"on-request", "untrusted"}
  /\ ~escalated

\* _should_retry_without_sandbox, for a command that ended with an exit code
\* other than zero and whose output reads like a denial
MayRetry(cfg) ==
  /\ cfg.policy \in {"on-failure", "untrusted"}
  /\ cfg.sandbox # "danger-full-access"

\* _apply_patch_approval_error
PatchMayAsk(cfg) == cfg.policy \in {"on-request", "on-failure", "untrusted"}

\* The sandbox around a command, where the platform has one:
\* _sandboxed_process_argv
Confined(cfg, bypass) == ~bypass /\ cfg.sandbox # "danger-full-access"
=============================================================================
