----------------------------- MODULE MCCommands -----------------------------
(***************************************************************************)
(* Commands for TLC: three calls, the first two in one batch if their      *)
(* tools allow it, under three configurations.                             *)
(***************************************************************************)
EXTENDS Commands

CONSTANTS c1, c2, c3, x, y

MCCalls == {c1, c2, c3}
MCCmdOf == [c \in MCCalls |-> x]
Use(one, two, three) == (c1 :> one) @@ (c2 :> two) @@ (c3 :> three)

\* Two sessions and a use of one of them, nothing to ask; a command that may be
\* retried outside the sandbox beside one with a time limit; one that may ask to
\* leave the sandbox, and a later one that finds its permission
MCSettings ==
  {[policy |-> "never", sandbox |-> "workspace-write",
    tools |-> Use({"exec_command"}, {"exec_command"}, {"write_stdin"}),
    bytes |-> <<1, 0>>, chars |-> {}, parents |-> {}, stops |-> 1],
   [policy |-> "untrusted", sandbox |-> "workspace-write",
    tools |-> Use({"exec_command"}, {"shell_command"}, {"write_stdin"}),
    bytes |-> <<3, 0>>, chars |-> {{1, 2}, {3}}, parents |-> {1}, stops |-> 0],
   [policy |-> "on-request", sandbox |-> "workspace-write",
    tools |-> Use({"exec_command", "shell_command"}, {"write_stdin"}, {"exec_command"}),
    bytes |-> <<1, 0>>, chars |-> {{1}}, parents |-> {1}, stops |-> 1]}
MCHooks == {Absent, [Absent EXCEPT !.session = "yes"], [Absent EXCEPT !.flag = "no"]}
MCProviders == {[Absent EXCEPT !.flag = "yes", !.word = "for_session"]}
=============================================================================
