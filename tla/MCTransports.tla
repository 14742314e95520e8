---------------------------- MODULE MCTransports ----------------------------
(***************************************************************************)
(* Transports for TLC: a session and an agent that share one client, and   *)
(* what Gemini.tla assumes of the other transport, which TLC evaluates.    *)
(***************************************************************************)
EXTENDS Transports, Gemini

CONSTANTS r1, r2

Threads == Permutations({r1, r2})

Quiet == [auth |-> "auto", jwt |-> TRUE, kinds |-> {"stream"}, calls |-> 1, retries |-> 0,
          stops |-> 0, expiries |-> 0, logins |-> 0, visits |-> 0, faults |-> 0]

\* The two transports and their switch; interrupts; the tokens, with a login and
\* a reader of the limits beside the requests; the process that ends and starts
MCSettings ==
  {[Quiet EXCEPT !.kinds = {"stream", "create", "compact"}, !.calls = 2],
   [Quiet EXCEPT !.retries = 1, !.stops = 1],
   [Quiet EXCEPT !.auth = "chatgpt", !.kinds = {"stream", "compact"}, !.calls = 2, !.stops = 2],
   [Quiet EXCEPT !.auth = "chatgpt", !.expiries = 2, !.logins = 1, !.visits = 1],
   [Quiet EXCEPT !.auth = "chatgpt", !.jwt = FALSE, !.kinds = {"compact"}, !.logins = 1],
   [Quiet EXCEPT !.kinds = {"create", "stream"}, !.retries = 1, !.expiries = 1,
              !.faults = 1],
   [Quiet EXCEPT !.expiries = 1, !.logins = 1, !.faults = 1, !.visits = 1, !.calls = 0]}
=============================================================================
