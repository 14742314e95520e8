------------------------------ MODULE MCAttach ------------------------------
(***************************************************************************)
(* Attach for TLC.  Each setting drives one part of it: turns that follow  *)
(* one another while a terminal attaches or lags behind; a turn with token *)
(* counts and notices, longer than the log; questions; the end.            *)
(***************************************************************************)
EXTENDS Attach

Quiet == [turns |-> 2, tokens |-> 0, notices |-> 0, asks |-> 0, visits |-> 1, stops |-> FALSE,
          kinds |-> {"prompt"}, outcomes |-> {"completed"}]

MCSettings ==
  {[Quiet EXCEPT !.outcomes = {"completed", "failed"}],
   [Quiet EXCEPT !.turns = 1, !.kinds = {"compact"}, !.tokens = 1, !.notices = 1,
                 !.outcomes = {"interrupted"}],
   [Quiet EXCEPT !.turns = 1, !.asks = 1, !.visits = 2],
   [Quiet EXCEPT !.turns = 1, !.kinds = {"compact"}, !.stops = TRUE, !.outcomes = {"failed", "raised"}]}
=============================================================================
