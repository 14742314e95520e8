------------------------------ MODULE MCGoals ------------------------------
(* Two sessions on one thread, or each on a thread of its own: then they   *)
(* share nothing but the file.                                             *)
EXTENDS Goals, TLC

CONSTANTS s1, s2, t1, t2

Apart == s1 :> t1 @@ s2 :> t2
Shared == s1 :> t1 @@ s2 :> t1
SharedOrApart == {Shared, Apart}
\* bounds: the user of s2 gives orders and sends no prompts
UserTurns == s1 :> 1 @@ s2 :> 0
Rounds == s1 :> 1 @@ s2 :> 0
=============================================================================
