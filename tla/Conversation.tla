---------------------------- MODULE Conversation ----------------------------
(***************************************************************************)
(* What the rollout promises: a conversation that survives its process.    *)
(* The saved history follows the live one change by change, so a process   *)
(* that dies loses at most its last change, and a session that is resumed  *)
(* has what was saved.  Only items the model produced (Echo) may come back *)
(* although the live session had dropped them.                             *)
(***************************************************************************)
EXTENDS Selection

CONSTANTS Items, Echo

VARIABLES live, saved, up

vars == <<live, saved, up>>

Init == live = <<>> /\ saved = <<>> /\ up = TRUE

Prefix(s, t) == Len(s) <= Len(t) /\ s = SubSeq(t, 1, Len(s))

Heard(s) == Only(s, Items \ Echo)

\* An item is added, or a compaction puts another history in its place: only
\* when the change before it is saved.
Change ==
  /\ up /\ live' # live
  /\ saved = live
  /\ live' \in Seq(Items)
  /\ UNCHANGED <<saved, up>>

\* The change becomes durable.
Save ==
  /\ up /\ live' = live
  /\ saved' = live
  /\ UNCHANGED up

\* What a failed response left is taken back.
Retract ==
  /\ up /\ live' # live
  /\ saved = live
  /\ Prefix(live', live)
  /\ \A i \in Len(live') + 1..Len(live) : live[i] \in Echo
  /\ saved' = live'
  /\ UNCHANGED up

\* Another conversation begins with what this one has said.
Fork ==
  /\ up /\ saved' = <<>>
  /\ live' \in Seq(Items) /\ Heard(live') = Heard(live)
  /\ UNCHANGED up

\* The process ends: the last change may be lost, and of a conversation that
\* was never saved anything may be lost from the end.
Die ==
  /\ up /\ up' = FALSE
  /\ live' = <<>>
  /\ \/ saved' \in {saved, live}
     \/ saved = <<>> /\ Prefix(saved', live)

Resume ==
  /\ ~up /\ up' = TRUE
  /\ live' \in Seq(Items)
  /\ Heard(live') = Heard(saved) /\ Len(live') >= Len(saved)
  /\ saved' = live'

Next == Change \/ Save \/ Retract \/ Fork \/ Die \/ Resume

Spec == Init /\ [][Next]_vars
=============================================================================
