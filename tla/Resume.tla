------------------------------- MODULE Resume -------------------------------
(***************************************************************************)
(* Which chat a name, --last or a row of the picker means: the saved ones  *)
(* (src/volley/cli.py) and those a worker runs (src/volley/               *)
(* session_daemon.py), looked for in several homes.                        *)
(*                                                                         *)
(* A home is [files, lives], a file a rollout that can be read, with the   *)
(* thread its meta and its name tell, a live a file of the registry.       *)
(* Times are numbers; texts are sequences of letters.                      *)
(***************************************************************************)
EXTENDS Integers, Sequences
LOCAL INSTANCE FiniteSets
LOCAL INSTANCE FiniteSetsExt
LOCAL INSTANCE SequencesExt

None == <<>>   \* else a sequence of one
First(s) == IF s = <<>> THEN None ELSE <<Head(s)>>
HasPart(text, part) ==
  \E n \in 0..(Len(text) - Len(part)) : SubSeq(text, n + 1, n + Len(part)) = part

-----------------------------------------------------------------------------
(* The registry.                                                           *)

\* list_live_sessions; the files of dead workers are removed, not listed
LiveSessions(home) ==
  SetToSortSeq({l \in home.lives : l.alive /\ l.running}, LAMBDA k, l : k.mtime > l.mtime)
\* resolve_live_session, with a selector
ResolveLive(home, selector) == First(SelectSeq(LiveSessions(home), LAMBDA l : HasPart(l.id, selector)))
\* _resolve_running_live_for_selector: only the first of a home is looked at
RunningFor(homes, where, selector) ==
  First(SelectSeq(FlattenSeq([h \in DOMAIN homes |-> ResolveLive(homes[h], selector)]),
                  LAMBDA l : where.all \/ l.cwd = where.cwd))
\* _running_live_sessions_for_picker: one for a thread
RunningForPicker(homes) ==
  LET Add(lives, l) == IF \E k \in ToSet(lives) : k.id = l.id THEN lives ELSE Append(lives, l) IN
  FoldLeft(Add, <<>>, FlattenSeq([h \in DOMAIN homes |-> LiveSessions(homes[h])]))

-----------------------------------------------------------------------------
(* The rollouts.                                                           *)

Newer(f, g) == f.mtime > g.mtime
\* _iter_rollout_paths and _iter_session_search_rollouts
Rollouts(home) == SetToSortSeq(home.files, Newer)
SearchRollouts(homes) == SetToSortSeq(UNION {homes[h].files : h \in DOMAIN homes}, Newer)
\* _latest_rollout, _find_rollout_by_thread_id: the id, or a part of the name
Latest(homes, where) == First(SelectSeq(SearchRollouts(homes), LAMBDA f : where.all \/ f.cwd = where.cwd))
FindRollout(homes, where, selector) ==
  First(SelectSeq(SearchRollouts(homes),
                  LAMBDA f : (where.all \/ f.cwd = where.cwd) /\ HasPart(f.id, selector)))

-----------------------------------------------------------------------------
(* The rows of the picker.                                                 *)

Updated(f, live) == Max({f.mtime} \cup {l.updated : l \in live})
Row(f, live) ==
  [path |-> f.path, id |-> f.id, cwd |-> f.cwd, updated |-> Updated(f, live), created |-> f.created, live |-> live]

\* _rollout_picker_rows: a worker goes with the rollout of its thread, else
\* with the one it writes, else it has a row of its own
JoinedRows(homes) ==
  LET lives == RunningForPicker(homes)
      byPath == {lives[i] : i \in {j \in DOMAIN lives : \A k \in (j + 1)..Len(lives) : lives[k].path # lives[j].path}}
      Join(s, f) ==
        LET same == {l \in s.threads : l.id = f.id}
            writes == {l \in s.paths : l.path = f.path}
            live == IF same # {} THEN same ELSE writes IN
        [rows |-> Append(s.rows, Row(f, live)),
         threads |-> {l \in s.threads : \A k \in live : l.id # k.id},
         paths |-> IF same # {} THEN s.paths ELSE s.paths \ writes] IN
  FoldLeft(Join, [rows |-> <<>>, threads |-> ToSet(lives), paths |-> byPath],
           FlattenSeq([h \in DOMAIN homes |-> Rollouts(homes[h])]))
OwnRow(l) == [path |-> l.path, id |-> l.id, cwd |-> l.cwd, updated |-> l.updated, created |-> l.updated, live |-> {l}]
PickerRows(homes) ==
  LET joined == JoinedRows(homes) IN joined.rows \o SetToSeq({OwnRow(l) : l \in joined.threads})

\* _filter_rollout_picker_rows; the path breaks ties
SortKey(row, by) ==
  IF by = "created" THEN <<row.created, row.updated, row.path>> ELSE <<row.updated, row.created, row.path>>
Before(r, q, by) ==
  LET a == SortKey(r, by)
      b == SortKey(q, by) IN
  \E i \in 1..3 : a[i] > b[i] /\ \A j \in 1..(i - 1) : a[j] = b[j]
FilterRows(rows, where, query, by) ==
  SortSeq(SelectSeq(rows, LAMBDA r : (where.all \/ r.cwd = where.cwd) /\ HasPart(r.id, query)),
          LAMBDA r, q : Before(r, q, by))

-----------------------------------------------------------------------------
(* What is resumed: a path, and the worker to attach to.                   *)

TargetOf(row) == [path |-> row.path, live |-> row.live]
Saved(files) == [i \in DOMAIN files |-> [path |-> files[i].path, live |-> {}]]

\* _resolve_resume_rollout: exec resume, exec fork, fork
ResumeRollout(homes, where, args) ==
  IF args.last THEN Saved(Latest(homes, where))
  ELSE IF args.explicit # {} THEN [i \in 1..1 |-> [path |-> Max(args.explicit), live |-> {}]]
  ELSE Saved(FindRollout(homes, where, args.selector))
\* _resolve_resume_target_selector: resume, and /resume in a persistent chat
ResumeTarget(homes, where, args) ==
  LET rows == FilterRows(PickerRows(homes), where, <<>>, "updated")
      live == RunningFor(homes, where, args.selector) IN
  IF args.last THEN [i \in DOMAIN First(rows) |-> TargetOf(rows[i])]
  ELSE IF live # None THEN [i \in 1..1 |-> [path |-> live[1].path, live |-> {live[1]}]]
  ELSE ResumeRollout(homes, where, args)

-----------------------------------------------------------------------------
(* What a user relies on, in a given world.                                *)

Threads(homes) == UNION {{f.id : f \in homes[h].files} \cup {l.id : l \in homes[h].lives} : h \in DOMAIN homes}
Running(homes) == UNION {ToSet(LiveSessions(homes[h])) : h \in DOMAIN homes}
Files(homes) == UNION {homes[h].files : h \in DOMAIN homes}

(* The id of a thread means that thread, in the directory one asks from or *)
(* in any: its worker if one runs, else its newest rollout, never a chat   *)
(* that only looks like it (_resolve_resume_target_selector).              *)
IdIsMeant(homes, where) ==
  \A id \in Threads(homes) :
    LET target == ResumeTarget(homes, where, [last |-> FALSE, selector |-> id, explicit |-> {}])
        runs == {l \in Running(homes) : l.id = id /\ (where.all \/ l.cwd = where.cwd)}
        saved == {f \in Files(homes) : f.id = id /\ (where.all \/ f.cwd = where.cwd)} IN
    /\ target = None <=> runs = {} /\ saved = {}
    /\ runs # {} => target[1].live \subseteq runs /\ target[1].live # {}
    /\ runs = {} /\ saved # {} =>
         \E f \in saved : target[1] = [path |-> f.path, live |-> {}] /\ \A g \in saved : f.mtime >= g.mtime

(* Every running chat is offered by the picker, and once, if no two        *)
(* rollouts are of one thread; every rollout has a row                     *)
(* (_rollout_picker_rows).                                                 *)
RunningIsOffered(homes) ==
  LET rows == PickerRows(homes)
      shows(id) == {i \in DOMAIN rows : \E l \in rows[i].live : l.id = id} IN
  /\ \A l \in Running(homes) : shows(l.id) # {}
  /\ (\A f, g \in Files(homes) : f.id = g.id => f = g) =>
       \A l \in Running(homes) : Cardinality(shows(l.id)) = 1
  /\ \A f \in Files(homes) : \E row \in ToSet(rows) : row.path = f.path

(* resume --last and exec resume --last mean the same chat when none runs  *)
(* (_filter_rollout_picker_rows, _latest_rollout).                         *)
LastIsLast(homes, where) ==
  Running(homes) = {} =>
    LET last == [last |-> TRUE, selector |-> <<>>, explicit |-> {}] IN
    ResumeTarget(homes, where, last) = ResumeRollout(homes, where, last)

=============================================================================
