------------------------------ MODULE TurnDiff ------------------------------
(***************************************************************************)
(* The diff of a turn (record_apply_patch_turn_diff in                     *)
(* src/volley/state.py): built from what each applied change says of       *)
(* itself, never from the files.                                           *)
(***************************************************************************)
EXTENDS Functions, FiniteSets, TLC

\* The text of each path, of those there are
Put(f, p, text) == [q \in DOMAIN f \cup {p} |-> IF q = p THEN text ELSE f[q]]
Without(f, p) == Restrict(f, DOMAIN f \ {p})
TextAt(f, p) == IF p \in DOMAIN f THEN {f[p]} ELSE {}

\* baseline holds the first text seen of a path, current the last one written,
\* origin where a moved file was first
Untracked == [baseline |-> <<>>, current |-> <<>>, origin |-> <<>>]

Known(t, p) == p \in DOMAIN t.baseline \cup DOMAIN t.current
\* The text of a path that was not known before
Baseline(t, p, texts) ==
  IF Known(t, p) \/ texts = {} THEN t.baseline
  ELSE Put(t.baseline, p, CHOOSE text \in texts : TRUE)

TrackAdd(t, c) ==
  [baseline |-> Baseline(t, c.path, c.over),
   current |-> Put(t.current, c.path, c.new),
   origin |-> Without(t.origin, c.path)]

\* A slip: that the file is the turn's own is forgotten
TrackDeleteKnown(t, c) ==
  [baseline |-> IF c.path \in DOMAIN t.baseline THEN t.baseline ELSE Put(t.baseline, c.path, c.old),
   current |-> Without(t.current, c.path),
   origin |-> Without(t.origin, c.path)]

TrackDelete(t, c) ==
  [baseline |-> Baseline(t, c.path, {c.old}),
   current |-> Without(t.current, c.path),
   origin |-> Without(t.origin, c.path)]

TrackUpdate(t, c) ==
  [t EXCEPT !.baseline = Baseline(t, c.path, {c.old}), !.current = Put(@, c.path, c.new)]

TrackMove(t, c) ==
  LET seen == [t EXCEPT !.baseline = Baseline(t, c.path, {c.old})]
      from == IF c.path \in DOMAIN t.origin THEN t.origin[c.path] ELSE c.path
      others == Without(Without(t.origin, c.path), c.to) IN
  [baseline |-> Baseline(seen, c.to, c.over),
   current |-> Put(Without(t.current, c.path), c.to, c.new),
   origin |-> IF c.to = from THEN others ELSE Put(others, c.to, from)]

\* _track_apply_patch_change
Track(t, c) ==
  CASE c.type = "add" -> TrackAdd(t, c)
    [] c.type = "delete" -> TrackDelete(t, c)
    [] c.type = "update" -> TrackUpdate(t, c)
    [] c.type = "move" -> TrackMove(t, c)

\* _turn_diff_rename_pairs: of two places that a file went to, one
Moves(t) ==
  {p \in DOMAIN t.origin :
     /\ p # t.origin[p]
     /\ t.origin[p] \in DOMAIN t.baseline \ DOMAIN t.current
     /\ p \in DOMAIN t.current \ DOMAIN t.baseline}
MovedTo(t) ==
  [o \in {t.origin[p] : p \in Moves(t)} |-> CHOOSE p \in Moves(t) : t.origin[p] = o]

\* _turn_diff_unified_diff: the texts of a path before and after, or of two paths
Diff(t) ==
  LET to == MovedTo(t)
      paths == (DOMAIN t.baseline \cup DOMAIN t.current) \ Range(to)
      right(p) == IF p \in DOMAIN to THEN to[p] ELSE p
      entry(p) == [left |-> p, old |-> TextAt(t.baseline, p),
                   right |-> right(p), new |-> TextAt(t.current, right(p))] IN
  {e \in {entry(p) : p \in paths} : e.old # e.new}
=============================================================================
