------------------------------- MODULE Picker -------------------------------
(***************************************************************************)
(* The lists a user chooses from (src/volley/cli.py), key by key: the saved*)
(* chats with a filter, a query and a window that scrolls, and the models  *)
(* with their efforts.                                                     *)
(***************************************************************************)
EXTENDS Resume
LOCAL INSTANCE FiniteSetsExt
LOCAL INSTANCE SequencesExt

\* _rollout_picker_visible_count, of the lines of the terminal
VisibleCount(dense, lines) ==
  LET body == Max({5, lines - 7}) IN
  IF dense THEN Min({18, body}) ELSE Max({3, Min({8, body \div 3})})

Opened(all) ==
  [selected |-> 0, offset |-> 0, query |-> <<>>, all |-> all, by |-> "updated", dense |-> FALSE,
   focus |-> "filter", state |-> "open"]
View(p, rows, cwd) == FilterRows(rows, [all |-> p.all, cwd |-> cwd], p.query, p.by)

\* clamp_selection
Clamped(p, count, lines) ==
  LET visible == VisibleCount(p.dense, lines)
      sel == Min({Max({p.selected, 0}), count - 1})
      offset == IF sel < p.offset THEN sel
                ELSE IF sel >= p.offset + visible THEN sel - visible + 1 ELSE p.offset IN
  IF count = 0 THEN [p EXCEPT !.selected = 0, !.offset = 0]
  ELSE [p EXCEPT !.selected = sel, !.offset = Min({Max({offset, 0}), Max({0, count - visible})})]

Reset(p) == [p EXCEPT !.selected = 0, !.offset = 0]
Stepped(p, by, count) == [p EXCEPT !.selected = Max({0, Min({count - 1, @ + by})})]

\* one round of _interactive_rollout_picker
PickerKey(p, k, rows, cwd, lines) ==
  LET count == Len(View(p, rows, cwd))
      page == VisibleCount(p.dense, lines) IN
  CASE k = "Enter" -> [p EXCEPT !.state = IF count = 0 THEN "cancelled" ELSE "chosen"]
    [] k = "Backspace" -> IF p.query = <<>> THEN p ELSE Reset([p EXCEPT !.query = Front(@)])
    [] k = "Tab" -> [p EXCEPT !.focus = IF @ = "filter" THEN "sort" ELSE "filter"]
    [] k = "CtrlO" -> Clamped([p EXCEPT !.dense = ~@], count, lines)
    [] k = "Esc" -> IF p.query = <<>> THEN [p EXCEPT !.state = "cancelled"] ELSE Reset([p EXCEPT !.query = <<>>])
    [] k = "Up" -> [p EXCEPT !.selected = Max({0, @ - 1})]
    [] k = "Down" -> Stepped(p, 1, count)
    [] k = "PageUp" -> [p EXCEPT !.selected = Max({0, @ - page})]
    [] k = "PageDown" -> Stepped(p, page, count)
    [] k \in {"Left", "Right"} ->
         Reset(IF p.focus = "filter" THEN [p EXCEPT !.all = ~@]
               ELSE [p EXCEPT !.by = IF @ = "updated" THEN "created" ELSE "updated"])
    [] OTHER -> Reset([p EXCEPT !.query = Append(@, k)])
\* before a key is read the rows are looked up and shown
Shown(p, rows, cwd, lines) == Clamped(p, Len(View(p, rows, cwd)), lines)
Picked(p, rows, cwd) == IF p.state = "chosen" THEN {View(p, rows, cwd)[p.selected + 1]} ELSE {}

PickersAfter(rows, cwd, lines, keys, most) ==
  LET Reached[n \in 0..most] ==
        IF n = 0 THEN {Shown(Opened(all), rows, cwd, lines) : all \in BOOLEAN}
        ELSE Reached[n - 1] \cup
          {LET q == PickerKey(p, k, rows, cwd, lines) IN
           IF q.state = "open" THEN Shown(q, rows, cwd, lines) ELSE q :
             p \in {r \in Reached[n - 1] : r.state = "open"}, k \in keys} IN
  Reached[most]

(* The selected row is on the screen and the window shows as many rows as  *)
(* it can; what Enter takes is the row that was shown as selected, which   *)
(* fits the query and the directory; Esc gives the query up first          *)
(* (_interactive_rollout_picker).                                          *)
PicksWhatIsShown(rows, cwd, lines, keys, most) ==
  \A p \in PickersAfter(rows, cwd, lines, keys, most) :
    LET view == View(p, rows, cwd)
        visible == VisibleCount(p.dense, lines) IN
    /\ view # <<>> =>
         /\ p.selected \in p.offset..(p.offset + visible - 1) /\ p.selected < Len(view)
         /\ p.offset = 0 \/ p.offset + visible <= Len(view)
    /\ \A row \in Picked(p, rows, cwd) :
         HasPart(row.id, p.query) /\ (p.all \/ row.cwd = cwd)
    /\ p.state = "cancelled" => p.query = <<>> \/ view = <<>>

-----------------------------------------------------------------------------
(* _interactive_model_picker: a model is [slug, efforts, default].         *)

At(seq, x, else) == IF x \in ToSet(seq) THEN Min({i \in DOMAIN seq : seq[i] = x}) ELSE else
ModelsOpened(models, model, effort) ==
  LET slugs == [i \in DOMAIN models |-> models[i].slug]
      start(m) == IF m.slug = model /\ effort \in ToSet(m.efforts) THEN effort ELSE m.default IN
  [selected |-> At(slugs, model, 1), effort |-> [i \in DOMAIN models |-> At(models[i].efforts, start(models[i]), 1)],
   state |-> "open"]
Turned(i, by, count) == ((i - 1 + by) % count) + 1
ModelKey(p, k, models) ==
  LET efforts == Len(models[p.selected].efforts) IN
  CASE k = "Enter" -> [p EXCEPT !.state = "chosen"]
    [] k \in {"Esc", "q"} -> [p EXCEPT !.state = "cancelled"]
    [] k = "Up" -> [p EXCEPT !.selected = Turned(@, -1, Len(models))]
    [] k = "Down" -> [p EXCEPT !.selected = Turned(@, 1, Len(models))]
    [] k = "Left" -> [p EXCEPT !.effort[p.selected] = Turned(@, -1, efforts)]
    [] k = "Right" -> [p EXCEPT !.effort[p.selected] = Turned(@, 1, efforts)]
\* _handle_model_slash and _set_session_model: what the next turn runs with
ModelChosen(p, models, current) ==
  LET m == models[p.selected] IN
  IF p.state = "chosen" THEN [model |-> m.slug, effort |-> m.efforts[p.effort[p.selected]], provider |-> m.provider]
  ELSE current

ModelsAfter(models, current, keys, most) ==
  LET Reached[n \in 0..most] ==
        IF n = 0 THEN {ModelsOpened(models, current.model, current.effort)}
        ELSE Reached[n - 1] \cup
          {ModelKey(p, k, models) : p \in {r \in Reached[n - 1] : r.state = "open"}, k \in keys} IN
  Reached[most]

(* A model is only run with an effort it has and at its own provider, and  *)
(* Enter without a choice, like Esc, leaves everything as it was           *)
(* (_interactive_model_picker, _set_session_model).                        *)
ModelRuns(models, current, keys, most) ==
  /\ \A p \in ModelsAfter(models, current, keys, most) :
       LET now == ModelChosen(p, models, current) IN
       now = current \/ \E m \in ToSet(models) :
         now.model = m.slug /\ now.provider = m.provider /\ now.effort \in ToSet(m.efforts)
  /\ (\E m \in ToSet(models) : m.slug = current.model /\ current.effort \in ToSet(m.efforts)) =>
       ModelChosen(ModelKey(ModelsOpened(models, current.model, current.effort), "Enter", models), models, current) = current

=============================================================================
