------------------------------ MODULE MCForms ------------------------------
(***************************************************************************)
(* The operators behind what a user types, chooses and switches, over small*)
(* inputs: the bytes of two or three keys, two rollouts and two workers in *)
(* two homes, lists with more rows than the screen, texts of four lines.   *)
(***************************************************************************)
EXTENDS Integers, Sequences
Keyboard == INSTANCE Keyboard
Resume == INSTANCE Resume
Picker == INSTANCE Picker
Settings == INSTANCE Settings

Plain == {<<"a">>, <<Keyboard!Esc>>, Keyboard!Arrow}
Pasted(text) == Keyboard!PasteStart \o text
ASSUME KeyboardAssumption ==
  Keyboard!KeysArrive({<<k, l>> : k, l \in Plain}
    \cup {<<<<"a">>, Pasted(<<"b">>)>>, <<<<Keyboard!Esc>>, Pasted(<<>>)>>,
          <<Pasted(<<Keyboard!Esc>>), <<"a">>>>, <<Pasted(<<>>), Keyboard!Arrow>>})

-----------------------------------------------------------------------------
(* Rollout i is saved in home 0 (nowhere), 1 or 2; a worker writes the     *)
(* rollout of its thread, or one that is not there yet; a registry has one *)
(* file for a thread.                                                      *)
Threads == {<<"a", "b">>, <<"b", "c">>}
Saved == [home : 0..2, id : Threads, cwd : {"here"}] \cup [home : 1..2, id : {<<"a", "b">>}, cwd : {"there"}]
Worker == [home : 1..2, id : Threads, cwd : {"here", "there"}, state : {"runs"}]
            \cup [home : {1}, id : Threads, cwd : {"here"}, state : {"idle", "dead"}]

File(i, f) == [path |-> i, id |-> f.id, cwd |-> f.cwd, mtime |-> i, created |-> 9 - i]
Live(i, l, saved) ==
  LET own == {j \in 1..2 : saved[j].home > 0 /\ saved[j].id = l.id} IN
  [id |-> l.id, cwd |-> l.cwd, running |-> l.state # "idle", alive |-> l.state # "dead",
   mtime |-> i, updated |-> 2 * i - 1, path |-> IF own = {} THEN 10 + i ELSE CHOOSE j \in own : TRUE]
World(saved, workers) ==
  [h \in 1..2 |->
    [files |-> {File(i, saved[i]) : i \in {j \in 1..2 : saved[j].home = h}},
     lives |-> {Live(i, workers[i], saved) : i \in {j \in 1..2 : workers[j].home = h}}]]

ASSUME ResumeAssumption ==
  \A saved \in [1..2 -> Saved], workers \in [1..2 -> Worker] :
    LET world == World(saved, workers) IN
    workers[1].home # workers[2].home \/ workers[1].id # workers[2].id =>
      /\ Resume!RunningIsOffered(world)
      /\ \A all \in BOOLEAN :
           LET where == [all |-> all, cwd |-> "here"] IN
           Resume!IdIsMeant(world, where) /\ Resume!LastIsLast(world, where)

-----------------------------------------------------------------------------
SavedRows ==
  [i \in 1..7 |-> [path |-> i, id |-> IF i % 2 = 0 THEN <<"a", "b">> ELSE <<"b">>,
                   cwd |-> IF i < 6 THEN "here" ELSE "there", updated |-> i, created |-> (3 * i) % 7, live |-> {}]]
ListKeys == {"Enter", "Backspace", "Tab", "CtrlO", "Esc", "Up", "Down", "PageUp", "PageDown", "Left", "a"}
Models ==
  <<[slug |-> "g", efforts |-> <<"low", "high">>, default |-> "low", provider |-> "x"],
    [slug |-> "h", efforts |-> <<"high">>, default |-> "medium", provider |-> "y"]>>
ASSUME PickerAssumption ==
  /\ Picker!PicksWhatIsShown(SavedRows, "here", 12, ListKeys, 5)
  /\ \A current \in [model : {"g", "k"}, effort : {"high", "none"}, provider : {"x"}] :
       Picker!ModelRuns(Models, current, {"Enter", "Esc", "q", "Up", "Down", "Left", "Right"}, 5)

-----------------------------------------------------------------------------
SettingLines ==
  {Settings!Key(Settings!Tier, "fast"), Settings!Key(Settings!Tier, "flex"), Settings!Key(Settings!OptOut, TRUE),
   Settings!Key("k", "v"), Settings!Header("notices"), Settings!Header("t")}
SettingTexts ==
  LET texts == UNION {[1..n -> SettingLines] : n \in 0..4} IN
  texts \cup {[t EXCEPT ![Len(t)].ends = FALSE] : t \in texts \ {<<>>}}
ASSUME SettingsAssumption ==
  Settings!FastIsKept(SettingTexts, [enabled : BOOLEAN, supports : BOOLEAN, enterprise : BOOLEAN])

=============================================================================
