----------------------------- MODULE MCPatches -----------------------------
(***************************************************************************)
(* Patches for TLC: every sequence of three small patches on three files,  *)
(* every pair of chunks of a pool on every short text, and scripts about   *)
(* blanks and punctuation, approvals, directories that refuse, a file that *)
(* is not UTF-8, patches of another format and patches that do not parse.  *)
(***************************************************************************)
EXTENDS Patches

A == Word("a")
B == Word("b")

\* How a patch with these changes is written
ChunkLines(c, first) ==
  (IF c.context # <<>> THEN <<Mark("@@ ", c.context[1])>>
   ELSE IF first THEN <<>> ELSE <<Mark("@@", Blank)>>)
  \o [i \in DOMAIN c.old |-> Mark("-", c.old[i])]
  \o [i \in DOMAIN c.new |-> Mark("+", c.new[i])]
  \o (IF c.eof THEN <<Mark("eof", Blank)>> ELSE <<>>)
ChangeLines(c) ==
  CASE c.type = "add" -> <<Mark("add", Word(c.path))>> \o [i \in DOMAIN c.content |-> Mark("+", c.content[i])]
    [] c.type = "delete" -> <<Mark("delete", Word(c.path))>>
    [] c.type = "update" ->
         <<Mark("update", Word(c.path))>>
         \o (IF c.to = {} THEN <<>> ELSE <<Mark("move", Word(CHOOSE p \in c.to : TRUE))>>)
         \o FlattenSeq([i \in DOMAIN c.chunks |-> ChunkLines(c.chunks[i], i = 1)])
Written(changes) ==
  [kind |-> "volley", changes |-> changes,
   lines |-> FlattenSeq([i \in DOMAIN changes |-> ChangeLines(changes[i])])]
Unreadable(lines) == [kind |-> "volley", changes |-> <<>>, lines |-> lines]
Other(paths, text) == [kind |-> "diff", paths |-> paths, text |-> text]

Script(fs, ps) ==
  [policy |-> "on-request", sandbox |-> "workspace-write", inside |-> {"f", "g", "h"},
   stuck |-> {}, files |-> fs, patches |-> ps]

\* One line for another, in one file
Swap(old, new) == <<Chunk(<<>>, <<old>>, <<new>>, FALSE)>>
Files == ("f" :> <<A>>) @@ ("g" :> <<B>>)
Small == {Written(c) : c \in {
  <<Add("f", <<B>>)>>, <<Add("h", <<A>>)>>, <<Delete("f")>>, <<Delete("h")>>,
  <<Update("f", {}, Swap(A, B))>>, <<Update("f", {"h"}, Swap(A, B))>>,
  <<Update("h", {"f"}, Swap(B, A))>>, <<Update("h", {"g"}, Swap(B, A))>>,
  <<Delete("f"), Update("f", {}, Swap(A, B))>>, <<Add("h", <<A>>), Update("f", {}, Swap(B, A))>>}}
Sequences == {Script(Files, <<p, q, r>>) : p, q, r \in Small}

\* Two chunks of one file
Texts == UNION {[1..n -> {A, B, Blank}] : n \in 0..3} \cup {<<A, B, A, B>>, <<A, A, B, Blank>>}
Old == {<<>>, <<A>>, <<B>>, <<Blank>>, <<A, B>>, <<B, Blank>>}
Chunks1 == {Chunk(<<>>, o, <<Word("c")>>, FALSE) : o \in Old}
Chunks2 ==
  {Chunk(k, o, n, e) : k \in {<<>>, <<A>>}, o \in Old, n \in {<<>>, <<Word("d"), Blank>>}, e \in {FALSE, TRUE}}
Edits == {Script("f" :> t, <<Written(<<Update("f", {}, <<c, d>>)>>)>>) : t \in Texts, c \in Chunks1, d \in Chunks2}

\* What a line may differ in from the one the patch names
Loose ==
  {Script("f" :> <<[A EXCEPT !.after = t], [A EXCEPT !.before = b, !.style = s]>>,
          <<Written(<<Update("f", to, Swap(line, B)), Delete("g")>>)>>) :
     t, b, s \in {"", "x"}, line \in {A, [A EXCEPT !.style = "x"]}, to \in {{}, {"h"}, {"f"}}}

\* A patch that leaves the workspace, and another of the same paths
Outside ==
  {[Script(Files, <<p, q>>) EXCEPT !.policy = a, !.sandbox = s, !.inside = {"f"}] :
     p, q \in {Written(<<Delete("f"), Add("g", <<>>)>>), Other({"f", "g"}, <<A>>), Other({}, <<>>)},
     a \in {"never", "untrusted"}, s \in Sandboxes}

Refusing ==
  {[Script(Files, <<Written(c), Other({"f"}, <<A>>)>>) EXCEPT !.stuck = {x}] : x \in {"f", "h"},
     c \in {<<Delete("g"), Update("f", {"h"}, Swap(A, B))>>, <<Delete("f")>>, <<Add("g", <<B>>), Add("h", <<A>>)>>}}

\* A file that is not UTF-8, at h
Garbling ==
  {Script(("f" :> <<A>>) @@ ("h" :> <<A, Garbled>>), <<Written(c), Written(<<Update("f", {}, Swap(B, A))>>)>>) : c \in {
     <<Update("f", {}, Swap(A, B)), Add("h", <<A>>)>>, <<Add("g", <<A>>), Update("f", {"h"}, Swap(A, B))>>,
     <<Add("h", <<A>>), Delete("f")>>, <<Delete("f"), Delete("h")>>,
     <<Add("g", <<>>), Update("h", {}, Swap(A, B))>>, <<Update("f", {}, Swap(A, B)), Add("h", <<>>), Add("g", <<>>)>>}}

Broken1 ==
  {Script(Files, <<Unreadable(Written(<<Update("f", {}, Swap(A, B))>>).lines \o l)>>) : l \in {
     <<Mark("?", A)>>, <<Mark("move", Word("h"))>>, <<Mark("@@", Blank), Mark("@@", Blank)>>,
     <<Mark("update", Word("g"))>>, <<Mark("@@", Blank)>>, <<Mark("eof", Blank), Mark("+", A)>>}}

MCScripts == Sequences \cup Edits \cup Loose \cup Outside \cup Refusing \cup Garbling \cup Broken1
MCHooks == {Absent}
MCProviders == {Absent, [Absent EXCEPT !.word = "granted"], [Absent EXCEPT !.flag = "yes", !.session = "yes"]}
MCForeign == {[path |-> "f", text |-> {}], [path |-> "h", text |-> {<<B>>}]}
=============================================================================
