----------------------------- MODULE PatchText -----------------------------
(***************************************************************************)
(* The text of a patch and what it does to the text of a file              *)
(* (_parse_volley_patch and _apply_update_chunks in src/volley/tools.py).  *)
(*                                                                         *)
(* A text is a sequence of lines, each ended by a newline.  A line is a    *)
(* record: its words, the blanks before and after them, and the Unicode    *)
(* punctuation that _normalize_seek_line writes in ASCII.  A line of a     *)
(* patch is a record of its mark and the line that follows the mark, whose *)
(* words are a path after the mark of a header.                            *)
(***************************************************************************)
EXTENDS Integers, SequencesExt, FiniteSetsExt

Word(w) == [words |-> w, before |-> "", after |-> "", style |-> ""]
Blank == Word("")
IsBlank(line) == line.words = ""

\* A line that is not UTF-8, which no patch says; a text with one cannot be read
Garbled == Word("not UTF-8")
Decodes(text) == Garbled \notin Range(text)

Mark(m, line) == [mark |-> m, line |-> line]

\* What an update of one file says: an optional line to search first, the lines
\* to find, the lines to put there, and whether they end the file
Chunk(context, old, new, eof) == [context |-> context, old |-> old, new |-> new, eof |-> eof]
Add(path, content) == [type |-> "add", path |-> path, content |-> content]
Delete(path) == [type |-> "delete", path |-> path]
Update(path, to, chunks) == [type |-> "update", path |-> path, to |-> to, chunks |-> chunks]

-----------------------------------------------------------------------------
\* Parsing.  The patch is read line by line; where is what the parser is in the
\* middle of, and change and chunk are what it has read of it

Open == Chunk(<<>>, <<>>, <<>>, FALSE)
ParserInit == [where |-> "top", changes |-> <<>>, change |-> Delete(""), chunk |-> Open, read |-> 0]
Stop(s) == [s EXCEPT !.where = "error"]

\* The change that was being read is complete
Done(s) ==
  CASE s.where = "add" -> [s EXCEPT !.where = "top", !.changes = Append(@, s.change)]
    [] s.where \in {"moving", "hunks"} ->
         IF s.change.chunks = <<>> THEN Stop(s)
         ELSE [s EXCEPT !.where = "top", !.changes = Append(@, s.change)]
    [] OTHER -> s

TopLine(s, l) ==
  CASE l.mark = "add" -> [s EXCEPT !.where = "add", !.change = Add(l.line.words, <<>>)]
    [] l.mark = "delete" -> [s EXCEPT !.changes = Append(@, Delete(l.line.words))]
    [] l.mark = "update" -> [s EXCEPT !.where = "moving", !.change = Update(l.line.words, {}, <<>>)]
    [] OTHER -> Stop(s)

AtTop(s, l) == IF Done(s).where = "error" THEN Stop(s) ELSE TopLine(Done(s), l)

ChunkDone(s) ==
  IF s.read = 0 THEN Stop(s)
  ELSE [s EXCEPT !.where = "hunks", !.change.chunks = Append(@, s.chunk)]

InChunk(s, old, new) ==
  [s EXCEPT !.chunk.old = @ \o old, !.chunk.new = @ \o new, !.read = @ + 1]

\* A line of a chunk, or the first after it
ChunkMarks == {"", " ", "+", "-"}
ChunkLine(s, l) ==
  CASE l.mark \in {"", " "} -> InChunk(s, <<l.line>>, <<l.line>>)
    [] l.mark = "+" -> InChunk(s, <<>>, <<l.line>>)
    [] l.mark = "-" -> InChunk(s, <<l.line>>, <<>>)

\* _parse_update_file_chunk: only the first chunk may do without its marker
NewChunk(s, context) == [s EXCEPT !.where = "chunk", !.chunk = [Open EXCEPT !.context = context], !.read = 0]
Headers == {"add", "delete", "update", "move", "eof"}
Skipped(l) == l.mark \in {"", " "} /\ IsBlank(l.line)

HunksLine(s, l) ==
  CASE Skipped(l) -> [s EXCEPT !.where = "hunks"]
    [] l.mark \in Headers -> AtTop(s, l)
    [] l.mark = "@@" -> NewChunk(s, <<>>)
    [] l.mark = "@@ " -> NewChunk(s, <<l.line>>)
    [] l.mark \in ChunkMarks /\ ~Skipped(l) /\ s.change.chunks = <<>> ->
         ChunkLine(NewChunk(s, <<>>), l)
    [] OTHER -> Stop(s)

ParseLine(s, l) ==
  CASE s.where = "error" -> s
    [] s.where = "add" /\ l.mark = "+" -> [s EXCEPT !.change.content = Append(@, l.line)]
    [] s.where = "moving" /\ l.mark = "move" -> [s EXCEPT !.where = "hunks", !.change.to = {l.line.words}]
    [] s.where = "hunks" \/ (s.where = "moving" /\ l.mark # "move") -> HunksLine(s, l)
    [] s.where = "chunk" /\ l.mark \in ChunkMarks -> ChunkLine(s, l)
    [] s.where = "chunk" /\ l.mark = "eof" -> ChunkDone([s EXCEPT !.chunk.eof = TRUE])
    [] s.where = "chunk" /\ l.mark \notin ChunkMarks \cup {"eof"} -> IF s.read = 0 THEN Stop(s) ELSE HunksLine(ChunkDone(s), l)
    [] OTHER -> AtTop(s, l)

\* A set with the changes of the patch, or the empty set when it is refused
Parse(lines) ==
  LET read == FoldLeft(ParseLine, ParserInit, lines)
      closed == Done(IF read.where = "chunk" THEN ChunkDone(read) ELSE read) IN
  IF closed.where = "error" THEN {} ELSE {closed.changes}

-----------------------------------------------------------------------------
\* Finding lines.  The search is tried exactly, without the blanks at the ends of
\* the lines, without those at their beginnings, and with plain punctuation

Lenience == 1..4
Seen(line, k) ==
  [line EXCEPT !.after = IF k > 1 THEN "" ELSE @,
               !.before = IF k > 2 THEN "" ELSE @,
               !.style = IF k > 3 THEN "" ELSE @]

\* The pattern stands after the first at lines
Fits(lines, pattern, at, k) ==
  \A j \in 1..Len(pattern) : Seen(lines[at + j], k) = Seen(pattern[j], k)

\* _seek_sequence: a set with the place, or the empty set.  The end of the file
\* is searched wherever the search began
Seek(lines, pattern, start, eof) ==
  LET last == Len(lines) - Len(pattern)
      places(k) == {at \in (IF eof THEN last ELSE start)..last : Fits(lines, pattern, at, k)}
      levels == {k \in Lenience : places(k) # {}} IN
  CASE pattern = <<>> -> {start}
    [] pattern # <<>> /\ (last < 0 \/ levels = {}) -> {}
    [] OTHER -> {Min(places(Min(levels)))}

EndsBlank(lines) == lines # <<>> /\ Last(lines) = Blank

\* _compute_update_replacements, one chunk: where the search begins moves past
\* the context and past the lines found
Start(lines, s, chunk) ==
  IF chunk.context = <<>> THEN {s.at}
  ELSE {at + 1 : at \in Seek(lines, chunk.context, s.at, FALSE)}

Place(s, at, len, new, next) ==
  [s EXCEPT !.found = Append(@, [at |-> at, len |-> len, new |-> new]), !.at = next]

Replacement(lines, s, chunk) ==
  LET starts == Start(lines, s, chunk)
      start == CHOOSE i \in starts : TRUE
      short == IF EndsBlank(chunk.old) THEN Front(chunk.old) ELSE chunk.old
      whole == Seek(lines, chunk.old, start, chunk.eof)
      part == IF EndsBlank(chunk.old) THEN Seek(lines, short, start, chunk.eof) ELSE {}
      end == IF EndsBlank(lines) THEN Len(lines) - 1 ELSE Len(lines) IN
  CASE starts = {} -> [s EXCEPT !.ok = FALSE]
    [] starts # {} /\ chunk.old = <<>> -> Place(s, end, 0, chunk.new, start)
    [] starts # {} /\ chunk.old # <<>> /\ whole # {} ->
         LET at == Min(whole) IN Place(s, at, Len(chunk.old), chunk.new, at + Len(chunk.old))
    [] starts # {} /\ chunk.old # <<>> /\ whole = {} /\ part # {} ->
         LET at == Min(part) IN
         Place(s, at, Len(short), IF EndsBlank(chunk.new) THEN Front(chunk.new) ELSE chunk.new,
               at + Len(short))
    [] OTHER -> [s EXCEPT !.ok = FALSE]

Replacements(lines, chunks) ==
  FoldLeft(LAMBDA s, c : IF s.ok THEN Replacement(lines, s, c) ELSE s,
           [ok |-> TRUE, at |-> 0, found |-> <<>>], chunks)

\* list.sort is stable
ByPlace(found) ==
  LET order == SetToSortSeq(DOMAIN found,
                 LAMBDA i, j : found[i].at < found[j].at \/ (found[i].at = found[j].at /\ i < j)) IN
  [i \in DOMAIN found |-> found[order[i]]]

\* del updated[at : at + len] and an insertion there; a slice may pass the end
Replace(lines, r) ==
  SubSeq(lines, 1, Min({r.at, Len(lines)})) \o r.new \o SubSeq(lines, r.at + r.len + 1, Len(lines))

\* A slip: from the beginning, at places that no longer hold
RewrittenForwards(lines, found) == FoldLeft(Replace, lines, ByPlace(found))

\* _apply_update_replacements, from the end of the file to its beginning
Rewritten(lines, found) == FoldRight(LAMBDA r, text : Replace(text, r), ByPlace(found), lines)

\* _apply_update_chunks: a set with the new text, or the empty set.  A blank line
\* at the end of the file is taken for the end of its last line
Patched(lines, chunks) ==
  LET r == Replacements(lines, chunks)
      new == Rewritten(lines, r.found) IN
  IF ~r.ok THEN {} ELSE {IF EndsBlank(new) THEN Front(new) ELSE new}
=============================================================================
