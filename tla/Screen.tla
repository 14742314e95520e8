------------------------------- MODULE Screen -------------------------------
(***************************************************************************)
(* Where the composer's text and cursor come to stand on the screen        *)
(* (src/volley/cli.py): the lines that are shown of a long text, and the   *)
(* rows a line is broken into.  A line is the sequence of the widths of    *)
(* its characters.                                                         *)
(***************************************************************************)
EXTENDS Integers, Sequences
LOCAL INSTANCE FiniteSetsExt
LOCAL INSTANCE SequencesExt

\* _composer_visible_body_line_limit, of the rows of the terminal
BodyLines(rows) == Max({4, Min({12, Max({4, rows - 8})})})

\* one round of _prompt_visible_text_window: where the window starts and ends
\* when so many of its rows tell of omitted lines
Placed(count, at, most, markers) ==
  LET slots == Max({1, most - markers})
      start == Min({Max({0, at - slots + 1}), Max({0, count - slots})}) IN
  [start |-> start, end |-> Min({count, start + slots})]
Markers(w, count) == (IF w.start > 0 THEN 1 ELSE 0) + (IF w.end < count THEN 1 ELSE 0)
\* at most three rounds, until the markers are those that were counted on
Window(count, at, most) ==
  LET first == Placed(count, at, most, 0)
      second == Placed(count, at, most, Markers(first, count))
      third == Placed(count, at, most, Markers(second, count)) IN
  IF count <= most THEN [start |-> 0, end |-> count]
  ELSE IF Markers(first, count) = 0 THEN first
  ELSE IF Markers(second, count) = Markers(first, count) THEN second ELSE third

\* the display line of the cursor, counted from 0
WindowRow(w, at) == (IF w.start > 0 THEN 1 ELSE 0) + at - w.start

-----------------------------------------------------------------------------
Width(line) == FoldLeft(LAMBDA sum, w : sum + w, 0, line)

\* _prompt_line_chunks: <<start, end>> of every row
Chunks(line, width) ==
  LET Put(rows, i) ==
        LET row == Last(rows) IN
        IF row[2] > row[1] /\ line[i] > 0 /\ Width(SubSeq(line, row[1] + 1, i)) > width
        THEN Append(rows, <<i - 1, i>>)
        ELSE Append(Front(rows), <<row[1], i>>) IN
  FoldLeft(Put, <<<<0, 0>>>>, [i \in DOMAIN line |-> i])

\* _prompt_cursor_position in one line: the row and the column, which the
\* prompt's prefix shifts by two
CursorAt(line, c, width) ==
  LET chunks == Chunks(line, width)
      holds == {i \in DOMAIN chunks : c <= chunks[i][2]}
      found == IF holds = {} THEN Len(chunks) ELSE Min(holds)
      row == IF c = chunks[found][1] /\ found > 1 THEN found - 1 ELSE found
      to == Max({chunks[row][1], Min({c, chunks[row][2]})}) IN
  [row |-> row - 1, col |-> 2 + Width(SubSeq(line, chunks[row][1] + 1, to))]
\* and in a text of several lines
CursorPosition(lines, at, c, width) ==
  LET own == CursorAt(lines[at + 1], c, width) IN
  [own EXCEPT !.row = @ + FoldLeft(LAMBDA rows, l : rows + Len(Chunks(l, width)), 0, SubSeq(lines, 1, at))]

\* _slash_visible_start
VisibleStart(selected, total, most) ==
  IF total <= most THEN 0 ELSE Max({0, Min({selected - most \div 2, total - most})})

-----------------------------------------------------------------------------
(* What a reader of the screen relies on, over all small inputs.           *)

(* The cursor's line is shown, beside its neighbours, in at most the rows  *)
(* the composer may take, those that tell of omitted lines included        *)
(* (_prompt_visible_text_window).                                          *)
WindowShowsCursor(counts, limits) ==
  \A most \in limits, count \in counts : \A at \in 0..(count - 1) :
    LET w == Window(count, at, most) IN
    /\ w.start <= at /\ at < w.end
    /\ w.end - w.start + Markers(w, count) <= most
    /\ WindowRow(w, at) \in 0..(most - 1)

(* The rows of a line are the line, none is wider than the box unless it   *)
(* is a single wide character, and the cursor stays inside the box, and    *)
(* moves down or to the right as it moves on (_prompt_line_chunks,         *)
(* _prompt_cursor_position).                                               *)
CursorStaysInBox(lengths, widths, boxes) ==
  \A n \in lengths, box \in boxes : \A line \in [1..n -> widths] :
    LET rows == Chunks(line, box)
        at(c) == CursorAt(line, c, box) IN
    /\ FlattenSeq([i \in DOMAIN rows |-> SubSeq(line, rows[i][1] + 1, rows[i][2])]) = line
    /\ \A c \in 0..n : at(c).row < Len(rows) /\ at(c).col <= 2 + box
    /\ \A c \in 1..n : at(c).row > at(c - 1).row \/ (at(c).row = at(c - 1).row /\ at(c).col >= at(c - 1).col)

(* The selected row of the palette is among those shown.                   *)
SelectionIsShown(totals, most) ==
  \A total \in totals : \A selected \in 0..(total - 1) :
    VisibleStart(selected, total, most) <= selected /\ selected < VisibleStart(selected, total, most) + most

=============================================================================
