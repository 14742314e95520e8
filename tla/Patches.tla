------------------------------ MODULE Patches ------------------------------
(***************************************************************************)
(* apply_patch of one session (src/volley/tools.py) and the diff of the    *)
(* turn (src/volley/state.py): a patch is parsed, checked against the      *)
(* files, applied change by change, with approval if it leaves the         *)
(* writable roots, and what was applied is recorded.  Agents, commands and *)
(* the user write the same files meanwhile.                                *)
(*                                                                         *)
(* A step is a check of the whole patch, one of its changes, or the record *)
(* of its result.  Each file has one name; there are no directories or     *)
(* links.                                                                  *)
(***************************************************************************)
EXTENDS Approvals, PatchText, TurnDiff

CONSTANTS
  Scripts,     \* what the model asks in sequence, one of them: the policy, the
               \* sandbox, the writable paths, the paths whose directories allow
               \* no new entries and no removals, the files and the patches
  PatchHooks,  \* what the permission hook may answer
  PatchProviders,  \* what the provider may answer
  Foreign,     \* what others may write: sets of a path, and of a text or nothing
  MaxForeign   \* bound: writes of others

\* Patches come one after the other, and line by line
WellFormed(patches) ==
  /\ patches \in Seq(Range(patches))
  /\ \A p \in Range(patches) : p.kind = "volley" => p.lines \in Seq(Range(p.lines))
ASSUME ScriptsAssumption == \A s \in Scripts : WellFormed(s.patches)

VARIABLES
  script,      \* the configuration and what is still to be asked
  files,       \* the text of each file
  approved,    \* _approval_cache
  tracker,     \* the turn's diff
  pc,          \* what apply_patch does
  queue,       \* the changes still to apply
  free,        \* writable_roots = None
  affected,    \* what was applied
  asked,       \* history: the changes the patch was written for
  read,        \* history: the changes its lines were read as
  before,      \* history: the files when the patch began
  quiet,       \* history: nobody else has written since
  start,       \* history: the files at the beginning of the turn
  unseen,      \* history: the paths that changed in the turn with no record
  foreign      \* writes of others so far

patch == <<queue, free, affected>>
history == <<asked, read, before, quiet, start>>
patchesVars == <<script, files, approved, tracker, pc, patch, history, unseen, foreign>>

PatchesInit ==
  /\ script \in Scripts
  /\ files = script.files /\ start = files /\ before = files
  /\ approved = {} /\ tracker = Untracked
  /\ pc = "idle" /\ asked = <<>> /\ read = <<>> /\ queue = <<>> /\ free = FALSE /\ affected = <<>>
  /\ quiet = TRUE /\ unseen = {} /\ foreign = 0

-----------------------------------------------------------------------------
\* What can be wrong with a change: the first of these is the error of the patch

Target(c) == IF c.type = "update" THEN c.to ELSE {}
Touched(changes) == UNION {{c.path} \cup Target(c) : c \in Range(changes)}

Escapes(paths) == ~free /\ script.sandbox = "workspace-write" /\ ~(paths \subseteq script.inside)

\* A slip: the chunks are not tried
VerifiedPaths(c) ==
  IF Escapes({c.path} \cup Target(c)) THEN "escape"
  ELSE IF c.type = "add" \/ c.path \in DOMAIN files THEN "ok" ELSE "error"

\* _verify_volley_patch_changes, one change
Verified(c) ==
  IF Escapes({c.path}) THEN "escape"
  ELSE IF \/ c.type # "add" /\ ~(c.path \in DOMAIN files /\ Decodes(files[c.path]))
          \/ c.type = "update" /\ Patched(files[c.path], c.chunks) = {} THEN "error"
  ELSE IF Escapes(Target(c)) THEN "escape" ELSE "ok"

Verdict ==
  LET bad == {i \in DOMAIN queue : Verified(queue[i]) # "ok"} IN
  CASE queue = <<>> -> "error"
    [] bad # {} -> Verified(queue[Min(bad)])
    [] OTHER -> "ok"

\* Files come and go only where the directory allows it
MayHold(p) == p \in DOMAIN files \/ p \notin script.stuck

\* A file that is written over is read first, for the record: the check has not tried
MayWrite(p) == MayHold(p) /\ \A text \in TextAt(files, p) : Decodes(text)

-----------------------------------------------------------------------------
\* The tool call

Result(ok) == pc' = IF ok THEN "applied" ELSE "failed"

\* apply_patch, up to _parse_volley_patch
Call ==
  /\ pc = "idle" /\ script.patches # <<>>
  /\ script' = [script EXCEPT !.patches = Tail(@)]
  /\ before' = files /\ quiet' = TRUE
  /\ LET p == Head(script.patches) IN
     /\ p.kind = "volley"
     /\ asked' = p.changes
     /\ IF script.sandbox = "read-only" \/ Parse(p.lines) = {}
        THEN queue' = <<>> /\ Result(FALSE)
        ELSE queue' \in Parse(p.lines) /\ pc' = "verify"
     /\ read' = queue'
  /\ free' = FALSE /\ affected' = <<>>
  /\ UNCHANGED <<files, approved, tracker, start, unseen, foreign>>

\* The check of the whole patch: an escape may be asked for, and then the patch is
\* checked again
Verify ==
  /\ pc = "verify"
  /\ CASE Verdict = "ok" -> pc' = "apply"
       [] Verdict = "error" -> Result(FALSE)
       [] Verdict = "escape" -> pc' = "ask"
  /\ UNCHANGED <<script, files, approved, tracker, patch, history, unseen, foreign>>

\* _apply_patch_approval_error for these paths: _approval_cache as it is when the
\* request is granted, and whether it may be denied
Decisive == {Outcome(h, d) : h \in PatchHooks, d \in PatchProviders}
IfGranted(paths) ==
  IF ~PatchMayAsk([policy |-> script.policy]) THEN {}
  ELSE IF Settled(approved, paths) THEN {approved}
  ELSE {IF a = "session" THEN approved \cup paths ELSE approved : a \in Decisive \ {"denied"}}
MayDeny(paths) ==
  ~PatchMayAsk([policy |-> script.policy]) \/ (~Settled(approved, paths) /\ "denied" \in Decisive)

AskApproval ==
  /\ pc = "ask"
  /\ \/ approved' \in IfGranted(Touched(queue)) /\ pc' = "verify" /\ free' = TRUE
     \/ MayDeny(Touched(queue)) /\ Result(FALSE) /\ UNCHANGED <<approved, free>>
  /\ UNCHANGED <<script, files, tracker, queue, affected, history, unseen, foreign>>

Did(change, texts) == affected' = Append(affected, change) /\ queue' = Tail(queue) /\ files' = texts
Applying == queue # <<>> /\ pc = "apply"
Current == Head(queue)

AddFile ==
  /\ Applying /\ Current.type = "add" /\ MayWrite(Current.path)
  /\ LET text == IF Current.content = <<>> THEN <<Blank>> ELSE Current.content
         p == Current.path IN
     Did([type |-> "add", path |-> p, over |-> TextAt(files, p), new |-> text], Put(files, p, text))
  /\ UNCHANGED <<script, approved, tracker, pc, free, history, unseen, foreign>>

MayDelete(p) == p \in DOMAIN files \ script.stuck /\ Decodes(files[p])

DeleteFile ==
  /\ Applying /\ Current.type = "delete" /\ MayDelete(Current.path)
  /\ Did([type |-> "delete", path |-> Current.path, old |-> files[Current.path]], Without(files, Current.path))
  /\ UNCHANGED <<script, approved, tracker, pc, free, history, unseen, foreign>>

NewTexts(c) ==
  IF c.path \in DOMAIN files /\ Decodes(files[c.path]) THEN Patched(files[c.path], c.chunks) ELSE {}

UpdateFile ==
  /\ Applying /\ Current.type = "update" /\ Current.to = {}
  /\ \E text \in NewTexts(Current) :
       Did([type |-> "update", path |-> Current.path, old |-> files[Current.path], new |-> text],
           Put(files, Current.path, text))
  /\ UNCHANGED <<script, approved, tracker, pc, free, history, unseen, foreign>>

\* The target is written, then the original removed: of a file moved onto itself
\* nothing is left, and the record says that it was updated
MoveFile ==
  /\ Applying /\ Current.type = "update" /\ Current.path \notin script.stuck
  /\ \E text \in NewTexts(Current), to \in Current.to :
       /\ MayWrite(to)
       /\ Did([type |-> "move", path |-> Current.path, to |-> to, over |-> TextAt(files, to),
               old |-> files[Current.path], new |-> text],
              Without(Put(files, to, text), Current.path))
       /\ unseen' = IF to = Current.path THEN unseen \cup {to} ELSE unseen
  /\ UNCHANGED <<script, approved, tracker, pc, free, history, foreign>>

\* A change that can no longer be made, or would write over what cannot be read, ends
\* the patch.  A move whose original cannot be removed has written its target
Broken ==
  \/ Current.type = "add" /\ ~MayWrite(Current.path)
  \/ Current.type = "delete" /\ ~MayDelete(Current.path)
  \/ /\ Current.type = "update"
     /\ \/ NewTexts(Current) = {} \/ (Current.to # {} /\ Current.path \in script.stuck)
        \/ \E to \in Current.to : ~MayWrite(to)

HalfMoved == Current.type = "update" /\ NewTexts(Current) # {} /\ \A to \in Current.to : MayWrite(to)

ChangeFails ==
  /\ Applying /\ Broken
  /\ IF HalfMoved
     THEN \E text \in NewTexts(Current), to \in Current.to :
            files' = Put(files, to, text) /\ unseen' = unseen \cup {to}
     ELSE UNCHANGED <<files, unseen>>
  /\ Result(FALSE)
  /\ UNCHANGED <<script, approved, tracker, patch, history, foreign>>

AllDone ==
  /\ pc = "apply" /\ queue = <<>>
  /\ Result(TRUE)
  /\ UNCHANGED <<script, files, approved, tracker, patch, history, unseen, foreign>>

\* _record_tool_result, of a patch that failed in the middle too
Record ==
  /\ pc \in {"applied", "failed"}
  /\ tracker' = FoldLeft(Track, tracker, affected)
  /\ pc' = "idle"
  /\ UNCHANGED <<script, files, approved, patch, history, unseen, foreign>>

-----------------------------------------------------------------------------
\* A patch in another format: git apply or patch --fuzz makes some of its changes,
\* and no record of them.  The paths it names are those of its headers
DiffPatch ==
  /\ pc = "idle" /\ script.patches # <<>> /\ Head(script.patches).kind = "diff"
  /\ script' = [script EXCEPT !.patches = Tail(@)]
  /\ LET p == Head(script.patches)
         inside == script.sandbox = "danger-full-access" \/ p.paths \subseteq script.inside IN
     \/ /\ script.sandbox # "read-only" /\ p.paths # {}
        /\ IF inside THEN UNCHANGED approved ELSE approved' \in IfGranted(p.paths)
        /\ \E F \in SUBSET p.paths :
             /\ files' = [q \in DOMAIN files \cup F |-> IF q \in F THEN p.text ELSE files[q]]
             /\ unseen' = unseen \cup F
     \/ UNCHANGED <<files, approved, unseen>>
  /\ UNCHANGED <<tracker, pc, patch, history, foreign>>

\* start_turn
StartTurn ==
  /\ pc = "idle" /\ script.patches # <<>> /\ tracker # Untracked
  /\ tracker' = Untracked /\ start' = files /\ unseen' = {}
  /\ UNCHANGED <<script, files, approved, pc, patch, asked, read, before, quiet, foreign>>

\* Another writer of the same files
Others ==
  /\ foreign < MaxForeign
  /\ \E w \in Foreign :
       /\ files' = IF w.text = {} THEN Restrict(files, DOMAIN files \ {w.path})
                   ELSE Put(files, w.path, CHOOSE text \in w.text : TRUE)
       /\ files' # files
       /\ unseen' = unseen \cup {w.path}
  /\ quiet' = FALSE /\ foreign' = foreign + 1
  /\ UNCHANGED <<script, approved, tracker, pc, patch, asked, read, before, start>>

PatchesNext ==
  \/ Call \/ Verify \/ AskApproval \/ AddFile \/ DeleteFile \/ UpdateFile \/ MoveFile
  \/ ChangeFails \/ AllDone \/ Record \/ DiffPatch \/ StartTurn \/ Others

PatchesSpec == PatchesInit /\ [][PatchesNext]_patchesVars

-----------------------------------------------------------------------------
\* Properties

\* What a reader makes of the diff of a turn
Shown(p) ==
  LET d == Diff(tracker)
      written == {e \in d : e.right = p /\ e.new # {}} IN
  IF written # {} THEN UNION {e.new : e \in written}
  ELSE IF \E e \in d : e.left = p THEN {} ELSE TextAt(start, p)

\* A file that was moved and is otherwise as it was is not shown
MovedUnchanged ==
  UNION {{o, MovedTo(tracker)[o]} : o \in
           {q \in DOMAIN MovedTo(tracker) : tracker.baseline[q] = tracker.current[MovedTo(tracker)[q]]}}

\* Between calls the diff of the turn, read on the files the turn began with, gives
\* the files as they are, of every path that only this session's patches wrote:
\* files added, changed, moved, moved again, overwritten and deleted in several
\* patches, some of which stopped halfway
\* (record_apply_patch_turn_diff, src/volley/state.py)
TurnDiffIsNet ==
  pc = "idle" =>
    /\ \A p \in DOMAIN start \cup DOMAIN files \cup DOMAIN tracker.baseline \cup DOMAIN tracker.current :
         p \notin unseen \cup MovedUnchanged => Shown(p) = TextAt(files, p)
    /\ \A e \in Diff(tracker) : e.left \notin unseen => e.old = TextAt(start, e.left)

\* No path is named twice
Distinct(changes) ==
  /\ \A i \in DOMAIN changes : changes[i].path \notin Target(changes[i])
  /\ \A i, j \in DOMAIN changes : i # j => Touched(<<changes[i]>>) \cap Touched(<<changes[j]>>) = {}

\* A change that adds or moves a file over one that is not UTF-8
OverGarbled(c) ==
  \E p \in IF c.type = "add" THEN {c.path} ELSE Target(c) : \E text \in TextAt(before, p) : ~Decodes(text)

\* A patch that is refused has changed nothing: what stops it is found before its
\* first change is made, if nobody else writes and no directory refuses.  There is one
\* thing that is not looked for, whether a file that a change writes over is UTF-8: a
\* patch that such a change stops has made the changes before it, has them all in its
\* result, and has touched nothing else
\* (_verify_volley_patch_changes, _apply_volley_patch_changes, src/volley/tools.py)
AllOrNothing ==
  pc = "failed" /\ quiet /\ Distinct(read) /\ Touched(read) \cap script.stuck = {} =>
    \/ files = before /\ affected = <<>>
    \/ \E i \in DOMAIN read :
         /\ OverGarbled(read[i]) /\ Len(affected) = i - 1
         /\ \A p \in DOMAIN before \cup DOMAIN files :
              TextAt(files, p) # TextAt(before, p) => \E j \in 1..(i - 1) : p \in Touched(<<read[j]>>)

\* Where the lines of a chunk may stand in a text: after its context, or at
\* the end of the text, wherever its context is
Stands(text, chunk) ==
  IF chunk.old = <<>>
  THEN {IF EndsBlank(text) THEN Len(text) - 1 ELSE Len(text)}
  ELSE {at \in 0..(Len(text) - Len(chunk.old)) :
          /\ Fits(text, chunk.old, at, Max(Lenience))
          /\ chunk.eof => at + Len(chunk.old) = Len(text)
          /\ chunk.context # <<>> /\ ~chunk.eof => \E k \in 0..(at - 1) : Fits(text, chunk.context, k, Max(Lenience))}
Placements(text, chunks, reading) ==
  {f \in [DOMAIN chunks -> 0..Len(text)] : \A i \in DOMAIN chunks :
     reading[i].old # <<>> \/ chunks[i].old = <<>> => f[i] \in Stands(text, reading[i])}
Apart(chunks, f) ==
  \A i, j \in DOMAIN chunks : i # j =>
    /\ f[i] # f[j]
    /\ f[i] + Len(chunks[i].old) <= f[j] \/ f[j] + Len(chunks[j].old) <= f[i]

\* The text with the chunks at these places: each line outside them stays
Spliced(text, chunks, f) ==
  LET at(i) == {k \in DOMAIN chunks : f[k] = i}
      inside(i) == \E k \in DOMAIN chunks : f[k] <= i /\ i < f[k] + Len(chunks[k].old)
      piece(i) == (IF at(i) = {} THEN <<>> ELSE chunks[Min(at(i))].new)
                  \o (IF inside(i) \/ i = Len(text) THEN <<>> ELSE <<text[i + 1]>>) IN
  FlattenSeq([i \in 1..(Len(text) + 1) |-> piece(i - 1)])

\* A blank line at the end may be taken for the end of the line before it
SameText(a, b) == a = b \/ (EndsBlank(b) /\ a = Front(b))

\* A blank line at the end of a chunk need not be in the file: a chunk that looks for
\* nothing else may then stand anywhere
Shorter(chunk) == [chunk EXCEPT !.old = Front(@), !.new = IF EndsBlank(@) THEN Front(@) ELSE @]
Readings(chunks) ==
  {r \in [DOMAIN chunks -> Range(chunks) \cup {Shorter(c) : c \in {d \in Range(chunks) : EndsBlank(d.old)}}] :
     \A i \in DOMAIN chunks :
       r[i] = chunks[i] \/ (EndsBlank(chunks[i].old) /\ r[i] = Shorter(chunks[i]))}

UpdateIs(text, chunks, new) ==
  \E r \in Readings(chunks) :
    \E f \in Placements(text, chunks, r) : Apart(r, f) => SameText(new, Spliced(text, r, f))

ChangeIs(c) ==
  CASE c.type = "add" -> TextAt(files, c.path) = {IF c.content = <<>> THEN <<Blank>> ELSE c.content}
    [] c.type = "delete" -> c.path \notin DOMAIN files
    [] c.type = "update" ->
         /\ \A p \in Target(c) : c.path \notin DOMAIN files
         /\ \E text \in TextAt(files, IF c.to = {} THEN c.path ELSE CHOOSE p \in c.to : TRUE) :
              UpdateIs(before[c.path], c.chunks, text)

\* A patch that was applied has made the changes it was written with and no other:
\* in each updated file every chunk's new lines stand where its old lines stood,
\* and the lines of no chunk are as they were.  Nothing is claimed when two chunks
\* of a file can be found over one another
\* (_parse_volley_patch, _apply_update_chunks, src/volley/tools.py)
PatchedAsAsked ==
  pc = "applied" /\ quiet /\ Distinct(asked) =>
    /\ \A i \in DOMAIN asked : ChangeIs(asked[i])
    /\ \A p \in DOMAIN before \cup DOMAIN files :
         p \notin Touched(asked) => TextAt(files, p) = TextAt(before, p)

=============================================================================
