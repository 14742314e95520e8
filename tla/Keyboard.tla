------------------------------ MODULE Keyboard ------------------------------
(***************************************************************************)
(* From bytes to keys (src/volley/cli.py): what the terminal delivers comes*)
(* in reads that may end anywhere, inside a key too, and an Esc is told    *)
(* from the beginning of a key by what follows within 30 milliseconds.     *)
(* A read is late if nothing could be read for that long before it.  The   *)
(* codes are shortened: one symbol for what is the same in all of them.    *)
(***************************************************************************)
EXTENDS Integers, Sequences
LOCAL INSTANCE FiniteSetsExt
LOCAL INSTANCE SequencesExt

Esc == "esc"
PasteStart == <<Esc, "[", "200~">>
PasteEnd == <<Esc, "[", "201~">>
Arrow == <<Esc, "[", "A">>
\* _COMPLETE_PROMPT_ESCAPE_SEQUENCES: none begins another
Known == {PasteStart, Arrow, <<Esc, "O", "A">>}

From(s, n) == SubSeq(s, n + 1, Len(s))
Took(key, in) == [key |-> key, in |-> in]
Fetched(in) == [pending |-> Head(in.reads).bytes, reads |-> Tail(in.reads)]

\* _read_escape_sequence
RECURSIVE Escape(_, _)
Escape(sequence, in) ==
  IF sequence \in Known THEN Took(sequence, in)
  ELSE IF in.pending # <<>>
  THEN Escape(Append(sequence, Head(in.pending)), [in EXCEPT !.pending = Tail(@)])
  ELSE IF in.reads = <<>> \/ Head(in.reads).late THEN Took(sequence, in)
  ELSE Escape(sequence, Fetched(in))

\* _read_bracketed_paste, which waits for the end
RECURSIVE Paste(_, _)
Paste(data, in) ==
  LET ends == {n \in 0..Len(data) : IsPrefix(PasteEnd, From(data, n))} IN
  IF ends # {}
  THEN Took(PasteStart \o SubSeq(data, 1, Min(ends)),
            [in EXCEPT !.pending = From(data, Min(ends) + Len(PasteEnd)) \o @])
  ELSE IF in.pending # <<>> THEN Paste(data \o in.pending, [in EXCEPT !.pending = <<>>])
  ELSE IF in.reads = <<>> THEN Took(PasteStart \o data, in)
  ELSE Paste(data \o Head(in.reads).bytes, [in EXCEPT !.reads = Tail(@)])

\* one key: _read_tty_chunk, and what an Esc begins
Read(in) ==
  LET got == IF in.pending = <<>> THEN Fetched(in) ELSE in
      rest == [got EXCEPT !.pending = Tail(@)]
      escape == Escape(<<Esc>>, rest) IN
  IF Head(got.pending) # Esc THEN Took(<<Head(got.pending)>>, rest)
  ELSE IF escape.key = PasteStart THEN Paste(<<>>, escape.in)
  ELSE escape

\* _TurnInputReader.poll: all of them
RECURSIVE Keys(_)
Keys(in) ==
  IF in.pending = <<>> /\ in.reads = <<>> THEN <<>>
  ELSE <<Read(in).key>> \o Keys(Read(in).in)

-----------------------------------------------------------------------------
(* A user who types keys, and the ways their bytes arrive.                 *)

Bytes(key) == IF IsPrefix(PasteStart, key) THEN key \o PasteEnd ELSE key

\* for each byte but the first: "on" in the same read, in a "next" one, or "late"
Reads(bytes, cuts) ==
  LET Put(reads, i) ==
        IF i = 1 \/ cuts[i] # "on"
        THEN Append(reads, [bytes |-> <<bytes[i]>>, late |-> i > 1 /\ cuts[i] = "late"])
        ELSE Append(Front(reads), [Last(reads) EXCEPT !.bytes = Append(@, bytes[i])]) IN
  FoldLeft(Put, <<>>, [i \in DOMAIN bytes |-> i])

\* a pause may be between keys and inside a pasted text, and has to follow Esc
Pauses(keys, cuts) ==
  LET ends == [k \in 0..Len(keys) |-> FoldLeft(LAMBDA n, key : n + Len(Bytes(key)), 0, SubSeq(keys, 1, k))] IN
  \A i \in DOMAIN cuts :
    /\ cuts[i] = "late" =>
         \E k \in DOMAIN keys :
           \/ i = ends[k - 1] + 1
           \/ Bytes(keys[k]) # keys[k] /\ i > ends[k - 1] + Len(PasteStart) /\ i <= ends[k]
    /\ \A k \in 1..(Len(keys) - 1) : keys[k] = <<Esc>> /\ i = ends[k] + 1 => cuts[i] = "late"

(* However the bytes of the keys are cut into reads, the reader gives back *)
(* those keys: none is lost or torn apart, a pasted text is not read as    *)
(* keys, and an Esc is not taken for the beginning of the next key         *)
(* (_read_tty_chunk, _read_escape_sequence, _read_bracketed_paste).        *)
KeysArrive(typed) ==
  \A keys \in typed :
    LET bytes == FlattenSeq([k \in DOMAIN keys |-> Bytes(keys[k])]) IN
    \A cuts \in [2..Len(bytes) -> {"on", "next", "late"}] :
      Pauses(keys, cuts) => Keys([pending |-> <<>>, reads |-> Reads(bytes, cuts)]) = keys

=============================================================================
