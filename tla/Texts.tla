------------------------------- MODULE Texts -------------------------------
(***************************************************************************)
(* Bounded output (src/volley/tools.py): the head and tail buffer that a   *)
(* command's readers fill, and the shortening of a tool's output.  Bytes   *)
(* are the elements of a sequence; a chunk is a sequence of them.          *)
(***************************************************************************)
EXTENDS Integers, Sequences, SequencesExt

Least(a, b) == IF a <= b THEN a ELSE b
First(s, n) == SubSeq(s, 1, Least(n, Len(s)))
Last_(s, n) == SubSeq(s, Len(s) - Least(n, Len(s)) + 1, Len(s))

-----------------------------------------------------------------------------
\* _HeadTailTextBuffer

HeadBudget(max) == max \div 2
TailBudget(max) == max - HeadBudget(max)

NoText == [head |-> <<>>, tail |-> <<>>]

\* _push_tail and _trim_tail
PushTail(max, buffer, chunk) ==
  LET budget == TailBudget(max) IN
  IF budget = 0 THEN buffer
  ELSE IF Len(chunk) >= budget THEN [buffer EXCEPT !.tail = Last_(chunk, budget)]
  ELSE LET tail == buffer.tail \o chunk
           excess == Len(tail) - budget
       IN  [buffer EXCEPT !.tail = IF excess > 0 THEN SubSeq(tail, excess + 1, Len(tail)) ELSE tail]

\* _push_chunk
Push(max, buffer, chunk) ==
  LET left == HeadBudget(max) - Len(buffer.head) IN
  IF chunk = <<>> \/ max = 0 THEN buffer
  ELSE IF left <= 0 THEN PushTail(max, buffer, chunk)
  ELSE IF Len(chunk) <= left THEN [buffer EXCEPT !.head = @ \o chunk]
  ELSE PushTail(max, [buffer EXCEPT !.head = @ \o First(chunk, left)],
                SubSeq(chunk, left + 1, Len(chunk)))

\* to_text
Text(buffer) == buffer.head \o buffer.tail

-----------------------------------------------------------------------------
\* Shortening.  A text is a sequence of characters, each given by the number of
\* bytes it takes in UTF-8

Bytes(text) == FoldLeft(LAMBDA n, char : n + char, 0, text)

\* _approx_tokens_from_byte_count, with unit for APPROX_BYTES_PER_TOKEN
Tokens(unit, bytes) == (bytes + unit - 1) \div unit

\* _split_text_for_byte_budget: the loop over the characters
SplitStep(left, target, state, char) ==
  LET start == state.at
      end == start + char
  IN  IF end <= left THEN [state EXCEPT !.at = end, !.prefix = Append(@, char)]
      ELSE IF start >= target \/ state.suffix # <<>>
           THEN [state EXCEPT !.at = end, !.suffix = Append(@, char)]
           ELSE [state EXCEPT !.at = end]

Split(text, left, right) ==
  LET total == Bytes(text)
      target == IF total > right THEN total - right ELSE 0
  IN  FoldLeft(LAMBDA s, c : SplitStep(left, target, s, c),
               [at |-> 0, prefix |-> <<>>, suffix |-> <<>>], text)

\* _truncate_middle_tokens: the two ends that are kept and the tokens its marker
\* says were removed; -1 stands for a text that is not shortened
TruncateMiddle(unit, text, tokens) ==
  LET budget == tokens * unit IN
  IF text = <<>> \/ (budget > 0 /\ Bytes(text) <= budget)
  THEN [prefix |-> text, suffix |-> <<>>, removed |-> -1]
  ELSE IF budget = 0
  THEN [prefix |-> <<>>, suffix |-> <<>>, removed |-> Tokens(unit, Bytes(text))]
  ELSE LET s == Split(text, budget \div 2, budget - budget \div 2)
       IN  [prefix |-> s.prefix, suffix |-> s.suffix,
            removed |-> Tokens(unit, Bytes(text) - budget)]

\* _truncate_output (the line that counts the lines is left out)
TruncateOutput(unit, text, tokens) ==
  IF Bytes(text) <= tokens * unit THEN [prefix |-> text, suffix |-> <<>>, removed |-> -1]
  ELSE TruncateMiddle(unit, text, tokens)

-----------------------------------------------------------------------------
\* What the two do, over short inputs: TLC evaluates these with every run that
\* uses the module

\* However the output is cut into chunks, the buffer holds all of it, or its first
\* and last bytes
ASSUME BufferKeepsBothEnds ==
  \A max \in 0..5 : \A sizes \in UNION {[1..n -> 0..4] : n \in 0..3} :
    LET chunk(i) == [j \in 1..sizes[i] |-> <<i, j>>]
        chunks == [i \in DOMAIN sizes |-> chunk(i)]
        all == FlattenSeq(chunks)
    IN  Text(FoldLeft(LAMBDA b, c : Push(max, b, c), NoText, chunks))
          = IF Len(all) <= max THEN all
            ELSE First(all, HeadBudget(max)) \o Last_(all, TailBudget(max))

\* A shortened text is two ends of it, within the budget, that do not overlap
ASSUME ShorteningKeepsBothEnds ==
  \A text \in UNION {[1..n -> 1..3] : n \in 0..5}, tokens \in 0..4 :
    LET s == TruncateOutput(2, text, tokens)
    IN  /\ s.prefix = First(text, Len(s.prefix)) /\ s.suffix = Last_(text, Len(s.suffix))
        /\ Len(s.prefix) + Len(s.suffix) <= Len(text)
        /\ s.removed = -1 => s.prefix = text
        /\ s.removed # -1 => Bytes(s.prefix) + Bytes(s.suffix) <= tokens * 2
=============================================================================
