------------------------------- MODULE Gemini -------------------------------
(***************************************************************************)
(* Responses items and Gemini's generateContent (src/volley/model.py):     *)
(* the history as contents, and the parts of an answer, streamed or whole, *)
(* as items.  Texts are sequences; names, ids and signatures are values.   *)
(***************************************************************************)
EXTENDS Naturals, Sequences, SequencesExt, TLC

NoId == 0          \* an id, a name or a signature that is not there

\* What a part of an answer may be, and a call's arguments with it
TextPart(t) == [kind |-> "text", text |-> t, id |-> NoId, name |-> NoId, sig |-> NoId]
CallPart(id, name, sig) == [kind |-> "call", text |-> <<>>, id |-> id, name |-> name, sig |-> sig]
OtherPart == [TextPart(<<>>) EXCEPT !.kind = "other"]

-----------------------------------------------------------------------------
(* The answer *)

Message(t) == [type |-> "message", role |-> "assistant", text |-> t, id |-> NoId,
               name |-> NoId, sig |-> NoId]
\* A call without an id is given one of its place among the calls of its answer.
GivenId(n) == 100 + n
CallItem(p, n) ==
  [type |-> "function_call", role |-> "model", text |-> <<>>, name |-> p.name, sig |-> p.sig,
   id |-> IF p.id = NoId THEN GivenId(n) ELSE p.id]

\* _gemini_candidate_parts: the parts of all candidates, in order.
CandidateParts(candidates) == FlattenSeq(candidates)

\* _iter_gemini_stream_events: text is collected, and completed before a call and at
\* the end.  An event is <<what, the item's place in the output>>.
Nothing == [items |-> <<>>, text |-> <<>>, started |-> FALSE, calls |-> 0, events |-> <<>>]
Flush(s) ==
  IF ~s.started THEN s
  ELSE [s EXCEPT !.items = Append(@, Message(s.text)), !.text = <<>>, !.started = FALSE,
                 !.events = Append(@, <<"completed", Len(s.items)>>)]
StreamText(s, p) ==
  IF p.text = <<>> THEN s
  ELSE LET place == Len(s.items)
           start == IF s.started THEN <<>> ELSE << <<"started", place>> >>
       IN  [s EXCEPT !.text = @ \o p.text, !.started = TRUE,
                     !.events = @ \o start \o << <<"delta", place>> >>]
StreamCall(s, p) ==
  LET f == Flush(s)
      place == Len(f.items)
  IN  [f EXCEPT !.items = Append(@, CallItem(p, s.calls)), !.calls = @ + 1,
                !.events = @ \o << <<"started", place>>, <<"delta", place>>,
                                   <<"completed", place>> >>]
StreamPart(s, p) ==
  CASE p.kind = "text" -> StreamText(s, p)
    [] p.kind = "call" -> StreamCall(s, p)
    [] OTHER           -> s
StreamChunk(s, candidates) == FoldLeft(StreamPart, s, CandidateParts(candidates))
Streamed(chunks) == Flush(FoldLeft(StreamChunk, Nothing, chunks))

\* _gemini_output_items: the same of an answer that came whole.
WholePart(s, p) ==
  CASE p.kind = "text" -> [s EXCEPT !.text = @ \o p.text]
    [] p.kind = "call" ->
         [s EXCEPT !.items = (IF s.text = <<>> THEN @ ELSE Append(@, Message(s.text)))
                             \o <<CallItem(p, s.calls)>>,
                   !.text = <<>>, !.calls = @ + 1]
    [] OTHER -> s
OutputItems(candidates) ==
  LET s == FoldLeft(WholePart, Nothing, CandidateParts(candidates))
  IN  IF s.text = <<>> THEN s.items ELSE Append(s.items, Message(s.text))

-----------------------------------------------------------------------------
(* The request *)

\* _gemini_content_items: what an item is to Gemini.  names remembers the calls so
\* far; system collects what is not a content.
Content(role, part) == [role |-> role, part |-> part]
ContentOf(item, names) ==
  CASE item.type = "message" ->
         Content(IF item.role = "assistant" THEN "model" ELSE "user", TextPart(item.text))
    [] item.type = "function_call" -> Content("model", CallPart(item.id, item.name, item.sig))
    [] item.type = "function_call_output" ->
         Content("user", [CallPart(item.id, IF item.id \in DOMAIN names THEN names[item.id]
                                            ELSE item.name, NoId) EXCEPT !.kind = "response"])
    [] item.type \in {"reasoning", "web_search_call"} -> Content("model", TextPart(item.text))

IsSystem(item) == item.type = "message" /\ item.role \in {"developer", "system"}
IsDropped(item) ==
  item.type \notin {"message", "function_call", "function_call_output", "web_search_call"}
  /\ (item.type = "reasoning" => item.text = <<>>)

\* _gemini_request_body: a request has contents, even if there is nothing to say.
AddItem(s, item) ==
  IF IsSystem(item) THEN [s EXCEPT !.system = @ \o item.text]
  ELSE IF IsDropped(item) THEN s
  ELSE [s EXCEPT !.contents = Append(@, ContentOf(item, s.names)),
                 !.names = IF item.type = "function_call" THEN (item.id :> item.name) @@ @ ELSE @]
RequestBody(instructions, items) ==
  LET s == FoldLeft(AddItem, [system |-> instructions, contents |-> <<>>, names |-> <<>>], items)
  IN  [system |-> s.system,
       contents |-> IF s.contents = <<>> THEN <<Content("user", TextPart(<<>>))>>
                    ELSE s.contents]

-----------------------------------------------------------------------------
(* What an answer is to say of itself when it is sent back, from its parts alone *)

CallPlaces(ps) == SelectSeq([i \in 1..Len(ps) |-> i], LAMBDA i : ps[i].kind = "call")
TextOf(ps) == FlattenSeq([i \in 1..Len(ps) |-> IF ps[i].kind = "text" THEN ps[i].text ELSE <<>>])
\* The calls, each with all the text before it, and the text in the end
Told(ps) ==
  LET places == CallPlaces(ps)
  IN  [calls |-> [n \in 1..Len(places) |->
                    <<ps[places[n]].name, ps[places[n]].sig, TextOf(SubSeq(ps, 1, places[n]))>>],
       text |-> TextOf(ps)]

Parts == {TextPart(<<>>), TextPart(<<1>>), TextPart(<<2>>), OtherPart,
          CallPart(NoId, 7, 3), CallPart(5, 8, NoId)}
Answers == SeqOf(Parts, 4)
\* One chunk, or one for each part; one candidate, or two
Chunkings(ps) ==
  {<< <<ps>> >>, [i \in 1..Len(ps) |-> << <<ps[i]>> >>],
   << << <<>>, ps >> >>, << << SubSeq(ps, 1, Len(ps) \div 2) >>,
                            << SubSeq(ps, Len(ps) \div 2 + 1, Len(ps)) >> >>}

\* The events of an answer open and close its items one after the other, in order.
Opened(events) == SelectSeq(events, LAMBDA e : e[1] = "started")
EventsInOrder(s) ==
  /\ Len(Opened(s.events)) = Len(s.items)
  /\ \A i \in 1..Len(s.events) :
       /\ s.events[i][1] = "started" =>
            s.events[i][2] = Len(Opened(SubSeq(s.events, 1, i))) - 1
       /\ s.events[i][1] # "started" => i > 1 /\ s.events[i][2] = s.events[i - 1][2]

\* An answer is the same items whether it came whole or in chunks of any size, and
\* its stream is one item after the other (_iter_gemini_stream_events).
ASSUME StreamedAsWhole ==
  \A ps \in Answers : \A chunks \in Chunkings(ps) :
    /\ Streamed(chunks).items = OutputItems(<<ps>>)
    /\ EventsInOrder(Streamed(chunks))

\* Sent back, an answer says what it said: no text lost, each call after the same
\* text, under its name and with its signature (_gemini_request_body).
ASSUME AnswersComeBack ==
  \A ps \in Answers :
    LET contents == RequestBody(<<>>, OutputItems(<<ps>>)).contents
    IN  /\ Told([i \in 1..Len(contents) |-> contents[i].part]) = Told(ps)
        /\ \A i \in 1..Len(contents) : OutputItems(<<ps>>) # <<>> => contents[i].role = "model"

\* A response is sent under the name of the call it answers, even where answers
\* without ids gave theirs to calls of several turns.
Output(call) == [call EXCEPT !.type = "function_call_output", !.name = NoId, !.sig = NoId]
ASSUME ResponsesAreNamed ==
  \A ps, qs \in {s \in Answers : Len(s) <= 2} :
    LET turn(xs) == LET items == OutputItems(<<xs>>)
                        calls == SelectSeq(items, LAMBDA i : i.type = "function_call")
                    IN  items \o [i \in 1..Len(calls) |-> Output(calls[i])]
        contents == RequestBody(<<>>, turn(ps) \o turn(qs)).contents
        of(kind) == SelectSeq(contents, LAMBDA c : c.part.kind = kind)
        names(cs) == [i \in 1..Len(cs) |-> cs[i].part.name]
        two(xs) == \E i, j \in 1..Len(xs) : i # j /\ xs[i].id = 5 /\ xs[j].id = 5
    IN  ~two(ps) /\ ~two(qs) => names(of("response")) = names(of("call"))
=============================================================================
