------------------------------ MODULE History ------------------------------
(***************************************************************************)
(* The history of a session as a sequence of items, and what volley makes  *)
(* of it: the prompt of a request, the history after a compaction, the     *)
(* block of recent activity.  An item is known by its kind and a number;   *)
(* a call and its output have the same number.                             *)
(***************************************************************************)
EXTENDS Selection, SequencesExt

Kinds == {"developer", "context", "user", "note", "marker", "reply", "call",
          "output", "summary", "checkpoint", "header", "footer"}

Item(kind, n) == [kind |-> kind, id |-> n]

\* build_initial_context_items: the developer message and the contextual
\* user message (AGENTS.md and the environment).
InitialContext == <<Item("developer", 0), Item("context", 0)>>

HasKind(h, kind) == \E i \in DOMAIN h : h[i].kind = kind

OfKinds(h, kinds) == Only(h, [kind : kinds, id : Nat])

-----------------------------------------------------------------------------
(* What is sent.                                                           *)

HasOutput(h, n) == \E i \in DOMAIN h : h[i] = Item("output", n)

HasCall(h, n) == \E i \in DOMAIN h : h[i] = Item("call", n)

\* A slip: only a call at the end of the history is completed.
EnsureLastOutput(h) ==
  IF h # <<>> /\ Last(h).kind = "call"
  THEN Append(h, Item("output", Last(h).id))
  ELSE h

\* A call without an output gets an "aborted" one, right after it.
EnsureOutputs(h) ==
  FlattenSeq([i \in DOMAIN h |->
                IF h[i].kind = "call" /\ ~HasOutput(h, h[i].id)
                THEN <<h[i], Item("output", h[i].id)>>
                ELSE <<h[i]>>])

RemoveOrphans(h) ==
  Only(h, {e \in Range(h) : e.kind = "output" => HasCall(h, e.id)})

Prepare(h) == RemoveOrphans(EnsureOutputs(h))

-----------------------------------------------------------------------------
(* The block of recent activity that a compaction may put after its        *)
(* summary.                                                                *)

\* Everything outside the blocks that earlier compactions left.
WithoutBlocks(h) ==
  LET Mark(i) == h[i].kind \in {"header", "footer"}
      InBlock(i) == \E j \in 1..i, k \in i..Len(h) :
                       /\ h[j].kind = "header" /\ h[k].kind = "footer"
                       /\ \A m \in j+1..k-1 : ~Mark(m)
      kept == Only([i \in DOMAIN h |-> i], {i \in DOMAIN h : ~InBlock(i)})
  IN [n \in DOMAIN kept |-> h[kept[n]]]

\* What of a history a block may show.
Compressible(h) ==
  OfKinds(WithoutBlocks(h), {"user", "reply", "call", "output"})

\* The last n compressible items, as many as the budget allows.
RecentBlock(h, n) ==
  LET c == Compressible(h)
      shown == EnsureOutputs(RemoveOrphans(SubSeq(c, Len(c) - n + 1, Len(c))))
  IN IF shown = <<>> THEN <<>>
     ELSE <<Item("header", 0)>> \o shown \o <<Item("footer", 0)>>

-----------------------------------------------------------------------------
(* Compaction.                                                             *)

\* The initial context goes before the last message of the user; if there is
\* none, before the last checkpoint; else before the last summary.
InsertionPoint(h) ==
  LET At(kind) == {i \in DOMAIN h : h[i].kind = kind}
  IN CASE At("user") # {} -> Max(At("user"))
       [] At("user") = {} /\ At("checkpoint") # {} -> Max(At("checkpoint"))
       [] At("user") = {} /\ At("checkpoint") = {} /\ At("summary") # {}
            -> Max(At("summary"))
       [] OTHER -> Len(h) + 1

InsertContext(h, context) ==
  LET at == InsertionPoint(h)
  IN SubSeq(h, 1, at - 1) \o context \o SubSeq(h, at, Len(h))

\* A slip: the texts are kept although the block shows them.
SummarisedTwice(h, summary, context, block, keep) ==
  LET texts == OfKinds(h, {"user"})
  IN InsertContext(Append(SubSeq(texts, Len(texts) - keep + 1, Len(texts)),
                          summary), context) \o block

\* compact_with_summary: the last `keep` texts of the user that fit, unless
\* the block shows them, then the summary.
Summarised(h, summary, context, block, keep) ==
  LET texts == OfKinds(h, {"user"})
      kept == IF block = <<>>
              THEN SubSeq(texts, Len(texts) - keep + 1, Len(texts)) ELSE <<>>
  IN InsertContext(Append(kept, summary), context) \o block

\* compact_with_remote_history: the endpoint answers with its checkpoint.
Checkpointed(checkpoint, context, block) ==
  InsertContext(<<checkpoint>>, context) \o block

-----------------------------------------------------------------------------
(* What a resumed session asks of its history.                             *)

\* A slip: the markers of a block pass for the developer message.
HasContextOrBlock(h) ==
  HasKind(h, "developer") \/ HasKind(h, "context") \/ HasKind(h, "header")

HasContext(h) == HasKind(h, "developer") \/ HasKind(h, "context")
=============================================================================
