------------------------------ MODULE Settings ------------------------------
(***************************************************************************)
(* /fast (src/volley/cli.py): the service tier of the session, and the     *)
(* lines of config.toml it is kept in, edited in place beside whatever else*)
(* the user wrote there.  A text is a sequence of lines, of which only the *)
(* last may have no newline; a line is a table's header, a key or another. *)
(***************************************************************************)
EXTENDS Integers, Sequences
LOCAL INSTANCE FiniteSets
LOCAL INSTANCE FiniteSetsExt
LOCAL INSTANCE SequencesExt

Key(name, value) == [kind |-> "key", name |-> name, value |-> value, ends |-> TRUE]
Header(name) == [kind |-> "table", name |-> name, value |-> "", ends |-> TRUE]
EmptyLine == [kind |-> "other", name |-> "", value |-> "", ends |-> TRUE]

Tier == "service_tier"
OptOut == "fast_default_opt_out"
Tables(text) == {i \in DOMAIN text : text[i].kind = "table"}
RootEnd(text) == Min({Len(text)} \cup {i - 1 : i \in Tables(text)})
IsKey(line, name) == line.kind = "key" /\ line.name = name
\* a line behind line n, which gets its newline if it has none
Ended(text) == [i \in DOMAIN text |-> [text[i] EXCEPT !.ends = TRUE]]
InsertAfter(text, n, line) == Ended(SubSeq(text, 1, n)) \o <<line>> \o SubSeq(text, n + 1, Len(text))
Replaced(text, i, value) == [text EXCEPT ![i].value = value]

\* _update_service_tier_toml; no tier is ""
WithTier(text, tier) ==
  LET own == {i \in 1..RootEnd(text) : IsKey(text[i], Tier)} IN
  IF own # {} THEN IF tier = "" THEN RemoveAt(text, Min(own)) ELSE Replaced(text, Min(own), tier)
  ELSE IF tier = "" THEN text ELSE InsertAfter(text, RootEnd(text), Key(Tier, tier))

\* _update_notices_fast_default_opt_out_toml
WithOptOut(text, value) ==
  LET starts == {i \in Tables(text) : text[i].name = "notices"}
      start == Min(starts)
      end == Min({Len(text)} \cup {i - 1 : i \in {j \in Tables(text) : j > start}})
      own == {i \in (start + 1)..end : IsKey(text[i], OptOut)} IN
  IF starts = {}
  THEN Ended(text) \o (IF text = <<>> THEN <<>> ELSE <<EmptyLine>>) \o <<Header("notices"), Key(OptOut, value)>>
  ELSE IF own # {} THEN Replaced(text, Min(own), value)
  ELSE InsertAfter(text, end, Key(OptOut, value))

-----------------------------------------------------------------------------
(* The session.                                                            *)

\* normalize_service_tier
Normalized(tier) == IF tier = "fast" THEN "priority" ELSE tier
\* resolved_service_tier
Resolved(config) ==
  IF config.tier # "" THEN Normalized(config.tier)
  ELSE IF config.optOut \/ ~config.enabled \/ ~config.supports \/ ~config.enterprise THEN "" ELSE "priority"
\* _set_session_service_tier
WithSessionTier(config, tier) == [config EXCEPT !.tier = Normalized(tier), !.optOut = (tier = "")]
\* _persist_service_tier_selection
Persisted(text, tier) == WithOptOut(WithTier(text, IF tier = "priority" THEN "fast" ELSE tier), tier = "")
\* _handle_fast_slash
Fast(s) ==
  LET next == IF Resolved(s.config) = "priority" THEN "" ELSE "priority" IN
  IF ~s.config.enabled \/ ~s.config.supports THEN s
  ELSE [config |-> WithSessionTier(s.config, next), text |-> Persisted(s.text, next)]

\* the keys of a table; the root is the table ""
Value(text, table, name, default) ==
  LET inTable(i) == IF table = "" THEN i <= RootEnd(text)
                    ELSE \E t \in Tables(text) : t < i /\ text[t].name = table /\ Tables(text) \cap (t + 1)..i = {}
      own == {i \in DOMAIN text : IsKey(text[i], name) /\ inTable(i)} IN
  IF own = {} THEN default ELSE text[Min(own)].value
\* _build_exec_config
Read(text, plan) ==
  [tier |-> Value(text, "", Tier, ""),
   optOut |-> Value(text, "notices", OptOut, Value(text, "", OptOut, FALSE)),
   enabled |-> plan.enabled, supports |-> plan.supports, enterprise |-> plan.enterprise]

-----------------------------------------------------------------------------
(* A TOML text: no table and no key of a table twice, one open line.       *)
IsToml(text) ==
  /\ \A i, j \in Tables(text) : text[i].name = text[j].name => i = j
  /\ \A i, j \in DOMAIN text :
       i < j /\ text[i].kind = "key" /\ IsKey(text[j], text[i].name) => Tables(text) \cap i..j # {}
  /\ \A i \in DOMAIN text : text[i].ends \/ i = Len(text)
Others(text) == {i \in DOMAIN text : text[i].kind # "other" /\ text[i].name \notin {Tier, OptOut, "notices"}}
OtherLines(text) == [i \in 1..Cardinality(Others(text)) |->
  LET at == CHOOSE j \in Others(text) : Cardinality({k \in Others(text) : k <= j}) = i IN
  <<text[at].kind, text[at].name, text[at].value>>]

(* However often /fast is given, the next session runs with the tier of    *)
(* this one; every /fast turns fast mode on or off; and the file stays a   *)
(* TOML text with everything else the user wrote, in its order             *)
(* (_handle_fast_slash, _persist_service_tier_selection,                   *)
(* resolved_service_tier).                                                 *)
FastIsKept(texts, plans) ==
  \A text \in texts, plan \in plans :
    LET start == [config |-> Read(text, plan), text |-> text]
        after == <<start, Fast(start), Fast(Fast(start))>> IN
    IsToml(text) =>
      \A i \in 1..3 :
        /\ Resolved(Read(after[i].text, plan)) = Resolved(after[i].config)
        /\ i > 1 /\ plan.enabled /\ plan.supports =>
             (Resolved(after[i].config) = "priority") # (Resolved(after[i - 1].config) = "priority")
        /\ IsToml(after[i].text) /\ OtherLines(after[i].text) = OtherLines(text)

=============================================================================
