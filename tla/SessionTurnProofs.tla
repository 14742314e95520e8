------------------------- MODULE SessionTurnProofs -------------------------
(***************************************************************************)
(* For every number of items, turns, iterations, retries and compactions   *)
(* and every set of remote modes: SessionTurn keeps its types, its         *)
(* steering is safe, input is only lost when it comes too late, requests   *)
(* carry the context, and an interrupt stops them.                         *)
(***************************************************************************)
EXTENDS SessionTurn, SequenceTheorems, TLAPS

-----------------------------------------------------------------------------
(* Queues of numbers.                                                      *)

\* Appending a number larger than the others keeps a sequence increasing.
LEMMA AppendIncreasing ==
  ASSUME NEW s \in Seq(Nat), NEW x \in Nat, StrictlyIncreasing(s), Below(s, x)
  PROVE  StrictlyIncreasing(Append(s, x))
<1> DEFINE t == Append(s, x)
<1>1. /\ DOMAIN s = 1..Len(s) /\ DOMAIN t = 1..(Len(s) + 1) /\ Len(s) \in Nat
      /\ \A k \in 1..Len(s) : t[k] = s[k] /\ s[k] \in Nat
      /\ t[Len(s) + 1] = x
  BY LenProperties, ElementOfSeq
<1>2. ASSUME NEW j \in DOMAIN t, NEW k \in DOMAIN t, j < k PROVE t[j] < t[k]
  <2>1. j \in 1..Len(s) BY <1>1, <1>2
  <2>2. CASE k \in 1..Len(s) BY <1>1, <1>2, <2>1, <2>2 DEF StrictlyIncreasing
  <2>3. CASE k = Len(s) + 1 BY <1>1, <1>2, <2>1, <2>3 DEF Below
  <2> QED BY <1>1, <2>2, <2>3
<1> QED BY <1>2 DEF StrictlyIncreasing

\* The elements of Append(s, x) are those of s and x.
LEMMA AppendBounds ==
  ASSUME NEW s \in Seq(Nat), NEW x \in Nat, NEW n \in Nat, NEW t \in Seq(Nat)
  PROVE  /\ Below(s, n) /\ x < n => Below(Append(s, x), n)
         /\ Before(s, t) /\ (\A k \in DOMAIN t : x < t[k]) => Before(Append(s, x), t)
         /\ Before(t, s) /\ Below(t, x) => Before(t, Append(s, x))
<1> DEFINE u == Append(s, x)
<1>1. /\ DOMAIN s = 1..Len(s) /\ DOMAIN u = 1..(Len(s) + 1) /\ Len(s) \in Nat
      /\ \A k \in DOMAIN u : (k \in DOMAIN s /\ u[k] = s[k]) \/ u[k] = x
  BY LenProperties, ElementOfSeq
<1>2. Below(s, n) /\ x < n => Below(u, n) BY <1>1 DEF Below
<1>3. Before(s, t) /\ (\A k \in DOMAIN t : x < t[k]) => Before(u, t) BY <1>1 DEF Before
<1>4. Before(t, s) /\ Below(t, x) => Before(t, u) BY <1>1 DEF Before, Below
<1> QED BY <1>2, <1>3, <1>4

\* The elements of a concatenation, and where they come from.
LEMMA ConcatElements ==
  ASSUME NEW s \in Seq(Nat), NEW t \in Seq(Nat)
  PROVE  /\ s \o t \in Seq(Nat)
         /\ DOMAIN (s \o t) = 1..(Len(s) + Len(t))
         /\ \A k \in DOMAIN (s \o t) :
              \/ k \in DOMAIN s /\ (s \o t)[k] = s[k]
              \/ k - Len(s) \in DOMAIN t /\ (s \o t)[k] = t[k - Len(s)] /\ k > Len(s)
<1>1. /\ s \o t \in Seq(Nat) /\ Len(s \o t) = Len(s) + Len(t)
      /\ \A i \in 1..(Len(s) + Len(t)) :
           (s \o t)[i] = IF i <= Len(s) THEN s[i] ELSE t[i - Len(s)]
  BY ConcatProperties
<1>2. /\ DOMAIN s = 1..Len(s) /\ DOMAIN t = 1..Len(t) /\ DOMAIN (s \o t) = 1..Len(s \o t)
      /\ Len(s) \in Nat /\ Len(t) \in Nat
  BY <1>1, LenProperties
<1> QED BY <1>1, <1>2

\* Two increasing sequences, one before the other, concatenate to one.
LEMMA ConcatIncreasing ==
  ASSUME NEW s \in Seq(Nat), NEW t \in Seq(Nat),
         StrictlyIncreasing(s), StrictlyIncreasing(t), Before(s, t)
  PROVE  StrictlyIncreasing(s \o t)
<1>1. /\ DOMAIN s = 1..Len(s) /\ DOMAIN t = 1..Len(t) /\ Len(s) \in Nat /\ Len(t) \in Nat
  BY LenProperties
<1>2. ASSUME NEW j \in DOMAIN (s \o t), NEW k \in DOMAIN (s \o t), j < k
      PROVE  (s \o t)[j] < (s \o t)[k]
  <2>1. CASE j \in DOMAIN s /\ k \in DOMAIN s
    BY <1>1, <1>2, <2>1, ConcatElements DEF StrictlyIncreasing
  <2>2. CASE j \in DOMAIN s /\ k \notin DOMAIN s
    BY <1>1, <1>2, <2>2, ConcatElements DEF Before
  <2>3. CASE j \notin DOMAIN s
    <3>1. /\ (s \o t)[j] = t[j - Len(s)] /\ j - Len(s) \in DOMAIN t /\ j > Len(s)
      BY <2>3, ConcatElements
    <3>2. /\ (s \o t)[k] = t[k - Len(s)] /\ k - Len(s) \in DOMAIN t
      BY <1>1, <1>2, <3>1, ConcatElements
    <3>3. j - Len(s) < k - Len(s) BY <1>1, <1>2, ConcatElements
    <3> QED BY <3>1, <3>2, <3>3 DEF StrictlyIncreasing
  <2> QED BY <2>1, <2>2, <2>3
<1> QED BY <1>2 DEF StrictlyIncreasing

\* A bound on both parts is a bound on their concatenation.
LEMMA ConcatBounds ==
  ASSUME NEW s \in Seq(Nat), NEW t \in Seq(Nat), NEW n \in Nat, NEW u \in Seq(Nat)
  PROVE  /\ Below(s, n) /\ Below(t, n) => Below(s \o t, n)
         /\ Before(u, s) /\ Before(u, t) => Before(u, s \o t)
         /\ Before(s, u) /\ Before(t, u) => Before(s \o t, u)
<1>1. Below(s, n) /\ Below(t, n) => Below(s \o t, n) BY ConcatElements DEF Below
<1>2. Before(u, s) /\ Before(u, t) => Before(u, s \o t) BY ConcatElements DEF Before
<1>3. Before(s, u) /\ Before(t, u) => Before(s \o t, u) BY ConcatElements DEF Before
<1> QED BY <1>1, <1>2, <1>3

\* The head of an increasing sequence comes before its tail, which is
\* increasing and keeps every bound.
LEMMA TailOrder ==
  ASSUME NEW s \in Seq(Nat), s # <<>>, StrictlyIncreasing(s)
  PROVE  /\ Head(s) = s[1] /\ 1 \in DOMAIN s /\ Tail(s) \in Seq(Nat)
         /\ StrictlyIncreasing(Tail(s))
         /\ \A k \in DOMAIN Tail(s) : Head(s) < Tail(s)[k]
         /\ \A k \in DOMAIN Tail(s) : k + 1 \in DOMAIN s /\ Tail(s)[k] = s[k + 1]
<1>1. /\ DOMAIN s = 1..Len(s) /\ Len(s) \in Nat \ {0} /\ Head(s) = s[1]
  BY LenProperties, EmptySeq
<1>2. /\ Tail(s) \in Seq(Nat) /\ Len(Tail(s)) = Len(s) - 1
      /\ \A i \in 1..Len(Tail(s)) : Tail(s)[i] = s[i + 1]
  BY HeadTailProperties
<1>3. DOMAIN Tail(s) = 1..(Len(s) - 1) BY <1>2, LenProperties
<1>4. \A k \in DOMAIN Tail(s) : k + 1 \in DOMAIN s /\ Tail(s)[k] = s[k + 1]
  BY <1>1, <1>2, <1>3
<1>5. StrictlyIncreasing(Tail(s)) BY <1>1, <1>3, <1>4 DEF StrictlyIncreasing
<1>6. \A k \in DOMAIN Tail(s) : Head(s) < Tail(s)[k]
  BY <1>1, <1>3, <1>4 DEF StrictlyIncreasing
<1> QED BY <1>1, <1>2, <1>4, <1>5, <1>6

\* What Append(s, x) holds.
LEMMA AppendElements ==
  ASSUME NEW s \in Seq(Nat), NEW x \in Nat
  PROVE  \A k \in DOMAIN Append(s, x) :
           (k \in DOMAIN s /\ Append(s, x)[k] = s[k]) \/ Append(s, x)[k] = x
BY LenProperties, ElementOfSeq

\* Nothing is out of order in an empty sequence.
LEMMA EmptyOrder ==
  ASSUME NEW s, NEW n
  PROVE  /\ StrictlyIncreasing(<<>>) /\ Below(<<>>, n)
         /\ Before(<<>>, s) /\ Before(s, <<>>)
BY DEF StrictlyIncreasing, Below, Before

\* A bound may grow.
LEMMA BelowGrows ==
  ASSUME NEW s \in Seq(Nat), NEW n \in Nat, Below(s, n)
  PROVE  Below(s, n + 1)
<1>1. \A k \in DOMAIN s : s[k] \in Nat BY LenProperties, ElementOfSeq
<1> QED BY <1>1 DEF Below

\* Moving the head of t to the end of s, for s before t.
LEMMA MoveHead ==
  ASSUME NEW s \in Seq(Nat), NEW t \in Seq(Nat), t # <<>>,
         StrictlyIncreasing(s), StrictlyIncreasing(t), Before(s, t),
         NEW u \in Seq(Nat), NEW n \in Nat
  PROVE  /\ StrictlyIncreasing(Append(s, Head(t))) /\ StrictlyIncreasing(Tail(t))
         /\ Before(Append(s, Head(t)), Tail(t))
         /\ Before(s, u) /\ Before(t, u) => Before(Append(s, Head(t)), u) /\ Before(Tail(t), u)
         /\ Before(u, s) /\ Before(u, t) => Before(u, Append(s, Head(t))) /\ Before(u, Tail(t))
         /\ Below(s, n) /\ Below(t, n) => Below(Append(s, Head(t)), n) /\ Below(Tail(t), n)
<1> DEFINE x == Head(t)
           r == Tail(t)
<1>1. /\ x = t[1] /\ 1 \in DOMAIN t /\ r \in Seq(Nat) /\ StrictlyIncreasing(r)
      /\ \A k \in DOMAIN r : x < r[k]
      /\ \A k \in DOMAIN r : k + 1 \in DOMAIN t /\ r[k] = t[k + 1]
  BY TailOrder
<1>2. x \in Nat BY HeadTailProperties
<1>3. Below(s, x) BY <1>1 DEF Before, Below
<1>4. Before(s, r) BY <1>1 DEF Before
<1>5. StrictlyIncreasing(Append(s, x)) BY <1>2, <1>3, AppendIncreasing
<1>6. Before(Append(s, x), r) BY <1>1, <1>2, <1>4, AppendBounds
<1>7. ASSUME Before(s, u), Before(t, u) PROVE Before(Append(s, x), u) /\ Before(r, u)
  <2>1. \A k \in DOMAIN u : x < u[k] BY <1>1, <1>7 DEF Before
  <2>2. Before(r, u) BY <1>1, <1>7 DEF Before
  <2> QED BY <1>2, <1>7, <2>1, <2>2, AppendBounds
<1>8. ASSUME Before(u, s), Before(u, t) PROVE Before(u, Append(s, x)) /\ Before(u, r)
  <2>1. Below(u, x) BY <1>1, <1>8 DEF Before, Below
  <2>2. Before(u, r) BY <1>1, <1>8 DEF Before
  <2> QED BY <1>2, <1>8, <2>1, <2>2, AppendBounds
<1>9. ASSUME Below(s, n), Below(t, n) PROVE Below(Append(s, x), n) /\ Below(r, n)
  <2>1. x < n BY <1>1, <1>9 DEF Below
  <2>2. Below(r, n) BY <1>1, <1>9 DEF Below
  <2> QED BY <1>2, <1>9, <2>1, <2>2, AppendBounds
<1> QED BY <1>1, <1>5, <1>6, <1>7, <1>8, <1>9

-----------------------------------------------------------------------------
(* Types.                                                                  *)

\* An action that leaves the queues alone keeps their types.
LEMMA TailType ==
  ASSUME NEW s \in Seq(Items), s # <<>>
  PROVE  Head(s) \in Items /\ Tail(s) \in Seq(Items)
BY HeadTailProperties

\* Injected input is typed.
LEMMA InjectType ==
  ASSUME TypeOK, NEW e \in 0..MaxTurns, Inject(e)
  PROVE  /\ pending' \in Seq(Items) /\ aim' \in [Items -> 0..MaxTurns]
         /\ nextItem' \in 1..(MaxItems + 1) /\ late' \subseteq Items
<1>1. nextItem \in Items /\ MaxItems \in Nat BY BoundsAssumption DEF TypeOK, Inject, Items
<1> QED BY <1>1, SMTT(40) DEF TypeOK, Inject, Items

\* A new turn starts with typed state.
LEMMA BeginType ==
  ASSUME TypeOK, NEW kind \in Kinds, NEW first \in PCs, BeginActiveTurn(kind, first)
  PROVE  /\ pc' \in PCs /\ turn' \in 0..MaxTurns /\ activeTurn' \in 0..MaxTurns
         /\ activeKind' \in Kinds /\ outcome' \in Outcomes /\ sinceInt' \in Nat
         /\ idlePending' \in Seq(Items) /\ pending' \in Seq(Items)
         /\ taken' \in Seq(Items) /\ accepted' \in Seq(Items) /\ turnLog' \in Seq(Items)
         /\ nextItem' \in 1..(MaxItems + 1) /\ aim' \in [Items -> 0..MaxTurns]
         /\ late' \subseteq Items
<1>1. turn + 1 \in 0..MaxTurns BY BoundsAssumption DEF TypeOK, BeginActiveTurn
<1> QED BY <1>1 DEF TypeOK, BeginActiveTurn, Outcomes, local

\* the four groups of TypeOK, so that a step is asked for one at a time
ControlTypes ==
  /\ pc \in PCs /\ turn \in 0..MaxTurns /\ activeTurn \in 0..MaxTurns
  /\ activeKind \in Kinds /\ outcome \in Outcomes
  /\ sinceInt \in Nat
FlagTypes ==
  /\ interrupted \in BOOLEAN /\ canDrain \in BOOLEAN /\ ctxRecorded \in BOOLEAN
  /\ marked \in BOOLEAN
QueueTypes ==
  /\ idlePending \in Seq(Items) /\ pending \in Seq(Items)
  /\ taken \in Seq(Items) /\ accepted \in Seq(Items) /\ turnLog \in Seq(Items)
  /\ nextItem \in 1..(MaxItems + 1) /\ aim \in [Items -> 0..MaxTurns] /\ late \subseteq Items
LoopTypes ==
  /\ iteration \in Nat /\ retry \in 0..MaxRetries
  /\ compactTo \in {"none", "manual", "presample", "context", "drain"}
  /\ compactions \in 0..MaxCompactions /\ remoteMode \in RemoteModes
  /\ ctxNext \in CtxParts /\ ctxCopies \in [CtxParts -> Nat]

\* they are all of it
LEMMA TypeGroups == TypeOK <=> ControlTypes /\ FlagTypes /\ QueueTypes /\ LoopTypes
BY DEF TypeOK, ControlTypes, FlagTypes, QueueTypes, LoopTypes

CompactPCs == {"c_pre", "c_remote", "c_open", "c_post"}
\* Where control can be: a compaction knows where it returns to, a manual
\* one leaves the locals of stream() empty, and so does an idle session,
\* whose turn is never a regular one.
ControlInv ==
  /\ pc \in CompactPCs => compactTo # "none"
  /\ compactTo = "manual" => /\ pc \in CompactPCs \cup {"stream", "tail", "backoff"}
                             /\ activeKind = "compact" /\ taken = <<>> /\ accepted = <<>>
  /\ pc = "idle" => activeKind # "regular" /\ taken = <<>> /\ accepted = <<>>
  /\ activeTurn \in {0, turn}

\* Every step keeps the types.
LEMMA TypeStep == TypeOK /\ ControlInv /\ [Next]_vars => TypeOK'
<1> SUFFICES ASSUME TypeOK, ControlInv, [Next]_vars PROVE TypeOK'
  OBVIOUS
<1>a. /\ ControlTypes /\ FlagTypes /\ QueueTypes /\ LoopTypes /\ <<>> \in Seq(Items)
  BY TypeGroups, EmptySeq
<1>b. ControlTypes' /\ FlagTypes' /\ QueueTypes' /\ LoopTypes' => TypeOK'
  BY DEF TypeOK, ControlTypes, FlagTypes, QueueTypes, LoopTypes
<1> USE BoundsAssumption DEF StepFrame, Quiet, Goto, Finish, ids, flag, local, loop, compact,
          context, ghosts, Recorded, MayBeRecorded
<1>1. CASE UNCHANGED vars BY <1>1 DEF vars, TypeOK
<1>2. CASE SteerSome
  <2>1. ControlTypes'
    BY <1>2, <1>a DEF ControlTypes, PCs, Kinds, Outcomes, SteerSome, SteerInput
  <2>2. FlagTypes'
    BY <1>2, <1>a DEF FlagTypes, SteerSome, SteerInput
  <2>3. QueueTypes'
    BY <1>2, <1>a, InjectType DEF QueueTypes, SteerSome, SteerInput
  <2>4. LoopTypes'
    BY <1>2, <1>a DEF LoopTypes, CtxParts, SteerSome, SteerInput
  <2> QED BY <1>b, <2>1, <2>2, <2>3, <2>4
<1>3. CASE QueueInputForNextTurn
  <2>1. ControlTypes'
    BY <1>3, <1>a DEF ControlTypes, PCs, Kinds, Outcomes, QueueInputForNextTurn, Items
  <2>2. FlagTypes'
    BY <1>3, <1>a DEF FlagTypes, QueueInputForNextTurn, Items
  <2>3. QueueTypes'
    BY <1>3, <1>a DEF QueueTypes, QueueInputForNextTurn, Items
  <2>4. LoopTypes'
    BY <1>3, <1>a DEF LoopTypes, CtxParts, QueueInputForNextTurn, Items
  <2> QED BY <1>b, <2>1, <2>2, <2>3, <2>4
<1>4. CASE PopPendingForInterrupt
  <2>1. ControlTypes'
    BY <1>4, <1>a DEF ControlTypes, PCs, Kinds, Outcomes, PopPendingForInterrupt
  <2>2. FlagTypes'
    BY <1>4, <1>a DEF FlagTypes, PopPendingForInterrupt
  <2>3. QueueTypes'
    BY <1>4, <1>a DEF QueueTypes, PopPendingForInterrupt
  <2>4. LoopTypes'
    BY <1>4, <1>a DEF LoopTypes, CtxParts, PopPendingForInterrupt
  <2> QED BY <1>b, <2>1, <2>2, <2>3, <2>4
<1>5. CASE Interrupt
  <2>1. ControlTypes'
    BY <1>5, <1>a DEF ControlTypes, PCs, Kinds, Outcomes, Interrupt
  <2>2. FlagTypes'
    BY <1>5, <1>a DEF FlagTypes, Interrupt
  <2>3. QueueTypes'
    BY <1>5, <1>a DEF QueueTypes, Interrupt
  <2>4. LoopTypes'
    BY <1>5, <1>a DEF LoopTypes, CtxParts, Interrupt
  <2> QED BY <1>b, <2>1, <2>2, <2>3, <2>4
<1>6. CASE StreamStart
  <2>1. "regular" \in Kinds /\ "prelude" \in PCs BY DEF Kinds, PCs
  <2>2. BeginActiveTurn("regular", "prelude") BY <1>6 DEF StreamStart
  <2>3. QueueTypes' BY <2>1, <2>2, BeginType DEF QueueTypes
  <2>4. ControlTypes' BY <2>1, <2>2, BeginType DEF ControlTypes
  <2>5. FlagTypes' BY <1>6, <1>a DEF FlagTypes, StreamStart
  <2>6. LoopTypes' BY <1>6, <1>a DEF LoopTypes, StreamStart, CtxParts
  <2> QED BY <1>b, <2>3, <2>4, <2>5, <2>6
<1>7. CASE StreamCompactStart
  <2>1. "compact" \in Kinds /\ "c_pre" \in PCs BY DEF Kinds, PCs
  <2>2. BeginActiveTurn("compact", "c_pre") BY <1>7 DEF StreamCompactStart
  <2>3. QueueTypes' BY <2>1, <2>2, BeginType DEF QueueTypes
  <2>4. ControlTypes' BY <2>1, <2>2, BeginType DEF ControlTypes
  <2>5. FlagTypes' BY <1>7, <1>a DEF FlagTypes, StreamCompactStart
  <2>6. LoopTypes' BY <1>7, <1>a DEF LoopTypes, StreamCompactStart, CtxParts
  <2> QED BY <1>b, <2>3, <2>4, <2>5, <2>6
<1>8. CASE StreamFinally
  <2>1. ControlTypes'
    BY <1>8, <1>a DEF ControlTypes, PCs, Kinds, Outcomes, StreamFinally, EndActiveTurn
  <2>2. FlagTypes'
    BY <1>8, <1>a DEF FlagTypes, StreamFinally, EndActiveTurn
  <2>3. QueueTypes'
    BY <1>8, <1>a DEF QueueTypes, StreamFinally, EndActiveTurn
  <2>4. LoopTypes'
    BY <1>8, <1>a DEF LoopTypes, CtxParts, StreamFinally, EndActiveTurn
  <2> QED BY <1>b, <2>1, <2>2, <2>3, <2>4
<1>9. CASE StreamAborted
  <2>1. ControlTypes'
    BY <1>9, <1>a DEF ControlTypes, PCs, Kinds, Outcomes, StreamAborted
  <2>2. FlagTypes'
    BY <1>9, <1>a DEF FlagTypes, StreamAborted
  <2>3. QueueTypes'
    BY <1>9, <1>a DEF QueueTypes, StreamAborted
  <2>4. LoopTypes'
    BY <1>9, <1>a DEF LoopTypes, CtxParts, StreamAborted
  <2> QED BY <1>b, <2>1, <2>2, <2>3, <2>4
<1>10. CASE CheckInterrupted
  <2>1. ControlTypes'
    BY <1>10, <1>a DEF ControlTypes, PCs, Kinds, Outcomes, CheckInterrupted, Raise
  <2>2. FlagTypes'
    BY <1>10, <1>a DEF FlagTypes, CheckInterrupted, Raise
  <2>3. QueueTypes'
    BY <1>10, <1>a DEF QueueTypes, CheckInterrupted, Raise
  <2>4. LoopTypes'
    BY <1>10, <1>a DEF LoopTypes, CtxParts, CheckInterrupted, Raise
  <2> QED BY <1>b, <2>1, <2>2, <2>3, <2>4
<1>11. CASE Prelude
  <2>1. ControlTypes'
    BY <1>11, <1>a DEF ControlTypes, PCs, Kinds, Outcomes, Prelude
  <2>2. FlagTypes'
    BY <1>11, <1>a DEF FlagTypes, Prelude
  <2>3. QueueTypes'
    BY <1>11, <1>a DEF QueueTypes, Prelude
  <2>4. LoopTypes'
    BY <1>11, <1>a DEF LoopTypes, CtxParts, Prelude
  <2> QED BY <1>b, <2>1, <2>2, <2>3, <2>4
<1>12. CASE PreSamplingCompaction
  <2>1. ControlTypes'
    BY <1>12, <1>a DEF ControlTypes, PCs, Kinds, Outcomes, PreSamplingCompaction, MayCompact
  <2>2. FlagTypes'
    BY <1>12, <1>a DEF FlagTypes, PreSamplingCompaction, MayCompact
  <2>3. QueueTypes'
    BY <1>12, <1>a DEF QueueTypes, PreSamplingCompaction, MayCompact
  <2>4. LoopTypes'
    BY <1>12, <1>a DEF LoopTypes, CtxParts, PreSamplingCompaction, MayCompact
  <2> QED BY <1>b, <2>1, <2>2, <2>3, <2>4
<1>13. CASE RecordInitialContext
  <2>1. ControlTypes'
    BY <1>13, <1>a DEF ControlTypes, PCs, Kinds, Outcomes, RecordInitialContext
  <2>2. FlagTypes'
    BY <1>13, <1>a DEF FlagTypes, RecordInitialContext
  <2>3. QueueTypes'
    BY <1>13, <1>a DEF QueueTypes, RecordInitialContext
  <2>4. LoopTypes'
    BY <1>13, <1>a DEF LoopTypes, CtxParts, RecordInitialContext
  <2> QED BY <1>b, <2>1, <2>2, <2>3, <2>4
<1>14. CASE ContextAlreadyRecorded
  <2>1. ControlTypes'
    BY <1>14, <1>a DEF ControlTypes, PCs, Kinds, Outcomes, ContextAlreadyRecorded
  <2>2. FlagTypes'
    BY <1>14, <1>a DEF FlagTypes, ContextAlreadyRecorded
  <2>3. QueueTypes'
    BY <1>14, <1>a DEF QueueTypes, ContextAlreadyRecorded
  <2>4. LoopTypes'
    BY <1>14, <1>a DEF LoopTypes, CtxParts, ContextAlreadyRecorded
  <2> QED BY <1>b, <2>1, <2>2, <2>3, <2>4
<1>15. CASE RecordPrompt
  <2>1. ControlTypes'
    BY <1>15, <1>a DEF ControlTypes, PCs, Kinds, Outcomes, RecordPrompt
  <2>2. FlagTypes'
    BY <1>15, <1>a DEF FlagTypes, RecordPrompt
  <2>3. QueueTypes'
    BY <1>15, <1>a DEF QueueTypes, RecordPrompt
  <2>4. LoopTypes'
    BY <1>15, <1>a DEF LoopTypes, CtxParts, RecordPrompt
  <2> QED BY <1>b, <2>1, <2>2, <2>3, <2>4
<1>16. CASE IterationsExceeded
  <2>1. ControlTypes'
    BY <1>16, <1>a DEF ControlTypes, PCs, Kinds, Outcomes, IterationsExceeded
  <2>2. FlagTypes'
    BY <1>16, <1>a DEF FlagTypes, IterationsExceeded
  <2>3. QueueTypes'
    BY <1>16, <1>a DEF QueueTypes, IterationsExceeded
  <2>4. LoopTypes'
    BY <1>16, <1>a DEF LoopTypes, CtxParts, IterationsExceeded
  <2> QED BY <1>b, <2>1, <2>2, <2>3, <2>4
<1>17. CASE LoopTop
  <2>1. ControlTypes'
    BY <1>17, <1>a DEF ControlTypes, PCs, Kinds, Outcomes, LoopTop
  <2>2. FlagTypes'
    BY <1>17, <1>a DEF FlagTypes, LoopTop
  <2>3. QueueTypes'
    BY <1>17, <1>a DEF QueueTypes, LoopTop
  <2>4. LoopTypes'
    BY <1>17, <1>a DEF LoopTypes, CtxParts, LoopTop
  <2> QED BY <1>b, <2>1, <2>2, <2>3, <2>4
<1>18. CASE TakePendingInput
  <2>1. ControlTypes'
    BY <1>18, <1>a DEF ControlTypes, PCs, Kinds, Outcomes, TakePendingInput
  <2>2. FlagTypes'
    BY <1>18, <1>a DEF FlagTypes, TakePendingInput
  <2>3. QueueTypes'
    BY <1>18, <1>a DEF QueueTypes, TakePendingInput
  <2>4. LoopTypes'
    BY <1>18, <1>a DEF LoopTypes, CtxParts, TakePendingInput
  <2> QED BY <1>b, <2>1, <2>2, <2>3, <2>4
<1>19. CASE AcceptPending
  <2>1. ControlTypes'
    BY <1>19, <1>a DEF ControlTypes, PCs, Kinds, Outcomes, AcceptPending
  <2>2. FlagTypes'
    BY <1>19, <1>a DEF FlagTypes, AcceptPending
  <2>3. QueueTypes'
    BY <1>19, <1>a, TailType DEF QueueTypes, AcceptPending
  <2>4. LoopTypes'
    BY <1>19, <1>a DEF LoopTypes, CtxParts, AcceptPending
  <2> QED BY <1>b, <2>1, <2>2, <2>3, <2>4
<1>20. CASE BlockPending
  <2>0. Tail(taken) \o pending \in Seq(Items)
    BY <1>20, <1>a, TailType, ConcatProperties DEF BlockPending, QueueTypes
  <2>1. ControlTypes'
    BY <1>20, <1>a DEF ControlTypes, PCs, Kinds, Outcomes, BlockPending, Requeue
  <2>2. FlagTypes'
    BY <1>20, <1>a DEF FlagTypes, BlockPending, Requeue
  <2>3. QueueTypes'
    BY <1>20, <1>a, <2>0 DEF QueueTypes, BlockPending, Requeue
  <2>4. LoopTypes'
    BY <1>20, <1>a DEF LoopTypes, CtxParts, BlockPending, Requeue
  <2> QED BY <1>b, <2>1, <2>2, <2>3, <2>4
<1>21. CASE InspectionDone
  <2>1. ControlTypes'
    BY <1>21, <1>a DEF ControlTypes, PCs, Kinds, Outcomes, InspectionDone
  <2>2. FlagTypes'
    BY <1>21, <1>a DEF FlagTypes, InspectionDone
  <2>3. QueueTypes'
    BY <1>21, <1>a DEF QueueTypes, InspectionDone
  <2>4. LoopTypes'
    BY <1>21, <1>a DEF LoopTypes, CtxParts, InspectionDone
  <2> QED BY <1>b, <2>1, <2>2, <2>3, <2>4
<1>22. CASE RecordPending
  <2>1. ControlTypes'
    BY <1>22, <1>a DEF ControlTypes, PCs, Kinds, Outcomes, RecordPending
  <2>2. FlagTypes'
    BY <1>22, <1>a DEF FlagTypes, RecordPending
  <2>3. QueueTypes'
    BY <1>22, <1>a, TailType DEF QueueTypes, RecordPending
  <2>4. LoopTypes'
    BY <1>22, <1>a DEF LoopTypes, CtxParts, RecordPending
  <2> QED BY <1>b, <2>1, <2>2, <2>3, <2>4
<1>23. CASE RecordingDone
  <2>1. ControlTypes'
    BY <1>23, <1>a DEF ControlTypes, PCs, Kinds, Outcomes, RecordingDone
  <2>2. FlagTypes'
    BY <1>23, <1>a DEF FlagTypes, RecordingDone
  <2>3. QueueTypes'
    BY <1>23, <1>a DEF QueueTypes, RecordingDone
  <2>4. LoopTypes'
    BY <1>23, <1>a DEF LoopTypes, CtxParts, RecordingDone
  <2> QED BY <1>b, <2>1, <2>2, <2>3, <2>4
<1>24. CASE AllPendingBlocked
  <2>1. ControlTypes'
    BY <1>24, <1>a DEF ControlTypes, PCs, Kinds, Outcomes, AllPendingBlocked, NextIteration,
       Bump
  <2>2. FlagTypes'
    BY <1>24, <1>a DEF FlagTypes, AllPendingBlocked, NextIteration, Bump
  <2>3. QueueTypes'
    BY <1>24, <1>a DEF QueueTypes, AllPendingBlocked, NextIteration, Bump
  <2>4. LoopTypes'
    BY <1>24, <1>a DEF LoopTypes, CtxParts, AllPendingBlocked, NextIteration, Bump
  <2> QED BY <1>b, <2>1, <2>2, <2>3, <2>4
<1>25. CASE OpenRequest
  <2>1. ControlTypes'
    BY <1>25, <1>a DEF ControlTypes, PCs, Kinds, Outcomes, OpenRequest, CountRequest,
       StreamFrame
  <2>2. FlagTypes'
    BY <1>25, <1>a DEF FlagTypes, OpenRequest, CountRequest, StreamFrame
  <2>3. QueueTypes'
    BY <1>25, <1>a DEF QueueTypes, OpenRequest, CountRequest, StreamFrame
  <2>4. LoopTypes'
    BY <1>25, <1>a DEF LoopTypes, CtxParts, OpenRequest, CountRequest, StreamFrame
  <2> QED BY <1>b, <2>1, <2>2, <2>3, <2>4
<1>26. CASE SamplingDone
  <2>1. ControlTypes'
    BY <1>26, <1>a DEF ControlTypes, PCs, Kinds, Outcomes, SamplingDone, HasPendingInput, Bump
  <2>2. FlagTypes'
    BY <1>26, <1>a DEF FlagTypes, SamplingDone, HasPendingInput, Bump
  <2>3. QueueTypes'
    BY <1>26, <1>a DEF QueueTypes, SamplingDone, HasPendingInput, Bump
  <2>4. LoopTypes'
    BY <1>26, <1>a DEF LoopTypes, CtxParts, SamplingDone, HasPendingInput, Bump
  <2> QED BY <1>b, <2>1, <2>2, <2>3, <2>4
<1>27. CASE StopHook
  <2>1. ControlTypes'
    BY <1>27, <1>a DEF ControlTypes, PCs, Kinds, Outcomes, StopHook, NextIteration, Bump
  <2>2. FlagTypes'
    BY <1>27, <1>a DEF FlagTypes, StopHook, NextIteration, Bump
  <2>3. QueueTypes'
    BY <1>27, <1>a DEF QueueTypes, StopHook, NextIteration, Bump
  <2>4. LoopTypes'
    BY <1>27, <1>a DEF LoopTypes, CtxParts, StopHook, NextIteration, Bump
  <2> QED BY <1>b, <2>1, <2>2, <2>3, <2>4
<1>28. CASE AfterAgentHook
  <2>1. ControlTypes'
    BY <1>28, <1>a DEF ControlTypes, PCs, Kinds, Outcomes, AfterAgentHook
  <2>2. FlagTypes'
    BY <1>28, <1>a DEF FlagTypes, AfterAgentHook
  <2>3. QueueTypes'
    BY <1>28, <1>a DEF QueueTypes, AfterAgentHook
  <2>4. LoopTypes'
    BY <1>28, <1>a DEF LoopTypes, CtxParts, AfterAgentHook
  <2> QED BY <1>b, <2>1, <2>2, <2>3, <2>4
<1>29. CASE ToolAwaited
  <2>1. ControlTypes'
    BY <1>29, <1>a DEF ControlTypes, PCs, Kinds, Outcomes, ToolAwaited
  <2>2. FlagTypes'
    BY <1>29, <1>a DEF FlagTypes, ToolAwaited
  <2>3. QueueTypes'
    BY <1>29, <1>a DEF QueueTypes, ToolAwaited
  <2>4. LoopTypes'
    BY <1>29, <1>a DEF LoopTypes, CtxParts, ToolAwaited
  <2> QED BY <1>b, <2>1, <2>2, <2>3, <2>4
<1>30. CASE ToolFinished
  <2>1. ControlTypes'
    BY <1>30, <1>a DEF ControlTypes, PCs, Kinds, Outcomes, ToolFinished
  <2>2. FlagTypes'
    BY <1>30, <1>a DEF FlagTypes, ToolFinished
  <2>3. QueueTypes'
    <3>1. CASE Inject(turn)
      <4>1. turn \in 0..MaxTurns BY <1>a DEF ControlTypes
      <4> QED BY <1>30, <1>a, <3>1, <4>1, InjectType DEF QueueTypes, ToolFinished
    <3>2. CASE UNCHANGED <<pending, ghosts>> BY <1>30, <1>a, <3>2 DEF QueueTypes, ToolFinished
    <3> QED BY <1>30, <3>1, <3>2 DEF ToolFinished
  <2>4. LoopTypes'
    BY <1>30, <1>a DEF LoopTypes, CtxParts, ToolFinished
  <2> QED BY <1>b, <2>1, <2>2, <2>3, <2>4
<1>31. CASE ToolsDone
  <2>1. ControlTypes'
    BY <1>31, <1>a DEF ControlTypes, PCs, Kinds, Outcomes, ToolsDone, NextIteration, Bump
  <2>2. FlagTypes'
    BY <1>31, <1>a DEF FlagTypes, ToolsDone, NextIteration, Bump
  <2>3. QueueTypes'
    BY <1>31, <1>a DEF QueueTypes, ToolsDone, NextIteration, Bump
  <2>4. LoopTypes'
    BY <1>31, <1>a DEF LoopTypes, CtxParts, ToolsDone, NextIteration, Bump
  <2> QED BY <1>b, <2>1, <2>2, <2>3, <2>4
<1>32. CASE StreamInterrupted
  <2>1. ControlTypes'
    BY <1>32, <1>a DEF ControlTypes, PCs, Kinds, Outcomes, StreamInterrupted, Raise
  <2>2. FlagTypes'
    BY <1>32, <1>a DEF FlagTypes, StreamInterrupted, Raise
  <2>3. QueueTypes'
    BY <1>32, <1>a DEF QueueTypes, StreamInterrupted, Raise
  <2>4. LoopTypes'
    BY <1>32, <1>a DEF LoopTypes, CtxParts, StreamInterrupted, Raise
  <2> QED BY <1>b, <2>1, <2>2, <2>3, <2>4
<1>33. CASE StreamEvent
  <2>1. ControlTypes'
    BY <1>33, <1>a DEF ControlTypes, PCs, Kinds, Outcomes, StreamEvent
  <2>2. FlagTypes'
    BY <1>33, <1>a DEF FlagTypes, StreamEvent
  <2>3. QueueTypes'
    BY <1>33, <1>a DEF QueueTypes, StreamEvent
  <2>4. LoopTypes'
    BY <1>33, <1>a DEF LoopTypes, CtxParts, StreamEvent
  <2> QED BY <1>b, <2>1, <2>2, <2>3, <2>4
<1>34. CASE StreamDone
  <2>1. ControlTypes'
    BY <1>34, <1>a DEF ControlTypes, PCs, Kinds, Outcomes, StreamDone, ReplaceHistory
  <2>2. FlagTypes'
    BY <1>34, <1>a DEF FlagTypes, StreamDone, ReplaceHistory
  <2>3. QueueTypes'
    BY <1>34, <1>a DEF QueueTypes, StreamDone, ReplaceHistory
  <2>4. LoopTypes'
    <3>1. UNCHANGED <<iteration, retry, compactTo, compactions, remoteMode>>
      BY <1>34 DEF StreamDone
    <3>2. ReplaceHistory \/ UNCHANGED context BY <1>34 DEF StreamDone
    <3>3. ctxNext' \in CtxParts /\ ctxCopies' \in [CtxParts -> Nat]
      BY <3>2, <1>a DEF LoopTypes, CtxParts, ReplaceHistory
    <3> QED BY <3>1, <3>3, <1>a DEF LoopTypes
  <2> QED BY <1>b, <2>1, <2>2, <2>3, <2>4
<1>35. CASE StreamFailed
  <2>1. ControlTypes'
    BY <1>35, <1>a DEF ControlTypes, PCs, Kinds, Outcomes, StreamFailed, MayRetry, Raise
  <2>2. FlagTypes'
    BY <1>35, <1>a DEF FlagTypes, StreamFailed, MayRetry, Raise
  <2>3. QueueTypes'
    BY <1>35, <1>a DEF QueueTypes, StreamFailed, MayRetry, Raise
  <2>4. LoopTypes'
    BY <1>35, <1>a DEF LoopTypes, CtxParts, StreamFailed, MayRetry, Raise
  <2> QED BY <1>b, <2>1, <2>2, <2>3, <2>4
<1>36. CASE RetryRequest
  <2>1. ControlTypes'
    BY <1>36, <1>a DEF ControlTypes, PCs, Kinds, Outcomes, RetryRequest
  <2>2. FlagTypes'
    BY <1>36, <1>a DEF FlagTypes, RetryRequest
  <2>3. QueueTypes'
    BY <1>36, <1>a DEF QueueTypes, RetryRequest
  <2>4. LoopTypes'
    BY <1>36, <1>a DEF LoopTypes, CtxParts, RetryRequest
  <2> QED BY <1>b, <2>1, <2>2, <2>3, <2>4
<1>37. CASE PreCompactHook
  <2>1. ControlTypes'
    BY <1>37, <1>a DEF ControlTypes, PCs, Kinds, Outcomes, PreCompactHook, CompactStopped,
       EndActiveTurn
  <2>2. FlagTypes'
    BY <1>37, <1>a DEF FlagTypes, PreCompactHook, CompactStopped, EndActiveTurn
  <2>3. QueueTypes'
    BY <1>37, <1>a DEF QueueTypes, PreCompactHook, CompactStopped, EndActiveTurn
  <2>4. LoopTypes'
    BY <1>37, <1>a DEF LoopTypes, CtxParts, PreCompactHook, CompactStopped, EndActiveTurn
  <2> QED BY <1>b, <2>1, <2>2, <2>3, <2>4
<1>38. CASE RemoteCompaction
  <2>1. ControlTypes'
    BY <1>38, <1>a DEF ControlTypes, PCs, Kinds, Outcomes, RemoteCompaction, CountRequest,
       ReplaceHistory, CompactStopped, EndActiveTurn
  <2>2. FlagTypes'
    BY <1>38, <1>a DEF FlagTypes, RemoteCompaction, CountRequest, ReplaceHistory,
       CompactStopped, EndActiveTurn
  <2>3. QueueTypes'
    BY <1>38, <1>a DEF QueueTypes, RemoteCompaction, CountRequest, ReplaceHistory,
       CompactStopped, EndActiveTurn
  <2>4. LoopTypes'
    BY <1>38, <1>a DEF LoopTypes, CtxParts, RemoteCompaction, CountRequest, ReplaceHistory,
       CompactStopped, EndActiveTurn
  <2> QED BY <1>b, <2>1, <2>2, <2>3, <2>4
<1>39. CASE OpenCompactRequest
  <2>1. ControlTypes'
    BY <1>39, <1>a DEF ControlTypes, PCs, Kinds, Outcomes, OpenCompactRequest, CountRequest,
       StreamFrame
  <2>2. FlagTypes'
    BY <1>39, <1>a DEF FlagTypes, OpenCompactRequest, CountRequest, StreamFrame
  <2>3. QueueTypes'
    BY <1>39, <1>a DEF QueueTypes, OpenCompactRequest, CountRequest, StreamFrame
  <2>4. LoopTypes'
    BY <1>39, <1>a DEF LoopTypes, CtxParts, OpenCompactRequest, CountRequest, StreamFrame
  <2> QED BY <1>b, <2>1, <2>2, <2>3, <2>4
<1>40. CASE PostCompactHook
  <2>1. ControlTypes'
    <3>1. CASE compactTo = "manual"
      BY <1>40, <1>a, <3>1 DEF ControlTypes, PCs, Kinds, Outcomes, PostCompactHook,
         CompactStopped, EndActiveTurn
    <3>2. CASE compactTo # "manual"
      <4>1. compactTo \in {"presample", "context", "drain"}
        BY <1>40, <1>a, <3>2 DEF LoopTypes, PostCompactHook, ControlInv, CompactPCs
      <4> QED BY <1>40, <1>a, <3>2, <4>1 DEF ControlTypes, PCs, Outcomes, PostCompactHook, CompactStopped
    <3> QED BY <3>1, <3>2
  <2>2. FlagTypes'
    BY <1>40, <1>a DEF FlagTypes, PostCompactHook, CompactStopped, EndActiveTurn
  <2>3. QueueTypes'
    BY <1>40, <1>a DEF QueueTypes, PostCompactHook, CompactStopped, EndActiveTurn
  <2>4. LoopTypes'
    BY <1>40, <1>a DEF LoopTypes, CtxParts, PostCompactHook, CompactStopped, EndActiveTurn
  <2> QED BY <1>b, <2>1, <2>2, <2>3, <2>4
<1> QED
  BY <1>1, <1>2, <1>3, <1>4, <1>5, <1>6, <1>7, <1>8, <1>9, <1>10, <1>11, <1>12, <1>13, <1>14,
     <1>15, <1>16, <1>17, <1>18, <1>19, <1>20, <1>21, <1>22, <1>23, <1>24, <1>25, <1>26, <1>27,
     <1>28, <1>29, <1>30, <1>31, <1>32, <1>33, <1>34, <1>35, <1>36, <1>37, <1>38, <1>39, <1>40
  DEF Next, Others, TurnStep

\* Every step keeps control where it can be.
LEMMA ControlStep == TypeOK /\ ControlInv /\ [Next]_vars => ControlInv'
<1> SUFFICES ASSUME TypeOK, ControlInv, [Next]_vars PROVE ControlInv'
  OBVIOUS
<1> USE DEF StepFrame, Quiet, Goto, Finish, ids, flag, local, loop, compact, context, ghosts,
          ControlInv, CompactPCs
<1>1. CASE UNCHANGED vars BY <1>1 DEF vars
<1>2. CASE SteerSome BY <1>2 DEF SteerSome, SteerInput, Inject
<1>3. CASE QueueInputForNextTurn BY <1>3 DEF QueueInputForNextTurn
<1>4. CASE PopPendingForInterrupt BY <1>4 DEF PopPendingForInterrupt
<1>5. CASE Interrupt BY <1>5 DEF Interrupt
<1>6. CASE StreamStart BY <1>6 DEF StreamStart, BeginActiveTurn
<1>7. CASE StreamCompactStart BY <1>7 DEF StreamCompactStart, BeginActiveTurn
<1>8. CASE StreamFinally BY <1>8 DEF StreamFinally, EndActiveTurn
<1>9. CASE StreamAborted BY <1>9 DEF StreamAborted
<1>10. CASE CheckInterrupted BY <1>10 DEF CheckInterrupted, Raise, AtCheck
<1>11. CASE Prelude BY <1>11 DEF Prelude, Checked
<1>12. CASE PreSamplingCompaction BY <1>12 DEF PreSamplingCompaction, MayCompact
<1>13. CASE RecordInitialContext BY <1>13 DEF RecordInitialContext, Checked
<1>14. CASE ContextAlreadyRecorded BY <1>14 DEF ContextAlreadyRecorded
<1>15. CASE RecordPrompt BY <1>15 DEF RecordPrompt
<1>16. CASE IterationsExceeded BY <1>16 DEF IterationsExceeded
<1>17. CASE LoopTop BY <1>17 DEF LoopTop, Checked
<1>18. CASE TakePendingInput BY <1>18 DEF TakePendingInput
<1>19. CASE AcceptPending BY <1>19 DEF AcceptPending, Checked
<1>20. CASE BlockPending BY <1>20 DEF BlockPending, Requeue, Checked
<1>21. CASE InspectionDone BY <1>21 DEF InspectionDone
<1>22. CASE RecordPending BY <1>22 DEF RecordPending, Checked
<1>23. CASE RecordingDone BY <1>23 DEF RecordingDone
<1>24. CASE AllPendingBlocked BY <1>24 DEF AllPendingBlocked, NextIteration, Bump
<1>25. CASE OpenRequest BY <1>25 DEF OpenRequest, CountRequest, StreamFrame, Checked
<1>26. CASE SamplingDone BY <1>26 DEF SamplingDone, HasPendingInput, Bump, Checked
<1>27. CASE StopHook BY <1>27 DEF StopHook, NextIteration, Bump
<1>28. CASE AfterAgentHook BY <1>28 DEF AfterAgentHook
<1>29. CASE ToolAwaited BY <1>29 DEF ToolAwaited, Checked
<1>30. CASE ToolFinished BY <1>30 DEF ToolFinished, Inject
<1>31. CASE ToolsDone BY <1>31 DEF ToolsDone, NextIteration, Bump, Checked
<1>32. CASE StreamInterrupted BY <1>32 DEF StreamInterrupted, Raise
<1>33. CASE StreamEvent BY <1>33 DEF StreamEvent, Checked
<1>34. CASE StreamDone BY <1>34 DEF StreamDone, ReplaceHistory, Compacting
<1>35. CASE StreamFailed BY <1>35 DEF StreamFailed, MayRetry, Raise, Checked
<1>36. CASE RetryRequest BY <1>36 DEF RetryRequest, Checked
<1>37. CASE PreCompactHook BY <1>37 DEF PreCompactHook, CompactStopped, EndActiveTurn
<1>38. CASE RemoteCompaction
  BY <1>38 DEF RemoteCompaction, CountRequest, ReplaceHistory, CompactStopped, EndActiveTurn
<1>39. CASE OpenCompactRequest BY <1>39 DEF OpenCompactRequest, CountRequest, StreamFrame
<1>40. CASE PostCompactHook
  <2>1. compactTo \in {"none", "manual", "presample", "context", "drain"} BY DEF TypeOK
  <2> QED BY <1>40, <2>1 DEF PostCompactHook, CompactStopped, EndActiveTurn
<1> QED
  BY <1>1, <1>2, <1>3, <1>4, <1>5, <1>6, <1>7, <1>8, <1>9, <1>10, <1>11, <1>12, <1>13, <1>14,
     <1>15, <1>16, <1>17, <1>18, <1>19, <1>20, <1>21, <1>22, <1>23, <1>24, <1>25, <1>26, <1>27,
     <1>28, <1>29, <1>30, <1>31, <1>32, <1>33, <1>34, <1>35, <1>36, <1>37, <1>38, <1>39, <1>40
  DEF Next, Others, TurnStep

\* Every variable of a session keeps its type, and control stays where the
\* code can be.
THEOREM TypeCorrect == Spec => [](TypeOK /\ ControlInv)
<1>1. ASSUME Init PROVE TypeOK
  <2>1. ControlTypes BY <1>1, BoundsAssumption DEF Init, ControlTypes, PCs, Outcomes, Kinds
  <2>2. FlagTypes BY <1>1 DEF Init, FlagTypes
  <2>3. QueueTypes BY <1>1, BoundsAssumption, EmptySeq DEF Init, QueueTypes
  <2>4. LoopTypes BY <1>1, BoundsAssumption DEF Init, LoopTypes, CtxParts
  <2> QED BY <2>1, <2>2, <2>3, <2>4, TypeGroups
<1>2. Init => ControlInv BY DEF Init, ControlInv, CompactPCs
<1> QED BY <1>1, <1>2, TypeStep, ControlStep, PTL DEF Spec

-----------------------------------------------------------------------------
(* What the steps do to the queues.                                        *)

QUnchanged == UNCHANGED <<turnLog, accepted, taken, pending, idlePending, nextItem, aim, turn>>
QCleared ==
  /\ pending' = <<>> /\ accepted' \in {accepted, <<>>} /\ taken' \in {taken, <<>>}
  /\ UNCHANGED <<turnLog, idlePending, nextItem, aim, turn>>
QInjected ==
  /\ \E e \in {0, turn} : Inject(e)
  /\ UNCHANGED <<turnLog, accepted, taken, idlePending, turn>>
QBegun ==
  /\ turnLog' = <<>> /\ pending' = idlePending /\ idlePending' = <<>>
  /\ accepted = <<>> /\ taken = <<>>
  /\ UNCHANGED <<accepted, taken, nextItem, aim>>
QStep == \/ QUnchanged \/ QCleared \/ QInjected \/ QBegun \/ QueueInputForNextTurn
         \/ TakePendingInput \/ AcceptPending \/ BlockPending \/ RecordPending

\* A step has one of nine effects on the queues.
LEMMA QueueEffects == ControlInv /\ [Next]_vars => QStep
<1> SUFFICES ASSUME ControlInv, [Next]_vars PROVE QStep
  OBVIOUS
<1> USE DEF StepFrame, Quiet, Goto, Finish, ids, flag, local, loop, compact, context, ghosts
<1>1. CASE UNCHANGED vars BY <1>1 DEF vars, QStep, QUnchanged
<1>2. CASE SteerSome
  BY <1>2 DEF SteerSome, SteerInput, QStep, QInjected, SteerAccepted, ControlInv
<1>3. CASE QueueInputForNextTurn BY <1>3 DEF QStep
<1>4. CASE PopPendingForInterrupt BY <1>4 DEF PopPendingForInterrupt, QStep, QCleared
<1>5. CASE Interrupt BY <1>5 DEF Interrupt, QStep, QUnchanged
<1>6. CASE StreamStart BY <1>6 DEF StreamStart, QStep, QBegun, BeginActiveTurn, ControlInv
<1>7. CASE StreamCompactStart
  BY <1>7 DEF StreamCompactStart, QStep, QBegun, BeginActiveTurn, ControlInv
<1>8. CASE StreamFinally BY <1>8 DEF StreamFinally, EndActiveTurn, QStep, QCleared
<1>9. CASE StreamAborted BY <1>9 DEF StreamAborted, QStep, QUnchanged
<1>10. CASE CheckInterrupted BY <1>10 DEF CheckInterrupted, Raise, QStep, QUnchanged
<1>11. CASE Prelude BY <1>11 DEF Prelude, QStep, QUnchanged
<1>12. CASE PreSamplingCompaction
  BY <1>12 DEF PreSamplingCompaction, MayCompact, QStep, QUnchanged
<1>13. CASE RecordInitialContext BY <1>13 DEF RecordInitialContext, QStep, QUnchanged
<1>14. CASE ContextAlreadyRecorded BY <1>14 DEF ContextAlreadyRecorded, QStep, QUnchanged
<1>15. CASE RecordPrompt BY <1>15 DEF RecordPrompt, QStep, QUnchanged
<1>16. CASE IterationsExceeded BY <1>16 DEF IterationsExceeded, QStep, QUnchanged
<1>17. CASE LoopTop BY <1>17 DEF LoopTop, QStep, QUnchanged
<1>18. CASE TakePendingInput BY <1>18 DEF QStep
<1>19. CASE AcceptPending BY <1>19 DEF QStep
<1>20. CASE BlockPending BY <1>20 DEF QStep
<1>21. CASE InspectionDone BY <1>21 DEF InspectionDone, QStep, QUnchanged
<1>22. CASE RecordPending BY <1>22 DEF QStep
<1>23. CASE RecordingDone BY <1>23 DEF RecordingDone, QStep, QUnchanged
<1>24. CASE AllPendingBlocked
  BY <1>24 DEF AllPendingBlocked, NextIteration, Bump, QStep, QUnchanged
<1>25. CASE OpenRequest BY <1>25 DEF OpenRequest, CountRequest, StreamFrame, QStep, QUnchanged
<1>26. CASE SamplingDone BY <1>26 DEF SamplingDone, HasPendingInput, Bump, QStep, QUnchanged
<1>27. CASE StopHook BY <1>27 DEF StopHook, NextIteration, Bump, QStep, QUnchanged
<1>28. CASE AfterAgentHook BY <1>28 DEF AfterAgentHook, QStep, QUnchanged
<1>29. CASE ToolAwaited BY <1>29 DEF ToolAwaited, QStep, QUnchanged
<1>30. CASE ToolFinished BY <1>30 DEF ToolFinished, QStep, QInjected, QUnchanged
<1>31. CASE ToolsDone BY <1>31 DEF ToolsDone, NextIteration, Bump, QStep, QUnchanged
<1>32. CASE StreamInterrupted BY <1>32 DEF StreamInterrupted, Raise, QStep, QUnchanged
<1>33. CASE StreamEvent BY <1>33 DEF StreamEvent, QStep, QUnchanged
<1>34. CASE StreamDone BY <1>34 DEF StreamDone, ReplaceHistory, QStep, QUnchanged
<1>35. CASE StreamFailed BY <1>35 DEF StreamFailed, MayRetry, Raise, QStep, QUnchanged
<1>36. CASE RetryRequest BY <1>36 DEF RetryRequest, QStep, QUnchanged
<1>37. CASE PreCompactHook
  BY <1>37 DEF PreCompactHook, CompactStopped, EndActiveTurn, QStep, QCleared, QUnchanged
<1>38. CASE RemoteCompaction
  BY <1>38 DEF RemoteCompaction, CountRequest, ReplaceHistory, CompactStopped,
     EndActiveTurn, QStep, QCleared, QUnchanged
<1>39. CASE OpenCompactRequest
  BY <1>39 DEF OpenCompactRequest, CountRequest, StreamFrame, QStep, QUnchanged
<1>40. CASE PostCompactHook
  BY <1>40 DEF PostCompactHook, CompactStopped, EndActiveTurn, QStep, QCleared, QUnchanged
<1> QED
  BY <1>1, <1>2, <1>3, <1>4, <1>5, <1>6, <1>7, <1>8, <1>9, <1>10, <1>11, <1>12, <1>13, <1>14,
     <1>15, <1>16, <1>17, <1>18, <1>19, <1>20, <1>21, <1>22, <1>23, <1>24, <1>25, <1>26, <1>27,
     <1>28, <1>29, <1>30, <1>31, <1>32, <1>33, <1>34, <1>35, <1>36, <1>37, <1>38, <1>39, <1>40
  DEF Next, Others, TurnStep

-----------------------------------------------------------------------------
(* Order.                                                                  *)

\* PipelineOrdered is not inductive as it stands: an item enters the pipeline
\* from the idle queue too, and stays in order because the numbers handed
\* out so far are all below the next one.
OrderInv ==
  /\ StrictlyIncreasing(turnLog) /\ StrictlyIncreasing(accepted) /\ StrictlyIncreasing(taken)
  /\ StrictlyIncreasing(pending) /\ StrictlyIncreasing(idlePending)
  /\ Before(turnLog, accepted) /\ Before(turnLog, taken) /\ Before(turnLog, pending)
  /\ Before(accepted, taken) /\ Before(accepted, pending) /\ Before(taken, pending)
  /\ Below(turnLog, nextItem) /\ Below(accepted, nextItem) /\ Below(taken, nextItem)
  /\ Below(pending, nextItem) /\ Below(idlePending, nextItem)

\* The queues are sequences of numbers.
LEMMA QueuesOfNumbers ==
  ASSUME TypeOK
  PROVE  /\ turnLog \in Seq(Nat) /\ accepted \in Seq(Nat) /\ taken \in Seq(Nat)
         /\ pending \in Seq(Nat) /\ idlePending \in Seq(Nat) /\ nextItem \in Nat
<1>1. Items \subseteq Nat BY DEF Items
<1>2. \A s \in Seq(Items) : s \in Seq(Nat) BY <1>1, SeqMonotonic
<1> QED BY <1>2, BoundsAssumption DEF TypeOK

\* Every step keeps the order.
LEMMA OrderStep == TypeOK /\ ControlInv /\ OrderInv /\ [Next]_vars => OrderInv'
<1> SUFFICES ASSUME TypeOK, ControlInv, OrderInv, [Next]_vars PROVE OrderInv'
  OBVIOUS
<1>a. /\ turnLog \in Seq(Nat) /\ accepted \in Seq(Nat) /\ taken \in Seq(Nat)
      /\ pending \in Seq(Nat) /\ idlePending \in Seq(Nat) /\ nextItem \in Nat
  BY QueuesOfNumbers
<1>b. \A s, n : /\ StrictlyIncreasing(<<>>) /\ Below(<<>>, n)
                /\ Before(<<>>, s) /\ Before(s, <<>>)
  BY EmptyOrder
<1>c. \A s \in Seq(Nat) : Below(s, nextItem) => Below(s, nextItem + 1) BY <1>a, BelowGrows
<1>1. CASE QUnchanged BY <1>1 DEF QUnchanged, OrderInv
<1>2. CASE QCleared BY <1>2, <1>b DEF QCleared, OrderInv
<1>3. CASE QInjected
  <2>1. /\ pending' = Append(pending, nextItem) /\ nextItem' = nextItem + 1
        /\ UNCHANGED <<turnLog, accepted, taken, idlePending>>
    BY <1>3 DEF QInjected, Inject
  <2>2. StrictlyIncreasing(pending') BY <1>a, <2>1, AppendIncreasing DEF OrderInv
  <2>3. Below(pending', nextItem')
    <3>1. Below(pending, nextItem + 1) /\ nextItem < nextItem + 1 /\ nextItem + 1 \in Nat
      BY <1>a, <1>c DEF OrderInv
    <3> QED BY <1>a, <2>1, <3>1, AppendBounds
  <2>4. /\ Before(turnLog, pending') /\ Before(accepted, pending') /\ Before(taken, pending')
    BY <1>a, <2>1, AppendBounds DEF OrderInv
  <2> QED BY <1>a, <1>c, <2>1, <2>2, <2>3, <2>4 DEF OrderInv
<1>4. CASE QBegun BY <1>4, <1>b DEF QBegun, OrderInv
<1>5. CASE QueueInputForNextTurn
  <2>1. /\ idlePending' = Append(idlePending, nextItem) /\ nextItem' = nextItem + 1
        /\ UNCHANGED <<turnLog, accepted, taken, pending>>
    BY <1>5 DEF QueueInputForNextTurn, local
  <2>2. StrictlyIncreasing(idlePending') BY <1>a, <2>1, AppendIncreasing DEF OrderInv
  <2>3. Below(idlePending', nextItem')
    <3>1. Below(idlePending, nextItem + 1) /\ nextItem < nextItem + 1 /\ nextItem + 1 \in Nat
      BY <1>a, <1>c DEF OrderInv
    <3> QED BY <1>a, <2>1, <3>1, AppendBounds
  <2> QED BY <1>a, <1>c, <2>1, <2>2, <2>3 DEF OrderInv
<1>6. CASE TakePendingInput
  BY <1>6, <1>b DEF TakePendingInput, StepFrame, ghosts, OrderInv
<1>7. CASE AcceptPending
  <2>1. /\ taken # <<>> /\ accepted' = Append(accepted, Head(taken)) /\ taken' = Tail(taken)
        /\ UNCHANGED <<turnLog, pending, idlePending, nextItem>>
    BY <1>7 DEF AcceptPending, StepFrame, ghosts
  <2> QED BY <1>a, <2>1, MoveHead DEF OrderInv
<1>8. CASE BlockPending
  <2>1. /\ taken # <<>> /\ pending' = Tail(taken) \o pending /\ taken' = <<>>
        /\ UNCHANGED <<turnLog, accepted, idlePending, nextItem>>
    BY <1>8 DEF BlockPending, Requeue, StepFrame, ghosts
  <2> DEFINE r == Tail(taken)
  <2>2. r \in Seq(Nat) BY <1>a, <2>1, HeadTailProperties
  <2>3. /\ StrictlyIncreasing(r) /\ Before(accepted, r) /\ Before(turnLog, r)
        /\ Before(r, pending) /\ Below(r, nextItem)
    <3>1. /\ r \in Seq(Nat) /\ StrictlyIncreasing(r)
          /\ \A k \in DOMAIN r : k + 1 \in DOMAIN taken /\ r[k] = taken[k + 1]
      BY <1>a, <2>1, TailOrder DEF OrderInv
    <3> QED BY <3>1 DEF OrderInv, Before, Below
  <2>4. StrictlyIncreasing(pending') BY <1>a, <2>1, <2>2, <2>3, ConcatIncreasing DEF OrderInv
  <2>5. /\ Before(accepted, pending') /\ Before(turnLog, pending') /\ Below(pending', nextItem)
    BY <1>a, <2>1, <2>2, <2>3, ConcatBounds DEF OrderInv
  <2> QED BY <1>b, <2>1, <2>4, <2>5 DEF OrderInv
<1>9. CASE RecordPending
  <2>1. /\ accepted # <<>> /\ turnLog' = Append(turnLog, Head(accepted))
        /\ accepted' = Tail(accepted) /\ UNCHANGED <<taken, pending, idlePending, nextItem>>
    BY <1>9 DEF RecordPending, ghosts
  <2> QED BY <1>a, <2>1, MoveHead DEF OrderInv
<1> QED
  BY <1>1, <1>2, <1>3, <1>4, <1>5, <1>6, <1>7, <1>8, <1>9, QueueEffects DEF QStep

\* The parts in order make the pipeline ordered.
LEMMA OrderedPipeline == TypeOK /\ OrderInv => PipelineOrdered
<1> SUFFICES ASSUME TypeOK, OrderInv PROVE PipelineOrdered
  OBVIOUS
<1>a. /\ turnLog \in Seq(Nat) /\ accepted \in Seq(Nat) /\ taken \in Seq(Nat)
      /\ pending \in Seq(Nat)
  BY QueuesOfNumbers
<1> DEFINE s == turnLog \o accepted
           t == s \o taken
<1>1. s \in Seq(Nat) /\ StrictlyIncreasing(s) BY <1>a, ConcatElements, ConcatIncreasing DEF OrderInv
<1>2. Before(s, taken) /\ Before(s, pending) BY <1>a, ConcatBounds DEF OrderInv
<1> HIDE DEF s
<1>3. t \in Seq(Nat) /\ StrictlyIncreasing(t)
  BY <1>a, <1>1, <1>2, ConcatElements, ConcatIncreasing DEF OrderInv
<1>4. Before(t, pending) BY <1>a, <1>1, <1>2, ConcatBounds DEF OrderInv
<1> HIDE DEF t
<1>5. StrictlyIncreasing(t \o pending) BY <1>a, <1>3, <1>4, ConcatIncreasing DEF OrderInv
<1> QED BY <1>5 DEF PipelineOrdered, Pipeline, s, t

-----------------------------------------------------------------------------
(* Aims, and the queue of an idle session.                                 *)

\* every item of s came for the current turn, or for whichever was running
Aimed(s) == \A k \in DOMAIN s : aim[s[k]] \in {0, turn}
\* AimHonoured needs the idle queue and the numbers not yet handed out: they
\* name no turn, so that the next turn may take them.
AimInv ==
  /\ Aimed(turnLog) /\ Aimed(accepted) /\ Aimed(taken) /\ Aimed(pending)
  /\ \A k \in DOMAIN idlePending : aim[idlePending[k]] = 0
  /\ \A i \in Items : i >= nextItem => aim[i] = 0

\* Every step keeps the aims.
LEMMA AimStep == TypeOK /\ ControlInv /\ OrderInv /\ AimInv /\ [Next]_vars => AimInv'
<1> SUFFICES ASSUME TypeOK, ControlInv, OrderInv, AimInv, [Next]_vars PROVE AimInv'
  OBVIOUS
<1>a. /\ turnLog \in Seq(Nat) /\ accepted \in Seq(Nat) /\ taken \in Seq(Nat)
      /\ pending \in Seq(Nat) /\ idlePending \in Seq(Nat) /\ nextItem \in Nat
  BY QueuesOfNumbers
<1>b. DOMAIN <<>> = {} OBVIOUS
<1>1. CASE QUnchanged BY <1>1 DEF QUnchanged, AimInv, Aimed
<1>2. CASE QCleared BY <1>2, <1>b DEF QCleared, AimInv, Aimed
<1>3. CASE QInjected
  <2>1. PICK e \in {0, turn} : Inject(e) BY <1>3 DEF QInjected
  <2>2. /\ pending' = Append(pending, nextItem) /\ nextItem' = nextItem + 1
        /\ aim' = [aim EXCEPT ![nextItem] = e] /\ nextItem \in Items
        /\ UNCHANGED <<turnLog, accepted, taken, idlePending, turn>>
    BY <1>3, <2>1, BoundsAssumption DEF QInjected, Inject, TypeOK, Items
  <2>3. aim'[nextItem] = e /\ \A i \in Items : i # nextItem => aim'[i] = aim[i]
    BY <2>2 DEF TypeOK
  <2>4. ASSUME NEW s \in Seq(Items), Below(s, nextItem)
        PROVE  \A k \in DOMAIN s : aim'[s[k]] = aim[s[k]]
    <3>1. \A k \in DOMAIN s : s[k] \in Items /\ s[k] < nextItem
      BY <2>4, LenProperties, ElementOfSeq DEF Below
    <3> QED BY <1>a, <2>3, <3>1 DEF Items
  <2>5. /\ \A k \in DOMAIN turnLog : aim'[turnLog[k]] = aim[turnLog[k]]
        /\ \A k \in DOMAIN accepted : aim'[accepted[k]] = aim[accepted[k]]
        /\ \A k \in DOMAIN taken : aim'[taken[k]] = aim[taken[k]]
        /\ \A k \in DOMAIN pending : aim'[pending[k]] = aim[pending[k]]
        /\ \A k \in DOMAIN idlePending : aim'[idlePending[k]] = aim[idlePending[k]]
    BY <2>4 DEF TypeOK, OrderInv
  <2>6. \A k \in DOMAIN pending' : aim'[pending'[k]] \in {0, turn}
    <3>1. \A k \in DOMAIN pending : aim'[pending[k]] \in {0, turn} BY <1>a, <2>5 DEF AimInv, Aimed
    <3>2. aim'[nextItem] \in {0, turn} BY <2>3
    <3>3. \A k \in DOMAIN pending' :
             (k \in DOMAIN pending /\ pending'[k] = pending[k]) \/ pending'[k] = nextItem
      BY <1>a, <2>2, AppendElements
    <3> QED BY <3>1, <3>2, <3>3
  <2>7. \A i \in Items : i >= nextItem' => aim'[i] = 0
    <3>1. \A i \in Items : i >= nextItem' => i # nextItem /\ i >= nextItem
      BY <2>2 DEF Items
    <3> QED BY <1>a, <2>3, <3>1 DEF AimInv
  <2> QED BY <2>2, <2>5, <2>6, <2>7 DEF AimInv, Aimed
<1>4. CASE QBegun BY <1>4, <1>b DEF QBegun, AimInv, Aimed
<1>5. CASE QueueInputForNextTurn
  <2>1. /\ idlePending' = Append(idlePending, nextItem) /\ nextItem' = nextItem + 1
        /\ nextItem \in Items /\ UNCHANGED <<turnLog, accepted, taken, pending, aim, turn>>
    BY <1>5, BoundsAssumption DEF QueueInputForNextTurn, local, ids, TypeOK, Items
  <2>2. aim[nextItem] = 0 BY <1>a, <2>1 DEF AimInv
  <2>3. \A k \in DOMAIN idlePending' : aim'[idlePending'[k]] = 0
    BY <1>a, <2>1, <2>2, AppendElements DEF AimInv
  <2>4. \A i \in Items : i >= nextItem' => aim'[i] = 0 BY <1>a, <2>1 DEF AimInv, Items
  <2> QED BY <2>1, <2>3, <2>4 DEF AimInv, Aimed
<1>6. CASE TakePendingInput
  BY <1>6, <1>b DEF TakePendingInput, Goto, StepFrame, ghosts, ids, AimInv, Aimed
<1>7. CASE AcceptPending
  <2>1. /\ taken # <<>> /\ accepted' = Append(accepted, Head(taken)) /\ taken' = Tail(taken)
        /\ UNCHANGED <<turnLog, pending, idlePending, nextItem, aim, turn>>
    BY <1>7 DEF AcceptPending, Goto, StepFrame, ghosts, ids
  <2>2. /\ Head(taken) = taken[1] /\ 1 \in DOMAIN taken /\ Head(taken) \in Nat
        /\ \A k \in DOMAIN Tail(taken) : k + 1 \in DOMAIN taken /\ Tail(taken)[k] = taken[k + 1]
    BY <1>a, <2>1, TailOrder, HeadTailProperties DEF OrderInv
  <2>3. Aimed(taken)' BY <2>1, <2>2 DEF AimInv, Aimed
  <2>4. Aimed(accepted)' BY <1>a, <2>1, <2>2, AppendElements, SMTT(40) DEF AimInv, Aimed
  <2> QED BY <2>1, <2>3, <2>4 DEF AimInv, Aimed
<1>8. CASE BlockPending
  <2>1. /\ taken # <<>> /\ pending' = Tail(taken) \o pending /\ taken' = <<>>
        /\ UNCHANGED <<turnLog, accepted, idlePending, nextItem, aim, turn>>
    BY <1>8 DEF BlockPending, Requeue, Goto, StepFrame, ghosts, ids
  <2>2. /\ Tail(taken) \in Seq(Nat)
        /\ \A k \in DOMAIN Tail(taken) : k + 1 \in DOMAIN taken /\ Tail(taken)[k] = taken[k + 1]
    BY <1>a, <2>1, TailOrder DEF OrderInv
  <2>3. \A k \in DOMAIN pending' :
          \/ \E j \in DOMAIN taken : pending'[k] = taken[j]
          \/ \E j \in DOMAIN pending : pending'[k] = pending[j]
    <3> DEFINE r == Tail(taken)
    <3>1. \A k \in DOMAIN (r \o pending) :
             \/ k \in DOMAIN r /\ (r \o pending)[k] = r[k]
             \/ k - Len(r) \in DOMAIN pending /\ (r \o pending)[k] = pending[k - Len(r)]
      BY <1>a, <2>2, ConcatElements
    <3> QED BY <2>1, <2>2, <3>1
  <2>4. Aimed(pending)' BY <2>1, <2>3 DEF AimInv, Aimed
  <2> QED BY <1>b, <2>1, <2>4 DEF AimInv, Aimed
<1>9. CASE RecordPending
  <2>1. /\ accepted # <<>> /\ turnLog' = Append(turnLog, Head(accepted))
        /\ accepted' = Tail(accepted)
        /\ UNCHANGED <<taken, pending, idlePending, nextItem, aim, turn>>
    BY <1>9 DEF RecordPending, Goto, ghosts, ids
  <2>2. /\ Head(accepted) = accepted[1] /\ 1 \in DOMAIN accepted /\ Head(accepted) \in Nat
        /\ \A k \in DOMAIN Tail(accepted) :
             k + 1 \in DOMAIN accepted /\ Tail(accepted)[k] = accepted[k + 1]
    BY <1>a, <2>1, TailOrder, HeadTailProperties DEF OrderInv
  <2>3. Aimed(accepted)' BY <2>1, <2>2 DEF AimInv, Aimed
  <2>4. Aimed(turnLog)' BY <1>a, <2>1, <2>2, AppendElements, SMTT(40) DEF AimInv, Aimed
  <2> QED BY <2>1, <2>3, <2>4 DEF AimInv, Aimed
<1> QED
  BY <1>1, <1>2, <1>3, <1>4, <1>5, <1>6, <1>7, <1>8, <1>9, QueueEffects DEF QStep

\* The aims of the parts are those of the pipeline.
LEMMA AimedPipeline == TypeOK /\ AimInv => AimHonoured
<1> SUFFICES ASSUME TypeOK, AimInv PROVE AimHonoured
  OBVIOUS
<1>a. /\ turnLog \in Seq(Nat) /\ accepted \in Seq(Nat) /\ taken \in Seq(Nat)
      /\ pending \in Seq(Nat)
  BY QueuesOfNumbers
<1> DEFINE s == turnLog \o accepted
           t == s \o taken
<1>1. s \in Seq(Nat) /\ Aimed(s) BY <1>a, ConcatElements DEF AimInv, Aimed
<1> HIDE DEF s
<1>2. t \in Seq(Nat) /\ Aimed(t) BY <1>a, <1>1, ConcatElements DEF AimInv, Aimed
<1> HIDE DEF t
<1>3. Aimed(t \o pending) BY <1>a, <1>2, ConcatElements DEF AimInv, Aimed
<1> QED BY <1>3 DEF AimHonoured, Aimed, Pipeline, Range, s, t

\* Every step leaves the queue of an idle session empty.
LEMMA QuietStep == TypeOK /\ ControlInv /\ QuietWhenIdle /\ [Next]_vars => QuietWhenIdle'
<1> SUFFICES ASSUME TypeOK, ControlInv, QuietWhenIdle, [Next]_vars PROVE QuietWhenIdle'
  OBVIOUS
<1> USE DEF StepFrame, Quiet, Goto, Finish, ids, flag, local, loop, compact, context, ghosts,
          QuietWhenIdle, ControlInv, CompactPCs
<1>1. CASE UNCHANGED vars BY <1>1 DEF vars
<1>2. CASE SteerSome BY <1>2 DEF SteerSome, SteerInput, SteerAccepted, Inject
<1>3. CASE QueueInputForNextTurn BY <1>3 DEF QueueInputForNextTurn
<1>4. CASE PopPendingForInterrupt BY <1>4 DEF PopPendingForInterrupt
<1>5. CASE Interrupt BY <1>5 DEF Interrupt
<1>6. CASE StreamStart BY <1>6 DEF StreamStart, BeginActiveTurn
<1>7. CASE StreamCompactStart BY <1>7 DEF StreamCompactStart, BeginActiveTurn
<1>8. CASE StreamFinally BY <1>8 DEF StreamFinally, EndActiveTurn
<1>9. CASE StreamAborted BY <1>9 DEF StreamAborted
<1>10. CASE CheckInterrupted BY <1>10 DEF CheckInterrupted, Raise
<1>11. CASE Prelude BY <1>11 DEF Prelude, Checked
<1>12. CASE PreSamplingCompaction BY <1>12 DEF PreSamplingCompaction, MayCompact
<1>13. CASE RecordInitialContext BY <1>13 DEF RecordInitialContext, Checked
<1>14. CASE ContextAlreadyRecorded BY <1>14 DEF ContextAlreadyRecorded
<1>15. CASE RecordPrompt BY <1>15 DEF RecordPrompt
<1>16. CASE IterationsExceeded BY <1>16 DEF IterationsExceeded
<1>17. CASE LoopTop BY <1>17 DEF LoopTop, Checked
<1>18. CASE TakePendingInput BY <1>18 DEF TakePendingInput
<1>19. CASE AcceptPending BY <1>19 DEF AcceptPending, Checked
<1>20. CASE BlockPending BY <1>20 DEF BlockPending, Requeue, Checked
<1>21. CASE InspectionDone BY <1>21 DEF InspectionDone
<1>22. CASE RecordPending BY <1>22 DEF RecordPending, Checked
<1>23. CASE RecordingDone BY <1>23 DEF RecordingDone
<1>24. CASE AllPendingBlocked BY <1>24 DEF AllPendingBlocked, NextIteration, Bump
<1>25. CASE OpenRequest BY <1>25 DEF OpenRequest, CountRequest, StreamFrame, Checked
<1>26. CASE SamplingDone BY <1>26 DEF SamplingDone, HasPendingInput, Bump, Checked
<1>27. CASE StopHook BY <1>27 DEF StopHook, NextIteration, Bump
<1>28. CASE AfterAgentHook BY <1>28 DEF AfterAgentHook
<1>29. CASE ToolAwaited BY <1>29 DEF ToolAwaited, Checked
<1>30. CASE ToolFinished BY <1>30 DEF ToolFinished, Inject
<1>31. CASE ToolsDone BY <1>31 DEF ToolsDone, NextIteration, Bump, Checked
<1>32. CASE StreamInterrupted BY <1>32 DEF StreamInterrupted, Raise
<1>33. CASE StreamEvent BY <1>33 DEF StreamEvent, Checked
<1>34. CASE StreamDone BY <1>34 DEF StreamDone, ReplaceHistory
<1>35. CASE StreamFailed BY <1>35 DEF StreamFailed, MayRetry, Raise, Checked
<1>36. CASE RetryRequest BY <1>36 DEF RetryRequest, Checked
<1>37. CASE PreCompactHook BY <1>37 DEF PreCompactHook, CompactStopped, EndActiveTurn
<1>38. CASE RemoteCompaction
  BY <1>38 DEF RemoteCompaction, CountRequest, ReplaceHistory, CompactStopped, EndActiveTurn
<1>39. CASE OpenCompactRequest BY <1>39 DEF OpenCompactRequest, CountRequest, StreamFrame
<1>40. CASE PostCompactHook
  <2>1. compactTo \in {"none", "manual", "presample", "context", "drain"} BY DEF TypeOK
  <2> QED BY <1>40, <2>1 DEF PostCompactHook, CompactStopped, EndActiveTurn
<1> QED
  BY <1>1, <1>2, <1>3, <1>4, <1>5, <1>6, <1>7, <1>8, <1>9, <1>10, <1>11, <1>12, <1>13, <1>14,
     <1>15, <1>16, <1>17, <1>18, <1>19, <1>20, <1>21, <1>22, <1>23, <1>24, <1>25, <1>26, <1>27,
     <1>28, <1>29, <1>30, <1>31, <1>32, <1>33, <1>34, <1>35, <1>36, <1>37, <1>38, <1>39, <1>40
  DEF Next, Others, TurnStep

-----------------------------------------------------------------------------
(* Steering is safe.                                                       *)

\* An input item reaches the history at most once and in order, never in a
\* turn its sender did not expect, and none waits for a turn that ended.
THEOREM SteeringCorrect == Spec => []SteeringSafe
<1>1. ASSUME Init PROVE OrderInv /\ AimInv /\ QuietWhenIdle
  <2>1. OrderInv BY <1>1, EmptyOrder DEF Init, OrderInv
  <2>2. AimInv BY <1>1 DEF Init, AimInv, Aimed
  <2> QED BY <1>1, <2>1, <2>2 DEF Init, QuietWhenIdle
<1>2. TypeOK /\ ControlInv /\ OrderInv /\ AimInv /\ QuietWhenIdle /\ [Next]_vars
        => (OrderInv /\ AimInv /\ QuietWhenIdle)'
  BY OrderStep, AimStep, QuietStep
<1>3. TypeOK /\ OrderInv /\ AimInv /\ QuietWhenIdle => SteeringSafe
  BY OrderedPipeline, AimedPipeline DEF SteeringSafe
<1> QED BY <1>1, <1>2, <1>3, TypeCorrect, PTL DEF Spec

\* An input item is recorded at most once and in the order it was given, over
\* the four places it passes through (core.py:655-673, 169-173).
THEOREM InputInOrder == Spec => []PipelineOrdered
<1> QED BY SteeringCorrect, PTL DEF SteeringSafe

\* A steer that names a turn is only ever seen by that turn
\* (core.py:148-167 with 1296-1308).
THEOREM SteersReachTheirTurn == Spec => []AimHonoured
<1> QED BY SteeringCorrect, PTL DEF SteeringSafe

-----------------------------------------------------------------------------
(* No input is lost but what came too late.                                *)

Completed == pc = "end" /\ outcome = "completed"

\* The locals of stream() are empty but while it inspects and records, and
\* from its last look at the queue on only what is late comes into it.
InputInv ==
  /\ pc \notin {"inspect", "record", "end", "abort"} => taken = <<>> /\ accepted = <<>>
  /\ pc = "record" => taken = <<>>
  /\ Completed => taken = <<>> /\ accepted = <<>>
  /\ pc \in {"stop", "after"} \/ Completed => Range(pending) \subseteq late

\* A sequence has the elements it had and the one that is appended.
LEMMA AppendRange ==
  ASSUME NEW S, NEW s \in Seq(S), NEW x \in S
  PROVE  Range(Append(s, x)) = Range(s) \cup {x}
<1>1. <<x>> \in Seq(S) BY EmptySeq
<1>2. Range(<<x>>) = {x} BY DEF Range
<1>3. Append(s, x) = s \o <<x>> BY AppendIsConcat
<1>4. Range(s \o <<x>>) = Range(s) \cup Range(<<x>>) BY <1>1, RangeConcatenation, ZenonT(60)
<1> QED BY <1>2, <1>3, <1>4

\* Every step keeps the queues of stream() so.
LEMMA InputStep == TypeOK /\ ControlInv /\ InputInv /\ [Next]_vars => InputInv'
<1> SUFFICES ASSUME TypeOK, ControlInv, InputInv, [Next]_vars PROVE InputInv'
  OBVIOUS
<1>a. nextItem <= MaxItems /\ pending' = Append(pending, nextItem)
        => Range(pending') = Range(pending) \cup {nextItem}
  <2>1. nextItem <= MaxItems => nextItem \in Items
    BY BoundsAssumption DEF TypeOK, Items
  <2> QED BY <2>1, AppendRange DEF TypeOK
<1> USE DEF StepFrame, Quiet, Goto, Finish, ids, flag, local, loop, compact, context, ghosts,
          InputInv, Completed, ControlInv, CompactPCs
<1>1. CASE UNCHANGED vars \/ QueueInputForNextTurn \/ PopPendingForInterrupt \/ Interrupt
  <2>1. Range(<<>>) = {} BY DEF Range
  <2> QED BY <1>1, <2>1 DEF vars, QueueInputForNextTurn, PopPendingForInterrupt, Interrupt
<1>2. CASE SteerSome
  <2>1. PICK e \in 0..MaxTurns : SteerInput(e) BY <1>2 DEF SteerSome
  <2>2. Range(pending') = Range(pending) \cup {nextItem} BY <2>1, <1>a DEF SteerInput, Inject
  <2> QED BY <2>1, <2>2 DEF SteerInput, Inject, Finishing
<1>3. CASE StreamStart \/ StreamCompactStart
  BY <1>3 DEF StreamStart, StreamCompactStart, BeginActiveTurn
<1>4. CASE StreamFinally \/ StreamAborted \/ CheckInterrupted
  BY <1>4 DEF StreamFinally, StreamAborted, CheckInterrupted, EndActiveTurn, Raise, AtCheck
<1>5. CASE Prelude \/ PreSamplingCompaction \/ RecordPrompt
  BY <1>5 DEF Prelude, Checked, PreSamplingCompaction, MayCompact, RecordPrompt
<1>6. CASE RecordInitialContext \/ ContextAlreadyRecorded
  BY <1>6 DEF RecordInitialContext, Checked, ContextAlreadyRecorded
<1>7. CASE IterationsExceeded \/ LoopTop \/ AllPendingBlocked
  BY <1>7 DEF IterationsExceeded, LoopTop, Checked, AllPendingBlocked, NextIteration, Bump
<1>8. CASE TakePendingInput \/ AcceptPending \/ BlockPending
  BY <1>8 DEF TakePendingInput, AcceptPending, BlockPending, Requeue, Checked
<1>9. CASE InspectionDone \/ RecordPending \/ RecordingDone
  BY <1>9 DEF InspectionDone, RecordPending, RecordingDone, Checked
<1>10. CASE OpenRequest \/ OpenCompactRequest
  BY <1>10 DEF OpenRequest, OpenCompactRequest, CountRequest, StreamFrame, Checked
<1>11. CASE SamplingDone \/ StopHook \/ AfterAgentHook
  <2>1. Range(<<>>) = {} BY DEF Range
  <2> QED BY <1>11, <2>1 DEF SamplingDone, HasPendingInput, Bump, NextIteration, Checked, StopHook, AfterAgentHook
<1>12. CASE ToolAwaited \/ ToolFinished \/ ToolsDone
  BY <1>12 DEF ToolAwaited, ToolFinished, Inject, ToolsDone, NextIteration, Bump, Checked
<1>13. CASE StreamInterrupted \/ StreamEvent \/ RetryRequest
  BY <1>13 DEF StreamInterrupted, StreamEvent, RetryRequest, Raise, Checked
<1>14. CASE StreamDone \/ StreamFailed
  BY <1>14 DEF StreamDone, StreamFailed, ReplaceHistory, Compacting, MayRetry, Raise, Checked
<1>15. CASE PreCompactHook \/ RemoteCompaction
  BY <1>15 DEF PreCompactHook, RemoteCompaction, CountRequest, ReplaceHistory, CompactStopped, EndActiveTurn
<1>16. CASE PostCompactHook
  <2>1. compactTo \in {"none", "manual", "presample", "context", "drain"} BY DEF TypeOK
  <2> QED BY <1>16, <2>1 DEF PostCompactHook, CompactStopped, EndActiveTurn
<1> QED
  BY <1>1, <1>2, <1>3, <1>4, <1>5, <1>6, <1>7, <1>8, <1>9,
     <1>10, <1>11, <1>12, <1>13, <1>14, <1>15, <1>16
  DEF Next, Others, TurnStep

\* Nothing but late input is left where the turn has ended.
LEMMA OnlyLate == TypeOK /\ InputInv => OnlyLateInputIsLost
<1> SUFFICES ASSUME TypeOK, InputInv, Completed PROVE Range(accepted \o taken \o pending) \subseteq late
  BY DEF OnlyLateInputIsLost, Completed
<1>1. accepted = <<>> /\ taken = <<>> BY DEF InputInv
<1>2. accepted \o taken \o pending = pending
  BY <1>1, ConcatEmptySeq, EmptySeq DEF TypeOK
<1> QED BY <1>2 DEF InputInv

\* A turn that completes has recorded, had blocked or handed back all input
\* but what was steered after its last look at the queue (core.py:726).
THEOREM OnlyLateLost == Spec => []OnlyLateInputIsLost
<1>1. Init => InputInv BY DEF Init, InputInv, Completed
<1> QED BY <1>1, InputStep, OnlyLate, TypeCorrect, PTL DEF Spec

-----------------------------------------------------------------------------
(* Requests carry the context.                                             *)

\* where stream() has recorded the context and no compaction is under way
AfterContext == {"prompt", "top", "drain", "inspect", "allBlocked", "record", "request", "route",
                 "stop", "after", "tools", "result", "tooled"}

\* _initial_context_recorded tells what is in the history.
ContextInv ==
  /\ ctxRecorded => ctxCopies[1] >= 1 /\ ctxCopies[2] = 1
  /\ ~ctxRecorded => ctxCopies[2] = 0
  /\ ctxNext = 2 => ctxCopies[1] >= 1
  /\ pc \in AfterContext \/ (pc \in {"stream", "tail", "backoff"} /\ ~Compacting) => ctxRecorded
  /\ compactTo = "drain" => ctxRecorded

\* Every step keeps _initial_context_recorded true to the history.
LEMMA ContextStep == TypeOK /\ ControlInv /\ ContextInv /\ [Next]_vars => ContextInv'
<1> SUFFICES ASSUME TypeOK, ControlInv, ContextInv, [Next]_vars PROVE ContextInv'
  OBVIOUS
<1>a. ctxCopies \in [CtxParts -> Nat] /\ ctxNext \in {1, 2} /\ CtxParts = {1, 2}
  BY DEF TypeOK, CtxParts
<1>b. ReplaceHistory => /\ ctxRecorded' <=> compactTo = "drain"
                        /\ ctxRecorded' => ctxCopies'[1] = 1 /\ ctxCopies'[2] = 1
                        /\ ~ctxRecorded' => ctxCopies'[2] = 0
                        /\ ctxNext' = 1
  BY <1>a DEF ReplaceHistory
<1> USE DEF StepFrame, Quiet, Goto, Finish, ids, flag, local, loop, compact, context, ghosts,
          ContextInv, AfterContext, Compacting, ControlInv, CompactPCs
<1>1. CASE UNCHANGED vars \/ QueueInputForNextTurn \/ PopPendingForInterrupt \/ Interrupt
  BY <1>1 DEF vars, QueueInputForNextTurn, PopPendingForInterrupt, Interrupt
<1>2. CASE SteerSome
  BY <1>2 DEF SteerSome, SteerInput, SteerAccepted, Inject
<1>3. CASE StreamStart \/ StreamCompactStart
  BY <1>3 DEF StreamStart, StreamCompactStart, BeginActiveTurn
<1>4. CASE StreamFinally \/ StreamAborted \/ CheckInterrupted
  BY <1>4 DEF StreamFinally, StreamAborted, CheckInterrupted, EndActiveTurn, Raise, AtCheck
<1>5. CASE Prelude \/ PreSamplingCompaction \/ RecordPrompt
  BY <1>5 DEF Prelude, Checked, PreSamplingCompaction, MayCompact, RecordPrompt
<1>6. CASE RecordInitialContext \/ ContextAlreadyRecorded
  BY <1>6, <1>a DEF RecordInitialContext, Checked, ContextAlreadyRecorded
<1>7. CASE IterationsExceeded \/ LoopTop \/ AllPendingBlocked
  BY <1>7 DEF IterationsExceeded, LoopTop, Checked, AllPendingBlocked, NextIteration, Bump
<1>8. CASE TakePendingInput \/ AcceptPending \/ BlockPending
  BY <1>8 DEF TakePendingInput, AcceptPending, BlockPending, Requeue, Checked
<1>9. CASE InspectionDone \/ RecordPending \/ RecordingDone
  BY <1>9 DEF InspectionDone, RecordPending, RecordingDone, Checked
<1>10. CASE OpenRequest \/ OpenCompactRequest
  BY <1>10 DEF OpenRequest, OpenCompactRequest, CountRequest, StreamFrame, Checked
<1>11. CASE SamplingDone \/ StopHook \/ AfterAgentHook
  BY <1>11 DEF SamplingDone, HasPendingInput, Bump, NextIteration, Checked, StopHook, AfterAgentHook
<1>12. CASE ToolAwaited \/ ToolFinished \/ ToolsDone
  BY <1>12 DEF ToolAwaited, ToolFinished, Inject, ToolsDone, NextIteration, Bump, Checked
<1>13. CASE StreamInterrupted \/ StreamEvent \/ RetryRequest
  BY <1>13 DEF StreamInterrupted, StreamEvent, RetryRequest, Raise, Checked
<1>14. CASE StreamDone \/ StreamFailed
  <2>1. CASE StreamDone
    BY <1>14, <2>1, <1>b DEF StreamDone
  <2>2. CASE StreamFailed
    BY <1>14, <2>2 DEF StreamFailed, MayRetry, Raise, Checked
  <2> QED BY <1>14, <2>1, <2>2
<1>15. CASE PreCompactHook \/ RemoteCompaction
  <2>1. CASE PreCompactHook
    BY <2>1 DEF PreCompactHook, CompactStopped, EndActiveTurn
  <2>2. CASE RemoteCompaction
    <3>1. CASE Goto("c_post") /\ ReplaceHistory /\ UNCHANGED <<pending, compactTo>>
      BY <2>2, <3>1, <1>b
    <3>2. CASE UNCHANGED context
      BY <2>2, <3>2 DEF RemoteCompaction, ReplaceHistory, CompactStopped, EndActiveTurn
    <3> QED BY <2>2, <3>1, <3>2 DEF RemoteCompaction
  <2> QED BY <1>15, <2>1, <2>2
<1>16. CASE PostCompactHook
  <2>1. compactTo \in {"none", "manual", "presample", "context", "drain"} BY DEF TypeOK
  <2> QED BY <1>16, <2>1 DEF PostCompactHook, CompactStopped, EndActiveTurn
<1> QED
  BY <1>1, <1>2, <1>3, <1>4, <1>5, <1>6, <1>7, <1>8, <1>9,
     <1>10, <1>11, <1>12, <1>13, <1>14, <1>15, <1>16
  DEF Next, Others, TurnStep

\* Every sampling request carries both context messages, and the history never
\* has two of the second, whatever compactions and interrupts did to it
\* (core.py:618-623 with 430).
THEOREM ContextInRequests == Spec => []RequestsCarryContext
<1>1. Init => ContextInv BY DEF Init, ContextInv, AfterContext, CtxParts
<1>2. TypeOK /\ ContextInv => RequestsCarryContext
  <2> SUFFICES ASSUME TypeOK, ContextInv PROVE RequestsCarryContext
    OBVIOUS
  <2>1. ctxCopies \in [CtxParts -> Nat] /\ CtxParts = {1, 2} BY DEF TypeOK, CtxParts
  <2> QED BY <2>1 DEF ContextInv, RequestsCarryContext
<1> QED BY <1>1, <1>2, ContextStep, TypeCorrect, PTL DEF Spec

-----------------------------------------------------------------------------
(* An interrupt stops requests.                                            *)

\* the requests that can still be opened before _interrupt_event or the markers
\* are looked at; no reply is read to its end once it is set
Left ==
  IF pc \in {"downshift", "c_pre", "c_remote"} \/ (pc = "presample" /\ ~marked) THEN 2
  ELSE IF pc = "c_open" THEN 1 ELSE 0

InterruptInv == (~interrupted => sinceInt = 0) /\ sinceInt + Left <= 2

\* Every step leaves room for the requests that can still come.
LEMMA InterruptStep == TypeOK /\ ControlInv /\ InterruptInv /\ [Next]_vars => InterruptInv'
<1> SUFFICES ASSUME TypeOK, ControlInv, InterruptInv, [Next]_vars PROVE InterruptInv'
  OBVIOUS
<1>a. sinceInt \in Nat /\ marked \in BOOLEAN BY DEF TypeOK
<1> USE DEF StepFrame, Quiet, Goto, Finish, ids, flag, local, loop, compact, context, ghosts,
          InterruptInv, Left, ControlInv, CompactPCs, Recorded, MayBeRecorded, Unmarked
<1>1. CASE UNCHANGED vars \/ QueueInputForNextTurn \/ PopPendingForInterrupt \/ Interrupt
  BY <1>1, <1>a DEF vars, QueueInputForNextTurn, PopPendingForInterrupt, Interrupt
<1>2. CASE SteerSome
  BY <1>2, <1>a DEF SteerSome, SteerInput, SteerAccepted, Inject
<1>3. CASE StreamStart \/ StreamCompactStart
  BY <1>3, <1>a DEF StreamStart, StreamCompactStart, BeginActiveTurn
<1>4. CASE StreamFinally \/ StreamAborted \/ CheckInterrupted
  BY <1>4, <1>a DEF StreamFinally, StreamAborted, CheckInterrupted, EndActiveTurn, Raise, AtCheck
<1>5. CASE Prelude \/ PreSamplingCompaction \/ RecordPrompt
  BY <1>5, <1>a DEF Prelude, Checked, PreSamplingCompaction, MayCompact, RecordPrompt
<1>6. CASE RecordInitialContext \/ ContextAlreadyRecorded
  BY <1>6, <1>a DEF RecordInitialContext, Checked, ContextAlreadyRecorded
<1>7. CASE IterationsExceeded \/ LoopTop \/ AllPendingBlocked
  BY <1>7, <1>a DEF IterationsExceeded, LoopTop, Checked, AllPendingBlocked, NextIteration, Bump
<1>8. CASE TakePendingInput \/ AcceptPending \/ BlockPending
  BY <1>8, <1>a DEF TakePendingInput, AcceptPending, BlockPending, Requeue, Checked
<1>9. CASE InspectionDone \/ RecordPending \/ RecordingDone
  BY <1>9, <1>a DEF InspectionDone, RecordPending, RecordingDone, Checked
<1>10. CASE OpenRequest \/ OpenCompactRequest
  BY <1>10, <1>a DEF OpenRequest, OpenCompactRequest, CountRequest, StreamFrame, Checked
<1>11. CASE SamplingDone \/ StopHook \/ AfterAgentHook
  BY <1>11, <1>a DEF SamplingDone, HasPendingInput, Bump, NextIteration, Checked, StopHook, AfterAgentHook
<1>12. CASE ToolAwaited \/ ToolFinished \/ ToolsDone
  BY <1>12, <1>a DEF ToolAwaited, ToolFinished, Inject, ToolsDone, NextIteration, Bump, Checked
<1>13. CASE StreamInterrupted \/ StreamEvent \/ RetryRequest
  BY <1>13, <1>a DEF StreamInterrupted, StreamEvent, RetryRequest, Raise, Checked
<1>14. CASE StreamDone \/ StreamFailed
  BY <1>14, <1>a DEF StreamDone, StreamFailed, ReplaceHistory, Compacting, MayRetry, Raise, Checked
<1>15. CASE PreCompactHook \/ RemoteCompaction
  BY <1>15, <1>a DEF PreCompactHook, RemoteCompaction, CountRequest, ReplaceHistory, CompactStopped, EndActiveTurn
<1>16. CASE PostCompactHook
  <2>1. compactTo \in {"none", "manual", "presample", "context", "drain"} BY DEF TypeOK
  <2> QED BY <1>16, <2>1, <1>a DEF PostCompactHook, CompactStopped, EndActiveTurn
<1> QED
  BY <1>1, <1>2, <1>3, <1>4, <1>5, <1>6, <1>7, <1>8, <1>9,
     <1>10, <1>11, <1>12, <1>13, <1>14, <1>15, <1>16
  DEF Next, Others, TurnStep

\* Two model requests at most are opened in a turn once _interrupt_event is
\* set: a remote compaction and its local fallback (core.py:368-411, 599-603).
THEOREM InterruptStops == Spec => []InterruptStopsRequests
<1>1. Init => InterruptInv BY DEF Init, InterruptInv, Left
<1>2. TypeOK /\ InterruptInv => InterruptStopsRequests
  BY DEF TypeOK, InterruptInv, Left, InterruptStopsRequests
<1> QED BY <1>1, <1>2, InterruptStep, TypeCorrect, PTL DEF Spec
=============================================================================
