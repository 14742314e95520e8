---------------------------- MODULE RolloutProofs ----------------------------
(***************************************************************************)
(* That Rollout implements Conversation, that every request carries the    *)
(* initial context and pairs calls with outputs, and that no text of the   *)
(* user is in the history twice.                                           *)
(***************************************************************************)
EXTENDS Rollout, SequenceTheorems, WellFoundedInduction, TLAPS

-----------------------------------------------------------------------------
(* The greatest of a bounded set of numbers.                               *)

\* a set of natural numbers has a least element
LEMMA Least ==
  ASSUME NEW T, T \subseteq Nat, T # {}
  PROVE  \E x \in T : \A y \in T : x <= y
<1>1. PICK x \in T : \A y \in T : ~ (<<y, x>> \in OpToRel(<, Nat))
  BY NatLessThanWellFounded, WFMin
<1>2. \A y \in T : ~(y < x) BY <1>1 DEF OpToRel
<1> QED BY <1>2

\* and one that is bounded a greatest, which is its Max
LEMMA MaxIs ==
  ASSUME NEW S, S \subseteq Nat, S # {}, NEW b \in Nat, \A x \in S : x <= b
  PROVE  Max(S) \in S /\ \A y \in S : y <= Max(S)
<1> DEFINE T == {b - x : x \in S}
<1>0. \A x \in S : b - x \in Nat OBVIOUS
<1>1. T \subseteq Nat /\ T # {} BY <1>0, Zenon
<1>2. PICK m \in T : \A y \in T : m <= y BY <1>1, Least
<1>3. PICK x \in S : m = b - x BY <1>2
<1>4. \A y \in S : b - x <= b - y BY <1>2, <1>3
<1>5. \A y \in S : x >= y BY <1>4
<1>6. Max(S) \in S /\ \A y \in S : Max(S) >= y BY <1>5 DEF Max
<1> QED BY <1>6

-----------------------------------------------------------------------------
(* Sequences in general.                                                   *)

\* A set of sequences that has the empty one and, with each, those that are one
\* element longer, has them all.
LEMMA SeqInduction ==
  ASSUME NEW U, NEW T, <<>> \in T, \A s \in Seq(U), e \in U : s \in T => Append(s, e) \in T
  PROVE  Seq(U) \subseteq T
<1> DEFINE Longs == {n \in Nat : \E s \in Seq(U) : Len(s) = n /\ s \notin T}
<1>1. SUFFICES ASSUME NEW s \in Seq(U), s \notin T PROVE FALSE OBVIOUS
<1>2. Len(s) \in Longs BY <1>1, LenProperties
<1>3. PICK n \in Longs : \A y \in Longs : ~ (<<y, n>> \in OpToRel(<, Nat))
  BY <1>2, NatLessThanWellFounded, WFMin
<1>4. PICK t \in Seq(U) : Len(t) = n /\ t \notin T BY <1>3
<1>5. t # <<>> BY <1>4
<1>6. PICK u \in Seq(U), e \in U : t = Append(u, e) BY <1>5, SequenceEmptyOrAppend
<1>7. Len(u) \in Nat /\ n \in Nat /\ n = Len(u) + 1 BY <1>4, <1>6, AppendProperties, LenProperties
<1>8. CASE u \in T BY <1>4, <1>6, <1>8
<1>9. CASE u \notin T
  <2>1. Len(u) \in Longs BY <1>7, <1>9
  <2>2. <<Len(u), n>> \in OpToRel(<, Nat) BY <1>7 DEF OpToRel
  <2> QED BY <1>3, <2>1, <2>2
<1> QED BY <1>8, <1>9

-----------------------------------------------------------------------------
(* The elements of a sequence that are in a set.                           *)

\* the function that Only is read off
Picks(f, s, S) ==
  f = [i \in 0..Len(s) |-> IF i = 0 THEN <<>>
         ELSE IF s[i] \in S THEN Append(f[i - 1], s[i]) ELSE f[i - 1]]

\* The picks of a longer sequence go on from those of a shorter one.
LEMMA PicksGoOn ==
  ASSUME NEW U, NEW s \in Seq(U), NEW e \in U, NEW S, NEW f, Picks(f, s, S)
  PROVE  \E g : /\ Picks(g, Append(s, e), S)
                /\ g[Len(s) + 1] = IF e \in S THEN Append(f[Len(s)], e) ELSE f[Len(s)]
<1> DEFINE r == Append(s, e)
           g == [i \in 0..Len(r) |-> IF i = Len(r)
                   THEN IF e \in S THEN Append(f[Len(s)], e) ELSE f[Len(s)] ELSE f[i]]
<1>2. /\ r \in Seq(U) /\ Len(s) \in Nat /\ Len(r) = Len(s) + 1 /\ r[Len(r)] = e
      /\ \A i \in 1..Len(s) : r[i] = s[i]
  BY AppendProperties, LenProperties
<1>3. \A i \in 0..Len(s) : g[i] = f[i] BY <1>2
<1>4. g[Len(r)] = IF e \in S THEN Append(f[Len(s)], e) ELSE f[Len(s)] BY <1>2
<1>5. DOMAIN g = 0..Len(r) /\ g = [i \in 0..Len(r) |-> g[i]] OBVIOUS
<1>6. \A i \in 0..Len(s) : f[i] = IF i = 0 THEN <<>>
       ELSE IF s[i] \in S THEN Append(f[i - 1], s[i]) ELSE f[i - 1]
  BY DEF Picks
<1> HIDE DEF g, r
<1>7. \A i \in 0..Len(r) : g[i] = IF i = 0 THEN <<>>
       ELSE IF r[i] \in S THEN Append(g[i - 1], r[i]) ELSE g[i - 1]
  <2>1. ASSUME NEW i \in 0..Len(s) PROVE g[i] = IF i = 0 THEN <<>>
       ELSE IF r[i] \in S THEN Append(g[i - 1], r[i]) ELSE g[i - 1]
    <3>1. i # 0 => g[i - 1] = f[i - 1] /\ r[i] = s[i] BY <1>2, <1>3
    <3> QED BY <1>3, <1>6, <3>1
  <2>2. g[Len(r) - 1] = f[Len(s)] BY <1>2, <1>3
  <2> QED BY <1>2, <1>4, <2>1, <2>2
<1>8. Picks(g, r, S) BY <1>5, <1>7 DEF Picks
<1> QED BY <1>2, <1>4, <1>8 DEF r

\* Every sequence has picks,
LEMMA PicksExist ==
  ASSUME NEW U, NEW s \in Seq(U), NEW S
  PROVE  \E f : Picks(f, s, S)
<1> DEFINE T == {t \in Seq(U) : \E f : Picks(f, t, S)}
<1>1. <<>> \in T
  <2> DEFINE f == [i \in 0..0 |-> <<>>]
  <2>1. Picks(f, <<>>, S) BY DEF Picks
  <2> QED BY <2>1
<1>2. ASSUME NEW t \in Seq(U), NEW e \in U, t \in T PROVE Append(t, e) \in T
  BY <1>2, PicksGoOn, AppendProperties
<1> HIDE DEF T
<1>3. Seq(U) \subseteq T BY <1>1, <1>2, SeqInduction
<1> QED BY <1>3 DEF T

\* and no two.
LEMMA PicksAgree ==
  ASSUME NEW U, NEW s \in Seq(U), NEW S, NEW f, NEW g, Picks(f, s, S), Picks(g, s, S)
  PROVE  f[Len(s)] = g[Len(s)]
<1> DEFINE Bad == {i \in 0..Len(s) : f[i] # g[i]}
<1>1. SUFFICES ASSUME Bad # {} PROVE FALSE BY LenProperties
<1>2. PICK n \in Bad : \A y \in Bad : ~ (<<y, n>> \in OpToRel(<, Nat))
  <2>1. Bad \subseteq Nat BY LenProperties
  <2> HIDE DEF Bad
  <2> QED BY <1>1, <2>1, NatLessThanWellFounded, WFMin
<1>3. \A i \in 0..Len(s) :
        /\ f[i] = IF i = 0 THEN <<>> ELSE IF s[i] \in S THEN Append(f[i - 1], s[i]) ELSE f[i - 1]
        /\ g[i] = IF i = 0 THEN <<>> ELSE IF s[i] \in S THEN Append(g[i - 1], s[i]) ELSE g[i - 1]
  BY DEF Picks
<1>4. n # 0 /\ n - 1 \in 0..Len(s) /\ n \in Nat BY <1>3, LenProperties
<1>5. <<n - 1, n>> \in OpToRel(<, Nat) BY <1>4, LenProperties DEF OpToRel
<1>6. f[n - 1] = g[n - 1] BY <1>2, <1>4, <1>5
<1> QED BY <1>3, <1>4, <1>6

\* Only is the last pick.
LEMMA OnlyIsPicked ==
  ASSUME NEW U, NEW s \in Seq(U), NEW S, NEW f, Picks(f, s, S)
  PROVE  Only(s, S) = f[Len(s)]
<1> DEFINE g == CHOOSE g : Picks(g, s, S)
<1>1. Picks(g, s, S) BY PicksExist
<1>2. Only(s, S) = g[Len(s)] BY DEF Only, Picks
<1> HIDE DEF g
<1> QED BY <1>1, <1>2, PicksAgree

\* Nothing is picked from nothing.
LEMMA OnlyEmpty == ASSUME NEW S PROVE Only(<<>>, S) = <<>>
<1> DEFINE f == [i \in 0..0 |-> <<>>]
<1>1. Picks(f, <<>>, S) BY DEF Picks
<1>2. <<>> \in Seq({}) /\ Len(<<>>) = 0 BY EmptySeq
<1>3. f[0] = <<>> OBVIOUS
<1> HIDE DEF f
<1> QED BY <1>1, <1>2, <1>3, OnlyIsPicked

\* Another element is picked or passed over.
LEMMA OnlyAppend ==
  ASSUME NEW U, NEW s \in Seq(U), NEW e \in U, NEW S
  PROVE  Only(Append(s, e), S) = IF e \in S THEN Append(Only(s, S), e) ELSE Only(s, S)
<1>1. PICK f : Picks(f, s, S) BY PicksExist
<1>2. PICK g : /\ Picks(g, Append(s, e), S)
               /\ g[Len(s) + 1] = IF e \in S THEN Append(f[Len(s)], e) ELSE f[Len(s)]
  BY <1>1, PicksGoOn
<1>3. Append(s, e) \in Seq(U) /\ Len(Append(s, e)) = Len(s) + 1 BY AppendProperties
<1>4. Only(Append(s, e), S) = g[Len(s) + 1] BY <1>2, <1>3, OnlyIsPicked
<1>5. Only(s, S) = f[Len(s)] BY <1>1, OnlyIsPicked
<1> QED BY <1>2, <1>4, <1>5

\* One element is picked or not.
LEMMA OnlyOne ==
  ASSUME NEW e, NEW S
  PROVE  Only(<<e>>, S) = IF e \in S THEN <<e>> ELSE <<>>
<1>1. <<>> \in Seq({e}) /\ e \in {e} BY EmptySeq
<1>2. Append(<<>>, e) = <<e>> OBVIOUS
<1>3. Only(Append(<<>>, e), S) = IF e \in S THEN Append(Only(<<>>, S), e) ELSE Only(<<>>, S)
  BY <1>1, OnlyAppend, Zenon
<1> QED BY <1>2, <1>3, OnlyEmpty

\* What is picked has the type of what there was, and is in the set.
LEMMA OnlyType ==
  ASSUME NEW U, NEW s \in Seq(U), NEW S
  PROVE  Only(s, S) \in Seq(U \cap S) /\ Only(s, S) \in Seq(U)
<1> DEFINE T == {t \in Seq(U) : Only(t, S) \in Seq(U \cap S)}
<1>1. <<>> \in T BY OnlyEmpty, EmptySeq
<1>2. ASSUME NEW t \in Seq(U), NEW e \in U, t \in T PROVE Append(t, e) \in T
  <2>1. Only(Append(t, e), S) \in Seq(U \cap S)
    <3>1. CASE e \in S
      <4>1. e \in U \cap S /\ Only(t, S) \in Seq(U \cap S) BY <1>2, <3>1
      <4>2. Append(Only(t, S), e) \in Seq(U \cap S) BY <4>1, AppendProperties
      <4>3. Only(Append(t, e), S) = Append(Only(t, S), e) BY <3>1, OnlyAppend
      <4> QED BY <4>2, <4>3
    <3>2. CASE e \notin S BY <3>2, <1>2, OnlyAppend
    <3> QED BY <3>1, <3>2
  <2> QED BY <2>1, AppendProperties
<1> HIDE DEF T
<1>3. Seq(U) \subseteq T BY <1>1, <1>2, SeqInduction
<1>4. Only(s, S) \in Seq(U \cap S) BY <1>3 DEF T
<1> QED BY <1>4, SeqMonotonic, Zenon

\* All is picked when all is in the set.
LEMMA OnlyAll ==
  ASSUME NEW U, NEW s \in Seq(U), NEW S, U \subseteq S
  PROVE  Only(s, S) = s
<1> DEFINE T == {t \in Seq(U) : Only(t, S) = t}
<1>1. <<>> \in T BY OnlyEmpty, EmptySeq
<1>2. ASSUME NEW t \in Seq(U), NEW e \in U, t \in T PROVE Append(t, e) \in T
  <2>1. e \in S OBVIOUS
  <2> QED BY <2>1, <1>2, OnlyAppend, AppendProperties
<1> HIDE DEF T
<1>3. Seq(U) \subseteq T BY <1>1, <1>2, SeqInduction
<1> QED BY <1>3 DEF T

\* The end of a sequence does not matter if nothing of it is in the set.
LEMMA OnlyOfPrefix ==
  ASSUME NEW U, NEW s \in Seq(U), NEW S, NEW n \in 0..Len(s),
         \A i \in (n + 1)..Len(s) : s[i] \notin S
  PROVE  Only(SubSeq(s, 1, n), S) = Only(s, S)
<1> DEFINE Drops(t, m) == \A i \in (m + 1)..Len(t) : t[i] \notin S
           T == {t \in Seq(U) : \A m \in 0..Len(t) : Drops(t, m) => Only(SubSeq(t, 1, m), S) = Only(t, S)}
<1>1. <<>> \in T
  <2>1. \A m \in 0..Len(<<>>) : SubSeq(<<>>, 1, m) = <<>> BY SubSeqEmpty, EmptySeq
  <2> QED BY <2>1, EmptySeq
<1>2. ASSUME NEW t \in Seq(U), NEW e \in U, t \in T PROVE Append(t, e) \in T
  <2> DEFINE r == Append(t, e)
  <2>1. /\ r \in Seq(U) /\ Len(t) \in Nat /\ Len(r) = Len(t) + 1 /\ r[Len(r)] = e
        /\ \A i \in 1..Len(t) : r[i] = t[i]
    BY AppendProperties, LenProperties
  <2>2. ASSUME NEW m \in 0..Len(r), Drops(r, m) PROVE Only(SubSeq(r, 1, m), S) = Only(r, S)
    <3>1. CASE m = Len(r) BY <3>1, <2>1, SubSeqFull
    <3>2. CASE m \in 0..Len(t)
      <4>1. e \notin S BY <2>1, <2>2, <3>2
      <4>2. Drops(t, m)
        <5> SUFFICES ASSUME NEW i \in (m + 1)..Len(t) PROVE t[i] \notin S OBVIOUS
        <5>1. i \in (m + 1)..Len(r) /\ i \in 1..Len(t) BY <2>1, <3>2
        <5> QED BY <5>1, <2>1, <2>2
      <4>3. SubSeq(r, 1, m) = SubSeq(t, 1, m)
        <5>1. r = t \o <<e>> /\ <<e>> \in Seq(U) BY AppendIsConcat
        <5>2. CASE m = 0 BY <5>2, SubSeqEmpty
        <5>3. CASE m \in 1..Len(t)
          <6>1. 1 \in 1..Len(t) BY <5>3, <2>1
          <6> QED BY <5>1, <5>3, <6>1, SubSeqOfConcat1
        <5> QED BY <5>2, <5>3, <3>2, <2>1
      <4>4. Only(SubSeq(t, 1, m), S) = Only(t, S) BY <4>2, <3>2, <1>2
      <4>5. Only(r, S) = Only(t, S) BY <4>1, OnlyAppend
      <4> QED BY <4>3, <4>4, <4>5, Zenon
    <3> QED BY <2>1, <3>1, <3>2
  <2> QED BY <2>1, <2>2
<1> HIDE DEF T
<1>3. s \in T BY <1>1, <1>2, SeqInduction
<1> QED BY <1>3 DEF T

-----------------------------------------------------------------------------
(* Sequences of sequences.                                                 *)

\* the function that FlattenSeq is read off
Flattens(f, ss) == f = [i \in 1..Len(ss) |-> IF i = 1 THEN ss[i] ELSE f[i - 1] \o ss[i]]

\* What one more sequence adds to a flattened sequence of sequences.
LEMMA FlattensGoOn ==
  ASSUME NEW U, NEW tt \in Seq(Seq(U)), NEW s \in Seq(U), NEW f, Flattens(f, tt)
  PROVE  \E g : /\ Flattens(g, Append(tt, s))
                /\ g[Len(tt) + 1] = IF Len(tt) = 0 THEN s ELSE f[Len(tt)] \o s
<1> DEFINE n == Len(tt)
           rr == Append(tt, s)
           g == [i \in 1..(n + 1) |-> IF i = n + 1 THEN IF n = 0 THEN s ELSE f[n] \o s ELSE f[i]]
<1>2. /\ rr \in Seq(Seq(U)) /\ n \in Nat /\ Len(rr) = n + 1 /\ rr[n + 1] = s
      /\ \A i \in 1..n : rr[i] = tt[i]
  BY AppendProperties, LenProperties
<1>3. \A i \in 1..n : g[i] = f[i] BY <1>2
<1>4. g[n + 1] = IF n = 0 THEN s ELSE f[n] \o s BY <1>2
<1>5. DOMAIN g = 1..(n + 1) /\ g = [i \in 1..(n + 1) |-> g[i]] OBVIOUS
<1>6. \A i \in 1..n : f[i] = IF i = 1 THEN tt[i] ELSE f[i - 1] \o tt[i]
  BY DEF Flattens
<1> HIDE DEF g, rr
<1>7. \A i \in 1..(n + 1) : g[i] = IF i = 1 THEN rr[i] ELSE g[i - 1] \o rr[i]
  <2>1. ASSUME NEW i \in 1..n PROVE g[i] = IF i = 1 THEN rr[i] ELSE g[i - 1] \o rr[i]
    <3>1. i # 1 => g[i - 1] = f[i - 1] BY <1>2, <1>3
    <3> QED BY <1>2, <1>3, <1>6, <3>1
  <2>2. n # 0 => g[(n + 1) - 1] = f[n] BY <1>2, <1>3
  <2>3. g[n + 1] = IF n + 1 = 1 THEN rr[n + 1] ELSE g[(n + 1) - 1] \o rr[n + 1]
    BY <1>2, <1>4, <2>2
  <2>4. \A i \in 1..(n + 1) : i = n + 1 \/ i \in 1..n BY <1>2
  <2> HIDE DEF n
  <2> QED BY <2>1, <2>3, <2>4
<1>8. Flattens(g, rr) BY <1>2, <1>5, <1>7 DEF Flattens
<1> QED BY <1>4, <1>8 DEF rr

\* Every sequence of sequences can be flattened,
LEMMA FlattensExist ==
  ASSUME NEW U, NEW ss \in Seq(Seq(U))
  PROVE  \E f : Flattens(f, ss)
<1> DEFINE T == {tt \in Seq(Seq(U)) : \E f : Flattens(f, tt)}
<1>1. <<>> \in T
  <2> DEFINE f == [i \in 1..0 |-> <<>>]
  <2>1. f = [i \in 1..Len(<<>>) |-> IF i = 1 THEN <<>>[i] ELSE f[i - 1] \o <<>>[i]]
    BY EmptySeq
  <2>2. Flattens(f, <<>>) BY <2>1 DEF Flattens
  <2> QED BY <2>2, EmptySeq
<1>2. ASSUME NEW tt \in Seq(Seq(U)), NEW s \in Seq(U), tt \in T PROVE Append(tt, s) \in T
  <2>1. PICK f : Flattens(f, tt) BY <1>2
  <2>2. \E g : Flattens(g, Append(tt, s)) BY <2>1, FlattensGoOn
  <2> QED BY <2>2, AppendProperties
<1> HIDE DEF T
<1>3. Seq(Seq(U)) \subseteq T BY <1>1, <1>2, SeqInduction
<1> QED BY <1>3 DEF T

\* in one way only,
LEMMA FlattensAgree ==
  ASSUME NEW U, NEW ss \in Seq(Seq(U)), NEW f, NEW g, Flattens(f, ss), Flattens(g, ss), Len(ss) # 0
  PROVE  f[Len(ss)] = g[Len(ss)]
<1> DEFINE Bad == {i \in 1..Len(ss) : f[i] # g[i]}
<1>1. Len(ss) \in Nat /\ Len(ss) \in 1..Len(ss) BY LenProperties
<1>2. SUFFICES ASSUME Bad # {} PROVE FALSE BY <1>1
<1>3. PICK n \in Bad : \A y \in Bad : n <= y
  <2>1. Bad \subseteq Nat BY <1>1
  <2> HIDE DEF Bad
  <2> QED BY <1>2, <2>1, Least
<1>4. \A i \in 1..Len(ss) : /\ f[i] = IF i = 1 THEN ss[i] ELSE f[i - 1] \o ss[i]
                            /\ g[i] = IF i = 1 THEN ss[i] ELSE g[i - 1] \o ss[i]
  BY DEF Flattens
<1>5. n # 1 /\ n - 1 \in 1..Len(ss) /\ ~(n <= n - 1) BY <1>1, <1>4
<1>6. f[n - 1] = g[n - 1] BY <1>3, <1>5
<1> QED BY <1>4, <1>5, <1>6

\* so that a sequence at the end goes to the end.
LEMMA FlattenAppend ==
  ASSUME NEW U, NEW ss \in Seq(Seq(U)), NEW s \in Seq(U)
  PROVE  FlattenSeq(Append(ss, s)) = FlattenSeq(ss) \o s
<1> DEFINE rr == Append(ss, s)
<1>1. /\ rr \in Seq(Seq(U)) /\ Len(rr) = Len(ss) + 1 /\ Len(ss) \in Nat
  BY AppendProperties, LenProperties
<1>2. \A tt \in Seq(Seq(U)) : \A f : Len(tt) # 0 /\ Flattens(f, tt) => FlattenSeq(tt) = f[Len(tt)]
  <2> SUFFICES ASSUME NEW tt \in Seq(Seq(U)), NEW f, Len(tt) # 0, Flattens(f, tt)
               PROVE  FlattenSeq(tt) = f[Len(tt)]
    OBVIOUS
  <2> DEFINE g == CHOOSE g : Flattens(g, tt)
  <2>1. Flattens(g, tt) BY FlattensExist
  <2>2. FlattenSeq(tt) = g[Len(tt)] BY DEF FlattenSeq, Flattens
  <2> HIDE DEF g
  <2> QED BY <2>1, <2>2, FlattensAgree
<1>3. PICK f : Flattens(f, ss) BY FlattensExist
<1>4. PICK g : Flattens(g, rr) /\ g[Len(ss) + 1] = IF Len(ss) = 0 THEN s ELSE f[Len(ss)] \o s
  BY <1>3, FlattensGoOn
<1> HIDE DEF rr
<1>5. FlattenSeq(rr) = g[Len(ss) + 1]
  <2>1. Len(rr) # 0 /\ Flattens(g, rr) BY <1>1, <1>4
  <2>2. FlattenSeq(rr) = g[Len(rr)] BY <1>1, <1>2, <2>1
  <2> QED BY <1>1, <2>2
<1>6. CASE Len(ss) = 0
  <2>1. ss = <<>> BY <1>6, EmptySeq
  <2>2. FlattenSeq(ss) = <<>> BY <1>6, <2>1 DEF FlattenSeq
  <2> QED BY <1>4, <1>5, <1>6, <2>2, ConcatEmptySeq DEF rr
<1>7. CASE Len(ss) # 0
  <2>1. FlattenSeq(ss) = f[Len(ss)] BY <1>2, <1>3, <1>7
  <2> QED BY <1>4, <1>5, <1>7, <2>1 DEF rr
<1> QED BY <1>6, <1>7

\* A sequence of typed sequences makes a typed one.
LEMMA FlattenType ==
  ASSUME NEW U, NEW ss \in Seq(Seq(U))
  PROVE  FlattenSeq(ss) \in Seq(U)
<1>1. CASE Len(ss) = 0
  <2>1. ss = <<>> BY <1>1, EmptySeq
  <2> QED BY <1>1, <2>1, EmptySeq DEF FlattenSeq
<1>2. CASE Len(ss) # 0
  <2> DEFINE f == CHOOSE f : Flattens(f, ss)
             Bad == {i \in 1..Len(ss) : f[i] \notin Seq(U)}
  <2>1. Flattens(f, ss) BY FlattensExist
  <2>2. FlattenSeq(ss) = f[Len(ss)] BY <1>2 DEF FlattenSeq, Flattens
  <2> HIDE DEF f
  <2>3. \A i \in 1..Len(ss) : f[i] = IF i = 1 THEN ss[i] ELSE f[i - 1] \o ss[i]
    BY <2>1 DEF Flattens
  <2>4. Len(ss) \in Nat /\ \A i \in 1..Len(ss) : ss[i] \in Seq(U) BY LenProperties, ElementOfSeq
  <2>5. Bad = {}
    <3>1. SUFFICES ASSUME Bad # {} PROVE FALSE OBVIOUS
    <3>2. Bad \subseteq Nat BY <2>4
    <3>3. PICK n \in Bad : \A y \in Bad : n <= y
      <4> HIDE DEF Bad
      <4> QED BY <3>1, <3>2, Least
    <3>4. n \in 1..Len(ss) /\ f[n] \notin Seq(U) OBVIOUS
    <3>5. n # 1 BY <2>3, <2>4, <3>4
    <3>6. n - 1 \in 1..Len(ss) /\ ~(n <= n - 1) BY <2>4, <3>4, <3>5
    <3>7. f[n - 1] \in Seq(U) BY <3>3, <3>6
    <3>8. f[n - 1] \o ss[n] \in Seq(U) BY <2>4, <3>4, <3>7, ConcatProperties
    <3> QED BY <2>3, <3>4, <3>5, <3>8
  <2>6. Len(ss) \in 1..Len(ss) BY <1>2, <2>4
  <2> QED BY <2>2, <2>5, <2>6
<1> QED BY <1>1, <1>2

\* A prefix of a sequence, the rest of it, and their types.
LEMMA PartType ==
  ASSUME NEW U, NEW s \in Seq(U), NEW m \in Nat \ {0}, NEW n \in Int, n <= Len(s)
  PROVE  /\ SubSeq(s, m, n) \in Seq(U)
         /\ Len(SubSeq(s, m, n)) = IF m <= n THEN n - m + 1 ELSE 0
         /\ \A i \in 1..(n - m + 1) : SubSeq(s, m, n)[i] = s[m + i - 1]
<1>1. \A i \in m..n : s[i] \in U BY LenProperties, ElementOfSeq
<1> QED BY <1>1, SubSeqProperties

-----------------------------------------------------------------------------
(* What is in a sequence, and relations that hold of each element and      *)
(* those after it.                                                         *)

\* each element of s is in R with every later one
InOrder(s, R) == \A i, j \in DOMAIN s : i < j => <<s[i], s[j]>> \in R

\* One more element is in a sequence,
LEMMA RangeAppend ==
  ASSUME NEW U, NEW s \in Seq(U), NEW e \in U
  PROVE  Range(Append(s, e)) = Range(s) \cup {e}
<1>1. /\ Len(s) \in Nat /\ DOMAIN s = 1..Len(s) /\ DOMAIN Append(s, e) = 1..(Len(s) + 1)
      /\ Append(s, e)[Len(s) + 1] = e /\ \A i \in 1..Len(s) : Append(s, e)[i] = s[i]
  BY AppendProperties, LenProperties
<1>2. \A x \in Range(Append(s, e)) : x \in Range(s) \cup {e}
  <2> SUFFICES ASSUME NEW i \in 1..(Len(s) + 1) PROVE Append(s, e)[i] \in Range(s) \cup {e}
    BY <1>1 DEF Range
  <2>1. i = Len(s) + 1 \/ i \in 1..Len(s) BY <1>1
  <2> QED BY <1>1, <2>1 DEF Range
<1>3. \A x \in Range(s) : x \in Range(Append(s, e))
  <2> SUFFICES ASSUME NEW i \in 1..Len(s) PROVE s[i] \in Range(Append(s, e)) BY <1>1 DEF Range
  <2>1. i \in 1..(Len(s) + 1) BY <1>1
  <2> QED BY <1>1, <2>1 DEF Range
<1>4. e \in Range(Append(s, e))
  <2>1. Len(s) + 1 \in 1..(Len(s) + 1) BY <1>1
  <2> QED BY <1>1, <2>1 DEF Range
<1> QED BY <1>2, <1>3, <1>4

\* and in order if it comes after all of it.
LEMMA InOrderAppend ==
  ASSUME NEW U, NEW s \in Seq(U), NEW e \in U, NEW R
  PROVE  InOrder(Append(s, e), R) <=> InOrder(s, R) /\ \A a \in Range(s) : <<a, e>> \in R
<1>1. /\ Len(s) \in Nat /\ DOMAIN s = 1..Len(s) /\ DOMAIN Append(s, e) = 1..(Len(s) + 1)
      /\ Append(s, e)[Len(s) + 1] = e /\ \A i \in 1..Len(s) : Append(s, e)[i] = s[i]
  BY AppendProperties, LenProperties
<1> DEFINE r == Append(s, e)
<1>2. ASSUME InOrder(r, R) PROVE InOrder(s, R) /\ \A a \in Range(s) : <<a, e>> \in R
  <2>1. \A i, j \in 1..(Len(s) + 1) : i < j => <<r[i], r[j]>> \in R BY <1>1, <1>2 DEF InOrder
  <2>2. ASSUME NEW i \in 1..Len(s), NEW j \in 1..Len(s), i < j PROVE <<s[i], s[j]>> \in R
    BY <1>1, <2>1, <2>2
  <2>3. ASSUME NEW i \in 1..Len(s) PROVE <<s[i], e>> \in R
    <3>1. i \in 1..(Len(s) + 1) /\ Len(s) + 1 \in 1..(Len(s) + 1) /\ i < Len(s) + 1 BY <1>1
    <3> QED BY <1>1, <2>1, <3>1
  <2> QED BY <1>1, <2>2, <2>3 DEF InOrder, Range
<1>3. ASSUME InOrder(s, R), \A a \in Range(s) : <<a, e>> \in R PROVE InOrder(r, R)
  <2> SUFFICES ASSUME NEW i \in 1..(Len(s) + 1), NEW j \in 1..(Len(s) + 1), i < j
               PROVE <<r[i], r[j]>> \in R
    BY <1>1 DEF InOrder
  <2>1. i \in 1..Len(s) /\ r[i] = s[i] /\ s[i] \in Range(s) BY <1>1 DEF Range
  <2>2. CASE j \in 1..Len(s)
    <3>1. <<s[i], s[j]>> \in R BY <1>1, <1>3, <2>1, <2>2 DEF InOrder
    <3> QED BY <1>1, <2>1, <2>2, <3>1
  <2>3. CASE j = Len(s) + 1 BY <1>1, <1>3, <2>1, <2>3
  <2> QED BY <1>1, <2>2, <2>3
<1> QED BY <1>2, <1>3

\* Two sequences in order, one before the other, are one in order.
LEMMA Joined ==
  ASSUME NEW U, NEW s \in Seq(U), NEW t \in Seq(U), NEW R
  PROVE  /\ s \o t \in Seq(U)
         /\ Range(s \o t) = Range(s) \cup Range(t)
         /\ InOrder(s, R) /\ InOrder(t, R) /\ (\A a \in Range(s), b \in Range(t) : <<a, b>> \in R)
              => InOrder(s \o t, R)
<1> DEFINE r == s \o t
<1>1. /\ Len(s) \in Nat /\ Len(t) \in Nat /\ DOMAIN s = 1..Len(s) /\ DOMAIN t = 1..Len(t)
      /\ r \in Seq(U) /\ DOMAIN r = 1..(Len(s) + Len(t))
      /\ \A i \in 1..(Len(s) + Len(t)) : r[i] = IF i <= Len(s) THEN s[i] ELSE t[i - Len(s)]
  BY ConcatProperties, LenProperties
<1> HIDE DEF r
<1>2. ASSUME NEW i \in 1..(Len(s) + Len(t))
      PROVE  \/ i \in 1..Len(s) /\ r[i] = s[i] /\ s[i] \in Range(s)
             \/ i - Len(s) \in 1..Len(t) /\ r[i] = t[i - Len(s)] /\ t[i - Len(s)] \in Range(t)
  <2>1. CASE i <= Len(s)
    <3>1. i \in 1..Len(s) /\ r[i] = s[i] BY <1>1, <2>1
    <3> QED BY <1>1, <3>1 DEF Range
  <2>2. CASE ~(i <= Len(s))
    <3>1. i - Len(s) \in 1..Len(t) /\ r[i] = t[i - Len(s)] BY <1>1, <2>2
    <3> QED BY <1>1, <3>1 DEF Range
  <2> QED BY <2>1, <2>2
<1>3. \A x \in Range(r) : x \in Range(s) \cup Range(t)
  <2> SUFFICES ASSUME NEW i \in 1..(Len(s) + Len(t)) PROVE r[i] \in Range(s) \cup Range(t)
    BY <1>1 DEF Range
  <2> QED BY <1>2
<1>4. \A x \in Range(s) : x \in Range(r)
  <2> SUFFICES ASSUME NEW i \in 1..Len(s) PROVE s[i] \in Range(r) BY <1>1 DEF Range
  <2>1. i \in 1..(Len(s) + Len(t)) /\ r[i] = s[i] BY <1>1
  <2> QED BY <1>1, <2>1 DEF Range
<1>5. \A x \in Range(t) : x \in Range(r)
  <2> SUFFICES ASSUME NEW i \in 1..Len(t) PROVE t[i] \in Range(r) BY <1>1 DEF Range
  <2>1. /\ Len(s) + i \in 1..(Len(s) + Len(t)) /\ ~(Len(s) + i <= Len(s))
        /\ (Len(s) + i) - Len(s) = i
    BY <1>1
  <2>2. r[Len(s) + i] = t[i] BY <1>1, <2>1
  <2> QED BY <1>1, <2>1, <2>2 DEF Range
<1>6. ASSUME InOrder(s, R), InOrder(t, R), \A a \in Range(s), b \in Range(t) : <<a, b>> \in R
      PROVE  InOrder(r, R)
  <2> SUFFICES ASSUME NEW i \in 1..(Len(s) + Len(t)), NEW j \in 1..(Len(s) + Len(t)), i < j
               PROVE <<r[i], r[j]>> \in R
    BY <1>1 DEF InOrder
  <2>1. CASE i \in 1..Len(s) /\ j \in 1..Len(s)
    <3>1. r[i] = s[i] /\ r[j] = s[j] BY <1>1, <2>1
    <3> QED BY <1>1, <1>6, <2>1, <3>1 DEF InOrder
  <2>2. CASE i \in 1..Len(s) /\ j \notin 1..Len(s)
    <3>1. r[i] \in Range(s) /\ r[j] \in Range(t) BY <1>1, <1>2, <2>2
    <3> QED BY <1>6, <3>1
  <2>3. CASE i \notin 1..Len(s)
    <3>1. /\ i - Len(s) \in 1..Len(t) /\ j - Len(s) \in 1..Len(t) /\ i - Len(s) < j - Len(s)
          /\ r[i] = t[i - Len(s)] /\ r[j] = t[j - Len(s)]
      BY <1>1, <2>3
    <3> QED BY <1>1, <1>6, <3>1 DEF InOrder
  <2> QED BY <2>1, <2>2, <2>3
<1> QED BY <1>1, <1>3, <1>4, <1>5, <1>6 DEF r

\* A part of a sequence has elements of it, in the same order.
LEMMA PartInOrder ==
  ASSUME NEW U, NEW s \in Seq(U), NEW m \in Nat \ {0}, NEW n \in Int, n <= Len(s), NEW R
  PROVE  /\ SubSeq(s, m, n) \in Seq(U)
         /\ Range(SubSeq(s, m, n)) \subseteq Range(s)
         /\ InOrder(s, R) => InOrder(SubSeq(s, m, n), R)
<1> DEFINE r == SubSeq(s, m, n)
<1>1. /\ r \in Seq(U) /\ Len(r) = IF m <= n THEN n - m + 1 ELSE 0
      /\ \A i \in 1..(n - m + 1) : r[i] = s[m + i - 1]
  BY PartType
<1>2. Len(s) \in Nat /\ DOMAIN s = 1..Len(s) /\ DOMAIN r = 1..Len(r) /\ Len(r) \in Nat
  BY <1>1, LenProperties
<1> HIDE DEF r
<1>3. ASSUME NEW i \in DOMAIN r PROVE m + i - 1 \in DOMAIN s /\ r[i] = s[m + i - 1]
  BY <1>1, <1>2
<1>4. Range(r) \subseteq Range(s) BY <1>3 DEF Range
<1>5. ASSUME InOrder(s, R), NEW i \in DOMAIN r, NEW j \in DOMAIN r, i < j PROVE <<r[i], r[j]>> \in R
  <2>1. m + i - 1 < m + j - 1 BY <1>2, <1>5
  <2> QED BY <1>3, <1>5, <2>1 DEF InOrder
<1> QED BY <1>1, <1>4, <1>5 DEF r, InOrder

\* What is picked of a sequence are the elements of the set, in the same order.
LEMMA OnlyInOrder ==
  ASSUME NEW U, NEW s \in Seq(U), NEW S, NEW R
  PROVE  /\ Range(Only(s, S)) = Range(s) \cap S
         /\ InOrder(s, R) => InOrder(Only(s, S), R)
<1> DEFINE T == {t \in Seq(U) : /\ Range(Only(t, S)) = Range(t) \cap S
                                /\ InOrder(t, R) => InOrder(Only(t, S), R)}
<1>1. <<>> \in T
  <2>1. <<>> \in Seq(U) /\ DOMAIN <<>> = {} BY EmptySeq
  <2>2. Range(<<>>) = {} /\ InOrder(<<>>, R) BY <2>1 DEF Range, InOrder
  <2> QED BY <2>1, <2>2, OnlyEmpty
<1>2. ASSUME NEW t \in Seq(U), NEW e \in U, t \in T PROVE Append(t, e) \in T
  <2>1. Only(t, S) \in Seq(U) /\ Append(t, e) \in Seq(U) BY OnlyType, AppendProperties
  <2>2. Only(Append(t, e), S) = IF e \in S THEN Append(Only(t, S), e) ELSE Only(t, S) BY OnlyAppend
  <2>3. Range(Append(t, e)) = Range(t) \cup {e} BY RangeAppend
  <2>4. Range(Append(Only(t, S), e)) = Range(Only(t, S)) \cup {e} BY <2>1, RangeAppend
  <2>5. Range(Only(t, S)) = Range(t) \cap S BY <1>2
  <2>6. Range(Only(Append(t, e), S)) = Range(Append(t, e)) \cap S BY <2>2, <2>3, <2>4, <2>5
  <2>7. ASSUME InOrder(Append(t, e), R) PROVE InOrder(Only(Append(t, e), S), R)
    <3>1. InOrder(t, R) /\ \A a \in Range(t) : <<a, e>> \in R BY <2>7, InOrderAppend
    <3>2. InOrder(Only(t, S), R) /\ \A a \in Range(Only(t, S)) : <<a, e>> \in R BY <1>2, <2>5, <3>1
    <3>3. InOrder(Append(Only(t, S), e), R) BY <2>1, <3>2, InOrderAppend
    <3> QED BY <2>2, <3>2, <3>3
  <2> QED BY <2>1, <2>6, <2>7
<1> HIDE DEF T
<1>3. s \in T BY <1>1, <1>2, SeqInduction
<1> QED BY <1>3 DEF T

-----------------------------------------------------------------------------
(* What the functions of a history return.                                 *)

\* the bounds, and the items whose number is 0
LEMMA Bounds ==
  /\ MaxItems \in Nat /\ MaxTurns \in Nat /\ MaxCompactions \in Nat
  /\ MaxCrashes \in Nat /\ MaxForks \in Nat
  /\ \A kind \in Kinds, n \in 0..MaxItems : Item(kind, n) \in Items /\ Item(kind, n).kind = kind
  /\ \A e \in Items : e.kind \in Kinds /\ e.id \in 0..MaxItems
  /\ 0 \in 0..MaxItems
BY BoundsAssumption DEF Items, Item

\* A function on 1..n is a sequence of length n.
LEMMA SeqOfFunction ==
  ASSUME NEW U, NEW n \in Nat, NEW s, s = [i \in 1..n |-> s[i]], \A i \in 1..n : s[i] \in U
  PROVE  s \in Seq(U) /\ Len(s) = n
<1>1. s \in [1..n -> U] OBVIOUS
<1>2. s \in Seq(U) BY <1>1, SeqDef
<1>3. Len(s) \in Nat /\ DOMAIN s = 1..Len(s) BY <1>2, LenProperties
<1>4. DOMAIN s = 1..n OBVIOUS
<1> QED BY <1>2, <1>3, <1>4

\* The items of some kinds are items,
LEMMA OfKindsType ==
  ASSUME NEW h \in Seq(Items), NEW kinds
  PROVE  OfKinds(h, kinds) \in Seq(Items)
BY OnlyType DEF OfKinds

\* a history without orphaned outputs is one,
LEMMA RemoveOrphansType ==
  ASSUME NEW h \in Seq(Items)
  PROVE  RemoveOrphans(h) \in Seq(Items)
BY OnlyType DEF RemoveOrphans

\* and one in which every call has an output.
LEMMA EnsureOutputsType ==
  ASSUME NEW h \in Seq(Items)
  PROVE  EnsureOutputs(h) \in Seq(Items)
<1> DEFINE ss == [i \in DOMAIN h |->
                    IF h[i].kind = "call" /\ ~HasOutput(h, h[i].id)
                    THEN <<h[i], Item("output", h[i].id)>> ELSE <<h[i]>>]
<1>1. Len(h) \in Nat /\ DOMAIN h = 1..Len(h) /\ \A i \in 1..Len(h) : h[i] \in Items
  BY LenProperties, ElementOfSeq
<1>2. \A i \in 1..Len(h) : ss[i] \in Seq(Items)
  <2> TAKE i \in 1..Len(h)
  <2>1. h[i] \in Items /\ Item("output", h[i].id) \in Items
    BY <1>1, Bounds DEF Kinds
  <2>2. <<h[i]>> \in Seq(Items) /\ <<h[i], Item("output", h[i].id)>> \in Seq(Items) BY <2>1
  <2> QED BY <1>1, <2>2
<1>3. ss = [i \in 1..Len(h) |-> ss[i]] BY <1>1
<1> HIDE DEF ss
<1>4. ss \in Seq(Seq(Items)) BY <1>1, <1>2, <1>3, SeqOfFunction
<1>5. FlattenSeq(ss) \in Seq(Items) BY <1>4, FlattenType
<1> QED BY <1>5 DEF EnsureOutputs, ss

\* What is outside the blocks is a history.
LEMMA WithoutBlocksType ==
  ASSUME NEW h \in Seq(Items)
  PROVE  WithoutBlocks(h) \in Seq(Items)
<1>1. Len(h) \in Nat /\ DOMAIN h = 1..Len(h) /\ \A i \in 1..Len(h) : h[i] \in Items
  BY LenProperties, ElementOfSeq
<1> DEFINE ids == [i \in DOMAIN h |-> i]
<1>2. ids \in Seq(1..Len(h))
  <2>1. ids = [i \in 1..Len(h) |-> ids[i]] /\ \A i \in 1..Len(h) : ids[i] \in 1..Len(h) BY <1>1
  <2> HIDE DEF ids
  <2> QED BY <1>1, <2>1, SeqOfFunction
<1> HIDE DEF ids
<1>3. ASSUME NEW S
      PROVE  [n \in DOMAIN Only(ids, S) |-> h[Only(ids, S)[n]]] \in Seq(Items)
  <2> DEFINE rest == Only(ids, S)
             r == [n \in DOMAIN rest |-> h[rest[n]]]
  <2>1. rest \in Seq(1..Len(h)) BY <1>2, OnlyType
  <2> HIDE DEF rest
  <2>2. /\ Len(rest) \in Nat /\ DOMAIN rest = 1..Len(rest)
        /\ \A n \in 1..Len(rest) : rest[n] \in 1..Len(h)
    BY <2>1, LenProperties, ElementOfSeq
  <2>3. r = [n \in 1..Len(rest) |-> r[n]] /\ \A n \in 1..Len(rest) : r[n] \in Items
    BY <1>1, <2>2
  <2> HIDE DEF r
  <2>4. r \in Seq(Items) BY <2>2, <2>3, SeqOfFunction
  <2> QED BY <2>4 DEF r, rest
<1> QED BY <1>3 DEF WithoutBlocks, ids

\* What a block may show is a history, and so is a block of any budget.
LEMMA RecentBlockType ==
  ASSUME NEW h \in Seq(Items)
  PROVE  /\ Compressible(h) \in Seq(Items)
         /\ \A n \in 0..Len(Compressible(h)) : RecentBlock(h, n) \in Seq(Items)
<1> DEFINE c == Compressible(h)
<1>1. c \in Seq(Items) BY WithoutBlocksType, OfKindsType DEF Compressible
<1>2. ASSUME NEW n \in 0..Len(c) PROVE RecentBlock(h, n) \in Seq(Items)
  <2> DEFINE part == SubSeq(c, Len(c) - n + 1, Len(c))
             shown == EnsureOutputs(RemoveOrphans(part))
  <2>1. Len(c) \in Nat BY <1>1, LenProperties
  <2> HIDE DEF c
  <2>2. Len(c) - n + 1 \in Nat \ {0} /\ Len(c) \in Int /\ Len(c) <= Len(c) BY <2>1
  <2>3. part \in Seq(Items) BY <1>1, <2>2, PartType, Zenon
  <2> HIDE DEF part
  <2>4. shown \in Seq(Items) BY <2>3, RemoveOrphansType, EnsureOutputsType
  <2> HIDE DEF shown
  <2>5. <<Item("header", 0)>> \in Seq(Items) /\ <<Item("footer", 0)>> \in Seq(Items)
    BY Bounds DEF Kinds
  <2>6. <<Item("header", 0)>> \o shown \o <<Item("footer", 0)>> \in Seq(Items)
    BY <2>4, <2>5, ConcatProperties
  <2>7. <<>> \in Seq(Items) BY EmptySeq
  <2>8. RecentBlock(h, n) = IF shown = <<>> THEN <<>>
                            ELSE <<Item("header", 0)>> \o shown \o <<Item("footer", 0)>>
    BY DEF RecentBlock, shown, part, c
  <2> QED BY <2>6, <2>7, <2>8
<1> QED BY <1>1, <1>2

\* The place for the initial context is in the history or after it.
LEMMA InsertionPointBounds ==
  ASSUME NEW h \in Seq(Items)
  PROVE  InsertionPoint(h) \in 1..(Len(h) + 1)
<1>1. Len(h) \in Nat /\ DOMAIN h = 1..Len(h) BY LenProperties
<1> DEFINE Of(kind) == {i \in DOMAIN h : h[i].kind = kind}
<1>2. \A kind : Of(kind) # {} => Max(Of(kind)) \in 1..(Len(h) + 1)
  <2> TAKE kind
  <2> HAVE Of(kind) # {}
  <2>1. Of(kind) \subseteq Nat /\ \A x \in Of(kind) : x <= Len(h) BY <1>1
  <2>2. Max(Of(kind)) \in Of(kind)
    <3> HIDE DEF Of
    <3> QED BY <1>1, <2>1, MaxIs
  <2> QED BY <1>1, <2>2
<1>3. Len(h) + 1 \in 1..(Len(h) + 1) BY <1>1
<1> HIDE DEF Of
<1> QED BY <1>2, <1>3 DEF InsertionPoint, Of

\* A history has the kinds of its parts.
LEMMA HasKindConcat ==
  ASSUME NEW s \in Seq(Items), NEW r \in Seq(Items), NEW kind
  PROVE  HasKind(s, kind) \/ HasKind(r, kind) => HasKind(s \o r, kind)
<1>1. /\ Len(s) \in Nat /\ Len(r) \in Nat /\ DOMAIN s = 1..Len(s) /\ DOMAIN r = 1..Len(r)
      /\ s \o r \in Seq(Items) /\ Len(s \o r) = Len(s) + Len(r)
      /\ DOMAIN (s \o r) = 1..(Len(s) + Len(r))
      /\ \A i \in 1..(Len(s) + Len(r)) : (s \o r)[i] = IF i <= Len(s) THEN s[i] ELSE r[i - Len(s)]
  BY ConcatProperties, LenProperties
<1>2. ASSUME HasKind(s, kind) PROVE HasKind(s \o r, kind)
  <2>1. PICK i \in 1..Len(s) : s[i].kind = kind BY <1>1, <1>2 DEF HasKind
  <2>2. i \in 1..(Len(s) + Len(r)) /\ (s \o r)[i] = s[i] BY <1>1
  <2> QED BY <1>1, <2>1, <2>2 DEF HasKind
<1>3. ASSUME HasKind(r, kind) PROVE HasKind(s \o r, kind)
  <2>1. PICK i \in 1..Len(r) : r[i].kind = kind BY <1>1, <1>3 DEF HasKind
  <2>2. Len(s) + i \in 1..(Len(s) + Len(r)) /\ (s \o r)[Len(s) + i] = r[i] BY <1>1
  <2> QED BY <1>1, <2>1, <2>2 DEF HasKind
<1> QED BY <1>2, <1>3

\* An item that is appended takes no kind away and adds its own.
LEMMA HasKindAppend ==
  ASSUME NEW s \in Seq(Items), NEW e \in Items, NEW kind
  PROVE  HasKind(s, kind) \/ e.kind = kind => HasKind(Append(s, e), kind)
<1>1. <<e>> \in Seq(Items) /\ Append(s, e) = s \o <<e>> BY AppendIsConcat
<1>2. e.kind = kind => HasKind(<<e>>, kind) BY DEF HasKind
<1> QED BY <1>1, <1>2, HasKindConcat

\* The initial context is a history with both of its kinds, and the same is
\* true of every history it is inserted in.
BothKinds(h) == HasKind(h, "developer") /\ HasKind(h, "context")

LEMMA InsertContextType ==
  ASSUME NEW h \in Seq(Items), NEW context \in {<<>>, InitialContext}
  PROVE  /\ InsertContext(h, context) \in Seq(Items)
         /\ context # <<>> => BothKinds(InsertContext(h, context))
<1> DEFINE at == InsertionPoint(h)
           a == SubSeq(h, 1, at - 1)
           b == SubSeq(h, at, Len(h))
<1>1. at \in 1..(Len(h) + 1) /\ Len(h) \in Nat BY InsertionPointBounds, LenProperties
<1>2. InsertContext(h, context) = a \o context \o b BY DEF InsertContext
<1> HIDE DEF at
<1>3. a \in Seq(Items)
  <2>1. at - 1 \in Int /\ at - 1 <= Len(h) /\ 1 \in Nat \ {0} BY <1>1
  <2> QED BY <2>1, PartType, Zenon
<1>4. b \in Seq(Items)
  <2>1. at \in Nat \ {0} /\ Len(h) \in Int /\ Len(h) <= Len(h) BY <1>1
  <2> QED BY <2>1, PartType, Zenon
<1> HIDE DEF a, b
<1>5. InitialContext \in Seq(Items) /\ <<>> \in Seq(Items)
  BY Bounds, EmptySeq DEF InitialContext, Kinds
<1>6. BothKinds(InitialContext) BY DEF InitialContext, HasKind, Item, BothKinds
<1>7. a \o context \in Seq(Items) /\ a \o context \o b \in Seq(Items)
  BY <1>3, <1>4, <1>5, ConcatProperties
<1>8. context # <<>> => BothKinds(a \o context) /\ BothKinds(a \o context \o b)
  BY <1>3, <1>4, <1>5, <1>6, <1>7, HasKindConcat DEF BothKinds
<1> QED BY <1>2, <1>7, <1>8

\* What a compaction puts in place of the history.
LEMMA CompactionType ==
  ASSUME NEW h \in Seq(Items), NEW e \in Items, NEW context \in {<<>>, InitialContext},
         NEW block \in Seq(Items), NEW keep \in Nat, keep <= Len(OfKinds(h, {"user"}))
  PROVE  /\ Summarised(h, e, context, block, keep) \in Seq(Items)
         /\ Checkpointed(e, context, block) \in Seq(Items)
         /\ context # <<>> => /\ BothKinds(Summarised(h, e, context, block, keep))
                              /\ BothKinds(Checkpointed(e, context, block))
<1> DEFINE texts == OfKinds(h, {"user"})
           part == SubSeq(texts, Len(texts) - keep + 1, Len(texts))
           prefix == IF block = <<>> THEN part ELSE <<>>
<1>1. texts \in Seq(Items) /\ Len(texts) \in Nat BY OfKindsType, LenProperties
<1>2. Len(texts) - keep + 1 \in Nat \ {0} /\ Len(texts) \in Int /\ Len(texts) <= Len(texts) BY <1>1
<1>3. Summarised(h, e, context, block, keep) = InsertContext(Append(prefix, e), context) \o block
  BY DEF Summarised
<1> HIDE DEF texts
<1>4. part \in Seq(Items) BY <1>1, <1>2, PartType, Zenon
<1> HIDE DEF part
<1>5. prefix \in Seq(Items) BY <1>4, EmptySeq
<1> HIDE DEF prefix
<1>6. Append(prefix, e) \in Seq(Items) /\ <<e>> \in Seq(Items) BY <1>5, AppendProperties
<1>7. \A s \in Seq(Items) :
        /\ InsertContext(s, context) \o block \in Seq(Items)
        /\ context # <<>> => BothKinds(InsertContext(s, context) \o block)
  BY InsertContextType, HasKindConcat, ConcatProperties DEF BothKinds
<1> QED BY <1>3, <1>6, <1>7 DEF Checkpointed

-----------------------------------------------------------------------------
(* The order of texts, calls and outputs in a history.                     *)

\* kinds of which a history has an item once
Tracked == {"user", "call", "output"}

\* b may come after a: it is another item, and no output comes before its call
May(a, b) ==
  /\ b.kind \in Tracked => a # b
  /\ b.kind = "call" => a # Item("output", b.id)
Mays == {p \in Items \X Items : May(p[1], p[2])}

Orderly(h) == InOrder(h, Mays)

\* What r has of texts, calls and outputs comes from h, or is the output of a
\* call of h.
From(r, h) ==
  \A e \in Range(r) : e.kind \in Tracked =>
    e \in Range(h) \/ (e.kind = "output" /\ Item("call", e.id) \in Range(h))

\* A history's elements are items.
LEMMA RangeType ==
  ASSUME NEW h \in Seq(Items)
  PROVE  Range(h) \subseteq Items
BY LenProperties, ElementOfSeq DEF Range

\* Two histories, one before the other, make an orderly one.
LEMMA OrderlyJoined ==
  ASSUME NEW s \in Seq(Items), NEW t \in Seq(Items), Orderly(s), Orderly(t),
         \A a \in Range(s), b \in Range(t) : May(a, b)
  PROVE  Orderly(s \o t)
<1>1. \A a \in Range(s), b \in Range(t) : <<a, b>> \in Mays BY RangeType DEF Mays
<1> QED BY <1>1, Joined DEF Orderly

\* An item that may come after all of a history leaves it orderly, and only
\* such an item does.
LEMMA OrderlyAppend ==
  ASSUME NEW s \in Seq(Items), NEW e \in Items
  PROVE  Orderly(Append(s, e)) <=> Orderly(s) /\ \A a \in Range(s) : May(a, e)
<1>1. \A a \in Range(s) : <<a, e>> \in Mays <=> May(a, e) BY RangeType DEF Mays
<1> QED BY <1>1, InOrderAppend DEF Orderly

\* A history without texts, calls and outputs is orderly, and anything may
\* come after it.
LEMMA UntrackedIsOrderly ==
  ASSUME NEW s \in Seq(Items), \A e \in Range(s) : e.kind \notin Tracked
  PROVE  Orderly(s) /\ \A a \in Range(s), b \in Items : May(a, b) /\ May(b, a)
<1>1. \A a \in Range(s), b \in Items : May(a, b) /\ May(b, a)
  <2> TAKE a \in Range(s), b \in Items
  <2>1. a.kind \notin Tracked /\ Item("output", b.id).kind = "output" BY DEF Item
  <2> QED BY <2>1 DEF May, Tracked
<1>2. \A i, j \in DOMAIN s : <<s[i], s[j]>> \in Mays BY <1>1, RangeType DEF Range, Mays
<1> QED BY <1>1, <1>2 DEF Orderly, InOrder

-----------------------------------------------------------------------------
(* The outputs that are added for calls without one.                       *)

\* an item, and after a call of M its output
Fill(e, M) == IF e.kind = "call" /\ e.id \in M THEN <<e, Item("output", e.id)>> ELSE <<e>>
Filled(h, M) == FlattenSeq([i \in DOMAIN h |-> Fill(h[i], M)])

\* EnsureOutputs fills in the outputs that are missing.
LEMMA EnsureIsFilled ==
  ASSUME NEW h \in Seq(Items)
  PROVE  EnsureOutputs(h) = Filled(h, {n \in Nat : ~HasOutput(h, n)})
<1> DEFINE M == {n \in Nat : ~HasOutput(h, n)}
<1>1. \A i \in DOMAIN h : h[i] \in Items BY LenProperties, ElementOfSeq
<1>2. \A i \in DOMAIN h : h[i].id \in Nat BY <1>1, Bounds
<1>3. \A i \in DOMAIN h :
        Fill(h[i], M) = IF h[i].kind = "call" /\ ~HasOutput(h, h[i].id)
                        THEN <<h[i], Item("output", h[i].id)>> ELSE <<h[i]>>
  BY <1>2 DEF Fill
<1> HIDE DEF M
<1>4. [i \in DOMAIN h |-> Fill(h[i], M)]
        = [i \in DOMAIN h |-> IF h[i].kind = "call" /\ ~HasOutput(h, h[i].id)
                              THEN <<h[i], Item("output", h[i].id)>> ELSE <<h[i]>>]
  BY <1>3
<1> QED BY <1>4 DEF EnsureOutputs, Filled, M

\* An item is filled in with histories.
LEMMA FillType ==
  ASSUME NEW e \in Items, NEW M
  PROVE  Fill(e, M) \in Seq(Items) /\ <<e>> \in Seq(Items) /\ Item("output", e.id) \in Items
<1>1. e \in Items /\ Item("output", e.id) \in Items BY Bounds DEF Kinds
<1>2. <<e>> \in Seq(Items) /\ <<e, Item("output", e.id)>> \in Seq(Items) BY <1>1
<1> QED BY <1>1, <1>2 DEF Fill

\* The last item of a history is filled in last.
LEMMA FilledAppend ==
  ASSUME NEW h \in Seq(Items), NEW e \in Items, NEW M
  PROVE  /\ Filled(<<>>, M) = <<>>
         /\ Filled(h, M) \in Seq(Items)
         /\ Filled(Append(h, e), M) = Filled(h, M) \o Fill(e, M)
<1> DEFINE r == Append(h, e)
           ss == [i \in DOMAIN h |-> Fill(h[i], M)]
           rr == [i \in DOMAIN r |-> Fill(r[i], M)]
<1>1. /\ Len(h) \in Nat /\ DOMAIN h = 1..Len(h) /\ \A i \in 1..Len(h) : h[i] \in Items
      /\ r \in Seq(Items) /\ DOMAIN r = 1..(Len(h) + 1) /\ r[Len(h) + 1] = e
      /\ \A i \in 1..Len(h) : r[i] = h[i]
  BY AppendProperties, LenProperties, ElementOfSeq
<1>2. \A i \in 1..(Len(h) + 1) : r[i] \in Items
  <2> TAKE i \in 1..(Len(h) + 1)
  <2>1. i \in 1..Len(h) \/ i = Len(h) + 1 BY <1>1
  <2> QED BY <1>1, <2>1
<1> HIDE DEF r
<1>3. /\ ss = [i \in 1..Len(h) |-> ss[i]] /\ \A i \in 1..Len(h) : ss[i] \in Seq(Items)
      /\ \A i \in 1..Len(h) : ss[i] = Fill(h[i], M)
  BY <1>1, FillType
<1>4. /\ rr = [i \in 1..(Len(h) + 1) |-> rr[i]] /\ \A i \in 1..(Len(h) + 1) : rr[i] \in Seq(Items)
      /\ \A i \in 1..(Len(h) + 1) : rr[i] = Fill(r[i], M)
  BY <1>1, <1>2, FillType
<1>f. Filled(h, M) = FlattenSeq(ss) /\ Filled(r, M) = FlattenSeq(rr) BY DEF Filled
<1> HIDE DEF ss, rr
<1>5. Len(h) + 1 \in Nat BY <1>1
<1>6. /\ ss \in Seq(Seq(Items)) /\ Len(ss) = Len(h)
      /\ rr \in Seq(Seq(Items)) /\ Len(rr) = Len(h) + 1
  BY <1>1, <1>3, <1>4, <1>5, SeqOfFunction
<1>7. rr = Append(ss, Fill(e, M))
  <2>1. Fill(e, M) \in Seq(Items) BY FillType
  <2>2. /\ Append(ss, Fill(e, M)) \in Seq(Seq(Items)) /\ Len(Append(ss, Fill(e, M))) = Len(h) + 1
        /\ Append(ss, Fill(e, M))[Len(h) + 1] = Fill(e, M)
        /\ \A i \in 1..Len(h) : Append(ss, Fill(e, M))[i] = ss[i]
    BY <1>6, <2>1, AppendProperties
  <2>3. \A i \in 1..(Len(h) + 1) : Append(ss, Fill(e, M))[i] = rr[i]
    <3> TAKE i \in 1..(Len(h) + 1)
    <3>1. i \in 1..Len(h) \/ i = Len(h) + 1 BY <1>1
    <3> QED BY <1>1, <1>3, <1>4, <2>2, <3>1
  <2> QED BY <1>6, <2>2, <2>3, SeqEqual
<1>8. FlattenSeq(rr) = FlattenSeq(ss) \o Fill(e, M) BY <1>6, <1>7, FillType, FlattenAppend
<1>9. FlattenSeq(ss) \in Seq(Items) BY <1>6, FlattenType
<1>10. Filled(<<>>, M) = <<>>
  <2> DEFINE q == [i \in DOMAIN <<>> |-> Fill(<<>>[i], M)]
  <2>1. q = <<>> OBVIOUS
  <2>2. FlattenSeq(<<>>) = <<>> BY DEF FlattenSeq
  <2> QED BY <2>1, <2>2 DEF Filled
<1> QED BY <1>f, <1>8, <1>9, <1>10 DEF r

\* An item is its kind and its number.
LEMMA ItemIs ==
  /\ \A e \in Items : e = Item(e.kind, e.id)
  /\ \A kind, n : Item(kind, n).kind = kind /\ Item(kind, n).id = n
BY DEF Items, Item

\* the outputs that Filled adds
Missing(h, M) == {e \in Items : e.kind = "output" /\ e.id \in M /\ Item("call", e.id) \in Range(h)}

\* Outputs of M are added to an orderly history without them in order, right
\* after their calls, and nothing else is.
LEMMA FilledInOrder ==
  ASSUME NEW h \in Seq(Items), NEW M, Orderly(h), \A n \in M : Item("output", n) \notin Range(h)
  PROVE  Orderly(Filled(h, M)) /\ Range(Filled(h, M)) = Range(h) \cup Missing(h, M)
<1> DEFINE Lacks(t) == \A n \in M : Item("output", n) \notin Range(t)
           T == {t \in Seq(Items) : Orderly(t) /\ Lacks(t) =>
                   Orderly(Filled(t, M)) /\ Range(Filled(t, M)) = Range(t) \cup Missing(t, M)}
<1>0. \A t \in Seq(Items), e \in Items : Range(Append(t, e)) = Range(t) \cup {e} BY RangeAppend
<1>1. <<>> \in T
  <2>1. <<>> \in Seq(Items) /\ DOMAIN <<>> = {} BY EmptySeq
  <2>2. Range(<<>>) = {} BY <2>1 DEF Range
  <2>3. Filled(<<>>, M) = <<>>
    <3>1. Item("user", 0) \in Items BY Bounds DEF Kinds
    <3> QED BY <2>1, <3>1, FilledAppend
  <2> QED BY <2>1, <2>2, <2>3 DEF Missing
<1>2. ASSUME NEW t \in Seq(Items), NEW e \in Items, t \in T PROVE Append(t, e) \in T
  <2> DEFINE r == Append(t, e)
             f == Filled(t, M)
             o == Item("output", e.id)
  <2>1. r \in Seq(Items) /\ f \in Seq(Items) /\ Filled(r, M) = f \o Fill(e, M)
    BY FilledAppend, AppendProperties
  <2>2. Range(r) = Range(t) \cup {e} BY RangeAppend
  <2>3. SUFFICES ASSUME Orderly(r), Lacks(r)
                 PROVE  Orderly(Filled(r, M)) /\ Range(Filled(r, M)) = Range(r) \cup Missing(r, M)
    BY <2>1
  <2>4. Orderly(t) /\ Lacks(t) /\ (\A a \in Range(t) : May(a, e)) /\ \A n \in M : e # Item("output", n)
    BY <2>2, <2>3, OrderlyAppend
  <2>5. Orderly(f) /\ Range(f) = Range(t) \cup Missing(t, M) BY <1>2, <2>4
  <2>6. e \in Items /\ o \in Items /\ e = Item(e.kind, e.id) BY FillType, ItemIs
  <2>7. \A a \in Range(f) : May(a, e)
    <3> SUFFICES ASSUME NEW a \in Missing(t, M) PROVE May(a, e) BY <2>4, <2>5
    <3>1. a.kind = "output" /\ a.id \in M /\ a = Item("output", a.id) BY ItemIs DEF Missing
    <3>2. a # e BY <2>4, <3>1
    <3>3. e.kind = "call" => a # Item("output", e.id)
      <4> SUFFICES ASSUME e.kind = "call", a.id = e.id PROVE FALSE BY <3>1, ItemIs
      <4>1. e \in Range(t) BY <2>6 DEF Missing
      <4>2. May(e, e) BY <2>4, <4>1
      <4> QED BY <4>2 DEF May, Tracked
    <3> QED BY <3>2, <3>3 DEF May
  <2>8. Append(f, e) = f \o <<e>> /\ Append(f, e) \in Seq(Items) BY <2>1, AppendIsConcat, AppendProperties
  <2>9. Orderly(Append(f, e)) /\ Range(Append(f, e)) = Range(f) \cup {e}
    BY <2>1, <2>5, <2>7, OrderlyAppend, RangeAppend
  <2>10. CASE ~(e.kind = "call" /\ e.id \in M)
    <3>1. Filled(r, M) = Append(f, e) BY <2>1, <2>8, <2>10 DEF Fill
    <3>2. Missing(r, M) = Missing(t, M)
      <4>1. \A a \in Items : Item("call", a.id) = e => a.id = e.id /\ e.kind = "call" BY ItemIs
      <4> QED BY <2>2, <2>10, <4>1 DEF Missing
    <3> QED BY <2>2, <2>5, <2>9, <3>1, <3>2
  <2>11. CASE e.kind = "call" /\ e.id \in M
    <3>1. Filled(r, M) = Append(Append(f, e), o)
      <4>1. Fill(e, M) = <<e, o>> BY <2>11 DEF Fill
      <4>2. f \o <<e, o>> = Append(f \o <<e>>, o) BY <2>1, <2>6
      <4> QED BY <2>1, <2>8, <4>1, <4>2
    <3>2. Missing(r, M) = Missing(t, M) \cup {o}
      <4>1. \A a \in Items : Item("call", a.id) = e <=> a.id = e.id BY <2>6, <2>11, ItemIs
      <4>2. o.kind = "output" /\ o.id = e.id BY ItemIs
      <4>3. \A a \in Items : a.kind = "output" /\ a.id = e.id => a = o BY ItemIs
      <4> QED BY <2>2, <2>6, <2>11, <4>1, <4>2, <4>3 DEF Missing
    <3>3. o \notin Range(Append(f, e))
      <4>1. o \notin Range(t) /\ o # e BY <2>4, <2>11
      <4>2. o \notin Missing(t, M)
        <5> SUFFICES ASSUME o \in Missing(t, M) PROVE FALSE OBVIOUS
        <5>1. Item("call", e.id) \in Range(t) BY ItemIs DEF Missing
        <5>2. e \in Range(t) BY <2>6, <2>11, <5>1
        <5>3. May(e, e) BY <2>4, <5>2
        <5> QED BY <2>11, <5>3 DEF May, Tracked
      <4> QED BY <2>5, <2>9, <4>1, <4>2
    <3>4. \A a \in Range(Append(f, e)) : May(a, o)
      <4>1. o.kind = "output" BY ItemIs
      <4> QED BY <3>3, <4>1 DEF May
    <3>5. Orderly(Append(Append(f, e), o)) /\ Range(Append(Append(f, e), o)) = Range(Append(f, e)) \cup {o}
      <4> PICK g \in Seq(Items) : g = Append(f, e) BY <2>8
      <4>1. Orderly(g) /\ \A a \in Range(g) : May(a, o) BY <2>9, <3>4
      <4>2. Orderly(Append(g, o)) BY <2>6, <4>1, OrderlyAppend
      <4>3. Range(Append(g, o)) = Range(g) \cup {o} BY <1>0, <2>6
      <4> QED BY <4>2, <4>3
    <3> QED BY <2>2, <2>5, <2>9, <3>1, <3>2, <3>5
  <2> QED BY <2>10, <2>11
<1> HIDE DEF T
<1>3. h \in T BY <1>1, <1>2, SeqInduction
<1> QED BY <1>3 DEF T

\* An output or a call that a history has is in it.
LEMMA InHistory ==
  ASSUME NEW h, NEW n
  PROVE  /\ HasOutput(h, n) <=> Item("output", n) \in Range(h)
         /\ HasCall(h, n) <=> Item("call", n) \in Range(h)
BY DEF HasOutput, HasCall, Range

\* EnsureOutputs leaves a history in order and adds the outputs of its calls.
LEMMA OutputsEnsured ==
  ASSUME NEW h \in Seq(Items), Orderly(h)
  PROVE  /\ Orderly(EnsureOutputs(h))
         /\ Range(EnsureOutputs(h))
              = Range(h) \cup {e \in Items : e.kind = "output" /\ Item("call", e.id) \in Range(h)}
<1> DEFINE M == {n \in Nat : ~HasOutput(h, n)}
<1>1. \A n \in M : Item("output", n) \notin Range(h) BY InHistory
<1>2. EnsureOutputs(h) = Filled(h, M) BY EnsureIsFilled
<1>m. \A n \in Nat : n \in M <=> Item("output", n) \notin Range(h) BY InHistory
<1> HIDE DEF M
<1>3. Orderly(Filled(h, M)) /\ Range(Filled(h, M)) = Range(h) \cup Missing(h, M)
  BY <1>1, FilledInOrder
<1>4. \A e \in Items : e.kind = "output" => e.id \in Nat /\ e = Item("output", e.id)
  BY Bounds, ItemIs
<1>5. \A e \in Items : e.kind = "output" /\ e.id \notin M => e \in Range(h) BY <1>m, <1>4
<1> QED BY <1>2, <1>3, <1>5 DEF Missing

\* RemoveOrphans leaves a history in order, without the outputs that have no
\* call.
LEMMA OrphansRemoved ==
  ASSUME NEW h \in Seq(Items), Orderly(h)
  PROVE  /\ Orderly(RemoveOrphans(h))
         /\ Range(RemoveOrphans(h))
              = {e \in Range(h) : e.kind = "output" => Item("call", e.id) \in Range(h)}
<1> DEFINE S == {e \in Range(h) : e.kind = "output" => HasCall(h, e.id)}
<1>1. S = {e \in Range(h) : e.kind = "output" => Item("call", e.id) \in Range(h)} BY InHistory
<1>2. RemoveOrphans(h) = Only(h, S) BY DEF RemoveOrphans
<1> HIDE DEF S
<1>3. Range(Only(h, S)) = Range(h) \cap S /\ InOrder(Only(h, S), Mays)
  BY OnlyInOrder DEF Orderly
<1> QED BY <1>1, <1>2, <1>3 DEF Orderly

\* The request made of an orderly history pairs calls with outputs.
LEMMA PreparedIsPaired ==
  ASSUME NEW h \in Seq(Items), Orderly(h)
  PROVE  Paired(Prepare(h))
<1> DEFINE E == EnsureOutputs(h)
           p == Prepare(h)
<1>1. E \in Seq(Items) /\ p \in Seq(Items) BY EnsureOutputsType, RemoveOrphansType DEF Prepare
<1>2. /\ Orderly(E)
      /\ Range(E) = Range(h) \cup {e \in Items : e.kind = "output" /\ Item("call", e.id) \in Range(h)}
  BY OutputsEnsured
<1>p. p = RemoveOrphans(E) BY DEF Prepare
<1> HIDE DEF E, p
<1>3. /\ Orderly(p)
      /\ Range(p) = {e \in Range(E) : e.kind = "output" => Item("call", e.id) \in Range(E)}
  BY <1>1, <1>2, <1>p, OrphansRemoved
<1>4. Len(p) \in Nat /\ DOMAIN p = 1..Len(p) /\ \A i \in DOMAIN p : p[i] \in Items /\ p[i] \in Range(p)
  BY <1>1, LenProperties, ElementOfSeq DEF Range
<1>5. \A i, j \in DOMAIN p : i < j => May(p[i], p[j]) BY <1>3 DEF Orderly, InOrder, Mays
<1>6. \A n : Item("call", n) \in Range(E) <=> Item("call", n) \in Range(h)
  BY <1>2, ItemIs
<1>7. ASSUME NEW i \in DOMAIN p, p[i].kind = "call"
      PROVE  \E j \in (i + 1)..Len(p) : p[j] = Item("output", p[i].id)
  <2> DEFINE o == Item("output", p[i].id)
  <2>1. p[i] = Item("call", p[i].id) BY <1>4, <1>7, ItemIs
  <2>2. p[i] \in Range(E) /\ p[i] \in Range(h) BY <1>3, <1>4, <1>6, <2>1
  <2>3. o \in Items /\ o.kind = "output" /\ o.id = p[i].id BY <1>4, FillType, ItemIs
  <2>4. o \in Range(E) BY <1>2, <2>1, <2>2, <2>3
  <2>5. o \in Range(p) BY <1>3, <2>1, <2>2, <2>3, <2>4
  <2>6. PICK j \in DOMAIN p : p[j] = o BY <2>5 DEF Range
  <2>7. ~(j < i)
    <3> SUFFICES ASSUME j < i PROVE FALSE OBVIOUS
    <3>1. May(p[j], p[i]) BY <1>5
    <3> QED BY <1>7, <2>6, <3>1 DEF May
  <2>8. j # i BY <1>7, <2>3, <2>6
  <2>9. j \in (i + 1)..Len(p) BY <1>4, <2>7, <2>8
  <2> QED BY <2>6, <2>9
<1>8. ASSUME NEW i \in DOMAIN p, p[i].kind = "output"
      PROVE  \E j \in 1..(i - 1) : p[j] = Item("call", p[i].id)
  <2> DEFINE c == Item("call", p[i].id)
  <2>1. c \in Range(E) /\ c.kind = "call" /\ c.id = p[i].id BY <1>3, <1>4, <1>8, ItemIs
  <2>2. c \in Range(p) BY <1>3, <2>1
  <2>3. PICK j \in DOMAIN p : p[j] = c BY <2>2 DEF Range
  <2>4. p[i] = Item("output", p[j].id) BY <1>4, <1>8, <2>1, <2>3, ItemIs
  <2>5. ~(i < j)
    <3> SUFFICES ASSUME i < j PROVE FALSE OBVIOUS
    <3>1. May(p[i], p[j]) BY <1>5
    <3> QED BY <2>1, <2>3, <2>4, <3>1 DEF May
  <2>6. j # i BY <1>8, <2>1, <2>3
  <2>7. j \in 1..(i - 1) BY <1>4, <2>5, <2>6
  <2> QED BY <2>3, <2>7
<1>9. ASSUME NEW i \in DOMAIN p, NEW j \in DOMAIN p, p[i] = p[j], p[i].kind = "output" PROVE i = j
  <2>1. ~(i < j) /\ ~(j < i) BY <1>5, <1>9 DEF May, Tracked
  <2> QED BY <1>4, <2>1
<1>10. Paired(p) BY <1>7, <1>8, <1>9 DEF Paired
<1> QED BY <1>10 DEF p

-----------------------------------------------------------------------------
(* The order in what a compaction makes of a history.                      *)

\* What is outside the blocks is in order.
LEMMA WithoutBlocksOrderly ==
  ASSUME NEW h \in Seq(Items), Orderly(h)
  PROVE  Orderly(WithoutBlocks(h)) /\ Range(WithoutBlocks(h)) \subseteq Range(h)
<1>1. Len(h) \in Nat /\ DOMAIN h = 1..Len(h) /\ \A i \in 1..Len(h) : h[i] \in Items
  BY LenProperties, ElementOfSeq
<1> DEFINE ids == [i \in DOMAIN h |-> i]
           Less == {p \in (1..Len(h)) \X (1..Len(h)) : p[1] < p[2]}
<1>2. ids \in Seq(1..Len(h)) /\ InOrder(ids, Less)
  <2>1. ids = [i \in 1..Len(h) |-> ids[i]] /\ \A i \in 1..Len(h) : ids[i] \in 1..Len(h) BY <1>1
  <2>2. InOrder(ids, Less) BY <1>1 DEF InOrder
  <2> HIDE DEF ids, Less
  <2> QED BY <1>1, <2>1, <2>2, SeqOfFunction
<1>l. \A i, j : <<i, j>> \in Less => i < j OBVIOUS
<1> HIDE DEF ids, Less
<1>3. ASSUME NEW S
      PROVE  /\ Orderly([n \in DOMAIN Only(ids, S) |-> h[Only(ids, S)[n]]])
             /\ Range([n \in DOMAIN Only(ids, S) |-> h[Only(ids, S)[n]]]) \subseteq Range(h)
  <2> DEFINE rest == Only(ids, S)
             r == [n \in DOMAIN rest |-> h[rest[n]]]
  <2>1. rest \in Seq(1..Len(h)) /\ InOrder(rest, Less) BY <1>2, OnlyType, OnlyInOrder
  <2> HIDE DEF rest
  <2>2. \A n \in DOMAIN rest : rest[n] \in DOMAIN h
    BY <1>1, <2>1, LenProperties, ElementOfSeq
  <2>3. \A m, n \in DOMAIN rest : m < n => rest[m] < rest[n] BY <1>l, <2>1 DEF InOrder
  <2>4. \A m, n \in DOMAIN rest : m < n => <<h[rest[m]], h[rest[n]]>> \in Mays
    BY <2>2, <2>3 DEF Orderly, InOrder
  <2>5. Orderly(r) BY <2>4 DEF Orderly, InOrder
  <2>6. Range(r) \subseteq Range(h) BY <2>2 DEF Range
  <2> QED BY <2>5, <2>6 DEF rest
<1> QED BY <1>3 DEF WithoutBlocks, ids

\* The items of some kinds are in order,
LEMMA OfKindsOrderly ==
  ASSUME NEW h \in Seq(Items), Orderly(h), NEW kinds
  PROVE  /\ OfKinds(h, kinds) \in Seq(Items) /\ Orderly(OfKinds(h, kinds))
         /\ Range(OfKinds(h, kinds)) \subseteq Range(h)
BY OnlyInOrder, OfKindsType DEF OfKinds, Orderly

\* and so is a part of a history.
LEMMA PartOrderly ==
  ASSUME NEW h \in Seq(Items), Orderly(h), NEW m \in Nat \ {0}, NEW n \in Int, n <= Len(h)
  PROVE  /\ SubSeq(h, m, n) \in Seq(Items) /\ Orderly(SubSeq(h, m, n))
         /\ Range(SubSeq(h, m, n)) \subseteq Range(h)
BY PartInOrder DEF Orderly

\* A block is in order, and has texts and calls of the history only, and their
\* outputs.
LEMMA RecentBlockOrderly ==
  ASSUME NEW h \in Seq(Items), Orderly(h), NEW n \in 0..Len(Compressible(h))
  PROVE  Orderly(RecentBlock(h, n)) /\ From(RecentBlock(h, n), h)
<1> DEFINE c == Compressible(h)
           part == SubSeq(c, Len(c) - n + 1, Len(c))
           whole == RemoveOrphans(part)
           shown == EnsureOutputs(whole)
           header == <<Item("header", 0)>>
           footer == <<Item("footer", 0)>>
<1>0. RecentBlock(h, n) = IF shown = <<>> THEN <<>> ELSE header \o shown \o footer
  BY DEF RecentBlock
<1>1. c \in Seq(Items) /\ Orderly(c) /\ Range(c) \subseteq Range(h)
  BY WithoutBlocksType, WithoutBlocksOrderly, OfKindsOrderly DEF Compressible
<1>2. Len(c) - n + 1 \in Nat \ {0} /\ Len(c) \in Int /\ Len(c) <= Len(c) BY <1>1, LenProperties
<1> HIDE DEF c
<1>3. part \in Seq(Items) /\ Orderly(part) /\ Range(part) \subseteq Range(c)
  BY <1>1, <1>2, PartOrderly
<1> HIDE DEF part
<1>4. whole \in Seq(Items) /\ Orderly(whole) /\ Range(whole) \subseteq Range(part)
  BY <1>3, OrphansRemoved, RemoveOrphansType
<1> HIDE DEF whole
<1>5. /\ shown \in Seq(Items) /\ Orderly(shown)
      /\ Range(shown) = Range(whole)
           \cup {e \in Items : e.kind = "output" /\ Item("call", e.id) \in Range(whole)}
  BY <1>4, OutputsEnsured, EnsureOutputsType
<1> HIDE DEF shown
<1>6. /\ header \in Seq(Items) /\ footer \in Seq(Items)
      /\ \A e \in Range(header) : e.kind \notin Tracked
      /\ \A e \in Range(footer) : e.kind \notin Tracked
  <2>1. Item("header", 0) \in Items /\ Item("footer", 0) \in Items BY Bounds DEF Kinds
  <2>2. Item("header", 0).kind \notin Tracked /\ Item("footer", 0).kind \notin Tracked
    BY ItemIs DEF Tracked
  <2> QED BY <2>1, <2>2 DEF Range
<1> HIDE DEF header, footer
<1>7. \A e \in Range(shown) :
        e \in Range(h) \/ (e.kind = "output" /\ Item("call", e.id) \in Range(h))
  BY <1>1, <1>3, <1>4, <1>5
<1>8. Orderly(<<>>) /\ From(<<>>, h) BY DEF Orderly, InOrder, From, Range
<1>9. PICK s \in Seq(Items) : s = header \o shown BY <1>5, <1>6, Joined
<1>10. Orderly(s) /\ Range(s) = Range(header) \cup Range(shown)
  <2>1. Range(s) = Range(header) \cup Range(shown)
    <3>1. \A x, y \in Seq(Items) : Range(x \o y) = Range(x) \cup Range(y) BY Joined
    <3> QED BY <1>5, <1>6, <1>9, <3>1
  <2>2. Orderly(header) /\ \A a \in Range(header), b \in Items : May(a, b)
    BY <1>6, UntrackedIsOrderly
  <2>3. Range(shown) \subseteq Items BY <1>5, RangeType
  <2> QED BY <1>5, <1>6, <1>9, <2>1, <2>2, <2>3, OrderlyJoined
<1>11. Orderly(s \o footer) /\ Range(s \o footer) = Range(s) \cup Range(footer)
  <2>1. Range(s \o footer) = Range(s) \cup Range(footer) BY <1>6, Joined
  <2>2. Orderly(footer) /\ \A a \in Range(footer), b \in Items : May(b, a)
    BY <1>6, UntrackedIsOrderly
  <2>3. Range(s) \subseteq Items BY RangeType
  <2> QED BY <1>6, <1>10, <2>1, <2>2, <2>3, OrderlyJoined
<1>12. From(s \o footer, h) BY <1>6, <1>7, <1>10, <1>11 DEF From
<1> QED BY <1>0, <1>8, <1>9, <1>11, <1>12

\* The initial context leaves a history in order, and adds no text, call or
\* output.
LEMMA InsertContextOrderly ==
  ASSUME NEW h \in Seq(Items), Orderly(h), NEW context \in {<<>>, InitialContext}
  PROVE  /\ InsertContext(h, context) \in Seq(Items) /\ Orderly(InsertContext(h, context))
         /\ From(InsertContext(h, context), h)
<1> DEFINE at == InsertionPoint(h)
           a == SubSeq(h, 1, at - 1)
           b == SubSeq(h, at, Len(h))
<1>1. at \in 1..(Len(h) + 1) /\ Len(h) \in Nat BY InsertionPointBounds, LenProperties
<1>2. InsertContext(h, context) = a \o context \o b BY DEF InsertContext
<1> HIDE DEF at
<1>3. /\ 1 \in Nat \ {0} /\ at - 1 \in Int /\ at - 1 <= Len(h)
      /\ at \in Nat \ {0} /\ Len(h) \in Int /\ Len(h) <= Len(h)
  BY <1>1
<1>4. /\ a \in Seq(Items) /\ Orderly(a) /\ Range(a) \subseteq Range(h)
      /\ b \in Seq(Items) /\ Orderly(b) /\ Range(b) \subseteq Range(h)
  BY <1>3, PartOrderly
<1>5. \A x \in Range(a), y \in Range(b) : May(x, y)
  <2>1. /\ DOMAIN h = 1..Len(h)
        /\ Len(a) = (IF 1 <= at - 1 THEN at - 1 - 1 + 1 ELSE 0)
        /\ \A i \in 1..(at - 1 - 1 + 1) : a[i] = h[1 + i - 1]
        /\ Len(b) = (IF at <= Len(h) THEN Len(h) - at + 1 ELSE 0)
        /\ \A i \in 1..(Len(h) - at + 1) : b[i] = h[at + i - 1]
        /\ DOMAIN a = 1..Len(a) /\ DOMAIN b = 1..Len(b)
    BY <1>3, <1>4, PartType, LenProperties
  <2> HIDE DEF a, b
  <2>2. ASSUME NEW i \in DOMAIN a, NEW j \in DOMAIN b PROVE May(a[i], b[j])
    <3>a. i \in 1..(at - 1) /\ at - 1 - 1 + 1 = at - 1 /\ 1 + i - 1 = i
      <4>1. Len(a) = (IF 1 <= at - 1 THEN at - 1 ELSE 0) BY <1>1, <2>1
      <4>2. i \in 1..(at - 1) BY <1>1, <2>1, <4>1
      <4> QED BY <1>1, <4>2
    <3>b. j \in 1..(Len(h) - at + 1)
      <4>1. Len(b) = (IF at <= Len(h) THEN Len(h) - at + 1 ELSE 0) BY <2>1
      <4> QED BY <1>1, <2>1, <4>1
    <3>c. i \in DOMAIN h /\ at + j - 1 \in DOMAIN h /\ i < at + j - 1
      BY <1>1, <2>1, <3>a, <3>b
    <3>d. a[i] = h[i] BY <2>1, <3>a
    <3>e. b[j] = h[at + j - 1] BY <2>1, <3>b
    <3>1. /\ i \in DOMAIN h /\ at + j - 1 \in DOMAIN h /\ i < at + j - 1
          /\ a[i] = h[i] /\ b[j] = h[at + j - 1]
      BY <3>c, <3>d, <3>e
    <3> QED BY <3>1 DEF Orderly, InOrder, Mays
  <2> QED BY <2>2 DEF Range
<1> HIDE DEF a, b
<1>6. context \in Seq(Items) /\ \A e \in Range(context) : e.kind \notin Tracked
  <2>1. Item("developer", 0) \in Items /\ Item("context", 0) \in Items BY Bounds DEF Kinds
  <2>2. InitialContext \in Seq(Items) /\ <<>> \in Seq(Items) BY <2>1, EmptySeq DEF InitialContext
  <2>3. \A e \in Range(<<>>) : FALSE BY DEF Range
  <2>4. \A e \in Range(InitialContext) : e.kind \notin Tracked
    BY ItemIs DEF Range, InitialContext, Tracked
  <2> QED BY <2>2, <2>3, <2>4
<1>7. Orderly(context) /\ \A x \in Range(context), y \in Items : May(x, y) /\ May(y, x)
  BY <1>6, UntrackedIsOrderly
<1>8. Range(a) \subseteq Items /\ Range(b) \subseteq Items BY <1>4, RangeType
<1>9. PICK s \in Seq(Items) : s = a \o context BY <1>4, <1>6, Joined
<1>10. Orderly(s) /\ Range(s) = Range(a) \cup Range(context)
  <2>1. Range(s) = Range(a) \cup Range(context) BY <1>4, <1>6, <1>9, Joined
  <2> QED BY <1>4, <1>6, <1>7, <1>8, <1>9, <2>1, OrderlyJoined
<1>11. s \o b \in Seq(Items) /\ Orderly(s \o b) /\ Range(s \o b) = Range(s) \cup Range(b)
  <2>1. s \o b \in Seq(Items) /\ Range(s \o b) = Range(s) \cup Range(b) BY <1>4, Joined
  <2>2. \A x \in Range(s), y \in Range(b) : May(x, y) BY <1>5, <1>7, <1>8, <1>10
  <2> QED BY <1>4, <1>10, <2>1, <2>2, OrderlyJoined
<1>12. From(s \o b, h) BY <1>4, <1>6, <1>10, <1>11 DEF From
<1> QED BY <1>2, <1>9, <1>11, <1>12

\* What a compaction puts in place of an orderly history is in order: it keeps
\* texts before its summary only when there is no block to show them.
LEMMA CompactionOrderly ==
  ASSUME NEW h \in Seq(Items), Orderly(h), NEW e \in Items, e.kind \notin Tracked,
         NEW context \in {<<>>, InitialContext},
         NEW block \in Seq(Items), Orderly(block), From(block, h),
         NEW keep \in Nat, keep <= Len(OfKinds(h, {"user"}))
  PROVE  /\ Orderly(Summarised(h, e, context, block, keep))
         /\ From(Summarised(h, e, context, block, keep), h)
         /\ Orderly(Checkpointed(e, context, block))
         /\ From(Checkpointed(e, context, block), h)
<1> DEFINE texts == OfKinds(h, {"user"})
           part == SubSeq(texts, Len(texts) - keep + 1, Len(texts))
           prefix == IF block = <<>> THEN part ELSE <<>>
<1>1. texts \in Seq(Items) /\ Orderly(texts) /\ Range(texts) \subseteq Range(h) /\ Len(texts) \in Nat
  BY OfKindsOrderly, LenProperties
<1>2. Len(texts) - keep + 1 \in Nat \ {0} /\ Len(texts) \in Int /\ Len(texts) <= Len(texts) BY <1>1
<1>3. Summarised(h, e, context, block, keep) = InsertContext(Append(prefix, e), context) \o block
  BY DEF Summarised
<1> HIDE DEF texts
<1>4. part \in Seq(Items) /\ Orderly(part) /\ Range(part) \subseteq Range(h)
  BY <1>1, <1>2, PartOrderly, Zenon
<1> HIDE DEF part
<1>5. <<>> \in Seq(Items) /\ Range(<<>>) = {} /\ Orderly(<<>>)
  BY EmptySeq DEF Range, Orderly, InOrder
<1>6. /\ prefix \in Seq(Items) /\ Orderly(prefix) /\ Range(prefix) \subseteq Range(h)
      /\ block # <<>> => prefix = <<>>
  BY <1>4, <1>5
<1> HIDE DEF prefix
<1>7. Checkpointed(e, context, block) = InsertContext(Append(<<>>, e), context) \o block
  <2>1. Append(<<>>, e) = <<e>> OBVIOUS
  <2> QED BY <2>1 DEF Checkpointed
<1>8. ASSUME NEW s \in Seq(Items), Orderly(s), Range(s) \subseteq Range(h), block # <<>> => s = <<>>
      PROVE  /\ Orderly(InsertContext(Append(s, e), context) \o block)
             /\ From(InsertContext(Append(s, e), context) \o block, h)
  <2> PICK x \in Seq(Items) : x = Append(s, e) BY <1>8, AppendProperties
  <2>1. Range(x) = Range(s) \cup {e} BY RangeAppend
  <2>2. \A a \in Items : May(a, e) BY ItemIs DEF May, Tracked
  <2>3. Orderly(x)
    <3>1. Range(s) \subseteq Items BY RangeType
    <3> QED BY <1>8, <2>2, <3>1, OrderlyAppend
  <2> PICK y : y = InsertContext(x, context) OBVIOUS
  <2>4. y \in Seq(Items) /\ Orderly(y) /\ From(y, x) BY <2>3, InsertContextOrderly
  <2>5. \A n : Item("call", n) # e BY ItemIs DEF Tracked
  <2>6. From(y, s)
    <3> SUFFICES ASSUME NEW a \in Range(y), a.kind \in Tracked
                 PROVE  a \in Range(s) \/ (a.kind = "output" /\ Item("call", a.id) \in Range(s))
      BY DEF From
    <3>1. a \in Range(x) \/ (a.kind = "output" /\ Item("call", a.id) \in Range(x)) BY <2>4 DEF From
    <3> QED BY <2>1, <2>5, <3>1
  <2>7. \A a \in Range(y), b \in Range(block) : May(a, b)
    <3>1. CASE block = <<>> BY <1>5, <3>1
    <3>2. CASE block # <<>>
      <4>1. Range(s) = {} BY <1>5, <1>8, <3>2
      <4>2. \A a \in Range(y) : a.kind \notin Tracked BY <2>6, <4>1 DEF From
      <4>3. \A a \in Range(y), b \in Items : May(a, b) BY <2>4, <4>2, UntrackedIsOrderly
      <4>4. Range(block) \subseteq Items BY RangeType
      <4> QED BY <4>3, <4>4
    <3> QED BY <3>1, <3>2
  <2>8. Orderly(y \o block) BY <2>4, <2>7, OrderlyJoined
  <2>9. Range(y \o block) = Range(y) \cup Range(block)
    <3>1. \A s1, s2 \in Seq(Items) : Range(s1 \o s2) = Range(s1) \cup Range(s2) BY Joined
    <3> QED BY <2>4, <3>1
  <2>10. From(y \o block, h)
    <3> SUFFICES ASSUME NEW a \in Range(y) \cup Range(block), a.kind \in Tracked
                 PROVE  a \in Range(h) \/ (a.kind = "output" /\ Item("call", a.id) \in Range(h))
      BY <2>9 DEF From
    <3> QED BY <1>8, <2>6 DEF From
  <2> QED BY <2>8, <2>10
<1>9. block # <<>> => <<>> = <<>> OBVIOUS
<1>10. Range(<<>>) \subseteq Range(h) BY <1>5
<1> QED BY <1>3, <1>5, <1>6, <1>7, <1>8, <1>9, <1>10

-----------------------------------------------------------------------------
(* The invariant.                                                          *)

\* a history as lines, as the seed of a fork has it
ItemLines(h) == [i \in DOMAIN h |-> ItemLine(h[i])]

\* What is being appended, and how the saved history stands to the live one
\* until it is.
Appending ==
  \/ writing = <<>> /\ (seed = <<>> /\ pc # "down" => kept = history)
  \/ writing = <<Other>> /\ kept = history
  \/ writing = Append(ItemLines(history), Other) /\ kept = <<>> /\ file = <<>> /\ ~torn
  \/ ~torn /\ \E e \in Items : writing = <<ItemLine(e)>> /\ history = Append(kept, e)
  \/ ~torn /\ \E e \in Echoes : writing = <<Line("echo", <<e>>)>> /\ kept = history
  \/ ~torn /\ writing = <<Line("compacted", history)>>

\* A fork that was not gone on with has no file.
Seeded == seed # <<>> =>
  /\ pc = "idle" /\ writing = <<>> /\ ~torn /\ kept = <<>> /\ file = <<>>
  /\ seed = ItemLines(history)

\* The first line after half a line is one that nothing depends on.
TornIsSkipped == torn => pc \in {"idle", "down"} \/ writing = <<Other>>

\* A process that ended has nothing left.
Gone == pc = "down" => writing = <<>> /\ seed = <<>> /\ history = <<>>

\* The file has what is saved, and replies, calls and markers besides.
Said(s) == Only(s, Items \ Echoes)
SavedIsRead == Said(file) = Said(kept) /\ Len(kept) <= Len(file)

FileInv == Appending /\ Seeded /\ TornIsSkipped /\ Gone /\ SavedIsRead

\* What a failed response is taken back to.
Snapshots ==
  /\ pc = "stream" =>
       /\ Len(snapshot) <= Len(history) /\ snapshot = SubSeq(history, 1, Len(snapshot))
       /\ \A i \in (Len(snapshot) + 1)..Len(history) : history[i] \in Echoes
  /\ pc = "summarise" => snapshot = history

\* Tools run while there are calls.
CallsWait == pc = "tools" => calls # <<>>

\* The history has the initial context when _initial_context_recorded says so,
\* and it says so from the prompt of a turn on.
ContextIn(h) == halved \/ BothKinds(h)
ContextInv ==
  /\ ctxRecorded => ContextIn(history)
  /\ pc = "context" => HasKind(history, "developer")
  /\ pc \in {"ready", "prompted", "steer", "ask", "stream", "tools", "top"} => ctxRecorded
  /\ back = "top" /\ pc \in {"compact", "summarise", "after"} => ctxRecorded
  /\ pc = "stream" => ContextIn(snapshot)

\* What a history has of texts, calls and outputs was numbered before.
Young(h) == \A e \in Range(h) : e.kind \in Tracked => e.id < next

\* The calls that wait for their results have none, not even one that an
\* earlier response, a compaction or another process left in the file.
Awaited(h) == \A n \in Range(calls) : Item("output", n) \notin Range(h)

\* What is being appended may come after what the file has.
Fitting ==
  \A e \in Items : writing \in {<<ItemLine(e)>>, <<Line("echo", <<e>>)>>} =>
    /\ \A a \in Range(file) : May(a, e)
    /\ e.kind \in Tracked => e.id < next

\* The calls of a response are different, and are gone when its turn is.
Waiting ==
  /\ \A i, j \in DOMAIN calls : i < j => calls[i] # calls[j]
  /\ \A n \in Range(calls) : n < next
  /\ pc \notin {"stream", "tools"} => calls = <<>>

Sound(h) == Orderly(h) /\ Young(h) /\ Awaited(h)

OrderInv == Sound(history) /\ Sound(file) /\ Fitting /\ Waiting

IInv == TypeOK /\ FileInv /\ Snapshots /\ CallsWait /\ ContextInv /\ OrderInv

-----------------------------------------------------------------------------
(* What an append makes of the file.                                       *)

Solid == {"item", "echo", "compacted"}
Own == {"item", "compacted"}

\* A line is taken up or passed over for its type.
LEMMA LineTypes ==
  ASSUME NEW e \in Items, NEW h \in Seq(Items)
  PROVE  /\ ItemLine(e) \in LinesOf({"item"}) /\ ItemLine(e) \in Lines
         /\ Line("echo", <<e>>) \in Lines /\ Line("compacted", h) \in Lines
         /\ Other \in Lines
         /\ ItemLine(e) \in LinesOf(Solid) /\ ItemLine(e) \in LinesOf(Own)
         /\ Line("echo", <<e>>) \in LinesOf(Solid) /\ Line("echo", <<e>>) \notin LinesOf(Own)
         /\ Line("compacted", h) \in LinesOf(Solid) /\ Line("compacted", h) \in LinesOf(Own)
         /\ Other \notin LinesOf(Solid) /\ Other \notin LinesOf(Own)
         /\ ItemLine(e).type = "item" /\ ItemLine(e).items = <<e>>
         /\ Line("echo", <<e>>).type = "echo" /\ Line("echo", <<e>>).items = <<e>>
         /\ Line("compacted", h).type = "compacted" /\ Line("compacted", h).items = h
<1>1. <<e>> \in Seq(Items) /\ <<>> \in Seq(Items) BY EmptySeq
<1> QED BY <1>1 DEF ItemLine, Line, Other, LinesOf, Lines, Solid, Own

\* A line alone is an append.
LEMMA LineSeqs ==
  ASSUME NEW e \in Items, NEW h \in Seq(Items)
  PROVE  /\ <<ItemLine(e)>> \in Seq(Lines) /\ <<Line("echo", <<e>>)>> \in Seq(Lines)
         /\ <<Line("compacted", h)>> \in Seq(Lines)
         /\ Other \in Lines /\ <<Other>> \in Seq(Lines) /\ <<>> \in Seq(Lines)
<1>1. \A line \in Lines : <<line>> \in Seq(Lines) OBVIOUS
<1>2. /\ ItemLine(e) \in Lines /\ Line("echo", <<e>>) \in Lines /\ Line("compacted", h) \in Lines
      /\ Other \in Lines
  BY LineTypes, Zenon
<1> QED BY <1>1, <1>2, EmptySeq, Zenon

\* Nothing read changes nothing,
LEMMA ReadNothing == ASSUME NEW h \in Seq(Items) PROVE Read(h, <<>>) = h
<1> DEFINE r == [i \in DOMAIN <<>> |-> Head(<<>>[i].items)]
<1>1. r = <<>> OBVIOUS
<1>2. Read(h, <<>>) = h \o r BY DEF Read
<1> HIDE DEF r
<1> QED BY <1>1, <1>2, ConcatEmptySeq

\* an item is appended,
LEMMA ReadItem ==
  ASSUME NEW h \in Seq(Items), NEW e \in Items, NEW line, line.type # "compacted", line.items = <<e>>
  PROVE  Read(h, <<line>>) = Append(h, e)
<1> DEFINE lines == <<line>>
           r == [i \in DOMAIN lines |-> Head(lines[i].items)]
<1>1. DOMAIN lines = 1..1 /\ lines[1] = line /\ Len(lines) = 1 /\ lines # <<>> OBVIOUS
<1>2. Head(<<e>>) = e OBVIOUS
<1>3. r = <<e>>
  <2>1. DOMAIN r = 1..1 /\ r[1] = e BY <1>1, <1>2
  <2>2. r = [i \in 1..1 |-> r[i]] /\ \A i \in 1..1 : r[i] \in Items BY <2>1
  <2>3. 1 \in Nat OBVIOUS
  <2> HIDE DEF r
  <2>4. r \in Seq(Items) /\ Len(r) = 1 BY <2>2, <2>3, SeqOfFunction
  <2>5. <<e>> \in Seq(Items) /\ Len(<<e>>) = 1 /\ \A i \in 1..1 : <<e>>[i] = r[i] BY <2>1
  <2> QED BY <2>4, <2>5, SeqEqual
<1>4. Read(h, lines) = h \o r BY <1>1 DEF Read, Last
<1> HIDE DEF r
<1>5. Read(h, lines) = h \o <<e>> BY <1>3, <1>4
<1> QED BY <1>5, AppendIsConcat

\* a compacted history replaces what was there,
LEMMA ReadCompacted ==
  ASSUME NEW h \in Seq(Items), NEW r \in Seq(Items)
  PROVE  Read(h, <<Line("compacted", r)>>) = r
<1>1. Line("compacted", r).type = "compacted" /\ Line("compacted", r).items = r BY DEF Line
<1>2. <<Line("compacted", r)>> # <<>> /\ Len(<<Line("compacted", r)>>) = 1 OBVIOUS
<1> QED BY <1>1, <1>2 DEF Read, Last

\* and the lines of a fork make its history, as far as they were written.
LEMMA ReadSeed ==
  ASSUME NEW h \in Seq(Items), NEW k \in 0..Len(h)
  PROVE  /\ ItemLines(h) \in Seq(LinesOf({"item"})) /\ Len(ItemLines(h)) = Len(h)
         /\ Read(<<>>, SubSeq(ItemLines(h), 1, k)) = SubSeq(h, 1, k)
<1> DEFINE ls == ItemLines(h)
           part == SubSeq(ls, 1, k)
           r == [i \in DOMAIN part |-> Head(part[i].items)]
<1>1. Len(h) \in Nat /\ DOMAIN h = 1..Len(h) /\ \A i \in 1..Len(h) : h[i] \in Items
  BY LenProperties, ElementOfSeq
<1>2. /\ ls = [i \in 1..Len(h) |-> ls[i]]
      /\ \A i \in 1..Len(h) : ls[i] = ItemLine(h[i]) /\ ls[i] \in LinesOf({"item"})
  BY <1>1, LineTypes DEF ItemLines
<1> HIDE DEF ls
<1>3. ls \in Seq(LinesOf({"item"})) /\ Len(ls) = Len(h) BY <1>1, <1>2, SeqOfFunction
<1>4. /\ part \in Seq(LinesOf({"item"})) /\ Len(part) = k /\ k \in Nat
      /\ \A i \in 1..k : part[i] = ls[i]
  <2>1. 1 \in Nat \ {0} /\ k \in Int /\ k <= Len(ls) /\ k \in Nat BY <1>1, <1>3
  <2>2. /\ part \in Seq(LinesOf({"item"})) /\ Len(part) = (IF 1 <= k THEN k - 1 + 1 ELSE 0)
        /\ \A i \in 1..(k - 1 + 1) : part[i] = ls[1 + i - 1]
    BY <1>3, <2>1, PartType
  <2> QED BY <2>1, <2>2
<1> HIDE DEF part
<1>5. DOMAIN part = 1..k BY <1>4, LenProperties
<1>6. \A i \in 1..k : r[i] = h[i] /\ r[i] \in Items
  <2> TAKE i \in 1..k
  <2>1. i \in 1..Len(h) BY <1>1
  <2>2. part[i] = ItemLine(h[i]) /\ h[i] \in Items BY <1>1, <1>2, <1>4, <2>1
  <2>3. part[i].items = <<h[i]>> BY <2>2, LineTypes
  <2>4. Head(<<h[i]>>) = h[i] OBVIOUS
  <2> QED BY <1>5, <2>2, <2>3, <2>4
<1>7. r = SubSeq(h, 1, k)
  <2>1. r = [i \in 1..k |-> r[i]] BY <1>5
  <2> HIDE DEF r
  <2>2. r \in Seq(Items) /\ Len(r) = k BY <2>1, <1>4, <1>6, SeqOfFunction
  <2>3. 1 \in Nat \ {0} /\ k \in Int /\ k <= Len(h) BY <1>1
  <2>4. /\ SubSeq(h, 1, k) \in Seq(Items) /\ Len(SubSeq(h, 1, k)) = (IF 1 <= k THEN k - 1 + 1 ELSE 0)
        /\ \A i \in 1..(k - 1 + 1) : SubSeq(h, 1, k)[i] = h[1 + i - 1]
    BY <2>3, PartType
  <2>5. Len(SubSeq(h, 1, k)) = k /\ \A i \in 1..k : SubSeq(h, 1, k)[i] = r[i]
    BY <1>4, <1>6, <2>4
  <2> QED BY <2>2, <2>4, <2>5, SeqEqual
<1>8. Read(<<>>, part) = <<>> \o r
  <2>1. CASE part = <<>> BY <2>1 DEF Read
  <2>2. CASE part # <<>>
    <3>1. Len(part) \in 1..k BY <1>4, <2>2, EmptySeq
    <3>2. part[Len(part)] \in LinesOf({"item"}) BY <1>4, <3>1, ElementOfSeq
    <3>3. Last(part).type = "item" BY <3>2 DEF Last, LinesOf
    <3> QED BY <3>3 DEF Read
  <2> QED BY <2>1, <2>2
<1>9. SubSeq(h, 1, k) \in Seq(Items)
  <2>1. 1 \in Nat \ {0} /\ k \in Int /\ k <= Len(h) BY <1>1
  <2> QED BY <2>1, PartType
<1>10. <<>> \o SubSeq(h, 1, k) = SubSeq(h, 1, k) BY <1>9, ConcatEmptySeq
<1> HIDE DEF r
<1> QED BY <1>3, <1>7, <1>8, <1>10 DEF part, ls

\* The items of a history that are said grow with it, or do not.
LEMMA SaidAppend ==
  ASSUME NEW h \in Seq(Items), NEW e \in Items
  PROVE  Said(Append(h, e)) = IF e \in Echoes THEN Said(h) ELSE Append(Said(h), e)
BY OnlyAppend DEF Said

\* One line is glued to a torn one, passed over or taken up.
LEMMA LandedOne ==
  ASSUME NEW line
  PROVE  /\ Landed(<<>>) = <<>>
         /\ torn \/ line \notin LinesOf(Solid) => Landed(<<line>>) = <<>>
         /\ ~torn /\ line \in LinesOf(Solid) => Landed(<<line>>) = <<line>>
<1>1. Tail(<<line>>) = <<>> /\ <<line>> # <<>> OBVIOUS
<1>2. Landed(<<>>) = Only(<<>>, LinesOf(Solid)) BY DEF Landed, Solid
<1>3. Landed(<<line>>) = Only(IF torn THEN <<>> ELSE <<line>>, LinesOf(Solid))
  BY <1>1 DEF Landed, Solid
<1> QED BY <1>2, <1>3, OnlyEmpty, OnlyOne

\* An append of which nothing landed changes nothing.
LEMMA StoreEmpty ==
  ASSUME file \in Seq(Items), kept \in Seq(Items), NEW lines, Landed(lines) = <<>>, Store(lines)
  PROVE  file' = file /\ kept' = kept
BY ReadNothing, OnlyEmpty DEF Store

\* A line that landed is read, as what was saved if it is of this process.
LEMMA StoreOne ==
  ASSUME NEW line, ~torn, line \in LinesOf(Solid), Store(<<line>>),
         file \in Seq(Items), kept \in Seq(Items)
  PROVE  /\ file' = Read(file, <<line>>)
         /\ line \in LinesOf(Own) => kept' = Read(kept, <<line>>)
         /\ line \notin LinesOf(Own) => kept' = kept
<1>1. Landed(<<line>>) = <<line>> BY LandedOne
<1>2. kept' = Read(kept, Only(<<line>>, LinesOf(Own))) BY <1>1 DEF Store, Own
<1> QED BY <1>1, <1>2, OnlyOne, ReadNothing DEF Store

\* Of an append nothing may reach the file,
LEMMA NoPrefix == ASSUME NEW s PROVE SubSeq(s, 1, 0) = <<>>
BY SubSeqEmpty

\* and of an append of one line nothing or all does.
LEMMA OneOrNone ==
  ASSUME NEW line, NEW k \in 0..Len(<<line>>)
  PROVE  k = 0 \/ (k = 1 /\ SubSeq(<<line>>, 1, k) = <<line>>)
<1>1. <<line>> \in Seq({line}) /\ Len(<<line>>) = 1 OBVIOUS
<1>2. SubSeq(<<line>>, 1, 1) = <<line>> BY <1>1, SubSeqFull
<1> QED BY <1>1, <1>2

\* Part of what a fork's first append writes is part of its history.
LEMMA StoreSeed ==
  ASSUME history \in Seq(Items), kept = <<>>, file = <<>>, ~torn,
         writing = Append(ItemLines(history), Other),
         NEW k \in 0..Len(writing), Store(SubSeq(writing, 1, k))
  PROVE  \E n \in 0..Len(history) : /\ file' = SubSeq(history, 1, n) /\ kept' = SubSeq(history, 1, n)
                                    /\ k = Len(writing) => n = Len(history)
<1> DEFINE ls == ItemLines(history)
           m == Len(history)
           n == IF k <= m THEN k ELSE m
<1>1. /\ ls \in Seq(LinesOf({"item"})) /\ Len(ls) = m /\ m \in Nat
      /\ \A i \in 0..m : Read(<<>>, SubSeq(ls, 1, i)) = SubSeq(history, 1, i)
  BY ReadSeed, LenProperties
<1> HIDE DEF ls
<1>2. /\ ls \in Seq(Lines) /\ Other \in Lines /\ Other \notin LinesOf(Solid) /\ Other \notin LinesOf(Own)
      /\ LinesOf({"item"}) \subseteq LinesOf(Solid) /\ LinesOf({"item"}) \subseteq LinesOf(Own)
  <2>1. <<>> \in Seq(Items) BY EmptySeq
  <2>2. LinesOf({"item"}) \subseteq Lines BY DEF LinesOf, Lines
  <2>3. Other \in Lines /\ Other \notin LinesOf(Solid) /\ Other \notin LinesOf(Own)
    BY <2>1 DEF Other, Line, LinesOf, Lines, Solid, Own
  <2>4. LinesOf({"item"}) \subseteq LinesOf(Solid) /\ LinesOf({"item"}) \subseteq LinesOf(Own)
    BY DEF LinesOf, Solid, Own
  <2> QED BY <1>1, <2>2, <2>3, <2>4, SeqMonotonic
<1>3. writing = Append(ls, Other) /\ Len(writing) = m + 1 /\ writing \in Seq(Lines)
  BY <1>1, <1>2, AppendProperties DEF ls
<1> DEFINE part == SubSeq(ls, 1, n)
<1>4. n \in 0..m /\ (k = Len(writing) => n = m) BY <1>1, <1>3
<1> HIDE DEF n
<1>5. part \in Seq(LinesOf({"item"}))
  <2>1. 1 \in Nat \ {0} /\ n \in Int /\ n <= Len(ls) BY <1>1, <1>4
  <2> QED BY <1>1, <2>1, PartType
<1>6. \A S : Only(SubSeq(writing, 1, k), S) = Only(part, S) \/ Other \in S
  <2> TAKE S
  <2>1. CASE k = m + 1
    <3>1. SubSeq(writing, 1, k) = writing BY <1>3, <2>1, SubSeqFull
    <3>2. part = ls BY <1>1, <1>3, <1>4, <2>1, SubSeqFull
    <3>3. Other \notin S => Only(Append(ls, Other), S) = Only(ls, S) BY <1>2, OnlyAppend
    <3> QED BY <1>3, <3>1, <3>2, <3>3
  <2>2. CASE k \in 1..m
    <3>1. n = k BY <2>2 DEF n
    <3>2. <<Other>> \in Seq(Lines) /\ writing = ls \o <<Other>> BY <1>2, <1>3, AppendIsConcat
    <3>3. 1 \in 1..Len(ls) /\ k \in 1..Len(ls) BY <1>1, <2>2
    <3>4. SubSeq(writing, 1, k) = SubSeq(ls, 1, k) BY <1>2, <3>2, <3>3, SubSeqOfConcat1
    <3> QED BY <3>1, <3>4
  <2>3. CASE k = 0
    <3>1. n = 0 BY <2>3, <1>1 DEF n
    <3> QED BY <2>3, <3>1, NoPrefix
  <2> QED BY <2>1, <2>2, <2>3, <1>1, <1>3
<1>7. Landed(SubSeq(writing, 1, k)) = part
  <2>1. Landed(SubSeq(writing, 1, k)) = Only(SubSeq(writing, 1, k), LinesOf(Solid)) BY DEF Landed, Solid
  <2>2. Only(part, LinesOf(Solid)) = part BY <1>2, <1>5, OnlyAll
  <2>3. Other \notin LinesOf(Solid) BY <1>2
  <2>4. Only(SubSeq(writing, 1, k), LinesOf(Solid)) = Only(part, LinesOf(Solid)) BY <1>6, <2>3
  <2> QED BY <2>1, <2>2, <2>4
<1>8. Only(part, LinesOf(Own)) = part BY <1>2, <1>5, OnlyAll, ZenonT(60)
<1>9. file' = Read(<<>>, part) /\ kept' = Read(<<>>, part) BY <1>7, <1>8 DEF Store, Own
<1> QED BY <1>1, <1>4, <1>9

\* Whatever part of an append reaches the file, the file stays what was saved
\* besides replies, calls and markers, what is saved is what was saved, the
\* live history, or, of a new fork, the beginning of it, and a whole append
\* saves the live history.
LEMMA StoreEffect ==
  ASSUME TypeOK, FileInv, pc # "down", NEW k \in 0..Len(writing), Store(SubSeq(writing, 1, k))
  PROVE  /\ file' \in Seq(Items) /\ kept' \in Seq(Items)
         /\ Said(file') = Said(kept') /\ Len(kept') <= Len(file')
         /\ kept' \in {kept, history} \/ (kept = <<>> /\ \E n \in 0..Len(history) : kept' = SubSeq(history, 1, n))
         /\ writing # <<>> /\ k = Len(writing) => kept' = history
<1>1. /\ file \in Seq(Items) /\ kept \in Seq(Items) /\ history \in Seq(Items)
      /\ Said(file) = Said(kept) /\ Len(kept) <= Len(file)
      /\ Len(file) \in Nat /\ Len(kept) \in Nat
  BY LenProperties DEF TypeOK, FileInv, SavedIsRead
<1>2. ASSUME NEW line, writing = <<line>>
      PROVE  \/ k = 0 /\ SubSeq(writing, 1, k) = <<>>
             \/ k = 1 /\ SubSeq(writing, 1, k) = <<line>> /\ Store(<<line>>)
  BY <1>2, OneOrNone, NoPrefix DEF Store
<1>3. CASE Landed(SubSeq(writing, 1, k)) = <<>> /\ (writing # <<>> /\ k = Len(writing) => kept = history)
  <2>1. file' = file /\ kept' = kept BY <1>1, <1>3, StoreEmpty
  <2> QED BY <1>1, <1>3, <2>1
<1>4. CASE writing = <<>>
  <2>1. SubSeq(writing, 1, k) = <<>> BY <1>4, SubSeqEmpty, EmptySeq
  <2> QED BY <1>3, <1>4, <2>1, LandedOne
<1>5. CASE writing = <<Other>> /\ kept = history
  <2>1. Other \notin LinesOf(Solid) BY DEF Other, Line, LinesOf, Solid
  <2> QED BY <1>2, <1>3, <1>5, <2>1, LandedOne
<1>6. CASE writing = Append(ItemLines(history), Other) /\ kept = <<>> /\ file = <<>> /\ ~torn
  <2>1. PICK n \in 0..Len(history) : /\ file' = SubSeq(history, 1, n) /\ kept' = SubSeq(history, 1, n)
                                     /\ k = Len(writing) => n = Len(history)
    BY <1>1, <1>6, StoreSeed
  <2>2. SubSeq(history, 1, n) \in Seq(Items)
    <3>1. 1 \in Nat \ {0} /\ n \in Int /\ n <= Len(history) BY <1>1, LenProperties
    <3> QED BY <1>1, <3>1, PartType
  <2>3. Len(kept') \in Nat BY <2>1, <2>2, LenProperties
  <2>4. k = Len(writing) => kept' = history BY <1>1, <2>1, SubSeqFull
  <2> QED BY <1>6, <2>1, <2>2, <2>3, <2>4
<1>7. CASE ~torn /\ \E e \in Items : writing = <<ItemLine(e)>> /\ history = Append(kept, e)
  <2>1. PICK e \in Items : writing = <<ItemLine(e)>> /\ history = Append(kept, e) BY <1>7
  <2>2. Len(writing) = 1 /\ writing # <<>> BY <2>1
  <2>3. CASE k = 0
    <3>1. Landed(SubSeq(writing, 1, k)) = <<>> BY <2>3, NoPrefix, LandedOne
    <3> QED BY <1>3, <2>2, <2>3, <3>1
  <2>4. CASE k = 1
    <3>1. Store(<<ItemLine(e)>>) BY <1>2, <2>1, <2>4
    <3>2. /\ ItemLine(e) \in LinesOf(Solid) /\ ItemLine(e) \in LinesOf(Own)
          /\ ItemLine(e).type # "compacted" /\ ItemLine(e).items = <<e>>
      BY <1>1, LineTypes
    <3>3. file' = Append(file, e) /\ kept' = Append(kept, e)
      <4>1. Read(file, <<ItemLine(e)>>) = Append(file, e) /\ Read(kept, <<ItemLine(e)>>) = Append(kept, e)
        BY <1>1, <3>2, ReadItem
      <4> QED BY <1>1, <1>7, <3>1, <3>2, <4>1, StoreOne
    <3>4. Said(file') = Said(kept') BY <1>1, <3>3, SaidAppend
    <3>5. /\ file' \in Seq(Items) /\ kept' \in Seq(Items)
          /\ Len(file') = Len(file) + 1 /\ Len(kept') = Len(kept) + 1
      BY <1>1, <3>3, AppendProperties
    <3> QED BY <1>1, <2>1, <3>3, <3>4, <3>5
  <2> QED BY <2>2, <2>3, <2>4
<1>8. CASE ~torn /\ \E e \in Echoes : writing = <<Line("echo", <<e>>)>> /\ kept = history
  <2>1. PICK e \in Echoes : writing = <<Line("echo", <<e>>)>> BY <1>8
  <2>2. Len(writing) = 1 /\ writing # <<>> /\ e \in Items BY <2>1 DEF Echoes, Items, Kinds
  <2>3. CASE k = 0
    <3>1. Landed(SubSeq(writing, 1, k)) = <<>> BY <2>3, NoPrefix, LandedOne
    <3> QED BY <1>3, <2>2, <2>3, <3>1
  <2>4. CASE k = 1
    <3> DEFINE line == Line("echo", <<e>>)
    <3>1. Store(<<line>>) BY <1>2, <2>1, <2>4
    <3>2. /\ line \in LinesOf(Solid) /\ line \notin LinesOf(Own)
          /\ line.type # "compacted" /\ line.items = <<e>>
      BY <1>1, <2>2, LineTypes
    <3> HIDE DEF line
    <3>3. file' = Append(file, e) /\ kept' = kept
      BY <1>1, <1>8, <2>2, <3>1, <3>2, StoreOne, ReadItem
    <3>4. Said(file') = Said(kept') BY <1>1, <2>2, <3>3, SaidAppend
    <3>5. file' \in Seq(Items) /\ Len(file') = Len(file) + 1 BY <1>1, <2>2, <3>3, AppendProperties
    <3> QED BY <1>1, <1>8, <3>3, <3>4, <3>5
  <2> QED BY <2>2, <2>3, <2>4
<1>9. CASE ~torn /\ writing = <<Line("compacted", history)>>
  <2>1. Len(writing) = 1 /\ writing # <<>> BY <1>9
  <2>2. CASE k = 0
    <3>1. Landed(SubSeq(writing, 1, k)) = <<>> BY <2>2, NoPrefix, LandedOne
    <3> QED BY <1>3, <2>1, <2>2, <3>1
  <2>3. CASE k = 1
    <3> DEFINE line == Line("compacted", history)
    <3>1. Store(<<line>>) BY <1>2, <1>9, <2>3
    <3>2. \A e \in Items : line \in LinesOf(Solid) /\ line \in LinesOf(Own) BY <1>1, LineTypes
    <3>3. Item("user", 0) \in Items BY Bounds DEF Kinds
    <3>4. Read(file, <<line>>) = history /\ Read(kept, <<line>>) = history BY <1>1, ReadCompacted
    <3> HIDE DEF line
    <3>5. file' = history /\ kept' = history BY <1>1, <1>9, <3>1, <3>2, <3>3, <3>4, StoreOne
    <3>6. Len(history) \in Nat BY <1>1, LenProperties
    <3> QED BY <1>1, <3>5, <3>6
  <2> QED BY <2>1, <2>2, <2>3
<1> QED BY <1>4, <1>5, <1>6, <1>7, <1>8, <1>9 DEF FileInv, Appending

-----------------------------------------------------------------------------
(* The ways in which a step can change the history and the file.           *)

\* in a turn or a compaction, between two appends
Working == writing = <<>> /\ pc \notin {"idle", "down"} /\ pc' # "down"

Quiet == Working /\ UNCHANGED <<history, disk, writing>>
Appends == Working /\ \E e \in Items : Append1(e)
Echoing == Working /\ history' = history /\ \E e \in Echoes : Emit(<<Line("echo", <<e>>)>>)
Replaces == Working /\ history' \in Seq(Items) /\ Emit(<<Line("compacted", history')>>)
TakesBack ==
  /\ Working /\ history' = snapshot /\ UNCHANGED <<file, torn, seed, writing>>
  /\ pc = "stream"
  /\ kept' = SubSeq(kept, 1, Len(kept) - (Len(history) - Len(snapshot)))
Begins ==
  /\ writing = <<>> /\ pc = "idle" /\ pc' \notin {"idle", "down"}
  /\ history' = history /\ EmitFirst(<<Other>>)

\* A compaction puts a history in place of the history, with both kinds of the
\* context if it brings it.
LEMMA CompactedIsHistory ==
  ASSUME TypeOK, CompactRemotely \/ SummaryDone
  PROVE  /\ history' \in Seq(Items) /\ Compacted(history')
         /\ ContextToInject # <<>> => BothKinds(history')
<1>1. history \in Seq(Items) /\ next \in 1..(MaxItems + 1) BY DEF TypeOK
<1>2. ContextToInject \in {<<>>, InitialContext} BY DEF ContextToInject
<1>3. \A block \in Blocks : block \in Seq(Items)
  BY <1>1, RecentBlockType, EmptySeq DEF Blocks
<1>4. CASE CompactRemotely
  <2>1. PICK block \in Blocks :
          Compacted(Checkpointed(Item("checkpoint", next), ContextToInject, block))
    BY <1>4 DEF CompactRemotely
  <2>2. Item("checkpoint", next) \in Items
    BY <1>1, <1>4, Bounds DEF CompactRemotely, Kinds
  <2>3. history' = Checkpointed(Item("checkpoint", next), ContextToInject, block)
    BY <2>1 DEF Compacted
  <2>4. 0 \in Nat /\ 0 <= Len(OfKinds(history, {"user"})) BY <1>1, OfKindsType, LenProperties
  <2>5. /\ history' \in Seq(Items) /\ (ContextToInject # <<>> => BothKinds(history'))
    BY <1>1, <1>2, <1>3, <2>2, <2>3, <2>4, CompactionType
  <2> QED BY <2>1, <2>3, <2>5
<1>5. CASE SummaryDone
  <2>1. PICK block \in Blocks, keep \in Keeps :
          Compacted(Summarised(history, Item("summary", next), ContextToInject, block, keep))
    BY <1>5 DEF SummaryDone
  <2>2. Item("summary", next) \in Items
    BY <1>1, <1>5, Bounds DEF SummaryDone, Kinds
  <2>3. history' = Summarised(history, Item("summary", next), ContextToInject, block, keep)
    BY <2>1 DEF Compacted
  <2>4. keep \in Nat /\ keep <= Len(OfKinds(history, {"user"}))
    <3>1. Len(OfKinds(history, {"user"})) \in Nat BY <1>1, OfKindsType, LenProperties
    <3> QED BY <2>1, <3>1 DEF Keeps
  <2>5. /\ history' \in Seq(Items) /\ (ContextToInject # <<>> => BothKinds(history'))
    BY <1>1, <1>2, <1>3, <2>2, <2>3, <2>4, CompactionType
  <2> QED BY <2>1, <2>3, <2>5
<1> QED BY <1>4, <1>5

\* Every step changes the history and the file in one of these ways.
LEMMA StepKinds ==
  ASSUME TypeOK, Snapshots, CallsWait, [Next]_vars
  PROVE  \/ UNCHANGED vars \/ Quiet \/ Appends \/ Echoing \/ Replaces \/ TakesBack \/ Begins
         \/ Write \/ Crash \/ Resume \/ Fork
<1>a. next \in 1..(MaxItems + 1) /\ calls \in Seq(1..MaxItems) /\ history \in Seq(Items) /\ MaxItems \in Nat
  BY Bounds DEF TypeOK
<1>b. ASSUME NEW kind \in Kinds, Fresh(kind), Working PROVE Appends
  <2>1. Item(kind, next) \in Items BY <1>a, <1>b, Bounds DEF Fresh
  <2> QED BY <1>b, <2>1 DEF Fresh, Appends
<1>1. CASE StartTurn \/ ManualCompact
  BY <1>1 DEF StartTurn, ManualCompact, Begin, Begins, At, live
<1>2. CASE Note \/ Prompt \/ Steer \/ Reply \/ Call
  BY <1>2, <1>b DEF Note, Prompt, Steer, Reply, Call, At, Working, Goto, Kinds
<1>3. CASE Developer \/ Context
  <2>1. Item("developer", 0) \in Items /\ Item("context", 0) \in Items BY Bounds DEF Kinds
  <2> QED BY <1>3, <2>1 DEF Developer, Context, At, Working, Goto, Appends
<1>4. CASE EnterLoop \/ EndTurn \/ Request \/ StreamDone \/ AutoCompact \/ RemoteFailed \/ Summarise \/ CompactReturn
  <2>1. back # "down" BY DEF TypeOK
  <2> QED BY <1>4, <2>1 DEF EnterLoop, EndTurn, Request, StreamDone, AutoCompact, RemoteFailed, Summarise,
      CompactReturn, At, Goto, Return, Quiet, Working, live
<1>5. CASE SummaryFailed
  BY <1>5 DEF SummaryFailed, Snapshots, At, Goto, Return, Quiet, Working
<1>6. CASE StreamFailed
  BY <1>6 DEF StreamFailed, At, Goto, Return, TakesBack, Working
<1>7. CASE ToolResult
  <2>1. Head(calls) \in 1..MaxItems
    BY <1>a, <1>7, HeadTailProperties DEF ToolResult, At, CallsWait
  <2>2. Item("output", Head(calls)) \in Items BY <2>1, <1>a, Bounds DEF Kinds
  <2> QED BY <1>7, <2>2 DEF ToolResult, At, Goto, Appends, Working
<1>8. CASE Interrupt
  <2>1. Item("marker", 0) \in Items BY Bounds DEF Kinds
  <2> QED BY <1>8, <2>1 DEF Interrupt, At, Return, Appends, Quiet, Working
<1>9. CASE CompactBlocked
  <2>1. Working /\ history' = history BY <1>9 DEF CompactBlocked, At, Return, Working, live
  <2>2. CASE history # <<>> /\ Last(history).kind = "marker"
    <3>1. Last(history) \in Items
      <4>1. Len(history) \in 1..Len(history) BY <1>a, <2>2, EmptySeq
      <4> QED BY <1>a, <4>1, ElementOfSeq DEF Last
    <3>2. Last(history) \in Echoes BY <2>2, <3>1 DEF Items, Echoes
    <3>3. Emit(<<Line("echo", <<Last(history)>>)>>) BY <1>9, <2>2 DEF CompactBlocked
    <3> QED BY <2>1, <3>2, <3>3 DEF Echoing
  <2>3. CASE ~(history # <<>> /\ Last(history).kind = "marker")
    BY <1>9, <2>1, <2>3 DEF CompactBlocked, Quiet
  <2> QED BY <2>2, <2>3
<1>10. CASE CompactRemotely \/ SummaryDone
  <2>1. history' \in Seq(Items) /\ Compacted(history') BY <1>10, CompactedIsHistory
  <2>2. Working BY <1>10, <2>1 DEF CompactRemotely, SummaryDone, At, Compacted, Working
  <2> QED BY <2>1, <2>2 DEF Compacted, Replaces
<1>11. CASE SummaryReply
  <2>1. Item("reply", next) \in Echoes BY <1>a, <1>11 DEF SummaryReply, Item, Echoes
  <2> QED BY <1>11, <2>1 DEF SummaryReply, At, Echoing, Working, live
<1> QED
  BY <1>1, <1>2, <1>3, <1>4, <1>5, <1>6, <1>7, <1>8, <1>9, <1>10, <1>11 DEF Next

-----------------------------------------------------------------------------
(* Each way keeps the file true to the history, and is a step of           *)
(* Conversation or none.                                                   *)

DiskTypes ==
  /\ writing \in Seq(Lines) /\ seed \in Seq(Lines)
  /\ file \in Seq(Items) /\ kept \in Seq(Items) /\ history \in Seq(Items)
  /\ torn \in BOOLEAN

Follows == DiskTypes' /\ FileInv' /\ [Durable!Next]_(Durable!vars)

\* Between two appends what is saved is the history, unless a fork was not
\* gone on with.
LEMMA IdleIsSaved ==
  ASSUME DiskTypes, FileInv, writing = <<>>, seed = <<>>, pc # "down"
  PROVE  kept = history
<1>1. /\ <<>> # <<Other>> /\ \A e : <<>> # <<ItemLine(e)>> /\ <<>> # <<Line("echo", <<e>>)>>
      /\ <<>> # <<Line("compacted", history)>> OBVIOUS
<1>2. <<>> # Append(ItemLines(history), Other)
  <2>1. history \in Seq(Items) /\ 0 \in 0..Len(history) BY LenProperties DEF DiskTypes
  <2>2. Item("user", 0) \in Items BY Bounds DEF Kinds
  <2>3. LinesOf({"item"}) \subseteq Lines BY DEF LinesOf, Lines
  <2>4. ItemLines(history) \in Seq(Lines) /\ Other \in Lines
    BY <2>1, <2>2, <2>3, ReadSeed, LineSeqs, SeqMonotonic
  <2> QED BY <2>4, AppendProperties
<1> QED BY <1>1, <1>2 DEF FileInv, Appending

\* In a turn, between two appends, what is saved is the history.
LEMMA AtWork ==
  ASSUME TypeOK, FileInv, Working
  PROVE  DiskTypes /\ seed = <<>> /\ ~torn /\ kept = history /\ pc # "down"
<1>1. DiskTypes BY DEF TypeOK, DiskTypes
<1>2. seed = <<>> /\ ~torn
  <2>1. writing # <<Other>> BY DEF Working
  <2> QED BY <2>1 DEF FileInv, Seeded, TornIsSkipped, Working
<1>5. kept = history BY <1>1, <1>2, IdleIsSaved DEF Working
<1> QED BY <1>1, <1>2, <1>5 DEF Working

\* Nothing happens to either.
LEMMA QuietFollows == ASSUME TypeOK, FileInv, Quiet PROVE Follows
<1>1. /\ DiskTypes /\ seed = <<>> /\ ~torn /\ kept = history /\ pc # "down" /\ pc' # "down" /\ writing = <<>>
      /\ UNCHANGED <<history, file, torn, seed, kept, writing>>
  BY AtWork DEF Quiet, Working, disk
<1>2. DiskTypes' BY <1>1 DEF DiskTypes
<1>3. FileInv' BY <1>1 DEF FileInv, Appending, Seeded, TornIsSkipped, Gone, SavedIsRead, Said
<1>4. UNCHANGED Durable!vars BY <1>1 DEF Durable!vars
<1> QED BY <1>2, <1>3, <1>4 DEF Follows

\* An item is added to the history, and is being appended to the file.
LEMMA AppendsFollows == ASSUME TypeOK, FileInv, Appends PROVE Follows
<1>1. PICK e \in Items : Append1(e) BY DEF Appends
<1>2. /\ DiskTypes /\ seed = <<>> /\ ~torn /\ kept = history /\ pc # "down" /\ pc' # "down" /\ writing = <<>>
      /\ history' = Append(history, e) /\ writing' = <<ItemLine(e)>>
      /\ UNCHANGED <<file, torn, seed, kept>>
  BY <1>1, AtWork DEF Appends, Append1, Emit, Working, disk
<1>3. history' \in Seq(Items) /\ history' # history
  BY <1>2, AppendProperties, LenProperties DEF DiskTypes
<1>4. DiskTypes'
  <2>1. <<ItemLine(e)>> \in Seq(Lines) BY <1>2, LineSeqs, Zenon DEF DiskTypes
  <2> QED BY <1>2, <1>3, <2>1 DEF DiskTypes
<1>5. FileInv'
  <2>1. Appending' BY <1>2 DEF Appending
  <2>2. (Seeded /\ TornIsSkipped /\ Gone /\ SavedIsRead)'
    BY <1>2 DEF FileInv, Seeded, TornIsSkipped, Gone, SavedIsRead, Said
  <2> QED BY <2>1, <2>2 DEF FileInv
<1>6. Durable!Change BY <1>2, <1>3 DEF Durable!Change
<1> QED BY <1>4, <1>5, <1>6 DEF Follows, Durable!Next

\* An item the history has already, or never has, is being appended.
LEMMA EchoingFollows == ASSUME TypeOK, FileInv, Echoing PROVE Follows
<1>1. PICK e \in Echoes : Emit(<<Line("echo", <<e>>)>>) BY DEF Echoing
<1>2. /\ DiskTypes /\ seed = <<>> /\ ~torn /\ kept = history /\ pc # "down" /\ pc' # "down" /\ writing = <<>>
      /\ writing' = <<Line("echo", <<e>>)>>
      /\ UNCHANGED <<history, file, torn, seed, kept>>
  BY <1>1, AtWork DEF Echoing, Emit, Working, disk
<1>3. DiskTypes'
  <2>1. e \in Items BY DEF Echoes, Items, Kinds
  <2>2. <<Line("echo", <<e>>)>> \in Seq(Lines) BY <1>2, <2>1, LineSeqs, Zenon DEF DiskTypes
  <2> QED BY <1>2, <2>2 DEF DiskTypes
<1>4. FileInv'
  <2>1. Appending' BY <1>2 DEF Appending
  <2>2. (Seeded /\ TornIsSkipped /\ Gone /\ SavedIsRead)'
    BY <1>2 DEF FileInv, Seeded, TornIsSkipped, Gone, SavedIsRead, Said
  <2> QED BY <2>1, <2>2 DEF FileInv
<1>5. UNCHANGED Durable!vars BY <1>2 DEF Durable!vars
<1> QED BY <1>3, <1>4, <1>5 DEF Follows

\* Another history takes the place of the history, and is being appended.
LEMMA ReplacesFollows == ASSUME TypeOK, FileInv, Replaces PROVE Follows
<1>1. /\ DiskTypes /\ seed = <<>> /\ ~torn /\ kept = history /\ pc # "down" /\ pc' # "down" /\ writing = <<>>
      /\ history' \in Seq(Items) /\ writing' = <<Line("compacted", history')>>
      /\ UNCHANGED <<file, torn, seed, kept>>
  BY AtWork DEF Replaces, Emit, Working, disk
<1>2. DiskTypes'
  <2>1. Item("user", 0) \in Items BY Bounds DEF Kinds
  <2>2. <<Line("compacted", history')>> \in Seq(Lines) BY <1>1, <2>1, LineSeqs, Zenon
  <2> QED BY <1>1, <2>2 DEF DiskTypes
<1>3. FileInv'
  <2>1. Appending' BY <1>1 DEF Appending
  <2>2. (Seeded /\ TornIsSkipped /\ Gone /\ SavedIsRead)'
    BY <1>1 DEF FileInv, Seeded, TornIsSkipped, Gone, SavedIsRead, Said
  <2> QED BY <2>1, <2>2 DEF FileInv
<1>4. CASE history' = history
  <2>1. UNCHANGED Durable!vars BY <1>1, <1>4 DEF Durable!vars
  <2> QED BY <1>2, <1>3, <2>1 DEF Follows
<1>5. CASE history' # history
  <2>1. Durable!Change BY <1>1, <1>5 DEF Durable!Change
  <2> QED BY <1>2, <1>3, <2>1 DEF Follows, Durable!Next
<1> QED BY <1>4, <1>5

\* The turn begins: a fork's history is being appended, if it is one.
LEMMA BeginsFollows == ASSUME TypeOK, FileInv, Begins PROVE Follows
<1>1. /\ DiskTypes /\ pc = "idle" /\ pc' \notin {"idle", "down"} /\ writing = <<>>
      /\ writing' = seed \o <<Other>> /\ seed' = <<>>
      /\ UNCHANGED <<history, file, torn, kept>>
  BY DEF Begins, EmitFirst, TypeOK, DiskTypes
<1>2. Other \in Lines /\ <<Other>> \in Seq(Lines) /\ <<>> \in Seq(Lines)
  <2>1. Item("user", 0) \in Items /\ <<>> \in Seq(Items) BY Bounds, EmptySeq DEF Kinds
  <2> QED BY <2>1, LineSeqs, Zenon
<1>3. writing' = Append(seed, Other) /\ writing' \in Seq(Lines)
  BY <1>1, <1>2, AppendIsConcat, AppendProperties DEF DiskTypes
<1>4. DiskTypes' BY <1>1, <1>2, <1>3 DEF DiskTypes
<1>7. UNCHANGED Durable!vars BY <1>1 DEF Durable!vars
<1>5. CASE seed = <<>>
  <2>1. writing' = <<Other>> BY <1>3, <1>5
  <2>2. kept = history BY <1>1, <1>5, IdleIsSaved
  <2>3. Appending' BY <1>1, <2>1, <2>2 DEF Appending
  <2>4. (Seeded /\ TornIsSkipped /\ Gone /\ SavedIsRead)'
    BY <1>1, <2>1 DEF FileInv, Seeded, TornIsSkipped, Gone, SavedIsRead, Said
  <2>5. FileInv' BY <2>3, <2>4 DEF FileInv
  <2> QED BY <1>4, <1>7, <2>5 DEF Follows
<1>6. CASE seed # <<>>
  <2>1. ~torn /\ kept = <<>> /\ file = <<>> /\ seed = ItemLines(history) BY <1>6 DEF FileInv, Seeded
  <2>2. writing' = Append(ItemLines(history'), Other) BY <1>1, <1>3, <2>1 DEF ItemLines
  <2>3. Appending' BY <1>1, <2>1, <2>2 DEF Appending
  <2>4. (Seeded /\ TornIsSkipped /\ Gone /\ SavedIsRead)'
    BY <1>1, <2>1 DEF FileInv, Seeded, TornIsSkipped, Gone, SavedIsRead, Said
  <2>5. FileInv' BY <2>3, <2>4 DEF FileInv
  <2> QED BY <1>4, <1>7, <2>5 DEF Follows
<1> QED BY <1>5, <1>6

\* What Conversation means by what was said.
LEMMA HeardIsSaid == \A s : Durable!Heard(s) = Said(s)
BY DEF Durable!Heard, Durable!Only, Only, Said

\* The failed response's items leave the history and what is saved.
LEMMA TakesBackFollows == ASSUME TypeOK, FileInv, Snapshots, TakesBack PROVE Follows
<1>1. /\ DiskTypes /\ seed = <<>> /\ ~torn /\ kept = history /\ pc # "down" /\ pc' # "down" /\ writing = <<>>
      /\ UNCHANGED <<file, torn, seed, writing>>
      /\ history \in Seq(Items) /\ snapshot \in Seq(Items)
  BY AtWork DEF TakesBack, Working, TypeOK
<1> DEFINE n == Len(snapshot)
<1>2. /\ n \in 0..Len(history) /\ Len(history) \in Nat /\ snapshot = SubSeq(history, 1, n)
      /\ \A i \in (n + 1)..Len(history) : history[i] \in Echoes
  BY <1>1, LenProperties DEF TakesBack, Snapshots
<1>3. Len(kept) - (Len(history) - n) = n BY <1>1, <1>2
<1>4. history' = snapshot /\ kept' = snapshot BY <1>1, <1>2, <1>3 DEF TakesBack
<1>5. DiskTypes' BY <1>1, <1>4 DEF DiskTypes
<1>6. Said(snapshot) = Said(history)
  <2>1. \A i \in (n + 1)..Len(history) : history[i] \notin Items \ Echoes BY <1>2
  <2> HIDE DEF n
  <2> QED BY <1>1, <1>2, <2>1, OnlyOfPrefix DEF Said
<1>7. FileInv'
  <2>1. Appending' BY <1>1, <1>4 DEF Appending
  <2>2. SavedIsRead'
    <3>1. Said(file) = Said(history) /\ Len(history) <= Len(file) /\ Len(file) \in Nat
      BY <1>1, LenProperties DEF FileInv, SavedIsRead, DiskTypes
    <3> QED BY <1>1, <1>2, <1>4, <1>6, <3>1 DEF SavedIsRead, Said
  <2>3. (Seeded /\ TornIsSkipped /\ Gone)' BY <1>1 DEF Seeded, TornIsSkipped, Gone
  <2> QED BY <2>1, <2>2, <2>3 DEF FileInv
<1>8. CASE snapshot = history
  <2>1. UNCHANGED Durable!vars BY <1>1, <1>4, <1>8 DEF Durable!vars
  <2> QED BY <1>5, <1>7, <2>1 DEF Follows
<1>9. CASE snapshot # history
  <2>1. Durable!Retract BY <1>1, <1>2, <1>4, <1>9 DEF Durable!Retract, Durable!Prefix
  <2> QED BY <1>5, <1>7, <2>1 DEF Follows, Durable!Next
<1> QED BY <1>8, <1>9

\* The whole append is in the file.
LEMMA WriteFollows == ASSUME TypeOK, FileInv, Write PROVE Follows
<1>1. DiskTypes BY DEF TypeOK, DiskTypes
<1>2. /\ writing # <<>> /\ writing' = <<>> /\ torn' = FALSE /\ Store(writing)
      /\ UNCHANGED <<history, seed, pc>>
  BY DEF Write, live
<1>3. pc # "down" /\ seed = <<>> BY <1>2 DEF FileInv, Gone, Seeded
<1>4. Len(writing) \in 0..Len(writing) /\ SubSeq(writing, 1, Len(writing)) = writing
  BY <1>1, LenProperties, SubSeqFull DEF DiskTypes
<1>5. /\ file' \in Seq(Items) /\ kept' \in Seq(Items)
      /\ Said(file') = Said(kept') /\ Len(kept') <= Len(file') /\ kept' = history
  <2>1. Store(SubSeq(writing, 1, Len(writing))) BY <1>2, <1>4
  <2> QED BY <1>2, <1>3, <1>4, <2>1, StoreEffect
<1>6. DiskTypes'
  <2>1. <<>> \in Seq(Lines) BY EmptySeq
  <2> QED BY <1>1, <1>2, <1>5, <2>1 DEF DiskTypes
<1>7. FileInv'
  <2>1. SavedIsRead' BY <1>5 DEF SavedIsRead, Said
  <2>2. (Appending /\ Seeded /\ TornIsSkipped /\ Gone)'
    BY <1>2, <1>3, <1>5 DEF Appending, Seeded, TornIsSkipped, Gone
  <2> QED BY <2>1, <2>2 DEF FileInv
<1>8. Durable!Save BY <1>2, <1>3, <1>5 DEF Durable!Save
<1> QED BY <1>6, <1>7, <1>8 DEF Follows, Durable!Next

\* Part of the append is in the file, and the process is gone.
LEMMA CrashFollows == ASSUME TypeOK, FileInv, Crash PROVE Follows
<1>1. DiskTypes BY DEF TypeOK, DiskTypes
<1>2. PICK k \in 0..Len(writing) :
        /\ Store(SubSeq(writing, 1, k))
        /\ torn' \in {torn /\ k = 0, k < Len(writing) \/ (torn /\ k = 0)}
  BY DEF Crash
<1>3. pc # "down" /\ pc' = "down" /\ writing' = <<>> /\ seed' = <<>> /\ history' = <<>> BY DEF Crash
<1>4. /\ file' \in Seq(Items) /\ kept' \in Seq(Items)
      /\ Said(file') = Said(kept') /\ Len(kept') <= Len(file')
      /\ \/ kept' \in {kept, history}
         \/ kept = <<>> /\ \E n \in 0..Len(history) : kept' = SubSeq(history, 1, n)
  BY <1>2, <1>3, StoreEffect
<1>5. torn' \in BOOLEAN BY <1>2
<1>6. DiskTypes' BY <1>3, <1>4, <1>5, EmptySeq DEF DiskTypes
<1>7. FileInv'
  <2>1. SavedIsRead' BY <1>4 DEF SavedIsRead, Said
  <2>2. (Appending /\ Seeded /\ TornIsSkipped /\ Gone)'
    BY <1>3 DEF Appending, Seeded, TornIsSkipped, Gone
  <2> QED BY <2>1, <2>2 DEF FileInv
<1>8. kept' \in {kept, history} \/ (kept = <<>> /\ Durable!Prefix(kept', history))
  <2>1. ASSUME NEW n \in 0..Len(history), kept' = SubSeq(history, 1, n)
        PROVE  Durable!Prefix(kept', history)
    <3>1. history \in Seq(Items) /\ Len(history) \in Nat BY <1>1, LenProperties DEF DiskTypes
    <3>2. 1 \in Nat \ {0} /\ n \in Int /\ n <= Len(history) /\ n \in Nat BY <3>1
    <3>3. Len(SubSeq(history, 1, n)) = (IF 1 <= n THEN n - 1 + 1 ELSE 0) BY <3>1, <3>2, PartType
    <3>4. Len(kept') = n BY <2>1, <3>2, <3>3
    <3> QED BY <2>1, <3>2, <3>4 DEF Durable!Prefix
  <2> QED BY <1>4, <2>1
<1>9. Durable!Die BY <1>3, <1>8 DEF Durable!Die
<1> QED BY <1>6, <1>7, <1>9 DEF Follows, Durable!Next

\* The session comes back with what is in the file.
LEMMA ResumeFollows == ASSUME TypeOK, FileInv, Resume PROVE Follows
<1>1. DiskTypes BY DEF TypeOK, DiskTypes
<1>2. /\ pc = "down" /\ pc' = "idle" /\ history' = file /\ kept' = file
      /\ UNCHANGED <<file, torn, seed, writing>>
  BY DEF Resume, Take
<1>3. writing = <<>> /\ seed = <<>> BY <1>2 DEF FileInv, Gone
<1>4. DiskTypes' BY <1>1, <1>2 DEF DiskTypes
<1>5. FileInv'
  <2>1. Len(file) \in Nat BY <1>1, LenProperties DEF DiskTypes
  <2> QED BY <1>2, <1>3, <2>1 DEF FileInv, Appending, Seeded, TornIsSkipped, Gone, SavedIsRead, Said
<1>6. Durable!Resume
  <2>1. /\ file \in Seq(Items) /\ Len(file) \in Nat /\ Len(kept) \in Nat
        /\ Said(file) = Said(kept) /\ Len(kept) <= Len(file)
    BY <1>1, LenProperties DEF DiskTypes, FileInv, SavedIsRead
  <2> QED BY <1>2, <2>1, HeardIsSaid DEF Durable!Resume
<1> QED BY <1>4, <1>5, <1>6 DEF Follows, Durable!Next

\* Another file begins with the history of this one.
LEMMA ForkFollows == ASSUME TypeOK, FileInv, Fork PROVE Follows
<1>1. DiskTypes BY DEF TypeOK, DiskTypes
<1>2. /\ pc = "idle" /\ pc' = "idle" /\ writing = <<>> /\ writing' = <<>>
      /\ history' = history \/ (seed = <<>> /\ history' = file)
      /\ file' = <<>> /\ torn' = FALSE /\ kept' = <<>>
      /\ seed' = ItemLines(history')
  BY DEF Fork, At, Take, ItemLines
<1>3. history' \in Seq(Items) BY <1>1, <1>2 DEF DiskTypes
<1>4. seed' \in Seq(Lines) /\ (seed' = <<>> => history' = <<>>)
  <2>1. Len(history') \in Nat /\ 0 \in 0..Len(history') BY <1>3, LenProperties
  <2>2. ItemLines(history') \in Seq(LinesOf({"item"})) /\ Len(ItemLines(history')) = Len(history')
    BY <1>3, <2>1, ReadSeed
  <2>3. LinesOf({"item"}) \subseteq Lines BY DEF LinesOf, Lines
  <2> QED BY <1>2, <1>3, <2>2, <2>3, SeqMonotonic, EmptySeq
<1>5. DiskTypes' BY <1>2, <1>3, <1>4, EmptySeq DEF DiskTypes
<1>6. FileInv'
  <2>1. (Appending /\ Seeded /\ TornIsSkipped /\ Gone)'
    BY <1>2, <1>4 DEF Appending, Seeded, TornIsSkipped, Gone, ItemLines
  <2>2. SavedIsRead' BY <1>2 DEF SavedIsRead, Said
  <2> QED BY <2>1, <2>2 DEF FileInv
<1>7. Said(history') = Said(history)
  <2>1. CASE history' = history BY <2>1
  <2>2. CASE seed = <<>> /\ history' = file
    <3>1. kept = history BY <1>1, <1>2, <2>2, IdleIsSaved
    <3> QED BY <2>2, <3>1 DEF FileInv, SavedIsRead
  <2> QED BY <1>2, <2>1, <2>2
<1>8. Durable!Fork BY <1>2, <1>3, <1>7, HeardIsSaid DEF Durable!Fork
<1> QED BY <1>5, <1>6, <1>8 DEF Follows, Durable!Next

\* Every step keeps the file true to the history, and is one of Conversation.
LEMMA FileFollows ==
  ASSUME TypeOK, FileInv, Snapshots, CallsWait, [Next]_vars
  PROVE  Follows
<1>1. CASE UNCHANGED vars
  <2>1. DiskTypes BY DEF TypeOK, DiskTypes
  <2>2. UNCHANGED <<file, torn, seed, kept, writing, history, pc>> BY <1>1 DEF vars, live, disk
  <2>3. DiskTypes' BY <2>1, <2>2 DEF DiskTypes
  <2>4. FileInv'
    BY <2>2 DEF FileInv, Appending, Seeded, TornIsSkipped, Gone, SavedIsRead, Said, ItemLines
  <2>5. UNCHANGED Durable!vars BY <2>2 DEF Durable!vars
  <2> QED BY <2>3, <2>4, <2>5 DEF Follows
<1> QED
  BY <1>1, StepKinds, QuietFollows, AppendsFollows, EchoingFollows, ReplacesFollows, TakesBackFollows,
     BeginsFollows, WriteFollows, CrashFollows, ResumeFollows, ForkFollows

-----------------------------------------------------------------------------
(* The turn: its variables have their types, and its history the initial   *)
(* context.                                                                *)

TurnTypes ==
  /\ snapshot \in Seq(Items)
  /\ ctxRecorded \in BOOLEAN /\ halved \in BOOLEAN
  /\ pc \in {"idle", "begin", "context", "ready", "prompted", "top", "steer", "ask",
             "stream", "tools", "compact", "summarise", "after", "down"}
  /\ back \in {"idle", "begin", "top"}
  /\ calls \in Seq(1..MaxItems)
  /\ next \in 1..MaxItems + 1
  /\ turns \in 0..MaxTurns /\ compactions \in 0..MaxCompactions
  /\ crashes \in 0..MaxCrashes /\ forks \in 0..MaxForks

\* The two parts of the type invariant.
LEMMA TypeParts == (TypeOK <=> DiskTypes /\ TurnTypes) /\ (TypeOK' <=> DiskTypes' /\ TurnTypes')
BY DEF TypeOK, DiskTypes, TurnTypes

\* Every step leaves the turn's variables in their types.
LEMMA TurnTypesFollow ==
  ASSUME TypeOK, CallsWait, [Next]_vars
  PROVE  TurnTypes'
<1>a. TurnTypes /\ DiskTypes BY TypeParts
<1>b. history \in Seq(Items) /\ <<>> \in Seq(Items) /\ <<>> \in Seq(1..MaxItems)
  BY <1>a, EmptySeq DEF DiskTypes
<1>c. /\ MaxItems \in Nat /\ MaxTurns \in Nat /\ MaxCompactions \in Nat
      /\ MaxCrashes \in Nat /\ MaxForks \in Nat
  BY Bounds
<1>d. \A n, m : m \in Nat /\ n \in 0..m /\ n < m => n + 1 \in 0..m OBVIOUS
<1>1. CASE UNCHANGED vars
  BY <1>a, <1>1 DEF vars, live, counters, TurnTypes
<1>2. CASE Write \/ CompactBlocked \/ EnterLoop \/ EndTurn \/ RemoteFailed \/ CompactReturn
  BY <1>a, <1>2 DEF Write, CompactBlocked, EnterLoop, EndTurn, RemoteFailed, CompactReturn, At, Goto,
     Return, live, counters, TurnTypes
<1>3. CASE StartTurn \/ AutoCompact \/ ManualCompact
  <2>1. turns' \in 0..MaxTurns /\ compactions' \in 0..MaxCompactions
    BY <1>a, <1>c, <1>d, <1>3 DEF StartTurn, Begin, AutoCompact, ManualCompact, TurnTypes
  <2>2. back' \in {"idle", "begin", "top"} /\ pc' \in {"begin", "compact"}
    BY <1>a, <1>3 DEF StartTurn, Begin, AutoCompact, ManualCompact, At, TurnTypes
  <2>3. UNCHANGED <<ctxRecorded, snapshot, calls, halved, next, crashes, forks>>
    BY <1>3 DEF StartTurn, Begin, AutoCompact, ManualCompact, live
  <2> QED BY <1>a, <2>1, <2>2, <2>3 DEF TurnTypes
<1>4. CASE Note \/ Prompt \/ Steer \/ Reply \/ SummaryReply
  <2>1. next <= MaxItems /\ next' = next + 1
    BY <1>4 DEF Note, Prompt, Steer, Reply, SummaryReply, Fresh
  <2>2. next' \in 1..(MaxItems + 1) BY <1>a, <1>c, <2>1 DEF TurnTypes
  <2>3. /\ pc' \in {pc, "prompted", "steer"}
        /\ UNCHANGED <<ctxRecorded, snapshot, calls, back, halved, turns, compactions, crashes, forks>>
    BY <1>4 DEF Note, Prompt, Steer, Reply, SummaryReply, Goto, live, counters
  <2> QED BY <1>a, <2>2, <2>3 DEF TurnTypes
<1>5. CASE Call
  <2>1. next \in 1..MaxItems /\ calls \in Seq(1..MaxItems) BY <1>a, <1>c, <1>5 DEF Call, Fresh, TurnTypes
  <2>2. calls' \in Seq(1..MaxItems) BY <1>5, <2>1, AppendProperties DEF Call
  <2> QED BY <1>a, <1>c, <1>5, <2>2 DEF Call, Fresh, counters, TurnTypes
<1>6. CASE Developer \/ Context
  BY <1>a, <1>6 DEF Developer, Context, Goto, counters, TurnTypes
<1>7. CASE Request \/ StreamDone \/ Summarise
  BY <1>a, <1>b, <1>7 DEF Request, StreamDone, Summarise, Goto, counters, TurnTypes
<1>8. CASE StreamFailed \/ SummaryFailed \/ Interrupt
  BY <1>a, <1>b, <1>8 DEF StreamFailed, SummaryFailed, Interrupt, Goto, Return, counters, TurnTypes
<1>9. CASE ToolResult
  <2>1. calls # <<>> /\ calls \in Seq(1..MaxItems) BY <1>a, <1>9 DEF ToolResult, At, CallsWait, TurnTypes
  <2>2. calls' \in Seq(1..MaxItems) BY <1>9, <2>1, HeadTailProperties DEF ToolResult
  <2> QED BY <1>a, <1>9, <2>2 DEF ToolResult, Goto, counters, TurnTypes
<1>10. CASE CompactRemotely \/ SummaryDone
  <2>1. Compacted(history') /\ next <= MaxItems
    BY <1>10, CompactedIsHistory DEF CompactRemotely, SummaryDone
  <2>2. next' \in 1..(MaxItems + 1) BY <1>a, <1>c, <2>1 DEF Compacted, TurnTypes
  <2>3. /\ ctxRecorded' \in BOOLEAN /\ halved' = FALSE /\ pc' = "after" /\ snapshot' = <<>>
        /\ UNCHANGED <<calls, back, turns, compactions, crashes, forks>>
    BY <2>1 DEF Compacted, counters
  <2> QED BY <1>a, <1>b, <2>2, <2>3 DEF TurnTypes
<1>11. CASE Crash
  <2>1. crashes' \in 0..MaxCrashes BY <1>a, <1>c, <1>d, <1>11 DEF Crash, TurnTypes
  <2>2. /\ ctxRecorded' = FALSE /\ snapshot' = <<>> /\ calls' = <<>> /\ pc' = "down" /\ back' = "idle"
        /\ halved' = FALSE /\ UNCHANGED <<next, turns, compactions, forks>>
    BY <1>11 DEF Crash
  <2> QED BY <1>a, <1>b, <2>1, <2>2 DEF TurnTypes
<1>12. CASE Resume \/ Fork
  <2>1. forks' \in 0..MaxForks /\ UNCHANGED <<turns, compactions, crashes>>
    BY <1>a, <1>c, <1>d, <1>12 DEF Resume, Fork, counters, TurnTypes
  <2>2. ctxRecorded' \in BOOLEAN /\ halved' \in BOOLEAN
    <3>1. \A h, kind : HasKind(h, kind) \in BOOLEAN BY DEF HasKind
    <3>2. \A h : Take(h) => ctxRecorded' \in BOOLEAN /\ halved' \in BOOLEAN
      BY DEF Take, HasContext
    <3>3. UNCHANGED <<ctxRecorded, halved>> \/ Take(file) BY <1>12 DEF Resume, Fork
    <3> QED BY <1>a, <3>2, <3>3 DEF TurnTypes
  <2>3. pc' = "idle" /\ UNCHANGED <<snapshot, calls, back, next>> BY <1>12 DEF Resume, Fork, At
  <2> QED BY <1>a, <2>1, <2>2, <2>3 DEF TurnTypes
<1> QED
  BY <1>1, <1>2, <1>3, <1>4, <1>5, <1>6, <1>7, <1>8, <1>9, <1>10, <1>11, <1>12 DEF Next

\* Every step leaves the turn with what a failed response is taken back to,
\* and with a call for every tool that runs.
LEMMA SnapshotsFollow ==
  ASSUME TypeOK, Snapshots, CallsWait, [Next]_vars
  PROVE  Snapshots' /\ CallsWait'
<1>a. history \in Seq(Items) /\ snapshot \in Seq(Items) /\ next \in 1..(MaxItems + 1) /\ MaxItems \in Nat
  BY Bounds DEF TypeOK
<1>b. Len(history) \in Nat /\ history = SubSeq(history, 1, Len(history)) BY <1>a, LenProperties, SubSeqFull
<1>1. CASE UNCHANGED <<history, snapshot, calls, pc>>
  BY <1>1 DEF Snapshots, CallsWait
<1>2. CASE pc' \notin {"stream", "summarise", "tools"}
  BY <1>2 DEF Snapshots, CallsWait
<1>3. CASE Request \/ Summarise
  BY <1>b, <1>3 DEF Request, Summarise, Goto, Snapshots, CallsWait
<1>4. CASE Reply \/ Call
  <2>1. PICK e \in Echoes : history' = Append(history, e)
    <3>1. Item("reply", next) \in Echoes /\ Item("call", next) \in Echoes
      BY <1>a, <1>4 DEF Reply, Call, Fresh, Item, Echoes
    <3> QED BY <1>4, <3>1 DEF Reply, Call, Fresh, Append1
  <2>2. pc = "stream" /\ pc' = "stream" /\ snapshot' = snapshot BY <1>4 DEF Reply, Call, At
  <2> DEFINE n == Len(snapshot)
  <2>3. /\ n \in Nat /\ n <= Len(history) /\ snapshot = SubSeq(history, 1, n)
        /\ \A i \in (n + 1)..Len(history) : history[i] \in Echoes
    BY <1>a, <2>2, LenProperties DEF Snapshots
  <2>4. e \in Items BY DEF Echoes, Items, Kinds
  <2>5. /\ history' \in Seq(Items) /\ Len(history') = Len(history) + 1
        /\ history'[Len(history) + 1] = e
        /\ \A i \in 1..Len(history) : history'[i] = history[i]
    BY <1>a, <2>1, <2>4, AppendProperties
  <2> HIDE DEF n
  <2>6. SubSeq(history', 1, n) = SubSeq(history, 1, n)
    <3>1. 1 \in Nat \ {0} /\ n \in Int /\ n <= Len(history) /\ n <= Len(history')
      BY <1>b, <2>3, <2>5
    <3>2. /\ SubSeq(history, 1, n) \in Seq(Items) /\ Len(SubSeq(history, 1, n)) = (IF 1 <= n THEN n - 1 + 1 ELSE 0)
          /\ \A i \in 1..(n - 1 + 1) : SubSeq(history, 1, n)[i] = history[1 + i - 1]
      BY <1>a, <3>1, PartType
    <3>3. /\ SubSeq(history', 1, n) \in Seq(Items) /\ Len(SubSeq(history', 1, n)) = (IF 1 <= n THEN n - 1 + 1 ELSE 0)
          /\ \A i \in 1..(n - 1 + 1) : SubSeq(history', 1, n)[i] = history'[1 + i - 1]
      BY <2>5, <3>1, PartType
    <3>4. /\ Len(SubSeq(history, 1, n)) = n /\ Len(SubSeq(history', 1, n)) = n
          /\ \A i \in 1..n : SubSeq(history', 1, n)[i] = SubSeq(history, 1, n)[i]
      BY <1>b, <2>3, <2>5, <3>2, <3>3
    <3> QED BY <3>2, <3>3, <3>4, SeqEqual
  <2>7. \A i \in (n + 1)..Len(history') : history'[i] \in Echoes BY <1>b, <2>3, <2>5
  <2> QED BY <1>b, <2>2, <2>3, <2>5, <2>6, <2>7 DEF Snapshots, CallsWait, n
<1>5. CASE StreamFailed \/ SummaryFailed
  <2>1. history' = snapshot /\ pc' # "tools" BY <1>5 DEF StreamFailed, SummaryFailed, Goto, Return
  <2>2. Len(snapshot) \in Nat /\ snapshot = SubSeq(snapshot, 1, Len(snapshot))
    BY <1>a, LenProperties, SubSeqFull
  <2>3. snapshot' = snapshot \/ pc' = "idle" BY <1>5 DEF StreamFailed, SummaryFailed, Goto, Return
  <2> QED BY <2>1, <2>2, <2>3 DEF Snapshots, CallsWait
<1>6. CASE StreamDone \/ ToolResult
  BY <1>6 DEF StreamDone, ToolResult, Goto, Snapshots, CallsWait
<1>7. CASE Note
  BY <1>7 DEF Note, At, Snapshots, CallsWait
<1>8. CASE Write \/ SummaryReply
  BY <1>1, <1>8 DEF Write, SummaryReply, live
<1>9. CASE StartTurn \/ Developer \/ Context \/ Prompt \/ EnterLoop \/ EndTurn \/ Steer \/ Interrupt
  BY <1>2, <1>9 DEF StartTurn, Begin, Developer, Context, Prompt, EnterLoop, EndTurn, Steer, Interrupt,
     Goto, Return
<1>10. CASE AutoCompact \/ ManualCompact \/ CompactBlocked \/ RemoteFailed \/ CompactReturn
  <2>1. back \in {"idle", "begin", "top"} BY DEF TypeOK
  <2> QED BY <1>2, <1>10, <2>1 DEF AutoCompact, ManualCompact, CompactBlocked, RemoteFailed, CompactReturn, Return
<1>11. CASE CompactRemotely \/ SummaryDone
  BY <1>2, <1>11, CompactedIsHistory DEF Compacted
<1>12. CASE Crash \/ Resume
  BY <1>2, <1>12 DEF Crash, Resume
<1>13. CASE Fork
  BY <1>2, <1>13 DEF Fork, At
<1>14. CASE UNCHANGED vars
  BY <1>1, <1>14 DEF vars, live
<1> QED
  BY <1>3, <1>4, <1>5, <1>6, <1>7, <1>8, <1>9, <1>10, <1>11, <1>12, <1>13, <1>14 DEF Next

\* An item that is appended leaves the context where it is.
LEMMA ContextStays ==
  ASSUME history \in Seq(Items), NEW e \in Items, Append1(e), halved' = halved, ContextIn(history)
  PROVE  ContextIn(history)'
BY HasKindAppend DEF Append1, ContextIn, BothKinds

\* The context that a session takes from a file is in the history it takes.
LEMMA ContextTaken ==
  ASSUME NEW h, Take(h)
  PROVE  ctxRecorded' => ContextIn(history)'
BY DEF Take, HasContext, HasKind, ContextIn, BothKinds

\* Every step leaves the initial context in the history when it should be.
LEMMA ContextFollows ==
  ASSUME TypeOK, Snapshots, CallsWait, ContextInv, [Next]_vars
  PROVE  ContextInv'
<1>a. /\ history \in Seq(Items) /\ next \in 1..(MaxItems + 1) /\ MaxItems \in Nat
      /\ calls \in Seq(1..MaxItems)
  BY Bounds DEF TypeOK
<1>b. ASSUME NEW kind \in Kinds, Fresh(kind), halved' = halved PROVE ContextIn(history) => ContextIn(history)'
  <2>1. Item(kind, next) \in Items /\ Append1(Item(kind, next)) BY <1>a, <1>b, Bounds DEF Fresh
  <2> QED BY <1>a, <1>b, <2>1, ContextStays
<1>1. CASE UNCHANGED <<history, ctxRecorded, snapshot, halved, pc, back>>
  BY <1>1 DEF ContextInv, ContextIn
<1>2. CASE /\ UNCHANGED <<history, ctxRecorded, snapshot, halved>>
           /\ pc' \in {"begin", "idle", "ask"} /\ (pc' = "ask" => ctxRecorded)
  BY <1>2 DEF ContextInv, ContextIn
<1>3. CASE Note \/ Prompt \/ Steer \/ Reply \/ Call
  <2>1. ContextIn(history) => ContextIn(history)' /\ halved' = halved
    BY <1>3, <1>b DEF Note, Prompt, Steer, Reply, Call, Goto, Kinds
  <2>2. UNCHANGED <<ctxRecorded, snapshot, back, halved>>
    BY <1>3 DEF Note, Prompt, Steer, Reply, Call, Goto
  <2>3. (pc' = pc /\ pc # "context") \/ (pc' \in {"prompted", "steer"} /\ ctxRecorded)
    BY <1>3 DEF Note, Prompt, Steer, Reply, Call, Goto, At, ContextInv
  <2> QED BY <2>1, <2>2, <2>3 DEF ContextInv, ContextIn
<1>4. CASE Developer
  <2>1. Item("developer", 0) \in Items /\ Item("developer", 0).kind = "developer" BY Bounds DEF Kinds
  <2>2. HasKind(history', "developer") BY <1>a, <1>4, <2>1, HasKindAppend DEF Developer, Append1
  <2> QED BY <1>4, <2>2 DEF Developer, Goto, At, ContextInv
<1>5. CASE Context
  <2>1. Item("context", 0) \in Items /\ Item("context", 0).kind = "context" BY Bounds DEF Kinds
  <2>2. HasKind(history, "developer") BY <1>5 DEF Context, At, ContextInv
  <2>3. BothKinds(history') BY <1>a, <1>5, <2>1, <2>2, HasKindAppend DEF Context, Append1, BothKinds
  <2> QED BY <1>5, <2>3 DEF Context, Goto, ContextInv, ContextIn
<1>6. CASE Write \/ SummaryReply
  BY <1>1, <1>6 DEF Write, SummaryReply, live
<1>7. CASE StartTurn \/ EnterLoop \/ EndTurn \/ CompactBlocked \/ RemoteFailed \/ CompactReturn
  <2>1. UNCHANGED <<history, ctxRecorded, snapshot, halved>>
    BY <1>7 DEF StartTurn, Begin, EnterLoop, EndTurn, CompactBlocked, RemoteFailed, CompactReturn, Goto,
       Return, live
  <2>2. back \in {"idle", "begin", "top"} BY DEF TypeOK
  <2>3. pc' \in {"begin", "idle", "ask"} /\ (pc' = "ask" => ctxRecorded)
    BY <1>7, <2>2 DEF StartTurn, Begin, EnterLoop, EndTurn, CompactBlocked, RemoteFailed, CompactReturn,
       Goto, Return, At, ContextInv
  <2> QED BY <1>2, <2>1, <2>3
<1>8. CASE Request
  BY <1>8 DEF Request, At, Goto, ContextInv, ContextIn
<1>9. CASE StreamDone
  BY <1>9 DEF StreamDone, At, Goto, ContextInv, ContextIn
<1>10. CASE StreamFailed \/ SummaryFailed
  <2>1. history' = snapshot /\ (ctxRecorded => ContextIn(snapshot))
    BY <1>10 DEF StreamFailed, SummaryFailed, At, ContextInv, Snapshots
  <2>2. UNCHANGED <<ctxRecorded, halved>> BY <1>10 DEF StreamFailed, SummaryFailed, Goto, Return
  <2>3. \/ pc' = pc /\ pc \in {"stream", "summarise"} /\ UNCHANGED <<snapshot, back>>
        \/ pc' = "idle"
    BY <1>10 DEF StreamFailed, SummaryFailed, At, Goto, Return
  <2> QED BY <2>1, <2>2, <2>3 DEF ContextInv, ContextIn
<1>11. CASE ToolResult
  <2>1. Head(calls) \in 1..MaxItems
    BY <1>a, <1>11, HeadTailProperties DEF ToolResult, At, CallsWait
  <2>2. Item("output", Head(calls)) \in Items BY <2>1, <1>a, Bounds DEF Kinds
  <2>3. ContextIn(history) => ContextIn(history)'
    BY <1>a, <1>11, <2>2, ContextStays DEF ToolResult, Goto
  <2> QED BY <1>11, <2>3 DEF ToolResult, Goto, At, ContextInv, ContextIn
<1>12. CASE Interrupt
  <2>1. Item("marker", 0) \in Items BY Bounds DEF Kinds
  <2>2. halved' = halved /\ ctxRecorded' = ctxRecorded /\ pc' = "idle" BY <1>12 DEF Interrupt, Return
  <2>3. ContextIn(history) => ContextIn(history)'
    <3>1. CASE history' = history BY <2>2, <3>1 DEF ContextIn
    <3>2. CASE Append1(Item("marker", 0)) BY <1>a, <2>1, <2>2, <3>2, ContextStays
    <3> QED BY <1>12, <3>1, <3>2 DEF Interrupt
  <2> QED BY <2>2, <2>3 DEF ContextInv
<1>13. CASE AutoCompact \/ ManualCompact \/ Summarise
  <2>1. UNCHANGED <<history, ctxRecorded, halved>> /\ pc' \in {"compact", "summarise"}
    BY <1>13 DEF AutoCompact, ManualCompact, Summarise, Goto, live
  <2>2. back' = "top" => ctxRecorded
    BY <1>13 DEF AutoCompact, ManualCompact, Summarise, Goto, At, ContextInv
  <2> QED BY <2>1, <2>2 DEF ContextInv, ContextIn
<1>14. CASE CompactRemotely \/ SummaryDone
  <2>1. Compacted(history') /\ (ContextToInject # <<>> => BothKinds(history'))
    BY <1>14, CompactedIsHistory
  <2>2. back = "top" => ContextToInject # <<>> BY DEF ContextToInject, InitialContext
  <2>3. ctxRecorded' = (ContextToInject # <<>>) /\ pc' = "after" /\ back' = back BY <2>1 DEF Compacted
  <2> QED BY <2>1, <2>2, <2>3 DEF ContextInv, ContextIn
<1>15. CASE Crash
  BY <1>15 DEF Crash, ContextInv
<1>16. CASE Resume \/ Fork
  <2>1. pc' = "idle" BY <1>16 DEF Resume, Fork, At
  <2>2. ctxRecorded' => ContextIn(history)'
    <3>1. CASE Take(file) BY <3>1, ContextTaken
    <3>2. CASE UNCHANGED <<history, ctxRecorded, halved>> BY <3>2 DEF ContextInv, ContextIn
    <3> QED BY <1>16, <3>1, <3>2 DEF Resume, Fork
  <2> QED BY <2>1, <2>2 DEF ContextInv
<1>17. CASE UNCHANGED vars
  BY <1>1, <1>17 DEF vars, live
<1> QED
  BY <1>3, <1>4, <1>5, <1>6, <1>7, <1>8, <1>9, <1>10, <1>11, <1>12, <1>13, <1>14, <1>15, <1>16, <1>17
  DEF Next

-----------------------------------------------------------------------------
(* Each step leaves the history and the file in order.                     *)

\* Lines are told apart.
LEMMA LinesDiffer ==
  ASSUME NEW d \in Items, NEW e \in Items, NEW h \in Seq(Items), NEW s \in Seq(Lines)
  PROVE  /\ <<ItemLine(d)>> = <<ItemLine(e)>> => d = e
         /\ <<Line("echo", <<d>>)>> = <<Line("echo", <<e>>)>> => d = e
         /\ <<ItemLine(d)>> # <<Line("echo", <<e>>)>>
         /\ <<Line("compacted", h)>> \notin {<<ItemLine(e)>>, <<Line("echo", <<e>>)>>}
         /\ <<>> \notin {<<ItemLine(e)>>, <<Line("echo", <<e>>)>>}
         /\ Append(s, Other) \notin {<<ItemLine(e)>>, <<Line("echo", <<e>>)>>}
<1>1. /\ ItemLine(d) = ItemLine(e) => d = e
      /\ Line("echo", <<d>>) = Line("echo", <<e>>) => d = e
      /\ ItemLine(d) # Line("echo", <<e>>)
      /\ Line("compacted", h) \notin {ItemLine(e), Line("echo", <<e>>)}
      /\ Other \notin {ItemLine(e), Line("echo", <<e>>)}
  BY DEF ItemLine, Line, Other
<1>2. \A x, y : <<x>> = <<y>> => x = y OBVIOUS
<1>3. \A x : Append(s, Other) = <<x>> => x = Other
  <2> SUFFICES ASSUME NEW x, Append(s, Other) = <<x>> PROVE x = Other OBVIOUS
  <2>1. Other \in Lines BY LineSeqs
  <2>2. Len(Append(s, Other)) = Len(s) + 1 /\ Append(s, Other)[Len(s) + 1] = Other /\ Len(s) \in Nat
    BY <2>1, AppendProperties, LenProperties
  <2>3. Len(<<x>>) = 1 /\ <<x>>[1] = x OBVIOUS
  <2>4. Len(s) + 1 = 1 BY <2>2, <2>3
  <2> QED BY <2>2, <2>3, <2>4
<1>4. \A x : <<>> # <<x>> OBVIOUS
<1> QED BY <1>1, <1>2, <1>3, <1>4, Zenon

\* The next number is a number, and so are those of items and calls.
LEMMA Numbers ==
  ASSUME TypeOK
  PROVE  /\ next \in Nat /\ \A e \in Items : e.id \in Nat
         /\ calls \in Seq(Nat) /\ Range(calls) \subseteq Nat /\ Range(<<>>) = {}
         /\ history \in Seq(Items) /\ file \in Seq(Items)
         /\ Range(history) \subseteq Items /\ Range(file) \subseteq Items
<1>1. calls \in Seq(Nat)
  <2>1. 1..MaxItems \subseteq Nat OBVIOUS
  <2>2. calls \in Seq(1..MaxItems) BY DEF TypeOK
  <2> QED BY <2>1, <2>2, SeqMonotonic
<1>2. Range(calls) \subseteq Nat BY <1>1, LenProperties, ElementOfSeq DEF Range
<1>3. Range(<<>>) = {} BY EmptySeq DEF Range
<1>4. history \in Seq(Items) /\ file \in Seq(Items) BY DEF TypeOK
<1>5. next \in 1..(MaxItems + 1) /\ MaxItems \in Nat BY Bounds DEF TypeOK
<1>6. next \in Nat BY <1>5
<1> QED BY <1>1, <1>2, <1>3, <1>4, <1>6, Bounds, RangeType

\* A step that brings nothing new keeps the order.
LEMMA NothingNew ==
  ASSUME TypeOK, OrderInv, next' = next, calls' \in {calls, <<>>},
         Orderly(history'), Range(history') \subseteq Range(history) \cup Range(file),
         Orderly(file'), Range(file') \subseteq Range(history) \cup Range(file),
         \A e \in Items : writing' \notin {<<ItemLine(e)>>, <<Line("echo", <<e>>)>>}
  PROVE  Sound(history)' /\ Sound(file)' /\ Fitting'
<1>1. \A e \in Range(history) \cup Range(file) : e.kind \in Tracked => e.id < next
  BY DEF OrderInv, Sound, Young
<1>2. \A n \in Range(calls') : n \in Range(calls) BY Numbers
<1>3. \A n \in Range(calls') : Item("output", n) \notin Range(history) \cup Range(file)
  BY <1>2 DEF OrderInv, Sound, Awaited
<1>4. Young(history)' /\ Young(file)' BY <1>1 DEF Young
<1>5. Awaited(history)' /\ Awaited(file)' BY <1>3 DEF Awaited
<1>6. Fitting' BY DEF Fitting
<1> QED BY <1>4, <1>5, <1>6 DEF Sound

\* An item that may come after all of the history and all of the file keeps
\* the order.
LEMMA AppendedInOrder ==
  ASSUME TypeOK, OrderInv, NEW e \in Items, Append1(e), next' \in {next, next + 1},
         e.kind \in Tracked => e.id < next',
         \A a \in Range(history) \cup Range(file) : May(a, e),
         \A n \in Range(calls') :
           /\ Item("output", n) \notin Range(history) \cup Range(file)
           /\ Item("output", n) # e
  PROVE  Sound(history)' /\ Sound(file)' /\ Fitting'
<1>1. history' = Append(history, e) /\ writing' = <<ItemLine(e)>> /\ file' = file
  BY DEF Append1, Emit, disk
<1>2. Range(history') = Range(history) \cup {e} /\ Orderly(history')
  <2>1. Orderly(history) BY DEF OrderInv, Sound
  <2>2. Orderly(Append(history, e)) /\ Range(Append(history, e)) = Range(history) \cup {e}
    BY <2>1, Numbers, OrderlyAppend, RangeAppend
  <2> QED BY <1>1, <2>2
<1>3. \A a \in Range(history') \cup Range(file') : a.kind \in Tracked => a.id < next'
  <2>1. \A a \in Range(history) \cup Range(file) : a \in Items /\ (a.kind \in Tracked => a.id < next)
    BY Numbers DEF OrderInv, Sound, Young
  <2>2. \A a \in Range(history) \cup Range(file) : a.kind \in Tracked => a.id < next'
    BY <2>1, Numbers
  <2> QED BY <1>1, <1>2, <2>2
<1>4. Young(history)' /\ Young(file)' BY <1>3 DEF Young
<1>5. Awaited(history)' /\ Awaited(file)' BY <1>1, <1>2 DEF Awaited
<1>6. Orderly(file') BY <1>1 DEF OrderInv, Sound
<1>7. Fitting'
  <2>1. \A d \in Items : writing' \in {<<ItemLine(d)>>, <<Line("echo", <<d>>)>>} => d = e
    <3>1. <<>> \in Seq(Items) /\ <<>> \in Seq(Lines) BY EmptySeq
    <3>2. \A d \in Items : /\ <<ItemLine(e)>> = <<ItemLine(d)>> => e = d
                           /\ <<ItemLine(e)>> # <<Line("echo", <<d>>)>>
      BY <3>1, LinesDiffer
    <3> QED BY <1>1, <3>2
  <2> QED BY <1>1, <2>1 DEF Fitting
<1> QED BY <1>2, <1>4, <1>5, <1>6, <1>7 DEF Sound

\* A new item, which has the next number, may come after all there is.
LEMMA FreshInOrder ==
  ASSUME TypeOK, OrderInv, NEW kind \in Kinds \ {"output"}, Fresh(kind),
         calls' \in {calls, <<>>} \/ (kind = "call" /\ calls' = Append(calls, next))
  PROVE  Sound(history)' /\ Sound(file)' /\ Fitting'
<1> DEFINE e == Item(kind, next)
<1>1. next \in 1..MaxItems /\ next' = next + 1 /\ Append1(e) /\ next < next + 1
  BY Numbers, Bounds DEF Fresh, TypeOK
<1>2. e \in Items /\ e.kind = kind /\ e.id = next BY <1>1, Bounds, ItemIs
<1> HIDE DEF e
<1>3. \A a \in Range(history) \cup Range(file) : a.kind \in Tracked => a.id < next
  BY DEF OrderInv, Sound, Young
<1>4. ASSUME NEW a \in Range(history) \cup Range(file) PROVE May(a, e)
  <2>1. a \in Items /\ a.id \in Nat /\ next \in Nat /\ ~(next < next) BY <1>4, Numbers
  <2>2. e.kind \in Tracked => a # e BY <1>2, <1>3, <2>1
  <2>3. a # Item("output", next)
    <3> SUFFICES ASSUME a = Item("output", next) PROVE FALSE OBVIOUS
    <3>1. a.kind = "output" /\ a.id = next BY ItemIs
    <3> QED BY <1>3, <2>1, <3>1 DEF Tracked
  <2> QED BY <1>2, <2>2, <2>3 DEF May
<1>5. ASSUME NEW n \in Range(calls')
      PROVE  Item("output", n) \notin Range(history) \cup Range(file) /\ Item("output", n) # e
  <2>1. n \in Range(calls) \/ n = next
    <3>1. Range(Append(calls, next)) = Range(calls) \cup {next} BY Numbers, RangeAppend
    <3> QED BY <3>1, Numbers
  <2>2. Item("output", n) # e BY <1>2, ItemIs
  <2>3. Item("output", next) \notin Range(history) \cup Range(file)
    <3> SUFFICES ASSUME Item("output", next) \in Range(history) \cup Range(file) PROVE FALSE OBVIOUS
    <3>1. Item("output", next).kind = "output" /\ Item("output", next).id = next BY ItemIs
    <3> QED BY <1>3, <3>1, Numbers DEF Tracked
  <2>4. n \in Range(calls) => Item("output", n) \notin Range(history) \cup Range(file)
    BY DEF OrderInv, Sound, Awaited
  <2> QED BY <2>1, <2>2, <2>3, <2>4
<1>6. e.kind \in Tracked => e.id < next' BY <1>1, <1>2
<1> QED BY <1>1, <1>2, <1>4, <1>5, <1>6, AppendedInOrder

\* An item that is no text, call or output may always come.
LEMMA UntrackedInOrder ==
  ASSUME TypeOK, OrderInv, NEW kind \in Kinds \ Tracked, Append1(Item(kind, 0)),
         next' = next, calls' \in {calls, <<>>}
  PROVE  Sound(history)' /\ Sound(file)' /\ Fitting'
<1>1. Item(kind, 0) \in Items /\ Item(kind, 0).kind = kind /\ kind \notin Tracked BY Bounds
<1>2. \A a \in Range(history) \cup Range(file) : May(a, Item(kind, 0))
  BY <1>1 DEF May, Tracked
<1>3. \A n \in Range(calls') : n \in Range(calls) BY Numbers
<1>4. \A n \in Range(calls') :
        /\ Item("output", n) \notin Range(history) \cup Range(file)
        /\ Item("output", n) # Item(kind, 0)
  BY <1>1, <1>3, ItemIs DEF OrderInv, Sound, Awaited, Tracked
<1> QED BY <1>1, <1>2, <1>4, AppendedInOrder

\* A reply or a marker that the history does not get keeps the order.
LEMMA EchoInOrder ==
  ASSUME TypeOK, OrderInv, NEW e \in Items, e.kind \notin Tracked, history' = history,
         Emit(<<Line("echo", <<e>>)>>), next' \in {next, next + 1}, calls' \in {calls, <<>>}
  PROVE  Sound(history)' /\ Sound(file)' /\ Fitting'
<1>1. writing' = <<Line("echo", <<e>>)>> /\ file' = file BY DEF Emit, disk
<1>2. \A a \in Range(history) \cup Range(file) : a.kind \in Tracked => a.id < next'
  <2>1. \A a \in Range(history) \cup Range(file) : a \in Items /\ (a.kind \in Tracked => a.id < next)
    BY Numbers DEF OrderInv, Sound, Young
  <2> QED BY <2>1, Numbers
<1>3. Young(history)' /\ Young(file)' BY <1>1, <1>2 DEF Young
<1>4. \A n \in Range(calls') : n \in Range(calls) BY Numbers
<1>5. Awaited(history)' /\ Awaited(file)' BY <1>1, <1>4 DEF OrderInv, Sound, Awaited
<1>6. Orderly(history') /\ Orderly(file') BY <1>1 DEF OrderInv, Sound
<1>7. Fitting'
  <2>1. <<>> \in Seq(Items) /\ <<>> \in Seq(Lines) BY EmptySeq
  <2>2. \A d \in Items : /\ <<Line("echo", <<e>>)>> = <<Line("echo", <<d>>)>> => d = e
                         /\ <<Line("echo", <<e>>)>> # <<ItemLine(d)>>
    BY <2>1, LinesDiffer
  <2>3. \A d \in Items : writing' \in {<<ItemLine(d)>>, <<Line("echo", <<d>>)>>} => d = e
    BY <1>1, <2>2
  <2>4. \A a : May(a, e) BY DEF May, Tracked
  <2> QED BY <1>1, <2>3, <2>4 DEF Fitting
<1> QED BY <1>3, <1>5, <1>6, <1>7 DEF Sound

\* What reaches the file of an append, all or a part, leaves it in order.
LEMMA StoredInOrder ==
  ASSUME TypeOK, FileInv, OrderInv, pc # "down",
         NEW k \in 0..Len(writing), Store(SubSeq(writing, 1, k))
  PROVE  /\ Orderly(file')
         /\ \A e \in Range(file') : e.kind \in Tracked => e.id < next
         /\ \A n \in Range(calls) : Item("output", n) \notin Range(file')
<1>1. /\ file \in Seq(Items) /\ kept \in Seq(Items) /\ history \in Seq(Items)
      /\ Sound(history) /\ Sound(file) /\ Fitting
  BY DEF TypeOK, OrderInv
<1>2. ASSUME NEW line, writing = <<line>>
      PROVE  \/ k = 0 /\ SubSeq(writing, 1, k) = <<>>
             \/ k = 1 /\ SubSeq(writing, 1, k) = <<line>> /\ Store(<<line>>)
  BY <1>2, OneOrNone, NoPrefix DEF Store
<1>3. ASSUME NEW f, file' = f, Sound(f)
      PROVE  /\ Orderly(file')
             /\ \A e \in Range(file') : e.kind \in Tracked => e.id < next
             /\ \A n \in Range(calls) : Item("output", n) \notin Range(file')
  BY <1>3 DEF Sound, Young, Awaited
<1>4. CASE Landed(SubSeq(writing, 1, k)) = <<>>
  BY <1>1, <1>3, <1>4, StoreEmpty
<1>5. CASE writing = <<>>
  <2>1. SubSeq(writing, 1, k) = <<>> BY <1>5, SubSeqEmpty, EmptySeq
  <2> QED BY <1>4, <2>1, LandedOne
<1>6. CASE writing = <<Other>>
  <2>1. Other \notin LinesOf(Solid) BY DEF Other, Line, LinesOf, Solid
  <2> QED BY <1>2, <1>4, <1>6, <2>1, LandedOne
<1>7. CASE writing = Append(ItemLines(history), Other) /\ kept = <<>> /\ file = <<>> /\ ~torn
  <2>1. PICK n \in 0..Len(history) : file' = SubSeq(history, 1, n) BY <1>1, <1>7, StoreSeed
  <2>2. 1 \in Nat \ {0} /\ n \in Int /\ n <= Len(history) BY <1>1, LenProperties
  <2>3. Orderly(SubSeq(history, 1, n)) /\ Range(SubSeq(history, 1, n)) \subseteq Range(history)
    BY <1>1, <2>2, PartOrderly DEF Sound
  <2>4. Sound(SubSeq(history, 1, n)) BY <1>1, <2>3 DEF Sound, Young, Awaited
  <2> QED BY <1>3, <2>1, <2>4
<1>8. ASSUME ~torn, NEW e \in Items, NEW line, writing = <<line>>, line \in LinesOf(Solid),
             line.type # "compacted", line.items = <<e>>,
             \A a \in Range(file) : May(a, e), e.kind \in Tracked => e.id < next,
             \A n \in Range(calls) : e # Item("output", n)
      PROVE  /\ Orderly(file')
             /\ \A d \in Range(file') : d.kind \in Tracked => d.id < next
             /\ \A n \in Range(calls) : Item("output", n) \notin Range(file')
  <2>1. CASE k = 0
    <3>1. Landed(SubSeq(writing, 1, k)) = <<>> BY <2>1, NoPrefix, LandedOne
    <3> QED BY <1>4, <3>1
  <2>2. CASE k = 1
    <3>1. Store(<<line>>) BY <1>2, <1>8, <2>2
    <3>2. file' = Append(file, e) BY <1>1, <1>8, <3>1, StoreOne, ReadItem
    <3>3. Orderly(Append(file, e)) /\ Range(Append(file, e)) = Range(file) \cup {e}
      <4>1. Orderly(file) BY <1>1 DEF Sound
      <4> QED BY <1>1, <1>8, <4>1, OrderlyAppend, RangeAppend
    <3>4. Sound(Append(file, e)) BY <1>1, <1>8, <3>3 DEF Sound, Young, Awaited
    <3> QED BY <1>3, <3>2, <3>4
  <2>3. k = 0 \/ k = 1 BY <1>2, <1>8
  <2> QED BY <2>1, <2>2, <2>3
<1>9. CASE ~torn /\ \E e \in Items : writing = <<ItemLine(e)>> /\ history = Append(kept, e)
  <2>1. PICK e \in Items : writing = <<ItemLine(e)>> /\ history = Append(kept, e) BY <1>9
  <2>2. ItemLine(e) \in LinesOf(Solid) /\ ItemLine(e).type # "compacted" /\ ItemLine(e).items = <<e>>
    BY <1>1, LineTypes
  <2>3. (\A a \in Range(file) : May(a, e)) /\ (e.kind \in Tracked => e.id < next)
    BY <1>1, <2>1 DEF Fitting
  <2>4. e \in Range(history) BY <1>1, <2>1, RangeAppend
  <2>5. \A n \in Range(calls) : e # Item("output", n) BY <1>1, <2>4 DEF Sound, Awaited
  <2> QED BY <1>8, <1>9, <2>1, <2>2, <2>3, <2>5
<1>10. CASE ~torn /\ \E e \in Echoes : writing = <<Line("echo", <<e>>)>>
  <2>1. PICK e \in Echoes : writing = <<Line("echo", <<e>>)>> BY <1>10
  <2> DEFINE line == Line("echo", <<e>>)
  <2>2. e \in Items /\ e.kind # "output" BY DEF Echoes, Items, Kinds
  <2>3. line \in LinesOf(Solid) /\ line.type # "compacted" /\ line.items = <<e>>
    BY <1>1, <2>2, LineTypes
  <2>4. (\A a \in Range(file) : May(a, e)) /\ (e.kind \in Tracked => e.id < next)
    BY <1>1, <2>1, <2>2 DEF Fitting
  <2>5. \A n \in Range(calls) : e # Item("output", n) BY <2>2, ItemIs
  <2> HIDE DEF line
  <2>6. writing = <<line>> BY <2>1 DEF line
  <2> QED BY <1>8, <1>10, <2>2, <2>3, <2>4, <2>5, <2>6
<1>11. CASE ~torn /\ writing = <<Line("compacted", history)>>
  <2> DEFINE line == Line("compacted", history)
  <2>1. CASE k = 0
    <3>1. Landed(SubSeq(writing, 1, k)) = <<>> BY <2>1, NoPrefix, LandedOne
    <3> QED BY <1>4, <3>1
  <2>2. CASE k = 1
    <3>1. Store(<<line>>) BY <1>2, <1>11, <2>2
    <3>2. \A e \in Items : line \in LinesOf(Solid) BY <1>1, LineTypes
    <3>3. Item("user", 0) \in Items BY Bounds DEF Kinds
    <3>4. Read(file, <<line>>) = history BY <1>1, ReadCompacted
    <3> HIDE DEF line
    <3>5. file' = history BY <1>1, <1>11, <3>1, <3>2, <3>3, <3>4, StoreOne
    <3> QED BY <1>1, <1>3, <3>5
  <2>3. k = 0 \/ k = 1 BY <1>2, <1>11
  <2> QED BY <2>1, <2>2, <2>3
<1> QED BY <1>5, <1>6, <1>7, <1>9, <1>10, <1>11 DEF FileInv, Appending

\* A compaction puts an orderly history in place of the history, with texts,
\* calls and outputs of it only and outputs of its calls.
LEMMA CompactedInOrder ==
  ASSUME TypeOK, OrderInv, CompactRemotely \/ SummaryDone
  PROVE  Sound(history)' /\ Sound(file)' /\ Fitting'
<1>1. history \in Seq(Items) /\ next \in 1..(MaxItems + 1) /\ Orderly(history)
  BY DEF TypeOK, OrderInv, Sound
<1>2. ContextToInject \in {<<>>, InitialContext} BY DEF ContextToInject
<1>3. \A block \in Blocks : block \in Seq(Items) /\ Orderly(block) /\ From(block, history)
  <2>1. <<>> \in Seq(Items) /\ Orderly(<<>>) /\ From(<<>>, history)
    BY EmptySeq DEF Orderly, InOrder, From, Range
  <2>2. \A n \in 0..Len(Compressible(history)) :
          /\ RecentBlock(history, n) \in Seq(Items)
          /\ Orderly(RecentBlock(history, n)) /\ From(RecentBlock(history, n), history)
    BY <1>1, RecentBlockType, RecentBlockOrderly
  <2> QED BY <2>1, <2>2 DEF Blocks
<1>4. Orderly(history') /\ From(history', history)
  <2>1. CASE CompactRemotely
    <3>1. PICK block \in Blocks :
            Compacted(Checkpointed(Item("checkpoint", next), ContextToInject, block))
      BY <2>1 DEF CompactRemotely
    <3>2. Item("checkpoint", next) \in Items /\ Item("checkpoint", next).kind \notin Tracked
      BY <1>1, <2>1, Bounds DEF CompactRemotely, Kinds, Tracked
    <3>3. history' = Checkpointed(Item("checkpoint", next), ContextToInject, block)
      BY <3>1 DEF Compacted
    <3>4. 0 \in Nat /\ 0 <= Len(OfKinds(history, {"user"})) BY <1>1, OfKindsType, LenProperties
    <3> QED BY <1>1, <1>2, <1>3, <3>2, <3>3, <3>4, CompactionOrderly
  <2>2. CASE SummaryDone
    <3>1. PICK block \in Blocks, keep \in Keeps :
            Compacted(Summarised(history, Item("summary", next), ContextToInject, block, keep))
      BY <2>2 DEF SummaryDone
    <3>2. Item("summary", next) \in Items /\ Item("summary", next).kind \notin Tracked
      BY <1>1, <2>2, Bounds DEF SummaryDone, Kinds, Tracked
    <3>3. history' = Summarised(history, Item("summary", next), ContextToInject, block, keep)
      BY <3>1 DEF Compacted
    <3>4. keep \in Nat /\ keep <= Len(OfKinds(history, {"user"}))
      <4>1. Len(OfKinds(history, {"user"})) \in Nat BY <1>1, OfKindsType, LenProperties
      <4> QED BY <3>1, <4>1 DEF Keeps
    <3> QED BY <1>1, <1>2, <1>3, <3>2, <3>3, <3>4, CompactionOrderly
  <2> QED BY <2>1, <2>2
<1>5. /\ Compacted(history') /\ history' \in Seq(Items) /\ writing = <<>>
      /\ pc \in {"compact", "summarise"}
  BY CompactedIsHistory DEF CompactRemotely, SummaryDone, At
<1>6. /\ next' = next + 1 /\ calls' = calls /\ writing' = <<Line("compacted", history')>>
      /\ file' = file
  BY <1>5 DEF Compacted, Emit, disk
<1>7. calls = <<>> /\ Range(calls') = {}
  <2>1. calls = <<>> BY <1>5 DEF OrderInv, Waiting
  <2> QED BY <1>6, <2>1, Numbers
<1>8. \A a \in Range(history) \cup Range(file) : a.kind \in Tracked => a.id < next
  BY DEF OrderInv, Sound, Young
<1>9. \A a \in Range(history') \cup Range(file') : a.kind \in Tracked => a.id < next'
  <2> SUFFICES ASSUME NEW a \in Range(history') \cup Range(file'), a.kind \in Tracked
               PROVE  a.id < next + 1
    BY <1>6
  <2>1. a.id < next
    <3>1. CASE a \in Range(file) BY <1>8, <3>1
    <3>2. CASE a \in Range(history) BY <1>8, <3>2
    <3>3. CASE a.kind = "output" /\ Item("call", a.id) \in Range(history)
      <4>1. Item("call", a.id).kind = "call" /\ Item("call", a.id).id = a.id BY ItemIs
      <4> QED BY <1>8, <3>3, <4>1 DEF Tracked
    <3> QED BY <1>4, <1>6, <3>1, <3>2, <3>3 DEF From
  <2>2. a \in Items BY <1>5, <1>6, Numbers, RangeType
  <2> QED BY <2>1, <2>2, Numbers
<1>10. Young(history)' /\ Young(file)' BY <1>9 DEF Young
<1>11. Awaited(history)' /\ Awaited(file)' BY <1>7 DEF Awaited
<1>12. Orderly(file') BY <1>6 DEF OrderInv, Sound
<1>13. Fitting'
  <2>1. <<>> \in Seq(Lines) BY EmptySeq
  <2>2. \A d \in Items : writing' \notin {<<ItemLine(d)>>, <<Line("echo", <<d>>)>>}
    BY <1>5, <1>6, <2>1, LinesDiffer
  <2> QED BY <2>2 DEF Fitting
<1> QED BY <1>4, <1>10, <1>11, <1>12, <1>13 DEF Sound

\* Every step leaves the calls that wait different, and none when their turn is
\* over.
LEMMA WaitingFollows ==
  ASSUME TypeOK, Waiting, CallsWait, [Next]_vars
  PROVE  Waiting'
<1>a. calls \in Seq(Nat) /\ next \in Nat /\ Range(calls) \subseteq Nat /\ Range(<<>>) = {} BY Numbers
<1>b. ASSUME calls' = <<>> PROVE Waiting'
  <2>1. DOMAIN <<>> = {} /\ Range(calls') = {} BY <1>a, <1>b, EmptySeq
  <2> QED BY <1>b, <2>1 DEF Waiting
<1>c. ASSUME calls' = calls, next' \in {next, next + 1},
             pc' \notin {"stream", "tools"} => calls = <<>>
      PROVE  Waiting'
  <2>1. \A n \in Range(calls) : n < next' BY <1>a, <1>c DEF Waiting
  <2> QED BY <1>c, <2>1 DEF Waiting
<1>d. pc \notin {"stream", "tools"} => calls = <<>> BY DEF Waiting
<1>1. CASE Note \/ Reply
  BY <1>1, <1>c, <1>d DEF Note, Reply, Fresh
<1>2. CASE Developer \/ Context \/ Prompt \/ Steer
  BY <1>2, <1>c, <1>d DEF Developer, Context, Prompt, Steer, At, Fresh, Goto
<1>3. CASE Write \/ StartTurn \/ EnterLoop \/ EndTurn \/ AutoCompact \/ ManualCompact \/ CompactBlocked
           \/ RemoteFailed \/ Summarise \/ SummaryReply \/ SummaryFailed \/ CompactReturn
  <2>1. calls' = calls /\ next' \in {next, next + 1}
    BY <1>3 DEF Write, StartTurn, Begin, EnterLoop, EndTurn, AutoCompact, ManualCompact, CompactBlocked,
       RemoteFailed, Summarise, SummaryReply, SummaryFailed, CompactReturn, live
  <2>2. pc' = pc \/ pc \notin {"stream", "tools"}
    BY <1>3 DEF Write, StartTurn, Begin, EnterLoop, EndTurn, AutoCompact, ManualCompact, CompactBlocked,
       RemoteFailed, Summarise, SummaryReply, SummaryFailed, CompactReturn, At
  <2> QED BY <1>c, <1>d, <2>1, <2>2
<1>4. CASE Request
  BY <1>4, <1>c, <1>d DEF Request, At, Goto
<1>5. CASE StreamDone
  BY <1>5, <1>c DEF StreamDone, Goto
<1>6. CASE StreamFailed \/ Interrupt \/ Crash
  BY <1>6, <1>b DEF StreamFailed, Interrupt, Crash
<1>7. CASE CompactRemotely \/ SummaryDone
  <2>1. Compacted(history') BY <1>7, CompactedIsHistory
  <2>2. pc \in {"compact", "summarise"} BY <1>7 DEF CompactRemotely, SummaryDone, At
  <2> QED BY <1>c, <1>d, <2>1, <2>2 DEF Compacted
<1>8. CASE Resume \/ Fork
  <2>1. calls' = calls /\ next' = next /\ pc \in {"down", "idle"} BY <1>8 DEF Resume, Fork, At
  <2> QED BY <1>c, <1>d, <2>1
<1>9. CASE Call
  <2>1. calls' = Append(calls, next) /\ next' = next + 1 /\ pc' = "stream"
    BY <1>9 DEF Call, Fresh, At
  <2>2. /\ Len(calls) \in Nat /\ DOMAIN calls = 1..Len(calls)
        /\ DOMAIN calls' = 1..(Len(calls) + 1) /\ calls'[Len(calls) + 1] = next
        /\ \A i \in 1..Len(calls) : calls'[i] = calls[i] /\ calls[i] \in Range(calls)
    BY <1>a, <2>1, AppendProperties, LenProperties DEF Range
  <2>3. \A n \in Range(calls) : n \in Nat /\ n < next BY <1>a DEF Waiting
  <2>4. \A n \in Range(calls') : n < next'
    <3>1. Range(calls') = Range(calls) \cup {next} BY <1>a, <2>1, RangeAppend
    <3> QED BY <1>a, <2>1, <2>3, <3>1
  <2>5. ASSUME NEW i \in DOMAIN calls', NEW j \in DOMAIN calls', i < j PROVE calls'[i] # calls'[j]
    <3>1. i \in 1..Len(calls) BY <2>2, <2>5
    <3>2. CASE j \in 1..Len(calls)
      <4>1. calls[i] # calls[j] BY <2>2, <2>5, <3>1, <3>2 DEF Waiting
      <4> QED BY <2>2, <3>1, <3>2, <4>1
    <3>3. CASE j = Len(calls) + 1
      <4>1. calls'[i] < next /\ calls'[j] = next /\ calls'[i] \in Nat BY <2>2, <2>3, <3>1, <3>3
      <4> QED BY <1>a, <4>1
    <3> QED BY <2>2, <3>2, <3>3
  <2> QED BY <2>1, <2>4, <2>5 DEF Waiting
<1>10. CASE ToolResult
  <2>1. calls # <<>> /\ calls' = Tail(calls) /\ next' = next
    BY <1>10 DEF ToolResult, At, CallsWait
  <2>2. pc' \notin {"stream", "tools"} => calls' = <<>> BY <1>10 DEF ToolResult, Goto
  <2>3. /\ Len(calls) \in Nat /\ DOMAIN calls = 1..Len(calls)
        /\ Tail(calls) \in Seq(Nat) /\ Len(Tail(calls)) = Len(calls) - 1
        /\ \A i \in 1..Len(Tail(calls)) : Tail(calls)[i] = calls[i + 1]
    BY <1>a, <2>1, HeadTailProperties, LenProperties
  <2>4. DOMAIN calls' = 1..(Len(calls) - 1) BY <2>1, <2>3, LenProperties
  <2>5. \A i \in DOMAIN calls' : i + 1 \in DOMAIN calls /\ calls'[i] = calls[i + 1] BY <2>1, <2>3, <2>4
  <2>6. \A n \in Range(calls') : n < next' BY <2>1, <2>5 DEF Range, Waiting
  <2>7. ASSUME NEW i \in DOMAIN calls', NEW j \in DOMAIN calls', i < j PROVE calls'[i] # calls'[j]
    <3>1. i + 1 < j + 1 BY <2>4, <2>7
    <3> QED BY <2>5, <3>1 DEF Waiting
  <2> QED BY <2>2, <2>6, <2>7 DEF Waiting
<1>11. CASE UNCHANGED vars
  BY <1>11, <1>c, <1>d DEF vars, live
<1> QED
  BY <1>1, <1>2, <1>3, <1>4, <1>5, <1>6, <1>7, <1>8, <1>9, <1>10, <1>11 DEF Next

\* Every step leaves the history and the file in order, and what is being
\* appended fits in.
LEMMA OrderFollows ==
  ASSUME TypeOK, FileInv, Snapshots, CallsWait, OrderInv, [Next]_vars
  PROVE  OrderInv'
<1> SUFFICES Sound(history)' /\ Sound(file)' /\ Fitting'
  BY WaitingFollows DEF OrderInv
<1>a. /\ history \in Seq(Items) /\ file \in Seq(Items)
      /\ Orderly(history) /\ Orderly(file)
  BY DEF TypeOK, OrderInv, Sound
<1>b. <<>> \in Seq(Items) /\ <<>> \in Seq(Lines) /\ Orderly(<<>>) /\ Range(<<>>) = {}
  BY EmptySeq DEF Orderly, InOrder, Range
<1>c. /\ \A e \in Items : <<>> \notin {<<ItemLine(e)>>, <<Line("echo", <<e>>)>>}
      /\ \A s \in Seq(Lines), e \in Items :
           Append(s, Other) \notin {<<ItemLine(e)>>, <<Line("echo", <<e>>)>>}
  BY <1>b, LinesDiffer
<1>d. pc \notin {"stream", "tools"} => calls = <<>> BY DEF OrderInv, Waiting
<1>1. CASE Note \/ Prompt \/ Steer \/ Reply
  BY <1>1, FreshInOrder DEF Note, Prompt, Steer, Reply, Kinds
<1>2. CASE Call
  BY <1>2, FreshInOrder DEF Call, Kinds
<1>3. CASE Developer \/ Context
  BY <1>3, UntrackedInOrder DEF Developer, Context, Kinds, Tracked
<1>4. CASE EnterLoop \/ EndTurn \/ Request \/ StreamDone \/ AutoCompact \/ RemoteFailed \/ Summarise
           \/ CompactReturn
  <2>1. history' = history /\ file' = file /\ next' = next /\ calls' = calls /\ writing' = <<>>
    BY <1>4 DEF EnterLoop, EndTurn, Request, StreamDone, AutoCompact, RemoteFailed, Summarise,
       CompactReturn, At, live, disk
  <2> QED BY <1>a, <1>c, <2>1, NothingNew
<1>5. CASE StartTurn \/ ManualCompact
  <2>1. history' = history /\ file' = file /\ next' = next /\ calls' = calls /\ writing' = seed \o <<Other>>
    BY <1>5 DEF StartTurn, ManualCompact, Begin, EmitFirst, live
  <2>2. seed \in Seq(Lines) /\ Other \in Lines
    <3>1. Item("user", 0) \in Items BY Bounds DEF Kinds
    <3> QED BY <1>b, <3>1, LineSeqs DEF TypeOK
  <2>3. writing' = Append(seed, Other) BY <2>1, <2>2, AppendIsConcat
  <2>4. \A e \in Items : writing' \notin {<<ItemLine(e)>>, <<Line("echo", <<e>>)>>} BY <1>c, <2>2, <2>3
  <2> QED BY <1>a, <2>1, <2>4, NothingNew
<1>6. CASE StreamFailed \/ SummaryFailed
  <2>1. /\ history' = snapshot /\ file' = file /\ next' = next /\ calls' \in {calls, <<>>}
        /\ writing' = <<>> /\ pc \in {"stream", "summarise"}
    BY <1>6 DEF StreamFailed, SummaryFailed, At, disk
  <2>2. Orderly(snapshot) /\ Range(snapshot) \subseteq Range(history)
    <3>1. CASE snapshot = history BY <1>a, <3>1
    <3>2. CASE Len(snapshot) <= Len(history) /\ snapshot = SubSeq(history, 1, Len(snapshot))
      <4>1. snapshot \in Seq(Items) /\ Len(snapshot) \in Int /\ 1 \in Nat \ {0}
        BY LenProperties DEF TypeOK
      <4> PICK n \in Int : n = Len(snapshot) BY <4>1
      <4>2. n <= Len(history) /\ snapshot = SubSeq(history, 1, n) BY <3>2
      <4> QED BY <1>a, <4>1, <4>2, PartOrderly
    <3> QED BY <2>1, <3>1, <3>2 DEF Snapshots
  <2> QED BY <1>a, <1>c, <2>1, <2>2, NothingNew
<1>7. CASE ToolResult
  <2>1. calls \in Seq(Nat) /\ calls # <<>> BY <1>7, Numbers DEF ToolResult, At, CallsWait
  <2>2. /\ Len(calls) \in Nat /\ DOMAIN calls = 1..Len(calls) /\ 1 \in DOMAIN calls
        /\ Head(calls) = calls[1] /\ Tail(calls) \in Seq(Nat) /\ Len(Tail(calls)) = Len(calls) - 1
        /\ \A i \in 1..Len(Tail(calls)) : Tail(calls)[i] = calls[i + 1]
    BY <2>1, HeadTailProperties, LenProperties, EmptySeq
  <2> PICK m : m = Head(calls) OBVIOUS
  <2> DEFINE e == Item("output", m)
  <2>3. m \in Range(calls) /\ m < next /\ m \in 1..MaxItems
    <3>1. m \in Range(calls) BY <2>2 DEF Range
    <3>2. m \in 1..MaxItems
      <4>1. calls \in Seq(1..MaxItems) BY DEF TypeOK
      <4> QED BY <2>1, <4>1, HeadTailProperties
    <3> QED BY <3>1, <3>2 DEF OrderInv, Waiting
  <2>4. e \in Items /\ e.kind = "output" /\ e.id = m
    BY <2>3, Bounds, ItemIs DEF Kinds
  <2>5. Append1(e) /\ next' = next /\ calls' = Tail(calls) BY <1>7 DEF ToolResult
  <2> HIDE DEF e
  <2>6. \A a \in Range(history) \cup Range(file) : May(a, e)
    <3>1. e = Item("output", m) BY DEF e
    <3>2. e \notin Range(history) \cup Range(file) BY <2>3, <3>1 DEF OrderInv, Sound, Awaited
    <3> QED BY <2>4, <3>2 DEF May
  <2>7. ASSUME NEW n \in Range(calls')
        PROVE  /\ Item("output", n) \notin Range(history) \cup Range(file)
               /\ Item("output", n) # e
    <3>1. PICK i \in 1..Len(Tail(calls)) : n = calls[i + 1]
      BY <2>2, <2>5, LenProperties DEF Range
    <3>2. i + 1 \in DOMAIN calls /\ 1 < i + 1 BY <2>2
    <3>3. n \in Range(calls) BY <3>1, <3>2 DEF Range
    <3>4. n # m BY <2>2, <3>1, <3>2 DEF OrderInv, Waiting
    <3>5. Item("output", n) # e BY <2>4, <3>4, ItemIs
    <3> QED BY <3>3, <3>5 DEF OrderInv, Sound, Awaited
  <2> QED BY <2>3, <2>4, <2>5, <2>6, <2>7, AppendedInOrder
<1>8. CASE Interrupt
  <2>1. next' = next /\ calls' = <<>> BY <1>8 DEF Interrupt
  <2>2. CASE Append1(Item("marker", 0)) BY <2>1, <2>2, UntrackedInOrder DEF Kinds, Tracked
  <2>3. CASE UNCHANGED <<history, disk, writing>>
    <3>1. history' = history /\ file' = file /\ writing' = <<>> BY <1>8, <2>3 DEF Interrupt, At, disk
    <3> QED BY <1>a, <1>c, <2>1, <3>1, NothingNew
  <2> QED BY <1>8, <2>2, <2>3 DEF Interrupt
<1>9. CASE CompactBlocked
  <2>1. next' = next /\ calls' = calls /\ history' = history BY <1>9 DEF CompactBlocked, live
  <2>2. CASE history # <<>> /\ Last(history).kind = "marker"
    <3>1. Last(history) \in Items
      <4>1. Len(history) \in 1..Len(history) BY <1>a, <2>2, EmptySeq, LenProperties
      <4> QED BY <1>a, <4>1, ElementOfSeq DEF Last
    <3>2. Last(history).kind \notin Tracked BY <2>2 DEF Tracked
    <3>3. Emit(<<Line("echo", <<Last(history)>>)>>) BY <1>9, <2>2 DEF CompactBlocked
    <3> QED BY <2>1, <3>1, <3>2, <3>3, EchoInOrder
  <2>3. CASE ~(history # <<>> /\ Last(history).kind = "marker")
    <3>1. file' = file /\ writing' = <<>> BY <1>9, <2>3 DEF CompactBlocked, At, disk
    <3> QED BY <1>a, <1>c, <2>1, <3>1, NothingNew
  <2> QED BY <2>2, <2>3
<1>10. CASE SummaryReply
  <2>1. Item("reply", next) \in Items /\ Item("reply", next).kind \notin Tracked
    <3>1. next \in 0..MaxItems BY <1>10, Numbers, Bounds DEF SummaryReply
    <3> QED BY <3>1, Bounds DEF Kinds, Tracked
  <2>2. /\ Emit(<<Line("echo", <<Item("reply", next)>>)>>) /\ next' = next + 1
        /\ history' = history /\ calls' = calls
    BY <1>10 DEF SummaryReply, live
  <2> QED BY <2>1, <2>2, EchoInOrder
<1>11. CASE CompactRemotely \/ SummaryDone
  BY <1>11, CompactedInOrder
<1>12. CASE Write
  <2>1. /\ Store(writing) /\ writing # <<>> /\ writing' = <<>>
        /\ history' = history /\ next' = next /\ calls' = calls
    BY <1>12 DEF Write, live
  <2>2. pc # "down" BY <2>1 DEF FileInv, Gone
  <2>3. Len(writing) \in 0..Len(writing) /\ SubSeq(writing, 1, Len(writing)) = writing
    BY LenProperties, SubSeqFull DEF TypeOK
  <2> PICK k \in 0..Len(writing) : SubSeq(writing, 1, k) = writing BY <2>3
  <2>4. /\ Orderly(file')
        /\ \A e \in Range(file') : e.kind \in Tracked => e.id < next
        /\ \A n \in Range(calls) : Item("output", n) \notin Range(file')
    BY <2>1, <2>2, StoredInOrder
  <2>5. Sound(file)' BY <2>1, <2>4 DEF Sound, Young, Awaited
  <2>6. Sound(history)' BY <2>1 DEF OrderInv, Sound, Young, Awaited
  <2>7. Fitting' BY <1>c, <2>1 DEF Fitting
  <2> QED BY <2>5, <2>6, <2>7
<1>13. CASE Crash
  <2>1. /\ pc # "down" /\ history' = <<>> /\ calls' = <<>> /\ writing' = <<>> /\ next' = next
        /\ \E k \in 0..Len(writing) : Store(SubSeq(writing, 1, k))
    BY <1>13 DEF Crash
  <2>2. /\ Orderly(file')
        /\ \A e \in Range(file') : e.kind \in Tracked => e.id < next
    BY <2>1, StoredInOrder
  <2>3. Sound(file)' BY <1>b, <2>1, <2>2 DEF Sound, Young, Awaited
  <2>4. Sound(history)' BY <1>b, <2>1 DEF Sound, Young, Awaited
  <2>5. Fitting' BY <1>c, <2>1 DEF Fitting
  <2> QED BY <2>3, <2>4, <2>5
<1>14. CASE Resume
  <2>1. /\ history' = file /\ file' = file /\ next' = next /\ calls' = calls /\ writing' = writing
        /\ pc = "down"
    BY <1>14 DEF Resume, Take
  <2>2. writing' = <<>> BY <2>1 DEF FileInv, Gone
  <2> QED BY <1>a, <1>c, <2>1, <2>2, NothingNew
<1>15. CASE Fork
  <2>1. /\ history' \in {history, file} /\ file' = <<>> /\ next' = next /\ calls' = calls
        /\ writing' = <<>>
    BY <1>15 DEF Fork, Take, At
  <2> QED BY <1>a, <1>b, <1>c, <2>1, NothingNew
<1>16. CASE UNCHANGED vars
  BY <1>16 DEF vars, live, disk, OrderInv, Sound, Young, Awaited, Fitting
<1> QED
  BY <1>1, <1>2, <1>3, <1>4, <1>5, <1>6, <1>7, <1>8, <1>9, <1>10, <1>11, <1>12, <1>13, <1>14, <1>15, <1>16
  DEF Next

-----------------------------------------------------------------------------
(* The theorems.                                                           *)

\* The invariant holds of the first state,
LEMMA InitInv == Init => IInv
<1> HAVE Init
<1>1. <<>> \in Seq(Items) /\ <<>> \in Seq(Lines) /\ <<>> \in Seq(1..MaxItems) BY EmptySeq
<1>2. /\ MaxItems \in Nat /\ MaxTurns \in Nat /\ MaxCompactions \in Nat
      /\ MaxCrashes \in Nat /\ MaxForks \in Nat
  BY Bounds
<1>3. TypeOK
  <2>1. DiskTypes BY <1>1 DEF Init, DiskTypes
  <2>2. 1 \in 1..(MaxItems + 1) /\ 0 \in 0..MaxTurns /\ 0 \in 0..MaxCompactions /\ 0 \in 0..MaxCrashes /\ 0 \in 0..MaxForks
    BY <1>2
  <2>3. TurnTypes BY <1>1, <2>2 DEF Init, TurnTypes
  <2> QED BY <2>1, <2>3, TypeParts
<1>4. FileInv BY <1>1, LenProperties DEF Init, FileInv, Appending, Seeded, TornIsSkipped, Gone, SavedIsRead, Said
<1>5. Snapshots /\ CallsWait /\ ContextInv BY DEF Init, Snapshots, CallsWait, ContextInv
<1>6. OrderInv
  <2>1. DOMAIN <<>> = {} /\ Range(<<>>) = {} BY EmptySeq DEF Range
  <2>2. \A e : <<>> \notin {<<ItemLine(e)>>, <<Line("echo", <<e>>)>>} OBVIOUS
  <2> QED BY <2>1, <2>2 DEF Init, OrderInv, Sound, Orderly, InOrder, Young, Awaited, Fitting, Waiting
<1> QED BY <1>3, <1>4, <1>5, <1>6 DEF IInv

\* and every step keeps it and is one of Conversation.
LEMMA StepInv == IInv /\ [Next]_vars => IInv' /\ [Durable!Next]_(Durable!vars)
<1> SUFFICES ASSUME IInv, [Next]_vars PROVE IInv' /\ [Durable!Next]_(Durable!vars)
  OBVIOUS
<1>1. TypeOK /\ FileInv /\ Snapshots /\ CallsWait /\ ContextInv /\ OrderInv BY DEF IInv
<1>2. Follows BY <1>1, FileFollows
<1>3. TypeOK' BY <1>1, <1>2, TurnTypesFollow, TypeParts DEF Follows
<1>4. Snapshots' /\ CallsWait' /\ ContextInv' BY <1>1, SnapshotsFollow, ContextFollows
<1>5. OrderInv' BY <1>1, OrderFollows
<1> QED BY <1>2, <1>3, <1>4, <1>5 DEF IInv, Follows

\* The variables of a session have their types, and what is being appended,
\* what was saved and what a failed response goes back to agree with the
\* history, whatever the order of appends, failures, crashes and forks.
THEOREM Invariant == Spec => []IInv
BY InitInv, StepInv, PTL DEF Spec

\* The variables of a session and its rollout have their types.
THEOREM TypeCorrect == Spec => []TypeOK
<1>1. IInv => TypeOK BY DEF IInv
<1> QED BY <1>1, Invariant, PTL

\* Every request carries the developer message and the environment, across
\* compactions, forks and resumes, unless the session was resumed with one of
\* the two.
THEOREM ContextIsKnown == Spec => []ContextKnown
<1>1. IInv => ContextKnown BY DEF IInv, ContextInv, ContextKnown, ContextIn, BothKinds
<1> QED BY <1>1, Invariant, PTL

\* Whatever interrupts, crashes, failed responses, resumes, forks and blocks
\* of recent activity left in the history, a request made of it pairs calls
\* with outputs, each call before its one output.
THEOREM PromptsWellFormed == Spec => []PromptWellFormed
<1>1. IInv => PromptWellFormed
  <2> HAVE IInv
  <2>1. history \in Seq(Items) /\ Orderly(history) BY DEF IInv, TypeOK, OrderInv, Sound
  <2> QED BY <2>1, PreparedIsPaired DEF PromptWellFormed
<1> QED BY <1>1, Invariant, PTL

\* A text of the user is in the history once, across compactions that keep it
\* before the summary or in a block after it.
THEOREM TextsAreOnce == Spec => []TextsOnce
<1>1. IInv => TextsOnce
  <2> HAVE IInv
  <2>1. history \in Seq(Items) /\ Orderly(history) BY DEF IInv, TypeOK, OrderInv, Sound
  <2>2. \A i, j \in DOMAIN history : i < j => May(history[i], history[j])
    BY <2>1 DEF Orderly, InOrder, Mays
  <2> SUFFICES ASSUME NEW i \in DOMAIN history, NEW j \in DOMAIN history,
                      history[i] = history[j], history[i].kind = "user"
               PROVE  i = j
    BY DEF TextsOnce
  <2>3. ~(i < j) /\ ~(j < i) BY <2>2 DEF May, Tracked
  <2>4. i \in Nat /\ j \in Nat BY <2>1, LenProperties
  <2> QED BY <2>3, <2>4
<1> QED BY <1>1, Invariant, PTL

\* A conversation survives its process: the rollout follows the history
\* change by change, so that a crash inside an append loses the last change at
\* most, and what a resume brings back beyond the history are replies, calls
\* and markers only.
THEOREM SurvivesCrashes == Spec => SurvivesItsProcess
<1>1. Init => Durable!Init BY DEF Init, Durable!Init
<1> QED BY <1>1, InitInv, StepInv, PTL DEF Spec, SurvivesItsProcess, Durable!Spec
=============================================================================
