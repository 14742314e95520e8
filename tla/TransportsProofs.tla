-------------------------- MODULE TransportsProofs --------------------------
(***************************************************************************)
(* For any number of threads that share the client, and of tokens, calls   *)
(* and failures: the file never holds a spent refresh token but for the    *)
(* two excuses of TokenKept, nobody is given pieces of two responses, and  *)
(* an interrupt closes no response but its own session's.                  *)
(***************************************************************************)
EXTENDS Transports, SequenceTheorems, TLAPS

-----------------------------------------------------------------------------
(* The inductive invariant.                                                *)

\* a refresh or a login that has yet to write, and one with a pair to write
Writing(w) == refresh[w].step \in {"open", "fill"}
Bringing(w) == Writing(w) /\ refresh[w].got \in Tokens

\* a refresh that has yet to ask the server
Asks(w) == refresh[w].step = "ask"

\* Nobody has a refresh token that the server did not issue.
Issued ==
  /\ \A n \in spent : n <= issued
  /\ authFile \in Tokens => authFile.refresh <= issued
  /\ \A h \in Holders : snapshot[h].refresh <= issued
  /\ \A w \in Writers : Asks(w) => refresh[w].base.refresh <= issued
  /\ \A w \in Writers : Bringing(w) => refresh[w].got.refresh <= issued

\* Who brings a refresh token to the file has the only copy of it, not yet used.
Alone(w, n) ==
  /\ n \notin spent
  /\ authFile \in Tokens => authFile.refresh # n
  /\ \A h \in Holders : snapshot[h].refresh # n
  /\ \A v \in Writers : Asks(v) => refresh[v].base.refresh # n
  /\ \A v \in Writers \ {w} : Bringing(v) => refresh[v].got.refresh # n
OnlyCopy == \A w \in Writers : Bringing(w) => Alone(w, refresh[w].got.refresh)

\* A login asks no server for a refresh.
LoginWrites == refresh[Login].step \in {"none", "open", "fill"}

TokenInv == TokenTypeOK /\ Issued /\ OnlyCopy /\ LoginWrites /\ TokenKept

\* The refresh of a thread is part of its call, that of the reader of the limits
\* of its visit: nobody starts one while one of its own is under way.
OneRefresh ==
  /\ \A t \in Requesters : refresh[t].step # "none" => call[t].step = "refreshing"
  /\ refresh[Status].step # "none" => visit \in {"renewing", "renewed"}

\* At most two responses are opened for a call, the second by the fallback; what
\* its caller has is what was read of the last.
CallFits(c) ==
  /\ c.attempt <= (IF c.last THEN 1 ELSE 0) + (IF c.step = "read" THEN 1 ELSE 0)
  /\ c.step = "read" => c.attempt > 0
  /\ c.step # "read" => c.given = <<>>
  /\ c.step = "read" => Len(c.given) = c.sent
CallsFit == \A t \in Requesters : CallFits(call[t])

IInv == TypeOK /\ TokenInv /\ OneRefresh /\ CallsFit /\ OneResponse

\* The same call by call: what there is to show of a step that changes one.
CallOK(c) ==
  /\ c \in CallOf /\ CallFits(c)
  /\ \A i \in DOMAIN c.given : c.given[i] = <<c.attempt, i>>

-----------------------------------------------------------------------------
(* Names and shapes.                                                       *)

\* Requesters and the two processes beside them are different writers, and a
\* pair of two token numbers is one of Tokens.
LEMMA Names ==
  /\ Status # Login /\ Status \notin Requesters /\ Login \notin Requesters
  /\ Status \in Writers /\ Login \in Writers /\ Requesters \subseteq Writers
  /\ "client" \in Holders /\ Status \in Holders /\ \A w \in Writers \ {Login} : HolderOf(w) \in Holders
  /\ MaxTokens \in Nat \ {0} /\ \A n \in 1..MaxTokens : Pair(n) \in Tokens
  /\ KeyOnly \notin Tokens /\ Torn \notin Tokens /\ KeyOnly # Torn
  /\ Idle \in Refreshes
BY TokensAssumption DEF Status, Login, Writers, Holders, HolderOf, Pair, Tokens, Idle, Refreshes

\* the bounds that a setting gives
LEMMA Bounds ==
  ASSUME cfg \in Settings
  PROVE  /\ cfg.visits \in Nat /\ cfg.logins \in Nat /\ cfg.faults \in Nat
         /\ cfg.calls \in Nat /\ cfg.retries \in Nat /\ cfg.stops \in Nat
BY TokensAssumption, TransportsAssumption

-----------------------------------------------------------------------------
(* The tokens: what each step of theirs preserves.                         *)

\* A process asks for a refresh with its snapshot, which no writer brings.
LEMMA AskKeeps ==
  ASSUME TokenInv, NEW w \in Writers \ {Login}, ~Writing(w),
         refresh' = [refresh EXCEPT ![w] = Asking(w)],
         UNCHANGED <<cfg, issued, spent, expired, authFile, snapshot, visits, logins, faults, lost>>,
         visit' \in Visits
  PROVE  TokenInv'
<1>1. /\ Asking(w) \in Refreshes /\ Asking(w).step = "ask"
      /\ Asking(w).base = snapshot[HolderOf(w)] /\ HolderOf(w) \in Holders
  BY Names DEF TokenInv, TokenTypeOK, Asking, Refreshes, Idle
<1>2. /\ refresh'[w] = Asking(w) /\ \A v \in Writers \ {w} : refresh'[v] = refresh[v]
      /\ refresh' \in [Writers -> Refreshes]
  BY <1>1 DEF TokenInv, TokenTypeOK
<1>3. TokenTypeOK'
  BY <1>2 DEF TokenInv, TokenTypeOK
<1>4. \A v \in Writers : Writing(v)' <=> Writing(v) BY <1>1, <1>2 DEF Writing
<1>5. \A v \in Writers : Bringing(v)' => Bringing(v) /\ v # w BY <1>1, <1>2, <1>4 DEF Bringing
<1>6. \A v \in Writers \ {w} : Asks(v)' <=> Asks(v) BY <1>2 DEF Asks
<1>7. Issued'
  BY <1>1, <1>2, <1>5, <1>6 DEF TokenInv, Issued
<1>8. OnlyCopy'
  BY <1>1, <1>2, <1>5, <1>6 DEF TokenInv, OnlyCopy, Alone
<1>9. LoginWrites' BY <1>2, Names DEF TokenInv, LoginWrites
<1>10. TokenKept' BY <1>2, <1>4 DEF TokenInv, TokenKept, Writing
<1> QED BY <1>3, <1>7, <1>8, <1>9, <1>10 DEF TokenInv

\* What is over, drops out or is read of the file takes nothing away from those
\* that still ask or write: the case of every step that neither grants nor writes.
Keeps(w) ==
  /\ Writing(w)' => /\ Writing(w)
                    /\ refresh'[w].base = refresh[w].base /\ refresh'[w].got = refresh[w].got
  /\ Asks(w)' => Asks(w) /\ refresh'[w].base = refresh[w].base
  /\ Writing(w) /\ ~Writing(w)' /\ refresh[w].base.refresh \in spent =>
       refresh[w].base.refresh \in lost'
\* they keep the invariant
LEMMA RestKeeps ==
  ASSUME TokenInv, TokenTypeOK', \A w \in Writers : Keeps(w),
         \A h \in Holders : snapshot'[h] = snapshot[h] \/ (authFile \in Tokens /\ snapshot'[h] = authFile),
         UNCHANGED <<issued, spent, authFile>>, lost \subseteq lost', LoginWrites'
  PROVE  TokenInv'
<1>1. \A w \in Writers : Bringing(w)' => Bringing(w) /\ refresh'[w].got = refresh[w].got
  BY DEF Keeps, Bringing
<1>2. \A w \in Writers : Asks(w)' => Asks(w) /\ refresh'[w].base = refresh[w].base
  BY DEF Keeps
<1>3. Issued'
  BY <1>1, <1>2 DEF TokenInv, Issued
<1>4. OnlyCopy'
  BY <1>1, <1>2 DEF TokenInv, OnlyCopy, Alone
<1>5. TokenKept'
  <2> SUFFICES ASSUME authFile \in Tokens, authFile.refresh \in spent, authFile.refresh \notin lost'
               PROVE  \E w \in Writers \ {Login} : Writing(w)' /\ refresh'[w].base.refresh = authFile.refresh
    BY DEF TokenKept, Writing
  <2>1. PICK w \in Writers \ {Login} : Writing(w) /\ refresh[w].base.refresh = authFile.refresh
    BY DEF TokenInv, TokenKept, Writing
  <2>2. Writing(w)' BY <2>1 DEF Keeps
  <2>3. refresh'[w].base.refresh = authFile.refresh BY <2>1, <2>2 DEF Keeps
  <2> QED BY <2>2, <2>3
<1> QED BY <1>3, <1>4, <1>5 DEF TokenInv

\* The server grants a refresh: the pair is new, and the spent token's writer is
\* the one that TokenKept allows, or the token is lost.
LEMMA GrantKeeps ==
  ASSUME TokenInv, NEW w \in Writers, AskServer(w), Granted(w)
  PROVE  TokenInv'
<1>1. /\ Asks(w) /\ issued \in Nat /\ issued' = issued + 1 /\ issued' \in 1..MaxTokens
      /\ spent' = spent \cup {refresh[w].base.refresh} /\ spent \subseteq 1..MaxTokens
      /\ refresh[w].base \in Tokens /\ w # Login
      /\ UNCHANGED <<cfg, logins, expired, authFile, snapshot, visit, visits>>
  BY Names DEF AskServer, Granted, Asks, TokenInv, TokenTypeOK, LoginWrites, Refreshes
<1>2. PICK r \in Refreshes :
        /\ refresh' = [refresh EXCEPT ![w] = r]
        /\ r.base = refresh[w].base
        /\ \/ r.step = "open" /\ r.got = Pair(issued') /\ UNCHANGED <<lost, faults>>
           \/ r.step = "raised" /\ lost' = lost \cup {refresh[w].base.refresh} /\ Fault
  <2>1. refresh[w].base.refresh \notin spent BY DEF Granted
  <2>2. Merged(refresh[w].base, Pair(issued')) = Pair(issued')
    BY <1>1 DEF Merged, Pair, Tokens
  <2>3. CASE /\ refresh' = [refresh EXCEPT ![w].step = "open",
                                      ![w].got = Merged(refresh[w].base, Pair(issued'))]
             /\ UNCHANGED <<lost, faults>>
    <3>1. [refresh[w] EXCEPT !.step = "open", !.got = Pair(issued')] \in Refreshes
      BY <1>1, Names DEF TokenInv, TokenTypeOK, Refreshes
    <3> QED BY <2>2, <2>3, <3>1, <1>1 DEF TokenInv, TokenTypeOK, Refreshes
  <2>4. CASE /\ Fault /\ lost' = lost \cup {refresh[w].base.refresh}
             /\ refresh' = [refresh EXCEPT ![w].step = "raised"]
    <3>1. [refresh[w] EXCEPT !.step = "raised"] \in Refreshes
      BY <1>1 DEF TokenInv, TokenTypeOK, Refreshes
    <3> QED BY <2>4, <3>1, <1>1 DEF TokenInv, TokenTypeOK, Refreshes
  <2>5. CASE Fault /\ UNCHANGED <<issued, spent, lost>>
    BY <2>5, <1>1
  <2> QED BY <2>1, <2>3, <2>4, <2>5 DEF AskServer
<1>3. /\ refresh'[w] = r /\ \A v \in Writers \ {w} : refresh'[v] = refresh[v]
      /\ refresh' \in [Writers -> Refreshes]
  BY <1>2 DEF TokenInv, TokenTypeOK
<1>4. TokenTypeOK'
  <2>1. faults' \in 0..cfg.faults BY <1>2, Bounds DEF Fault, TokenInv, TokenTypeOK
  <2>2. spent' \subseteq 1..MaxTokens /\ lost' \subseteq spent'
    BY <1>1, <1>2 DEF TokenInv, TokenTypeOK, Tokens
  <2> QED BY <1>1, <1>3, <2>1, <2>2 DEF TokenInv, TokenTypeOK
<1>5. ~Asks(w)' /\ (Bringing(w)' => r.got = Pair(issued')) /\ Pair(issued').refresh = issued + 1
  BY <1>1, <1>2, <1>3 DEF Asks, Bringing, Writing, Pair
<1>6. \A v \in Writers \ {w} : /\ Asks(v)' <=> Asks(v)
                               /\ Bringing(v)' <=> Bringing(v)
                               /\ Writing(v)' <=> Writing(v)
  BY <1>3 DEF Asks, Bringing, Writing
<1>7. /\ \A n \in spent' : n <= issued
      /\ authFile \in Tokens => authFile.refresh <= issued
      /\ \A h \in Holders : snapshot[h].refresh <= issued
      /\ \A v \in Writers \ {w} : Asks(v) => refresh[v].base.refresh <= issued
      /\ \A v \in Writers : Bringing(v) => refresh[v].got.refresh <= issued
  BY <1>1 DEF TokenInv, Issued
<1>8. \A n : n <= issued /\ n \in 1..MaxTokens => n <= issued + 1 /\ n # issued + 1
  BY <1>1
<1>t. /\ spent' \subseteq 1..MaxTokens /\ (authFile \in Tokens => authFile.refresh \in 1..MaxTokens)
      /\ \A h \in Holders : snapshot[h].refresh \in 1..MaxTokens
      /\ \A v \in Writers : refresh[v].base.refresh \in 1..MaxTokens
      /\ \A v \in Writers : Bringing(v) => refresh[v].got.refresh \in 1..MaxTokens
  BY <1>4 DEF TokenInv, TokenTypeOK, Tokens, Refreshes, Bringing
<1>9. Issued'
  BY <1>1, <1>3, <1>5, <1>6, <1>7, <1>8, <1>t DEF Issued
<1>10. OnlyCopy'
  <2> SUFFICES ASSUME NEW v \in Writers, Bringing(v)' PROVE Alone(v, refresh[v].got.refresh)'
    BY DEF OnlyCopy
  <2>1. CASE v = w
    <3>1. refresh'[v].got.refresh = issued + 1 BY <2>1, <1>3, <1>5
    <3> QED BY <3>1, <2>1, <1>1, <1>3, <1>5, <1>6, <1>7, <1>8, <1>t DEF Alone
  <2>2. CASE v # w
    <3>1. Bringing(v) /\ refresh'[v] = refresh[v] /\ Alone(v, refresh[v].got.refresh)
      BY <2>2, <1>3, <1>6 DEF TokenInv, OnlyCopy
    <3>2. refresh[v].got.refresh # refresh[w].base.refresh BY <3>1, <1>1 DEF Alone
    <3>3. refresh[v].got.refresh # issued + 1 BY <3>1, <1>7, <1>8, <1>t
    <3> QED BY <3>1, <3>2, <3>3, <2>2, <1>1, <1>3, <1>5, <1>6 DEF Alone
  <2> QED BY <2>1, <2>2
<1>11. LoginWrites' BY <1>1, <1>3, Names DEF TokenInv, LoginWrites
<1>12. TokenKept'
  <2> SUFFICES ASSUME authFile \in Tokens, authFile.refresh \in spent', authFile.refresh \notin lost'
               PROVE  \E v \in Writers \ {Login} : Writing(v)' /\ refresh'[v].base.refresh = authFile.refresh
    BY <1>1 DEF TokenKept, Writing
  <2>1. CASE authFile.refresh = refresh[w].base.refresh
    BY <2>1, <1>1, <1>2, <1>3 DEF Writing
  <2>2. CASE authFile.refresh \in spent
    <3>1. PICK v \in Writers \ {Login} : Writing(v) /\ refresh[v].base.refresh = authFile.refresh
      BY <2>2, <1>2 DEF TokenInv, TokenKept, Writing
    <3>2. v # w BY <3>1, <1>1 DEF Writing, Asks
    <3> QED BY <3>1, <3>2, <1>3, <1>6
  <2> QED BY <2>1, <2>2, <1>1
<1> QED BY <1>4, <1>9, <1>10, <1>11, <1>12 DEF TokenInv

\* A refusal, or a server that is not reached, leaves the tokens as they are.
LEMMA RefusalKeeps ==
  ASSUME TokenInv, NEW w \in Writers, AskServer(w), ~Granted(w)
  PROVE  TokenInv'
<1>1. Asks(w) /\ w # Login /\ UNCHANGED <<cfg, issued, spent, lost, logins, expired, authFile, snapshot, visit, visits>>
  BY Names DEF AskServer, Asks, TokenInv, LoginWrites
<1>2. refresh' = [refresh EXCEPT ![w].step = "failed"] /\ (UNCHANGED faults \/ Fault)
  BY DEF AskServer
<1>3. /\ refresh'[w].step = "failed" /\ \A v \in Writers \ {w} : refresh'[v] = refresh[v]
      /\ refresh' \in [Writers -> Refreshes]
  BY <1>2 DEF TokenInv, TokenTypeOK, Refreshes
<1>4. faults' \in 0..cfg.faults BY <1>2, Bounds DEF Fault, TokenInv, TokenTypeOK
<1>5. TokenTypeOK' BY <1>1, <1>3, <1>4 DEF TokenInv, TokenTypeOK
<1>6. \A v \in Writers : Keeps(v) BY <1>1, <1>3 DEF Keeps, Asks, Writing
<1>7. LoginWrites' BY <1>1, <1>3, Names DEF TokenInv, LoginWrites
<1> QED BY <1>1, <1>5, <1>6, <1>7, RestKeeps

\* While the file is empty there is nothing to keep.
LEMMA OpenKeeps ==
  ASSUME TokenInv, NEW w \in Writers, OpenFile(w)
  PROVE  TokenInv'
<1>1. /\ Writing(w) /\ authFile' = Torn /\ authFile' \notin Tokens
      /\ UNCHANGED <<cfg, logins, issued, spent, expired, snapshot, visit, visits, faults, lost>>
  BY Names DEF OpenFile, Writing
<1>2. /\ refresh'[w] = [refresh[w] EXCEPT !.step = "fill", !.over = FALSE]
      /\ \A v \in Writers \ {w} : refresh'[v] = refresh[v]
      /\ refresh' \in [Writers -> Refreshes]
  BY ZenonT(60) DEF OpenFile, TokenInv, TokenTypeOK, Refreshes
<1>3. refresh[w] \in Refreshes BY DEF TokenInv, TokenTypeOK
<1>4. refresh'[w].step = "fill" /\ refresh'[w].base = refresh[w].base /\ refresh'[w].got = refresh[w].got
  BY <1>2, <1>3 DEF Refreshes
<1>5. TokenTypeOK' BY <1>1, <1>2 DEF TokenInv, TokenTypeOK
<1>6. \A v \in Writers : /\ Asks(v)' => Asks(v) /\ refresh'[v].base = refresh[v].base
                         /\ Bringing(v)' => Bringing(v) /\ refresh'[v].got = refresh[v].got
  BY <1>1, <1>2, <1>4 DEF Asks, Bringing, Writing
<1>7. Issued' BY <1>1, <1>6 DEF TokenInv, Issued
<1>8. OnlyCopy' BY <1>1, <1>6 DEF TokenInv, OnlyCopy, Alone
<1>9. LoginWrites' BY <1>2, <1>4, Names DEF TokenInv, LoginWrites
<1> QED BY <1>1, <1>5, <1>7, <1>8, <1>9 DEF TokenInv, TokenKept

\* What is written to the file is the only copy of a pair that was not used.
LEMMA FillKeeps ==
  ASSUME TokenInv, NEW w \in Writers, FillFile(w)
  PROVE  TokenInv'
<1>1. /\ Writing(w) /\ authFile' \in {refresh[w].got, Torn}
      /\ UNCHANGED <<cfg, logins, issued, spent, expired, snapshot, visit, visits, faults, lost>>
  BY DEF FillFile, Writing
<1>2. refresh \in [Writers -> Refreshes] BY DEF TokenInv, TokenTypeOK
<1>3. /\ refresh' \in [Writers -> Refreshes]
      /\ refresh'[w].step \in {"none", "load"} /\ (w = Login => refresh'[w].step = "none")
      /\ \A v \in Writers \ {w} : /\ refresh'[v].step = refresh[v].step
                                  /\ refresh'[v].base = refresh[v].base
                                  /\ refresh'[v].got = refresh[v].got
  <2>1. \A v \in Writers : refresh'[v] =
          IF v = w THEN IF w = Login THEN Idle ELSE [refresh[w] EXCEPT !.step = "load"]
          ELSE IF refresh[v].step = "fill" THEN [refresh[v] EXCEPT !.over = TRUE] ELSE refresh[v]
    BY DEF FillFile
  <2>2. \A v \in Writers : refresh'[v] \in Refreshes
    <3>1. \A q \in Refreshes : [q EXCEPT !.step = "load"] \in Refreshes /\ [q EXCEPT !.over = TRUE] \in Refreshes
      BY DEF Refreshes
    <3> QED BY <2>1, <3>1, <1>2, Names, ZenonT(60)
  <2>3. DOMAIN refresh' = Writers /\ refresh' = [v \in Writers |-> refresh'[v]] BY DEF FillFile
  <2> QED BY <2>1, <2>2, <2>3, <1>2 DEF Refreshes, Idle
<1>4. refresh[w].got \in Tokens \cup {KeyOnly} BY <1>2 DEF Refreshes
<1>5. TokenTypeOK' BY <1>1, <1>3, <1>4 DEF TokenInv, TokenTypeOK
<1>6. \A v \in Writers : /\ Asks(v)' => Asks(v) /\ refresh'[v].base = refresh[v].base
                         /\ Bringing(v)' => Bringing(v) /\ v # w /\ refresh'[v].got = refresh[v].got
  BY <1>1, <1>3 DEF Asks, Bringing, Writing
<1>7. authFile' \in Tokens => Bringing(w) /\ authFile' = refresh[w].got
  BY <1>1, Names DEF Bringing
<1>8. Issued' BY <1>1, <1>6, <1>7 DEF TokenInv, Issued
<1>9. OnlyCopy'
  <2> SUFFICES ASSUME NEW v \in Writers, Bringing(v)' PROVE Alone(v, refresh[v].got.refresh)'
    BY DEF OnlyCopy
  <2>1. Bringing(v) /\ v # w /\ refresh'[v].got = refresh[v].got /\ Alone(v, refresh[v].got.refresh)
    BY <1>6 DEF TokenInv, OnlyCopy
  <2>2. authFile' \in Tokens => authFile'.refresh # refresh[v].got.refresh
    BY <2>1, <1>7 DEF Alone
  <2> QED BY <2>1, <2>2, <1>1, <1>6 DEF Alone
<1>10. LoginWrites' BY <1>3, Names DEF TokenInv, LoginWrites
<1>11. TokenKept' BY <1>1, <1>7 DEF TokenInv, OnlyCopy, Alone, TokenKept
<1> QED BY <1>5, <1>8, <1>9, <1>10, <1>11 DEF TokenInv

\* Reading the file copies the token that is kept there.
LEMMA LoadKeeps ==
  ASSUME TokenInv, NEW w \in Writers, LoadFile(w)
  PROVE  TokenInv'
<1>1. /\ refresh[w].step = "load" /\ w # Login
      /\ UNCHANGED <<cfg, logins, issued, spent, expired, authFile, visit, visits, faults, lost>>
  BY Names DEF LoadFile, TokenInv, LoginWrites
<1>2. PICK r \in Refreshes : r.step \in {"done", "failed"} /\ refresh' = [refresh EXCEPT ![w] = r]
  <2>1. \A x \in {"done", "failed"} : [Idle EXCEPT !.step = x] \in Refreshes /\ [Idle EXCEPT !.step = x].step = x
    BY Names DEF Refreshes, Idle
  <2> QED BY <2>1 DEF LoadFile
<1>3. /\ refresh'[w] = r /\ \A v \in Writers \ {w} : refresh'[v] = refresh[v]
      /\ refresh' \in [Writers -> Refreshes]
  BY <1>2 DEF TokenInv, TokenTypeOK
<1>4. /\ snapshot' \in [Holders -> Tokens]
      /\ \A h \in Holders : snapshot'[h] = snapshot[h] \/ (authFile \in Tokens /\ snapshot'[h] = authFile)
  BY <1>1, Names DEF LoadFile, TokenInv, TokenTypeOK
<1>5. TokenTypeOK' BY <1>1, <1>3, <1>4 DEF TokenInv, TokenTypeOK
<1>6. \A v \in Writers : Keeps(v) BY <1>1, <1>2, <1>3 DEF Keeps, Asks, Writing
<1>7. LoginWrites' BY <1>1, <1>3, Names DEF TokenInv, LoginWrites
<1> QED BY <1>1, <1>4, <1>5, <1>6, <1>7, RestKeeps

\* A login brings a pair that was not there before, or none.
LEMMA LogInKeeps ==
  ASSUME TokenInv, LogIn
  PROVE  TokenInv'
<1>1. /\ refresh[Login].step = "none" /\ issued \in 1..MaxTokens /\ Login \in Writers
      /\ UNCHANGED <<cfg, spent, expired, authFile, snapshot, visit, visits, faults, lost>>
  BY Names DEF LogIn, TokenInv, TokenTypeOK
<1>2. PICK r \in Refreshes :
        /\ refresh' = [refresh EXCEPT ![Login] = r] /\ r.step = "open"
        /\ \/ r.got = Pair(issued') /\ issued' = issued + 1 /\ issued' \in 1..MaxTokens
           \/ r.got = KeyOnly /\ issued' = issued
  <2>1. CASE LogInTokens
    <3>1. issued' = issued + 1 /\ issued' \in 1..MaxTokens BY <2>1, <1>1, Names DEF LogInTokens
    <3>2. [Idle EXCEPT !.step = "open", !.got = Pair(issued'), !.base = Pair(issued')] \in Refreshes
      BY <3>1, Names DEF Refreshes, Idle
    <3> QED BY <2>1, <3>1, <3>2 DEF LogInTokens, Idle
  <2>2. CASE LogInKey
    <3>1. [Idle EXCEPT !.step = "open"] \in Refreshes BY Names DEF Refreshes, Idle
    <3> QED BY <2>2, <3>1 DEF LogInKey, Idle
  <2> QED BY <2>1, <2>2 DEF LogIn
<1>3. /\ refresh'[Login] = r /\ \A v \in Writers \ {Login} : refresh'[v] = refresh[v]
      /\ refresh' \in [Writers -> Refreshes]
  BY <1>1, <1>2 DEF TokenInv, TokenTypeOK
<1>4. logins' \in 0..cfg.logins BY Bounds DEF LogIn, TokenInv, TokenTypeOK
<1>5. TokenTypeOK' BY <1>1, <1>2, <1>3, <1>4 DEF TokenInv, TokenTypeOK
<1>6. /\ ~Asks(Login)' /\ ~Writing(Login)
      /\ \A v \in Writers \ {Login} : /\ Asks(v)' <=> Asks(v)
                                      /\ Bringing(v)' <=> Bringing(v)
                                      /\ Writing(v)' <=> Writing(v)
  BY <1>1, <1>2, <1>3 DEF Asks, Bringing, Writing
<1>7. Bringing(Login)' => refresh'[Login].got.refresh = issued + 1 /\ issued' = issued + 1
  BY <1>2, <1>3, Names DEF Bringing, Pair
<1>8. \A n \in 1..MaxTokens : n <= issued => n <= issued' /\ n # issued + 1
  BY <1>1, <1>2
<1>t. /\ spent \subseteq 1..MaxTokens /\ (authFile \in Tokens => authFile.refresh \in 1..MaxTokens)
      /\ \A h \in Holders : snapshot[h].refresh \in 1..MaxTokens
      /\ \A v \in Writers : refresh[v].base.refresh \in 1..MaxTokens
      /\ \A v \in Writers : Bringing(v) => refresh[v].got.refresh \in 1..MaxTokens
  BY DEF TokenInv, TokenTypeOK, Tokens, Refreshes, Bringing
<1>9. Issued'
  BY <1>1, <1>3, <1>6, <1>7, <1>8, <1>t DEF TokenInv, Issued
<1>10. OnlyCopy'
  <2> SUFFICES ASSUME NEW v \in Writers, Bringing(v)' PROVE Alone(v, refresh[v].got.refresh)'
    BY DEF OnlyCopy
  <2>1. CASE v = Login
    BY <2>1, <1>1, <1>3, <1>6, <1>7, <1>8, <1>t DEF Alone, TokenInv, Issued
  <2>2. CASE v # Login
    <3>1. Bringing(v) /\ refresh'[v] = refresh[v] /\ Alone(v, refresh[v].got.refresh)
      BY <2>2, <1>3, <1>6 DEF TokenInv, OnlyCopy
    <3>2. refresh[v].got.refresh # issued + 1 BY <3>1, <1>8, <1>t DEF TokenInv, Issued
    <3> QED BY <3>1, <3>2, <2>2, <1>1, <1>3, <1>6, <1>7 DEF Alone
  <2> QED BY <2>1, <2>2
<1>11. LoginWrites' BY <1>2, <1>3 DEF LoginWrites
<1>12. TokenKept' BY <1>1, <1>3, <1>6 DEF TokenInv, TokenKept, Writing
<1> QED BY <1>5, <1>9, <1>10, <1>11, <1>12 DEF TokenInv

\* A refresh that returned is forgotten.
LEMMA SettleKeeps ==
  ASSUME TokenInv, NEW w \in Writers, RefreshReturned(w), refresh' = [refresh EXCEPT ![w] = Idle],
         UNCHANGED <<cfg, issued, spent, expired, authFile, snapshot, visits, logins, faults, lost>>,
         visit' \in Visits
  PROVE  TokenInv'
<1>1. /\ refresh'[w] = Idle /\ \A v \in Writers \ {w} : refresh'[v] = refresh[v]
      /\ refresh' \in [Writers -> Refreshes]
  BY Names DEF TokenInv, TokenTypeOK
<1>2. TokenTypeOK' BY <1>1 DEF TokenInv, TokenTypeOK
<1>3. \A v \in Writers : Keeps(v) BY <1>1 DEF Keeps, Asks, Writing, RefreshReturned, Idle
<1>4. LoginWrites' BY <1>1, Names DEF TokenInv, LoginWrites, Idle
<1> QED BY <1>1, <1>2, <1>3, <1>4, RestKeeps

\* A process that ends while it writes the file loses what it spent.
LEMMA CrashKeeps ==
  ASSUME TokenInv, NEW ws \in SUBSET Writers, TokensCrash(ws),
         snapshot' \in [Holders -> Tokens], visit' \in Visits, visits' = visits,
         \A h \in Holders : snapshot'[h] = snapshot[h] \/ (authFile \in Tokens /\ snapshot'[h] = authFile)
  PROVE  TokenInv'
<1>1. /\ \A v \in ws : refresh'[v] = Idle
      /\ \A v \in Writers \ ws : refresh'[v] = refresh[v]
      /\ refresh' \in [Writers -> Refreshes]
      /\ UNCHANGED <<cfg, logins, issued, spent, expired, authFile>>
  BY Names DEF TokensCrash, TokenInv, TokenTypeOK
<1>2. /\ lost \subseteq lost' /\ lost' \subseteq spent'
      /\ \A v \in ws : Writing(v) /\ refresh[v].base.refresh \in spent => refresh[v].base.refresh \in lost'
  BY <1>1 DEF TokensCrash, Dropped, Writing, TokenInv, TokenTypeOK
<1>3. faults' \in 0..cfg.faults BY Bounds DEF TokensCrash, Fault, TokenInv, TokenTypeOK
<1>4. TokenTypeOK' BY <1>1, <1>2, <1>3 DEF TokenInv, TokenTypeOK
<1>5. \A v \in Writers : Keeps(v) BY <1>1, <1>2 DEF Keeps, Asks, Writing, Idle
<1>6. LoginWrites' BY <1>1, Names DEF TokenInv, LoginWrites, Idle
<1> QED BY <1>1, <1>2, <1>4, <1>5, <1>6, RestKeeps

\* Every step of the tokens, and how far the reader of the limits is with it.
LEMMA TokenStepKeeps ==
  ASSUME TokenInv, OneRefresh, TokenStep
  PROVE  TokenInv' /\ cfg' = cfg
<1>s. refresh[Status].step # "none" => visit \in {"renewing", "renewed"} BY DEF OneRefresh
<1>1. ASSUME NEW w \in Writers, AskServer(w) \/ OpenFile(w) \/ FillFile(w) \/ LoadFile(w)
      PROVE  TokenInv' /\ cfg' = cfg
  <2>1. TokenInv' BY <1>1, GrantKeeps, RefusalKeeps, OpenKeeps, FillKeeps, LoadKeeps
  <2> QED BY <1>1, <2>1 DEF AskServer, OpenFile, FillFile, LoadFile
<1>2. CASE LogIn BY <1>2, LogInKeeps DEF LogIn
<1>3. CASE StartVisit
  <2>1. /\ UNCHANGED <<cfg, logins, issued, spent, expired, authFile, refresh, faults, lost>>
        /\ visits' \in 0..cfg.visits /\ visit' \in Visits /\ snapshot' \in [Holders -> Tokens]
        /\ \A h \in Holders : snapshot'[h] = snapshot[h] \/ (authFile \in Tokens /\ snapshot'[h] = authFile)
    BY <1>3, Bounds, Names DEF StartVisit, TokenInv, TokenTypeOK, Visits
  <2>2. TokenTypeOK' BY <2>1 DEF TokenInv, TokenTypeOK
  <2>3. \A v \in Writers : Keeps(v) BY <2>1 DEF Keeps, Asks, Writing
  <2>4. LoginWrites' BY <2>1 DEF TokenInv, LoginWrites
  <2> QED BY <2>1, <2>2, <2>3, <2>4, RestKeeps
<1>4. CASE CheckVisit
  <2>1. /\ UNCHANGED <<cfg, logins, issued, spent, expired, authFile, snapshot, visits, faults, lost>>
        /\ visit' \in Visits /\ visit \notin {"renewing", "renewed"}
    BY <1>4 DEF CheckVisit, VisitRefreshes, Visits
  <2>2. ~Writing(Status) BY <2>1, <1>s DEF Writing
  <2>3. CASE refresh' = [refresh EXCEPT ![Status] = Asking(Status)]
    BY <2>1, <2>2, <2>3, Names, AskKeeps
  <2>4. CASE UNCHANGED refresh
    <3>1. TokenTypeOK' BY <2>1, <2>4 DEF TokenInv, TokenTypeOK
    <3>2. \A v \in Writers : Keeps(v) BY <2>1, <2>4 DEF Keeps, Asks, Writing
    <3>3. LoginWrites' BY <2>4 DEF TokenInv, LoginWrites
    <3> QED BY <2>1, <3>1, <3>2, <3>3, RestKeeps
  <2> QED BY <1>4, <2>3, <2>4 DEF CheckVisit, VisitRefreshes
<1>5. CASE VisitRefreshed
  <2>1. visit' \in Visits BY <1>5 DEF VisitRefreshed, Visits
  <2> QED BY <1>5, <2>1, Names, SettleKeeps DEF VisitRefreshed
<1>6. CASE StatusEnds
  <2>1. snapshot' = snapshot /\ snapshot' \in [Holders -> Tokens] /\ visit' \in Visits /\ visits' = visits
    BY <1>6 DEF StatusEnds, TokenInv, TokenTypeOK, Visits
  <2>2. TokensCrash({Status}) /\ {Status} \in SUBSET Writers BY <1>6, Names DEF StatusEnds
  <2> QED BY <2>1, <2>2, CrashKeeps DEF TokensCrash
<1>7. ASSUME NEW n \in 1..MaxTokens, Expire(n) PROVE TokenInv' /\ cfg' = cfg
  <2>1. /\ UNCHANGED <<cfg, logins, issued, spent, authFile, snapshot, refresh, visit, visits, faults, lost>>
        /\ expired' \subseteq 1..MaxTokens
    BY <1>7 DEF Expire, TokenInv, TokenTypeOK
  <2>2. TokenTypeOK' BY <2>1 DEF TokenInv, TokenTypeOK
  <2>3. \A v \in Writers : Keeps(v) BY <2>1 DEF Keeps, Asks, Writing
  <2>4. LoginWrites' BY <2>1 DEF TokenInv, LoginWrites
  <2> QED BY <2>1, <2>2, <2>3, <2>4, RestKeeps
<1> QED BY <1>1, <1>2, <1>3, <1>4, <1>5, <1>6, <1>7 DEF TokenStep

-----------------------------------------------------------------------------
(* The calls: what each operation on one makes of it.                      *)

\* no call
LEMMA NoCallOK ==
  ASSUME TypeOK
  PROVE  CallOK(NoCall) /\ NoCall.step # "refreshing" /\ ~NoCall.closed
<1>1. /\ cfg.retries \in Nat /\ MaxTokens \in Nat \ {0} /\ MaxPieces \in Nat
  BY Bounds, Names, TransportsAssumption DEF TypeOK, TokenTypeOK
<1> QED BY <1>1, EmptySeq DEF CallOK, NoCall, CallOf, CallFits

\* a call that one of the clients serves from its start
LEMMA ServeOK ==
  ASSUME NEW c, CallOK(c), c.step # "read", NEW via \in {"account", "key"}
  PROVE  /\ CallOK(Serve(c, via)) /\ Serve(c, via).step \in {"headers", "send"}
         /\ Serve(c, via).closed = c.closed /\ Serve(c, via).last = c.last
         /\ Serve(c, via).given = c.given /\ Serve(c, via).attempt = c.attempt
BY ZenonT(60) DEF CallOK, CallOf, CallFits, Serve, FirstStep

\* the first step of a call, or of another attempt at it
LEMMA BegunOK ==
  ASSUME TypeOK, NEW kind \in cfg.kinds, NEW n \in 0..cfg.retries
  PROVE  CallOK(Begun(kind, n)) /\ Begun(kind, n).step # "refreshing" /\ ~Begun(kind, n).closed
<1> DEFINE c == [NoCall EXCEPT !.kind = kind, !.retries = n]
<1>1. CallOK(c) /\ c.step = "idle" /\ ~c.closed
  BY NoCallOK, ZenonT(60) DEF CallOK, CallOf, CallFits, NoCall
<1>2. CASE client = "auto"
  BY <1>2, NoCallOK, ZenonT(60) DEF Begun, CallOK, CallOf, CallFits, NoCall
<1>3. CASE client # "auto"
  <2>1. client \in {"account", "key"} BY <1>3 DEF TypeOK
  <2>2. Begun(kind, n) = Serve(c, client) BY <1>3 DEF Begun
  <2> HIDE DEF c
  <2>3. CallOK(Serve(c, client)) /\ Serve(c, client).step \in {"headers", "send"} /\ ~Serve(c, client).closed
    BY <1>1, <2>1, ServeOK
  <2> QED BY <2>2, <2>3
<1> QED BY <1>2, <1>3

\* a request with the token of the client's snapshot in its headers
LEMMA BearingOK ==
  ASSUME TypeOK, NEW c, CallOK(c), c.step # "read"
  PROVE  CallOK(Bearing(c)) /\ Bearing(c).step = "send" /\ Bearing(c).closed = c.closed
<1>1. snapshot["client"].access \in 1..MaxTokens
  BY Names DEF TypeOK, TokenTypeOK, Tokens
<1> QED BY <1>1 DEF CallOK, CallFits, CallOf, Bearing

\* a request that starts again after its refresh, and one whose response is closed
LEMMA RestartedOK ==
  ASSUME NEW c, CallOK(c), c.step # "read"
  PROVE  LET r == [c EXCEPT !.step = "headers", !.fresh = FALSE]
         IN  CallOK(r) /\ r.step = "headers" /\ r.closed = c.closed
<1> DEFINE r == [c EXCEPT !.step = "headers", !.fresh = FALSE]
<1>1. /\ r \in CallOf /\ r.step = "headers" /\ r.closed = c.closed
      /\ r.attempt = c.attempt /\ r.given = c.given /\ r.last = c.last
  BY DEF CallOK, CallOf
<1> QED BY <1>1 DEF CallOK, CallFits
\* a response is closed under its reader
LEMMA ClosedOK ==
  ASSUME NEW c, CallOK(c)
  PROVE  LET r == [c EXCEPT !.closed = TRUE] IN CallOK(r) /\ r.step = c.step
<1> DEFINE r == [c EXCEPT !.closed = TRUE]
<1>1. /\ r \in CallOf /\ r.step = c.step /\ r.sent = c.sent
      /\ r.attempt = c.attempt /\ r.given = c.given /\ r.last = c.last
  BY DEF CallOK, CallOf
<1> QED BY <1>1 DEF CallOK, CallFits

\* t's call becomes a sound one that waits for no refresh and that nobody closed now
Moves(t) ==
  \E r : /\ call' = [call EXCEPT ![t] = r] /\ CallOK(r)
         /\ r.step # "refreshing" /\ (r.closed => call[t].closed)

\* a caller whose request failed ends, or begins again without what it had
LEMMA CallerFailsOK ==
  ASSUME TypeOK, NEW t \in Requesters, CallerFails(t)
  PROVE  Moves(t)
<1>1. CASE call' = [call EXCEPT ![t] = NoCall]
  BY <1>1, NoCallOK DEF Moves
<1>2. CASE /\ call[t].kind = "stream" /\ call[t].retries < cfg.retries
           /\ call' = [call EXCEPT ![t] = Begun("stream", call[t].retries + 1)]
  <2>0. call[t].kind \in cfg.kinds \cup {"none"} /\ call[t].retries \in 0..cfg.retries /\ cfg.retries \in Nat
    BY Bounds DEF TypeOK, TokenTypeOK, CallOf
  <2>1. "stream" \in cfg.kinds /\ call[t].retries + 1 \in 0..cfg.retries
    BY <1>2, <2>0
  <2> QED BY <1>2, <2>1, BegunOK DEF Moves
<1> QED BY <1>1, <1>2 DEF CallerFails

\* so does one that is handed over, whose caller has nothing of the first response
LEMMA FailsOK ==
  ASSUME TypeOK, NEW t \in Requesters, NEW limit \in BOOLEAN, CallOK(call[t]), Fails(t, limit)
  PROVE  Moves(t) /\ usingFallback' \in BOOLEAN /\ armed' \in BOOLEAN
<1>1. CASE client = "auto" /\ HandedOver(call[t], limit)
  <2> DEFINE c == call[t]
             g == IF c.kind = "stream" THEN c.given ELSE <<>>
             r == [Serve(c, "key") EXCEPT !.last = TRUE,
                     !.given = IF c.kind = "stream" THEN @ ELSE <<>>]
  <2>1. ~c.last /\ (c.kind = "stream" => c.given = <<>>) /\ g = <<>> BY <1>1 DEF HandedOver
  <2>2. /\ call' = [call EXCEPT ![t] = r]
        /\ usingFallback' \in BOOLEAN /\ armed' \in BOOLEAN
    BY <1>1 DEF Fails, TypeOK
  <2>3. /\ r = [c EXCEPT !.via = "key", !.step = "send", !.fresh = TRUE, !.last = TRUE, !.given = g]
    BY DEF Serve, FirstStep, CallOK, CallOf
  <2>4. CallOK(r) /\ r.step = "send" /\ r.closed = c.closed
    <3>1. g \in Seq((1..2) \X (1..MaxPieces)) BY <2>1, EmptySeq
    <3>2. c.attempt <= 1 /\ c.attempt \in 0..2 BY <2>1 DEF CallOK, CallFits, CallOf
    <3>3. r \in CallOf /\ r.last = TRUE /\ r.step = "send" /\ r.given = <<>> /\ r.attempt = c.attempt
          /\ r.closed = c.closed
      BY <3>1, <2>1, <2>3, ZenonT(60) DEF CallOK, CallOf
    <3> QED BY <3>2, <3>3 DEF CallOK, CallFits
  <2> QED BY <2>2, <2>4 DEF Moves
<1>2. CASE ~(client = "auto" /\ HandedOver(call[t], limit))
  BY <1>2, CallerFailsOK DEF Fails, TypeOK
<1> QED BY <1>1, <1>2

-----------------------------------------------------------------------------
(* Every step.                                                             *)

\* what TypeOK says beside the tokens and the calls
RestTypes ==
  /\ client \in {"auto", "account", "key"}
  /\ usingFallback \in BOOLEAN /\ armed \in BOOLEAN
  /\ calls \in [Requesters -> 0..cfg.calls]
  /\ stopped \in [Requesters -> BOOLEAN]
  /\ closers \subseteq Requesters /\ stops \in 0..cfg.stops

CallsOK == call = [t \in Requesters |-> call[t]] /\ \A t \in Requesters : CallOK(call[t])

\* the invariant as what is said of the tokens, of each call and of the rest
LEMMA Groups ==
  /\ IInv <=> TokenInv /\ RestTypes /\ CallsOK /\ OneRefresh
  /\ IInv' <=> TokenInv' /\ RestTypes' /\ CallsOK' /\ OneRefresh'
BY DEF IInv, TypeOK, TokenInv, RestTypes, CallsOK, CallOK, CallsFit, OneResponse

\* A call that moves on keeps what is said of them all.
LEMMA MovesKeeps ==
  ASSUME IInv, NEW t \in Requesters, Moves(t), cfg' = cfg, visit' = visit,
         \/ refresh' = refresh /\ call[t].step # "refreshing"
         \/ refresh' = [refresh EXCEPT ![t] = Idle]
  PROVE  CallsOK' /\ OneRefresh' /\ \A u \in Requesters : call'[u].closed => call[u].closed
<1>1. PICK r : /\ call' = [call EXCEPT ![t] = r] /\ CallOK(r)
               /\ r.step # "refreshing" /\ (r.closed => call[t].closed)
  BY DEF Moves
<1>2. /\ call = [u \in Requesters |-> call[u]]
      /\ call'[t] = r /\ \A u \in Requesters \ {t} : call'[u] = call[u]
      /\ call' = [u \in Requesters |-> call'[u]]
  BY <1>1, Groups DEF CallsOK
<1>3. \A u \in Requesters : CallOK(call'[u])
  BY <1>1, <1>2, Groups DEF CallsOK
<1>4. CallOf' = CallOf BY DEF CallOf
<1>5. CallsOK' BY <1>2, <1>3, <1>4 DEF CallsOK, CallOK, CallFits
<1>6. /\ refresh'[t].step = "none"
      /\ \A w \in Writers \ {t} : refresh'[w] = refresh[w]
  BY Names DEF IInv, TypeOK, TokenTypeOK, OneRefresh, Idle
<1>7. OneRefresh' BY <1>2, <1>6, Names DEF IInv, OneRefresh
<1> QED BY <1>1, <1>2, <1>5, <1>7

\* the fields of a call whose response is opened, and of one that waits
LEMMA OpenedOK ==
  ASSUME NEW q \in CallOf, q.attempt + 1 \in 0..2, 0 \in 0..MaxPieces
  PROVE  LET x == [q EXCEPT !.step = "read", !.attempt = q.attempt + 1, !.sent = 0]
         IN  /\ x \in CallOf /\ x.step = "read" /\ x.attempt = q.attempt + 1 /\ x.sent = 0
             /\ x.given = q.given /\ x.last = q.last /\ x.closed = q.closed
BY DEF CallOf
\* a call waits for a refresh, because its token was stale or refused
LEMMA WaitingOK ==
  ASSUME NEW q \in CallOf, NEW why \in {"stale", "refused"}
  PROVE  LET x == [q EXCEPT !.step = "refreshing", !.why = why]
         IN  /\ x \in CallOf /\ x.step = "refreshing" /\ x.given = q.given
             /\ x.attempt = q.attempt /\ x.last = q.last /\ x.closed = q.closed
BY DEF CallOf

\* A call that asks for a refresh waits for it.
LEMMA AsksKeeps ==
  ASSUME IInv, NEW t \in Requesters, NEW why \in {"stale", "refused"},
         call[t].step \in {"headers", "send"}, cfg' = cfg, visit' = visit,
         call' = [call EXCEPT ![t].step = "refreshing", ![t].why = why],
         refresh' = [refresh EXCEPT ![t] = Asking(t)]
  PROVE  CallsOK' /\ OneRefresh' /\ \A u \in Requesters : call'[u].closed => call[u].closed
<1> DEFINE r == [call[t] EXCEPT !.step = "refreshing", !.why = why]
<1>1. CallOK(r) /\ r.closed = call[t].closed /\ r.step = "refreshing"
  <2>1. call[t] \in CallOf /\ CallOK(call[t]) /\ call[t].step # "read" BY Groups DEF CallsOK, CallOK
  <2>2. /\ r \in CallOf /\ r.step = "refreshing" /\ r.given = call[t].given
        /\ r.attempt = call[t].attempt /\ r.last = call[t].last /\ r.closed = call[t].closed
    BY <2>1, WaitingOK
  <2> QED BY <2>1, <2>2 DEF CallOK, CallFits
<1>2. /\ call = [u \in Requesters |-> call[u]]
      /\ call'[t] = r /\ \A u \in Requesters \ {t} : call'[u] = call[u]
      /\ call' = [u \in Requesters |-> call'[u]]
  <2>1. call = [u \in Requesters |-> call[u]] /\ call[t] \in CallOf BY Groups DEF CallsOK, CallOK
  <2> QED BY <2>1 DEF CallOf
<1> HIDE DEF r
<1>3. \A u \in Requesters : CallOK(call'[u])
  BY <1>1, <1>2, Groups DEF CallsOK
<1>4. CallOf' = CallOf BY DEF CallOf
<1>5. CallsOK' BY <1>2, <1>3, <1>4 DEF CallsOK, CallOK, CallFits
<1>6. \A w \in Writers \ {t} : refresh'[w] = refresh[w]
  BY Names DEF IInv, TypeOK, TokenTypeOK
<1>7. OneRefresh' BY <1>1, <1>2, <1>6, Names DEF IInv, OneRefresh
<1> QED BY <1>1, <1>2, <1>5, <1>7

\* the steps of a call that touch no refresh
CallStep(t) ==
  \/ \E kind \in cfg.kinds, turn \in BOOLEAN : Begin(t, kind, turn)
  \/ Choose(t) \/ Claim(t) \/ SendKey(t) \/ CompactEnds(t)
  \/ Piece(t) \/ FailedEvent(t) \/ ReadFails(t) \/ ReadEnds(t)

\* another response is opened, of which nothing was read
LEMMA OpensOK ==
  ASSUME NEW t \in Requesters, CallsOK, call[t].step = "send",
         call' = [call EXCEPT ![t].step = "read", ![t].attempt = @ + 1, ![t].sent = 0]
  PROVE  Moves(t)
<1> DEFINE c == call[t]
           r == [c EXCEPT !.step = "read", !.attempt = c.attempt + 1, !.sent = 0]
<1>1. /\ CallOK(c) /\ c.attempt \in 0..2 /\ c.attempt <= 1 /\ (~c.last => c.attempt = 0)
      /\ c.given = <<>> /\ c \in CallOf
  BY DEF CallsOK, CallOK, CallFits, CallOf
<1>2. c.attempt + 1 \in 1..2 /\ c.attempt + 1 \in 0..2 /\ 0 \in 0..MaxPieces
  BY <1>1, TransportsAssumption
<1>3. /\ r \in CallOf /\ r.step = "read" /\ r.attempt = c.attempt + 1 /\ r.sent = 0
      /\ r.given = <<>> /\ r.last = c.last /\ r.closed = c.closed
  BY <1>1, <1>2, OpenedOK
<1>4. CallOK(r) BY <1>1, <1>2, <1>3 DEF CallOK, CallFits
<1>5. call' = [call EXCEPT ![t] = r] BY <1>1 DEF CallsOK, CallOf
<1> QED BY <1>3, <1>4, <1>5 DEF Moves

\* The next piece is of the last response, after those that came before it.
LEMMA PieceOK ==
  ASSUME TypeOK, CallsOK, NEW t \in Requesters, Piece(t)
  PROVE  Moves(t)
<1> DEFINE c == call[t]
           p == <<c.attempt, c.sent + 1>>
           r == [c EXCEPT !.sent = c.sent + 1, !.given = Append(c.given, p)]
<1>1. /\ CallOK(c) /\ c.step = "read" /\ c.attempt \in 1..2 /\ c.sent \in 0..MaxPieces
      /\ c.sent < MaxPieces /\ Len(c.given) = c.sent /\ c \in CallOf
      /\ c.given \in Seq((1..2) \X (1..MaxPieces))
      /\ c.attempt <= (IF c.last THEN 1 ELSE 0) + 1
  BY TransportsAssumption DEF CallsOK, CallOK, CallFits, CallOf, Piece
<1>2. c.sent + 1 \in 1..MaxPieces /\ c.sent + 1 \in 0..MaxPieces BY <1>1, TransportsAssumption
<1>3. /\ Append(c.given, p) \in Seq((1..2) \X (1..MaxPieces)) /\ Len(Append(c.given, p)) = c.sent + 1
      /\ \A i \in DOMAIN Append(c.given, p) : Append(c.given, p)[i] = <<c.attempt, i>>
  <2>1. p \in (1..2) \X (1..MaxPieces) BY <1>1, <1>2
  <2>2. \A i \in DOMAIN c.given : c.given[i] = <<c.attempt, i>> BY <1>1 DEF CallOK
  <2> HIDE DEF p
  <2>3. /\ Append(c.given, p) \in Seq((1..2) \X (1..MaxPieces)) /\ Len(Append(c.given, p)) = c.sent + 1
        /\ \A i \in 1..Len(c.given) : Append(c.given, p)[i] = c.given[i]
        /\ Append(c.given, p)[Len(c.given) + 1] = p
        /\ DOMAIN Append(c.given, p) = 1..(c.sent + 1) /\ DOMAIN c.given = 1..c.sent
    BY <1>1, <2>1, AppendProperties, LenProperties
  <2>4. \A i \in 1..(c.sent + 1) : i \in 1..c.sent \/ i = c.sent + 1 BY <1>1
  <2>5. p = <<c.attempt, c.sent + 1>> BY DEF p
  <2> QED BY <1>1, <2>2, <2>3, <2>4, <2>5
<1>4. CASE stopped[t] /\ c.kind = "stream"
  BY <1>4, NoCallOK DEF Piece, Moves
<1>5. CASE ~(stopped[t] /\ c.kind = "stream")
  <2>1. call' = [call EXCEPT ![t] = r] BY <1>5 DEF Piece
  <2>2. /\ r \in CallOf /\ r.step = "read" /\ r.attempt = c.attempt /\ r.sent = c.sent + 1
        /\ r.given = Append(c.given, p) /\ r.last = c.last /\ r.closed = c.closed
    BY <1>1, <1>2, <1>3 DEF CallOf
  <2>3. CallOK(r) BY <1>1, <1>3, <2>2 DEF CallOK, CallFits
  <2> QED BY <2>1, <2>2, <2>3 DEF Moves
<1> QED BY <1>4, <1>5

\* A step of a call moves that call alone, and leaves the tokens.
LEMMA CallStepMoves ==
  ASSUME IInv, NEW t \in Requesters, CallStep(t)
  PROVE  Moves(t) /\ call[t].step # "refreshing" /\ UNCHANGED tokenVars /\ RestTypes'
<1>a. TypeOK /\ RestTypes /\ CallsOK /\ CallOK(call[t]) BY Groups DEF IInv, CallsOK
<1>b. /\ cfg.calls \in Nat /\ cfg.retries \in Nat /\ 0 \in 0..cfg.retries
  BY <1>a, Bounds DEF TypeOK, TokenTypeOK
<1>1. ASSUME NEW kind \in cfg.kinds, NEW turn \in BOOLEAN, Begin(t, kind, turn)
      PROVE  Moves(t) /\ call[t].step # "refreshing" /\ UNCHANGED tokenVars /\ RestTypes'
  <2>1. Moves(t) BY <1>1, <1>a, <1>b, BegunOK DEF Begin, Moves
  <2>2. UNCHANGED cfg BY <1>1 DEF Begin, tokenVars
  <2>3. calls' \in [Requesters -> 0..cfg.calls] /\ stopped' \in [Requesters -> BOOLEAN]
    <3>1. calls[t] + 1 \in 0..cfg.calls BY <1>1, <1>a, <1>b DEF Begin, RestTypes
    <3>2. calls' \in [Requesters -> 0..cfg.calls] BY <1>1, <1>a, <3>1 DEF Begin, RestTypes
    <3>3. stopped' \in [Requesters -> BOOLEAN]
      <4>1. CASE turn BY <1>1, <1>a, <4>1 DEF Begin, RestTypes
      <4>2. CASE ~turn BY <1>1, <1>a, <4>2 DEF Begin, RestTypes
      <4> QED BY <4>1, <4>2
    <3> QED BY <3>2, <3>3
  <2>4. armed' \in BOOLEAN BY <1>1 DEF Begin
  <2>5. RestTypes' BY <1>1, <1>a, <2>2, <2>3, <2>4 DEF Begin, RestTypes
  <2> QED BY <1>1, <2>1, <2>5 DEF Begin
<1>2. CASE Choose(t)
  <2>1. CASE call[t].kind # "compact" /\ usingFallback /\ armed
    <3>1. /\ [call[t] EXCEPT !.step = "claim"] \in CallOf
          /\ CallOK([call[t] EXCEPT !.step = "claim"])
          /\ [call[t] EXCEPT !.step = "claim"].step = "claim"
          /\ [call[t] EXCEPT !.step = "claim"].closed = call[t].closed
      BY <1>2, <1>a DEF Choose, CallOK, CallFits, CallOf
    <3> QED BY <1>2, <2>1, <3>1, <1>a DEF Choose, Moves, RestTypes, clientVars, tokenVars
  <2>2. CASE ~(call[t].kind # "compact" /\ usingFallback /\ armed)
    <3>1. PICK via \in {"account", "key"} : call' = [call EXCEPT ![t] = Serve(call[t], via)]
      BY <1>2, <2>2 DEF Choose
    <3>2. /\ CallOK(Serve(call[t], via)) /\ Serve(call[t], via).step # "refreshing"
          /\ Serve(call[t], via).closed = call[t].closed
      BY <1>2, <1>a, ServeOK DEF Choose
    <3>3. Moves(t) BY <3>1, <3>2 DEF Moves
    <3> QED BY <1>2, <3>3, <1>a DEF Choose, RestTypes, clientVars, tokenVars
  <2> QED BY <2>1, <2>2
<1>3. CASE Claim(t)
  <2> DEFINE q == [call[t] EXCEPT !.probe = TRUE]
  <2>1. CallOK(q) /\ q.step = "claim" /\ q.closed = call[t].closed
    BY <1>3, <1>a DEF Claim, CallOK, CallFits, CallOf
  <2>2. call' = [call EXCEPT ![t] = Serve(q, "account")] BY <1>3 DEF Claim
  <2> HIDE DEF q
  <2>3. /\ CallOK(Serve(q, "account")) /\ Serve(q, "account").step # "refreshing"
        /\ Serve(q, "account").closed = call[t].closed
    BY <2>1, ServeOK
  <2>4. Moves(t) BY <2>2, <2>3 DEF Moves
  <2> QED BY <1>3, <2>4, <1>a DEF Claim, RestTypes, tokenVars
<1>4. CASE SendKey(t)
  <2>1. Moves(t) /\ usingFallback' \in BOOLEAN /\ armed' \in BOOLEAN
    <3>1. ASSUME NEW limit \in BOOLEAN, Fails(t, limit) PROVE Moves(t) /\ usingFallback' \in BOOLEAN /\ armed' \in BOOLEAN
      BY <3>1, <1>a, FailsOK
    <3>2. CASE /\ call' = [call EXCEPT ![t].step = "read", ![t].attempt = @ + 1, ![t].sent = 0]
               /\ UNCHANGED <<usingFallback, armed>>
      <4>1. Moves(t) BY <1>4, <3>2, <1>a, OpensOK DEF SendKey
      <4> QED BY <3>2, <4>1, <1>a DEF RestTypes
    <3> QED BY <1>4, <3>1, <3>2 DEF SendKey, Exchange
  <2> QED BY <1>4, <2>1, <1>a DEF SendKey, RestTypes, tokenVars
<1>5. CASE CompactEnds(t)
  <2>1. Moves(t) BY <1>5, <1>a, NoCallOK DEF CompactEnds, Moves
  <2> QED BY <1>5, <2>1, <1>a DEF CompactEnds, RestTypes, clientVars, tokenVars
<1>6. CASE Piece(t)
  <2>1. Moves(t) BY <1>6, <1>a, PieceOK
  <2> QED BY <1>6, <2>1, <1>a DEF Piece, Restores, RestTypes, tokenVars
<1>7. CASE FailedEvent(t)
  <2>1. Moves(t) BY <1>7, <1>a, CallerFailsOK DEF FailedEvent
  <2> QED BY <1>7, <2>1, <1>a DEF FailedEvent, Restores, RestTypes, tokenVars
<1>8. CASE ReadFails(t)
  <2>1. Moves(t) /\ usingFallback' \in BOOLEAN /\ armed' \in BOOLEAN
    BY <1>8, <1>a, FailsOK DEF ReadFails
  <2> QED BY <1>8, <2>1, <1>a DEF ReadFails, RestTypes, tokenVars
<1>9. CASE ReadEnds(t)
  <2>1. Moves(t) BY <1>9, <1>a, NoCallOK DEF ReadEnds, Moves
  <2> QED BY <1>9, <2>1, <1>a DEF ReadEnds, Restores, RestTypes, tokenVars
<1> QED BY <1>1, <1>2, <1>3, <1>4, <1>5, <1>6, <1>7, <1>8, <1>9 DEF CallStep

\* the token steps leave the calls alone
LEMMA StillKeeps ==
  ASSUME IInv, cfg' = cfg, UNCHANGED <<clientVars, call, calls, stopped, closers, stops>>
  PROVE  RestTypes' /\ CallsOK'
<1>1. RestTypes /\ CallsOK /\ CallOf' = CallOf BY Groups DEF CallOf
<1>2. RestTypes' BY <1>1 DEF RestTypes, clientVars
<1>3. CallsOK' BY <1>1 DEF CallsOK, CallOK, CallFits
<1> QED BY <1>2, <1>3

\* what leaves the tokens alone keeps what is said of them
LEMMA TokensStill ==
  ASSUME TokenInv, UNCHANGED tokenVars
  PROVE  TokenInv'
BY DEF tokenVars, TokenInv, TokenTypeOK, Issued, OnlyCopy, Alone, Asks, Bringing, Writing, LoginWrites,
   TokenKept

\* The end of the process leaves no call and no refresh of its threads.
LEMMA RestartKeeps ==
  ASSUME IInv, Restart
  PROVE  IInv' /\ \A u \in Requesters : ~call'[u].closed
<1>a. TokenInv /\ RestTypes /\ CallsOK /\ OneRefresh /\ TypeOK BY Groups DEF IInv
<1>b. cfg' = cfg /\ visit' = visit /\ calls' = calls /\ stops' = stops /\ visits' = visits
  BY DEF Restart, TokensCrash
<1>1. TokenInv'
  <2>1. /\ snapshot' \in [Holders -> Tokens]
        /\ \A h \in Holders : snapshot'[h] = snapshot[h] \/ (authFile \in Tokens /\ snapshot'[h] = authFile)
    BY <1>a, Names DEF Restart, TokenInv, TokenTypeOK
  <2>2. TokensCrash(Requesters) /\ Requesters \in SUBSET Writers /\ visit' \in Visits
    BY <1>a, <1>b, Names DEF Restart, TokenInv, TokenTypeOK
  <2> QED BY <2>1, <2>2, <1>a, <1>b, CrashKeeps
<1>2. RestTypes'
  BY <1>a, <1>b DEF Restart, RestTypes, Built
<1>3. /\ call' = [t \in Requesters |-> NoCall]
      /\ \A u \in Requesters : CallOK(call'[u]) /\ ~call'[u].closed
  BY <1>a, NoCallOK DEF Restart
<1>4. CallsOK'
  <2>1. CallOf' = CallOf BY <1>b DEF CallOf
  <2> QED BY <1>3, <2>1 DEF CallsOK, CallOK, CallFits
<1>5. OneRefresh'
  <2>1. /\ \A t \in Requesters : refresh'[t] = Idle
        /\ refresh'[Status] = refresh[Status]
    BY <1>a, Names DEF Restart, TokensCrash, TokenInv, TokenTypeOK
  <2> QED BY <2>1, <1>a, <1>b DEF OneRefresh, Idle
<1> QED BY <1>1, <1>2, <1>3, <1>4, <1>5, Groups

\* what a refresh is asked for in the visit's own turn, the token steps keep
LEMMA VisitStep ==
  ASSUME TokenInv, OneRefresh, TokenStep, call' = call
  PROVE  OneRefresh'
<1>a. /\ refresh \in [Writers -> Refreshes] /\ \A w \in Writers : refresh[w].step \in
           {"none", "ask", "open", "fill", "load", "done", "failed", "raised"}
  BY DEF TokenInv, TokenTypeOK, Refreshes
<1>1. ASSUME NEW w \in Writers, AskServer(w) \/ OpenFile(w) \/ FillFile(w) \/ LoadFile(w)
      PROVE  OneRefresh'
  <2>1. /\ refresh[w].step # "none" /\ visit' = visit
        /\ \A v \in Writers \ {w} : refresh'[v].step = refresh[v].step
    <3>1. CASE AskServer(w) BY <1>a, <3>1 DEF AskServer
    <3>2. CASE OpenFile(w) BY <1>a, <3>2 DEF OpenFile
    <3>3. CASE FillFile(w) BY <1>a, <3>3 DEF FillFile, Refreshes
    <3>4. CASE LoadFile(w) BY <1>a, <3>4 DEF LoadFile
    <3> QED BY <1>1, <3>1, <3>2, <3>3, <3>4
  <2> QED BY <2>1, Names DEF OneRefresh
<1>2. CASE LogIn
  <2>1. visit' = visit /\ \A v \in Writers \ {Login} : refresh'[v] = refresh[v]
    BY <1>2, <1>a DEF LogIn, LogInTokens, LogInKey
  <2> QED BY <2>1, Names DEF OneRefresh
<1>3. CASE StartVisit BY <1>3 DEF StartVisit, OneRefresh
<1>4. CASE CheckVisit
  <2>1. /\ refresh[Status].step = "none"
        /\ \A v \in Writers \ {Status} : refresh'[v] = refresh[v]
        /\ refresh' = refresh \/ visit' \in {"renewing", "renewed"}
    BY <1>4, <1>a DEF CheckVisit, VisitRefreshes, OneRefresh
  <2> QED BY <2>1, Names DEF OneRefresh
<1>5. CASE VisitRefreshed
  <2>1. refresh'[Status] = Idle /\ \A v \in Writers \ {Status} : refresh'[v] = refresh[v]
    BY <1>5, <1>a, Names DEF VisitRefreshed
  <2> QED BY <2>1, Names DEF OneRefresh, Idle
<1>6. CASE StatusEnds
  <2>1. refresh'[Status] = Idle /\ \A v \in Writers \ {Status} : refresh'[v] = refresh[v]
    BY <1>6, <1>a, Names DEF StatusEnds, TokensCrash
  <2> QED BY <2>1, Names DEF OneRefresh, Idle
<1>7. ASSUME NEW n \in 1..MaxTokens, Expire(n) PROVE OneRefresh'
  BY <1>7 DEF Expire, OneRefresh
<1> QED BY <1>1, <1>2, <1>3, <1>4, <1>5, <1>6, <1>7 DEF TokenStep

\* No step ends what IInv says, and none closes a response but Close.
LEMMA Step ==
  ASSUME IInv, [Next]_vars
  PROVE  IInv' /\ \A u \in Requesters : call'[u].closed /\ ~call[u].closed => u \in closers
<1>a. TokenInv /\ RestTypes /\ CallsOK /\ OneRefresh /\ TypeOK BY Groups DEF IInv
<1>b. cfg.stops \in Nat /\ cfg.retries \in Nat BY <1>a, Bounds DEF TypeOK, TokenTypeOK
<1> USE DEF tokenVars
<1>1. CASE UNCHANGED vars
  <2>1. UNCHANGED tokenVars /\ UNCHANGED <<clientVars, call, calls, stopped, closers, stops>>
    BY <1>1 DEF vars
  <2>2. TokenInv' BY <1>a, <2>1, TokensStill
  <2>3. RestTypes' /\ CallsOK' BY <2>1, StillKeeps
  <2>4. OneRefresh' BY <1>a, <2>1 DEF OneRefresh
  <2> QED BY <2>1, <2>2, <2>3, <2>4, Groups
<1>2. CASE TokenStep /\ UNCHANGED <<clientVars, call, calls, stopped, closers, stops>>
  <2>1. TokenInv' /\ cfg' = cfg BY <1>a, <1>2, TokenStepKeeps
  <2>2. RestTypes' /\ CallsOK' BY <1>2, <2>1, StillKeeps
  <2>3. OneRefresh' BY <1>a, <1>2, VisitStep
  <2> QED BY <1>2, <2>1, <2>2, <2>3, Groups
<1>3. ASSUME NEW t \in Requesters, CallStep(t)
      PROVE  IInv' /\ \A u \in Requesters : call'[u].closed /\ ~call[u].closed => u \in closers
  <2>1. Moves(t) /\ call[t].step # "refreshing" /\ UNCHANGED tokenVars /\ RestTypes'
    BY <1>3, CallStepMoves
  <2>2. TokenInv' BY <1>a, <2>1, TokensStill
  <2>3. CallsOK' /\ OneRefresh' /\ \A u \in Requesters : call'[u].closed => call[u].closed
    BY <2>1, MovesKeeps
  <2> QED BY <2>1, <2>2, <2>3, Groups
<1>4. ASSUME NEW t \in Requesters, Headers(t)
      PROVE  IInv' /\ \A u \in Requesters : call'[u].closed /\ ~call[u].closed => u \in closers
  <2>1. /\ call[t].step = "headers"
        /\ UNCHANGED <<cfg, issued, spent, expired, authFile, snapshot, visit, visits, logins,
                       faults, lost, clientVars, calls, stopped, closers, stops>>
    BY <1>4 DEF Headers
  <2>2. RestTypes' BY <2>1, <1>a DEF RestTypes, clientVars
  <2>3. ~Writing(t) /\ t \in Writers \ {Login} BY <2>1, <1>a, Names DEF Writing, OneRefresh
  <2>4. CASE /\ refresh' = [refresh EXCEPT ![t] = Asking(t)]
             /\ call' = [call EXCEPT ![t].step = "refreshing", ![t].why = "stale"]
    <3>1. TokenInv' BY <2>1, <2>3, <2>4, <1>a, AskKeeps DEF TokenInv, TokenTypeOK
    <3>2. CallsOK' /\ OneRefresh' /\ \A u \in Requesters : call'[u].closed => call[u].closed
      BY <2>1, <2>4, AsksKeeps
    <3> QED BY <2>2, <3>1, <3>2, Groups
  <2>5. CASE call' = [call EXCEPT ![t] = Bearing(call[t])] /\ UNCHANGED refresh
    <3>1. TokenInv' BY <2>1, <2>5, <1>a, TokensStill
    <3>2. /\ CallOK(Bearing(call[t])) /\ Bearing(call[t]).step = "send"
          /\ Bearing(call[t]).closed = call[t].closed
      BY <2>1, <1>a, BearingOK DEF CallsOK
    <3>m. Moves(t) BY <2>5, <3>2 DEF Moves
    <3>3. CallsOK' /\ OneRefresh' /\ \A u \in Requesters : call'[u].closed => call[u].closed
      BY <2>1, <2>5, <3>m, MovesKeeps
    <3> QED BY <2>2, <3>1, <3>3, Groups
  <2> QED BY <1>4, <2>4, <2>5 DEF Headers
<1>5. ASSUME NEW t \in Requesters, Refreshed(t)
      PROVE  IInv' /\ \A u \in Requesters : call'[u].closed /\ ~call[u].closed => u \in closers
  <2>1. /\ call[t].step = "refreshing" /\ RefreshReturned(t) /\ client' = client
        /\ refresh' = [refresh EXCEPT ![t] = Idle]
        /\ UNCHANGED <<cfg, issued, spent, expired, authFile, snapshot, visit, visits, logins,
                       faults, lost, calls, stopped, closers, stops>>
    BY <1>5 DEF Refreshed, clientVars
  <2>2. TokenInv' BY <2>1, <1>a, Names, SettleKeeps DEF TokenInv, TokenTypeOK
  <2>3. Moves(t) /\ usingFallback' \in BOOLEAN /\ armed' \in BOOLEAN
    <3>1. ASSUME NEW limit \in BOOLEAN, Fails(t, limit) PROVE Moves(t) /\ usingFallback' \in BOOLEAN /\ armed' \in BOOLEAN
      BY <3>1, <1>a, FailsOK DEF CallsOK
    <3>2. CASE /\ call' = [call EXCEPT ![t] =
                    IF call[t].why = "refused" /\ call[t].kind # "compact"
                    THEN [call[t] EXCEPT !.step = "headers", !.fresh = FALSE]
                    ELSE [Bearing(call[t]) EXCEPT !.fresh = @ /\ call[t].why = "stale"]]
               /\ UNCHANGED clientVars
      <4>1. CASE call[t].why = "refused" /\ call[t].kind # "compact"
        <5> DEFINE r == [call[t] EXCEPT !.step = "headers", !.fresh = FALSE]
        <5>1. CallOK(r) /\ r.step = "headers" /\ r.closed = call[t].closed
          BY <1>a, <2>1, RestartedOK DEF CallsOK
        <5>2. call' = [call EXCEPT ![t] = r] BY <3>2, <4>1
        <5> QED BY <5>1, <5>2, <3>2, <1>a DEF Moves, RestTypes, clientVars
      <4>2. CASE ~(call[t].why = "refused" /\ call[t].kind # "compact")
        <5> DEFINE q == Bearing(call[t])
                   r == [q EXCEPT !.fresh = q.fresh /\ call[t].why = "stale"]
        <5>1. CallOK(q) /\ q.step = "send" /\ q.closed = call[t].closed
          BY <1>a, <2>1, BearingOK DEF CallsOK
        <5>2. CallOK(r) /\ r.step = "send" /\ r.closed = call[t].closed
          <6> HIDE DEF q
          <6>1. (q.fresh /\ call[t].why = "stale") \in BOOLEAN OBVIOUS
          <6> QED BY <5>1, <6>1, ZenonT(60) DEF CallOK, CallFits, CallOf
        <5>3. call' = [call EXCEPT ![t] = r] BY <3>2, <4>2
        <5> QED BY <5>2, <5>3, <3>2, <1>a DEF Moves, RestTypes, clientVars
      <4> QED BY <4>1, <4>2
    <3> QED BY <1>5, <3>1, <3>2 DEF Refreshed
  <2>4. RestTypes' BY <2>1, <2>3, <1>a DEF RestTypes
  <2>5. CallsOK' /\ OneRefresh' /\ \A u \in Requesters : call'[u].closed => call[u].closed
    BY <2>1, <2>3, MovesKeeps
  <2> QED BY <2>2, <2>4, <2>5, Groups
<1>6. ASSUME NEW t \in Requesters, SendAccount(t)
      PROVE  IInv' /\ \A u \in Requesters : call'[u].closed /\ ~call[u].closed => u \in closers
  <2>1. /\ call[t].step = "send"
        /\ UNCHANGED <<cfg, issued, spent, expired, authFile, snapshot, visit, visits, logins,
                       faults, lost, client, calls, stopped, closers, stops>>
    BY <1>6 DEF SendAccount, clientVars
  <2>2. ~Writing(t) /\ t \in Writers \ {Login} BY <2>1, <1>a, Names DEF Writing, OneRefresh
  <2>3. CASE /\ refresh' = [refresh EXCEPT ![t] = Asking(t)]
             /\ call' = [call EXCEPT ![t].step = "refreshing", ![t].why = "refused"]
             /\ UNCHANGED clientVars
    <3>1. TokenInv' BY <2>1, <2>2, <2>3, <1>a, AskKeeps DEF TokenInv, TokenTypeOK
    <3>2. CallsOK' /\ OneRefresh' /\ \A u \in Requesters : call'[u].closed => call[u].closed
      BY <2>1, <2>3, AsksKeeps
    <3>3. RestTypes' BY <2>1, <2>3, <1>a DEF RestTypes, clientVars
    <3> QED BY <3>1, <3>2, <3>3, Groups
  <2>4. CASE Exchange(t) /\ UNCHANGED refresh
    <3>1. TokenInv' BY <2>1, <2>4, <1>a, TokensStill
    <3>2. Moves(t) /\ usingFallback' \in BOOLEAN /\ armed' \in BOOLEAN
      <4>1. ASSUME NEW limit \in BOOLEAN, Fails(t, limit)
            PROVE  Moves(t) /\ usingFallback' \in BOOLEAN /\ armed' \in BOOLEAN
        BY <4>1, <1>a, FailsOK DEF CallsOK
      <4>2. CASE /\ call' = [call EXCEPT ![t].step = "read", ![t].attempt = @ + 1, ![t].sent = 0]
                 /\ UNCHANGED <<usingFallback, armed>>
        <5>1. Moves(t) BY <2>1, <4>2, <1>a, OpensOK
        <5> QED BY <4>2, <5>1, <1>a DEF RestTypes
      <4> QED BY <2>4, <4>1, <4>2 DEF Exchange
    <3>3. RestTypes' BY <2>1, <3>2, <1>a DEF RestTypes
    <3>4. CallsOK' /\ OneRefresh' /\ \A u \in Requesters : call'[u].closed => call[u].closed
      BY <2>1, <2>4, <3>2, MovesKeeps
    <3> QED BY <3>1, <3>3, <3>4, Groups
  <2> QED BY <1>6, <2>3, <2>4 DEF SendAccount
<1>7. ASSUME NEW t \in Requesters, Interrupt(t)
      PROVE  IInv' /\ \A u \in Requesters : call'[u].closed /\ ~call[u].closed => u \in closers
  <2>1. UNCHANGED <<tokenVars, clientVars, call, calls>> BY <1>7 DEF Interrupt
  <2>2. TokenInv' BY <2>1, <1>a, TokensStill
  <2>3. RestTypes' BY <1>7, <1>a, <1>b DEF Interrupt, RestTypes, clientVars
  <2>4. CallsOK' BY <2>1, <1>a DEF CallsOK, CallOK, CallFits, CallOf
  <2>5. OneRefresh' BY <2>1, <1>a DEF OneRefresh
  <2> QED BY <2>1, <2>2, <2>3, <2>4, <2>5, Groups
<1>8. ASSUME NEW t \in Requesters, Close(t)
      PROVE  IInv' /\ \A u \in Requesters : call'[u].closed /\ ~call[u].closed => u \in closers
  <2>1. UNCHANGED <<tokenVars, clientVars, calls, stopped, stops>> /\ t \in closers /\ closers' = closers \ {t}
    BY <1>8 DEF Close
  <2>2. TokenInv' BY <2>1, <1>a, TokensStill
  <2>3. RestTypes' BY <2>1, <1>a DEF RestTypes, clientVars
  <2>4. \A u \in Requesters : /\ call'[u] = IF u \in OpenOf(t) THEN [call[u] EXCEPT !.closed = TRUE] ELSE call[u]
                              /\ u \in OpenOf(t) => u = t
    BY <1>8 DEF Close, OpenOf
  <2>5. \A u \in Requesters : CallOK(call'[u]) /\ call'[u].step = call[u].step
    BY <2>4, <1>a, ClosedOK DEF CallsOK
  <2>6. CallsOK'
    <3>1. CallOf' = CallOf /\ call' = [u \in Requesters |-> call'[u]] BY <2>1, <1>8 DEF CallOf, Close
    <3> QED BY <2>5, <3>1 DEF CallsOK, CallOK, CallFits
  <2>7. OneRefresh' BY <2>1, <2>5, <1>a DEF OneRefresh
  <2> QED BY <2>1, <2>2, <2>3, <2>4, <2>6, <2>7, Groups
<1>9. CASE Restart BY <1>9, RestartKeeps
<1> QED BY <1>1, <1>2, <1>3, <1>4, <1>5, <1>6, <1>7, <1>8, <1>9 DEF Next, CallStep

\* In the beginning the file, the snapshots and the server agree on one pair, and
\* there is no call.
LEMMA Start == Init => IInv
<1> SUFFICES ASSUME Init PROVE IInv OBVIOUS
<1>1. TokenTypeOK
  <2>1. 0 \in 0..cfg.visits /\ 0 \in 0..cfg.logins /\ 0 \in 0..cfg.faults /\ 1 \in 1..MaxTokens
    BY Bounds, Names DEF Init, TokenInit
  <2>2. Idle \in Refreshes /\ Pair(1) \in Tokens BY <2>1, Names
  <2> QED BY <2>1, <2>2 DEF Init, TokenInit, TokenTypeOK, Visits
<1>2. RestTypes
  <2>1. 0 \in 0..cfg.calls /\ 0 \in 0..cfg.stops BY Bounds DEF Init, TokenInit
  <2> QED BY <2>1 DEF Init, RestTypes, Built
<1>3. CallsOK /\ TypeOK
  <2>1. cfg.retries \in Nat /\ MaxTokens \in Nat \ {0} /\ MaxPieces \in Nat
    BY Bounds, Names, TransportsAssumption DEF Init, TokenInit
  <2>2. CallOK(NoCall)
    BY <2>1, EmptySeq DEF CallOK, NoCall, CallOf, CallFits
  <2>3. call = [t \in Requesters |-> NoCall] BY DEF Init
  <2>4. CallsOK BY <2>2, <2>3 DEF CallsOK
  <2> QED BY <1>1, <1>2, <2>2, <2>3, <2>4 DEF TypeOK, RestTypes, CallOK
<1>4. \A w \in Writers : refresh[w].step = "none" BY DEF Init, TokenInit, Idle
<1>5. TokenInv
  <2>1. Issued BY <1>4, Names DEF Init, TokenInit, Issued, Asks, Bringing, Writing, Pair
  <2>2. OnlyCopy BY <1>4 DEF OnlyCopy, Bringing, Writing
  <2>3. LoginWrites BY <1>4, Names DEF LoginWrites
  <2>4. TokenKept BY DEF Init, TokenInit, TokenKept
  <2> QED BY <1>1, <2>1, <2>2, <2>3, <2>4 DEF TokenInv
<1>6. OneRefresh BY <1>4, Names DEF OneRefresh
<1> QED BY <1>2, <1>3, <1>5, <1>6, Groups

-----------------------------------------------------------------------------
(* What follows for every behaviour.                                       *)

\* The inductive invariant holds in every reachable state.
LEMMA IInvAlways == Spec => []IInv
<1>1. IInv /\ [Next]_vars => IInv' BY Step
<1> QED BY Start, <1>1, PTL DEF Spec

\* The state of the client, its calls and the tokens keeps its type, and no more
\* than two responses are opened for a call.
THEOREM TypeCorrect == Spec => []TypeOK
<1>1. IInv => TypeOK BY DEF IInv
<1> QED BY IInvAlways, <1>1, PTL

\* However many threads and processes refresh the tokens or log in at once, an
\* auth.json that can be read holds a refresh token that was not used, unless its
\* refresh is about to write the file or was lost on its way (refresh_chatgpt_auth).
THEOREM TokenIsKept == Spec => []TokenKept
<1>1. IInv => TokenKept BY DEF IInv, TokenInv
<1> QED BY IInvAlways, <1>1, PTL

\* However often a request is refreshed, retried and handed over, what its caller
\* has is the beginning of one response (FallbackModelClient.stream, create).
THEOREM NothingMixed == Spec => []OneResponse
<1>1. IInv => OneResponse BY DEF IInv
<1> QED BY IInvAlways, <1>1, PTL

\* No interrupt closes the response of a session that it was not meant for
\* (_close_active_responses).
THEOREM CancelsOwn == Spec => CancelIsOwn
<1>1. IInv /\ [Next]_vars => [\A t \in Requesters : call'[t].closed /\ ~call[t].closed => t \in closers]_vars
  BY Step
<1> QED BY IInvAlways, <1>1, PTL DEF Spec, CancelIsOwn
=============================================================================
