------------------------------- MODULE Tokens -------------------------------
(***************************************************************************)
(* The ChatGPT tokens (src/volley/auth.py): auth.json, the snapshots of it *)
(* that processes hold, and everyone who refreshes them.  A refresh asks   *)
(* the server, empties the file, fills it and reads it again: four steps   *)
(* that nothing keeps another process from interleaving with.              *)
(*                                                                         *)
(* A token is its number: the server (external) issues access and refresh  *)
(* token n together and a refresh spends the refresh token it is asked     *)
(* with.  What a file holds besides the tokens is left out.                *)
(***************************************************************************)
EXTENDS Naturals

CONSTANTS
  Requesters,    \* threads of the client's process that make requests
  MaxTokens,     \* bound: pairs of tokens issued
  Settings,      \* of a run: whether access tokens are JWTs that name their expiry
                 \* (jwt), and bounds on the access tokens that expire (expiries),
                 \* the logins, the readings of the rate limits (visits), and the
                 \* failures of the network and ends of processes (faults)
  KeyOnly,       \* an auth.json with an API key and no tokens
  Torn           \* an empty or half written auth.json

Status == "status"            \* a process that reads the rate limits
Login == "login"              \* a process that logs in
Writers == Requesters \cup {Status, Login}
Holders == {"client", Status}
HolderOf(w) == IF w \in Requesters THEN "client" ELSE w

Tokens == [access : 1..MaxTokens, refresh : 1..MaxTokens]
Pair(n) == [access |-> n, refresh |-> n]

ASSUME TokensAssumption ==
  /\ MaxTokens \in Nat \ {0}
  /\ \A s \in Settings :
       s.jwt \in BOOLEAN /\ {s.expiries, s.logins, s.visits, s.faults} \subseteq Nat
  /\ {KeyOnly, Torn} \cap Tokens = {} /\ KeyOnly # Torn
  /\ {Status, Login} \cap Requesters = {}

VARIABLES
  cfg,         \* the setting, chosen once
  issued,      \* the server: pairs issued so far
  spent,       \* the server: refresh tokens that were used
  expired,     \* the server: access tokens it no longer accepts
  authFile,    \* auth.json
  snapshot,    \* what each process read of it (VolleyAuthSnapshot)
  refresh,     \* each writer's call of refresh_chatgpt_auth or of login
  visit,       \* fetch_chatgpt_rate_limits
  visits,      \* how often it was called
  logins,      \* logins so far
  faults,      \* failures so far
  lost         \* history: tokens spent by a refresh that never reached the file

tokenVars == <<cfg, issued, spent, expired, authFile, snapshot, refresh, visit, visits, logins,
               faults, lost>>

Idle == [step |-> "none", base |-> Pair(1), got |-> KeyOnly, over |-> FALSE]
Refreshes ==
  [step : {"none", "ask", "open", "fill", "load", "done", "failed", "raised"},
   base : Tokens, got : Tokens \cup {KeyOnly}, over : BOOLEAN]
Visits == {"none", "check", "renewing", "fetch", "renewed", "again"}

TokenTypeOK ==
  /\ cfg \in Settings
  /\ issued \in 1..MaxTokens
  /\ spent \subseteq 1..MaxTokens /\ expired \subseteq 1..MaxTokens /\ lost \subseteq spent
  /\ authFile \in Tokens \cup {KeyOnly, Torn}
  /\ snapshot \in [Holders -> Tokens]
  /\ refresh \in [Writers -> Refreshes]
  /\ visit \in Visits /\ visits \in 0..cfg.visits
  /\ logins \in 0..cfg.logins /\ faults \in 0..cfg.faults

TokenInit ==
  /\ cfg \in Settings
  /\ issued = 1 /\ spent = {} /\ expired = {} /\ lost = {}
  /\ authFile = Pair(1)
  /\ snapshot = [h \in Holders |-> Pair(1)]
  /\ refresh = [w \in Writers |-> Idle]
  /\ visit = "none" /\ visits = 0 /\ logins = 0 /\ faults = 0

-----------------------------------------------------------------------------
(* refresh_chatgpt_auth *)

\* A call of it: the snapshot it is given is all that it will know.
Asking(w) == [Idle EXCEPT !.step = "ask", !.base = snapshot[HolderOf(w)]]
RefreshReturned(w) == refresh[w].step \in {"done", "failed", "raised"}

\* A slip: the reply's refresh token is dropped when the file's copy is updated.
MergedAccess(base, reply) == [base EXCEPT !.access = reply.access]

\* The tokens of the reply replace those of the snapshot's copy of the file.
Merged(base, reply) == [base EXCEPT !.access = reply.access, !.refresh = reply.refresh]

\* A failure of the network, or the end of a process, is one of the bound's.
Fault == faults < cfg.faults /\ faults' = faults + 1

\* The server gives a new pair for a refresh token that it has not seen used.
Granted(w) ==
  /\ refresh[w].base.refresh \notin spent
  /\ issued < MaxTokens
  /\ issued' = issued + 1
  /\ spent' = spent \cup {refresh[w].base.refresh}

AskServer(w) ==
  /\ refresh[w].step = "ask"
  /\ \/ /\ Granted(w)
        /\ refresh' = [refresh EXCEPT ![w].step = "open",
                                      ![w].got = Merged(refresh[w].base, Pair(issued'))]
        /\ UNCHANGED <<lost, faults>>
     \* granted, but the reply is lost or cannot be read: not a RuntimeError
     \/ /\ Granted(w) /\ Fault
        /\ lost' = lost \cup {refresh[w].base.refresh}
        /\ refresh' = [refresh EXCEPT ![w].step = "raised"]
     \/ /\ refresh[w].base.refresh \in spent
        /\ refresh' = [refresh EXCEPT ![w].step = "failed"]
        /\ UNCHANGED <<issued, spent, lost, faults>>
     \/ /\ Fault                                  \* unreachable (URLError)
        /\ refresh' = [refresh EXCEPT ![w].step = "failed"]
        /\ UNCHANGED <<issued, spent, lost>>
  /\ UNCHANGED <<cfg, logins, expired, authFile, snapshot, visit, visits>>

\* write_text opens the file, which empties it ...
OpenFile(w) ==
  /\ refresh[w].step = "open"
  /\ authFile' = Torn
  /\ refresh' = [refresh EXCEPT ![w].step = "fill", ![w].over = FALSE]
  /\ UNCHANGED <<cfg, logins, issued, spent, expired, snapshot, visit, visits, faults, lost>>

\* ... and writes from its start: over what another wrote meanwhile, whose end
\* stays if it was longer.
FillFile(w) ==
  /\ refresh[w].step = "fill"
  /\ \/ authFile' = refresh[w].got
     \/ refresh[w].over /\ authFile' = Torn
  /\ refresh' = [v \in Writers |->
       IF v = w THEN IF w = Login THEN Idle ELSE [refresh[w] EXCEPT !.step = "load"]
       ELSE IF refresh[v].step = "fill" THEN [refresh[v] EXCEPT !.over = TRUE] ELSE refresh[v]]
  /\ UNCHANGED <<cfg, logins, issued, spent, expired, snapshot, visit, visits, faults, lost>>

\* load_auth_snapshot(mode="chatgpt"): what is in the file by now, or an error.
LoadFile(w) ==
  /\ refresh[w].step = "load"
  /\ IF authFile \in Tokens
     THEN /\ snapshot' = [snapshot EXCEPT ![HolderOf(w)] = authFile]
          /\ refresh' = [refresh EXCEPT ![w] = [Idle EXCEPT !.step = "done"]]
     ELSE /\ refresh' = [refresh EXCEPT ![w] = [Idle EXCEPT !.step = "failed"]]
          /\ UNCHANGED snapshot
  /\ UNCHANGED <<cfg, logins, issued, spent, expired, authFile, visit, visits, faults, lost>>

\* needs_proactive_refresh: an expiry that has passed, or tokens refreshed too
\* many days ago, which may be at any time.
MayBeStale(tokens) == IF cfg.jwt THEN tokens.access \in expired ELSE TRUE
MayBeFresh(tokens) == IF cfg.jwt THEN tokens.access \notin expired ELSE TRUE

-----------------------------------------------------------------------------
(* The other processes, and the server *)

\* save_chatgpt_tokens of a pair issued to a new login, or login_with_api_key
LogInTokens ==
  /\ issued < MaxTokens /\ issued' = issued + 1
  /\ refresh' = [refresh EXCEPT ![Login] =
       [Idle EXCEPT !.step = "open", !.got = Pair(issued'), !.base = Pair(issued')]]
LogInKey ==
  /\ refresh' = [refresh EXCEPT ![Login] = [Idle EXCEPT !.step = "open"]]
  /\ UNCHANGED issued
LogIn ==
  /\ refresh[Login].step = "none" /\ logins < cfg.logins /\ logins' = logins + 1
  /\ LogInTokens \/ LogInKey
  /\ UNCHANGED <<cfg, spent, expired, authFile, snapshot, visit, visits, faults, lost>>

\* fetch_chatgpt_rate_limits reads the file; it ends if that cannot be done.
StartVisit ==
  /\ visit = "none" /\ visits < cfg.visits /\ visits' = visits + 1
  /\ IF authFile \in Tokens
     THEN snapshot' = [snapshot EXCEPT ![Status] = authFile] /\ visit' = "check"
     ELSE UNCHANGED <<snapshot, visit>>
  /\ UNCHANGED <<cfg, logins, issued, spent, expired, authFile, refresh, faults, lost>>

\* _refresh_snapshot_if_needed, and the refresh after a 401
VisitRefreshes(from, to) ==
  /\ visit = from /\ visit' = to
  /\ refresh' = [refresh EXCEPT ![Status] = Asking(Status)]
CheckVisit ==
  /\ \/ MayBeStale(snapshot[Status]) /\ VisitRefreshes("check", "renewing")
     \/ MayBeFresh(snapshot[Status]) /\ visit = "check" /\ visit' = "fetch" /\ UNCHANGED refresh
     \/ snapshot[Status].access \in expired /\ VisitRefreshes("fetch", "renewed")
     \/ visit \in {"fetch", "again"} /\ visit' = "none" /\ UNCHANGED refresh
  /\ UNCHANGED <<cfg, logins, issued, spent, expired, authFile, snapshot, visits, faults, lost>>

\* A refresh that was due anyway may fail if no expiry says that it was needed.
VisitRefreshed ==
  /\ RefreshReturned(Status)
  /\ visit' = IF visit = "renewing"
              THEN IF \/ refresh[Status].step = "done"
                      \/ refresh[Status].step = "failed" /\ ~cfg.jwt
                   THEN "fetch" ELSE "none"
              ELSE IF refresh[Status].step = "done" THEN "again" ELSE "none"
  /\ refresh' = [refresh EXCEPT ![Status] = Idle]
  /\ UNCHANGED <<cfg, logins, issued, spent, expired, authFile, snapshot, visits, faults, lost>>

Expire(n) ==
  /\ n \in 1..issued \ expired /\ n <= cfg.expiries
  /\ expired' = expired \cup {n}
  /\ UNCHANGED <<cfg, logins, issued, spent, authFile, snapshot, refresh, visit, visits,
                 faults, lost>>

\* A process ends between two steps of its refreshes.
Dropped(ws) == {refresh[w].base.refresh : w \in {v \in ws : refresh[v].step \in {"open", "fill"}}}
TokensCrash(ws) ==
  /\ Fault
  /\ refresh' = [w \in Writers |-> IF w \in ws THEN Idle ELSE refresh[w]]
  /\ lost' = lost \cup (Dropped(ws) \cap spent)
  /\ UNCHANGED <<cfg, logins, issued, spent, expired, authFile>>
StatusEnds ==
  /\ visit # "none" /\ visit' = "none"
  /\ TokensCrash({Status})
  /\ UNCHANGED <<snapshot, visits>>

TokenStep ==
  \/ \E w \in Writers : AskServer(w) \/ OpenFile(w) \/ FillFile(w) \/ LoadFile(w)
  \/ LogIn \/ StartVisit \/ CheckVisit \/ VisitRefreshed \/ StatusEnds
  \/ \E n \in 1..MaxTokens : Expire(n)

-----------------------------------------------------------------------------
\* If auth.json can be read, the refresh token it holds can still be used, unless
\* the refresh that spent it is about to write the file or was lost on its way
\* (refresh_chatgpt_auth, save_chatgpt_tokens): whatever processes interleave,
\* the user is logged out only by a fault.
TokenKept ==
  authFile \in Tokens /\ authFile.refresh \in spent =>
    \/ authFile.refresh \in lost
    \/ \E w \in Writers \ {Login} : refresh[w].step \in {"open", "fill"}
                                    /\ refresh[w].base.refresh = authFile.refresh
=============================================================================
