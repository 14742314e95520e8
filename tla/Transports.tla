---------------------------- MODULE Transports ----------------------------
(***************************************************************************)
(* The requests that the threads of one process (a session and its agents) *)
(* make through the model client they share (src/volley/model.py): a       *)
(* ChatGPT account, an API key, or FallbackModelClient over the two, with  *)
(* the refresh of the account's tokens (Tokens) in between.                *)
(*                                                                         *)
(* A step of a thread ends at each exchange with a server and wherever it  *)
(* reads or writes what the threads share.  A response is its pieces, in   *)
(* order: what one event or another says does not matter here.             *)
(***************************************************************************)
EXTENDS Tokens, Sequences

CONSTANTS
  MaxPieces      \* bound: pieces of a response

\* A setting also says: auth_mode ("auto" or "chatgpt"), the calls that are made
\* (kinds: "stream", "create", "compact"), and bounds on the calls of each thread
\* (calls), on resolved_model_stream_max_retries (retries) and on interrupts (stops).
ASSUME TransportsAssumption ==
  /\ MaxPieces \in Nat
  /\ \A s \in Settings :
       /\ s.auth \in {"auto", "chatgpt"} /\ s.kinds \subseteq {"stream", "create", "compact"}
       /\ {s.calls, s.retries, s.stops} \subseteq Nat

VARIABLES
  client,        \* what default_model_client built; there is an API key
  usingFallback, \* _using_fallback
  armed,         \* _try_primary_next_request
  call,          \* each thread's call
  calls,         \* calls each thread has made
  stopped,       \* the _interrupt_event of each thread's session
  closers,       \* threads for which an interrupt is about to close responses
  stops          \* interrupts so far

clientVars == <<client, usingFallback, armed>>
vars == <<tokenVars, clientVars, call, calls, stopped, closers, stops>>

NoCall ==
  [kind |-> "none", step |-> "idle", via |-> "account", probe |-> FALSE, last |-> FALSE,
   fresh |-> TRUE, bearer |-> 1, why |-> "stale", attempt |-> 0, sent |-> 0, closed |-> FALSE,
   given |-> <<>>, retries |-> 0]
CallOf ==
  [kind : cfg.kinds \cup {"none"},
   step : {"idle", "choose", "claim", "headers", "refreshing", "send", "read"},
   via : {"account", "key"},   \* the client that serves it
   probe : BOOLEAN,            \* it tries the account again
   last : BOOLEAN,             \* it was sent to the fallback already
   fresh : BOOLEAN,            \* allow_refresh
   bearer : 1..MaxTokens,      \* the access token in its headers
   why : {"stale", "refused"}, \* what its refresh is for
   attempt : 0..2,             \* responses opened for it
   sent : 0..MaxPieces,        \* pieces of the last of them so far
   closed : BOOLEAN,           \* its response was closed by an interrupt
   given : Seq((1..2) \X (1..MaxPieces)),  \* the pieces its caller has, each with
                                           \* the response it is of
   retries : 0..cfg.retries]

TypeOK ==
  /\ TokenTypeOK
  /\ client \in {"auto", "account", "key"}
  /\ usingFallback \in BOOLEAN /\ armed \in BOOLEAN
  /\ call \in [Requesters -> CallOf]
  /\ calls \in [Requesters -> 0..cfg.calls]
  /\ stopped \in [Requesters -> BOOLEAN]
  /\ closers \subseteq Requesters /\ stops \in 0..cfg.stops

\* default_model_client: an auth.json without tokens, or that cannot be read, is
\* an error for "chatgpt" and leaves the API key for "auto".
Built(file) ==
  IF file \notin Tokens THEN "key" ELSE IF cfg.auth = "auto" THEN "auto" ELSE "account"

Init ==
  /\ TokenInit
  /\ client = Built(authFile)
  /\ usingFallback = FALSE /\ armed = FALSE
  /\ call = [t \in Requesters |-> NoCall]
  /\ calls = [t \in Requesters |-> 0]
  /\ stopped = [t \in Requesters |-> FALSE]
  /\ closers = {} /\ stops = 0

-----------------------------------------------------------------------------
(* A call, up to the request that is sent for it *)

\* Each client starts a request in its own way: only the account's has tokens.
FirstStep(via) == IF via = "account" THEN "headers" ELSE "send"
Serve(c, via) == [c EXCEPT !.via = via, !.step = FirstStep(via), !.fresh = TRUE]

Begun(kind, retries) ==
  IF client = "auto" THEN [NoCall EXCEPT !.kind = kind, !.step = "choose", !.retries = retries]
  ELSE Serve([NoCall EXCEPT !.kind = kind, !.retries = retries], client)

\* A turn's request, a memory stage's or a compaction's; a new turn clears the event
\* and, if it is a user's, arms the probe (retry_primary_on_next_request).
Begin(t, kind, turn) ==
  /\ call[t].step = "idle" /\ calls[t] < cfg.calls
  /\ turn => kind # "create"
  /\ calls' = [calls EXCEPT ![t] = @ + 1]
  /\ call' = [call EXCEPT ![t] = Begun(kind, 0)]
  /\ stopped' = [stopped EXCEPT ![t] = IF turn THEN FALSE ELSE @]
  /\ armed' = (armed \/ (turn /\ client = "auto" /\ usingFallback))
  /\ UNCHANGED <<tokenVars, client, usingFallback, closers, stops>>

\* FallbackModelClient: the flags are read, and written later (_should_retry_primary_once).
Choose(t) ==
  /\ call[t].step = "choose"
  /\ call' = [call EXCEPT ![t] =
       IF call[t].kind # "compact" /\ usingFallback /\ armed
       THEN [call[t] EXCEPT !.step = "claim"]
       ELSE Serve(call[t], IF usingFallback THEN "key" ELSE "account")]
  /\ UNCHANGED <<tokenVars, clientVars, calls, stopped, closers, stops>>

Claim(t) ==
  /\ call[t].step = "claim"
  /\ armed' = FALSE
  /\ call' = [call EXCEPT ![t] = Serve([call[t] EXCEPT !.probe = TRUE], "account")]
  /\ UNCHANGED <<tokenVars, client, usingFallback, calls, stopped, closers, stops>>

\* _headers: tokens that are due are refreshed first (_refresh_stale_auth).
Bearing(c) == [c EXCEPT !.step = "send", !.bearer = snapshot["client"].access]
Headers(t) ==
  /\ call[t].step = "headers"
  /\ \/ /\ MayBeStale(snapshot["client"])
        /\ refresh' = [refresh EXCEPT ![t] = Asking(t)]
        /\ call' = [call EXCEPT ![t].step = "refreshing", ![t].why = "stale"]
     \/ /\ MayBeFresh(snapshot["client"])
        /\ call' = [call EXCEPT ![t] = Bearing(call[t])]
        /\ UNCHANGED refresh
  /\ UNCHANGED <<cfg, issued, spent, expired, authFile, snapshot, visit, visits, logins,
                 faults, lost, clientVars, calls, stopped, closers, stops>>

-----------------------------------------------------------------------------
(* What its failure leads to *)

\* The caller's loop (_stream_model_output): an interrupted session stops, an error
\* that may be retried is, from the history before the request.
CallerFails(t) ==
  \/ call' = [call EXCEPT ![t] = NoCall]
  \/ /\ ~stopped[t] /\ call[t].kind = "stream" /\ call[t].retries < cfg.retries
     /\ call' = [call EXCEPT ![t] = Begun("stream", call[t].retries + 1)]

\* A slip: partial output does not keep a request from being sent again.
HandedOverAtAnyTime(c, limit) == limit /\ ~c.last /\ (c.probe \/ ~usingFallback)

\* FallbackModelClient sends it to the API key if the account's limit was met
\* before any output, and nobody switched meanwhile.
HandedOver(c, limit) ==
  limit /\ ~c.last /\ (c.probe \/ ~usingFallback) /\ (c.kind = "stream" => c.given = <<>>)

\* _switch_to_fallback, unless the request was a probe
Fails(t, limit) ==
  IF client = "auto" /\ HandedOver(call[t], limit)
  THEN /\ usingFallback' = (usingFallback \/ ~call[t].probe)
       /\ armed' = (armed /\ call[t].probe)
       /\ call' = [call EXCEPT ![t] = [Serve(call[t], "key") EXCEPT
            !.last = TRUE, !.given = IF call[t].kind = "stream" THEN @ ELSE <<>>]]
  ELSE UNCHANGED <<usingFallback, armed>> /\ CallerFails(t)

\* A refresh returns: after a refusal the request is sent once more, a compaction
\* with the new token in its old headers, a stream with headers of its own.
Refreshed(t) ==
  /\ call[t].step = "refreshing" /\ RefreshReturned(t)
  /\ \/ /\ \/ refresh[t].step = "done"
           \/ refresh[t].step = "failed" /\ call[t].why = "stale" /\ ~cfg.jwt
        /\ call' = [call EXCEPT ![t] =
             IF call[t].why = "refused" /\ call[t].kind # "compact"
             THEN [call[t] EXCEPT !.step = "headers", !.fresh = FALSE]
             ELSE [Bearing(call[t]) EXCEPT !.fresh = @ /\ call[t].why = "stale"]]
        /\ UNCHANGED clientVars
     \/ /\ \/ refresh[t].step = "raised"
           \/ refresh[t].step = "failed" /\ (call[t].why = "refused" \/ cfg.jwt)
        /\ \E limit \in BOOLEAN : Fails(t, limit)
        /\ UNCHANGED client
  /\ refresh' = [refresh EXCEPT ![t] = Idle]
  /\ UNCHANGED <<cfg, issued, spent, expired, authFile, snapshot, visit, visits, logins,
                 faults, lost, calls, stopped, closers, stops>>

-----------------------------------------------------------------------------
(* A request and its response *)

Refused(t) == call[t].via = "account" /\ call[t].bearer \in expired

\* urlopen: the server refuses the request, or answers.
Exchange(t) ==
  \/ \E limit \in BOOLEAN : Fails(t, limit)
  \/ /\ ~Refused(t)
     /\ call' = [call EXCEPT ![t].step = "read", ![t].attempt = @ + 1, ![t].sent = 0]
     /\ UNCHANGED <<usingFallback, armed>>

\* The account may also refuse the token, which is refreshed once for a request.
SendAccount(t) ==
  /\ call[t].step = "send" /\ call[t].via = "account"
  /\ IF Refused(t) /\ call[t].fresh
     THEN /\ refresh' = [refresh EXCEPT ![t] = Asking(t)]
          /\ call' = [call EXCEPT ![t].step = "refreshing", ![t].why = "refused"]
          /\ UNCHANGED clientVars
     ELSE Exchange(t) /\ UNCHANGED <<refresh, client>>
  /\ UNCHANGED <<cfg, issued, spent, expired, authFile, snapshot, visit, visits, logins,
                 faults, lost, calls, stopped, closers, stops>>

SendKey(t) ==
  /\ call[t].step = "send" /\ call[t].via = "key"
  /\ Exchange(t)
  /\ UNCHANGED <<tokenVars, client, calls, stopped, closers, stops>>

\* _restore_primary: a probe that is answered ends the use of the API key.
Restores(probe) ==
  /\ usingFallback' = (usingFallback /\ ~probe)
  /\ armed' = (armed /\ ~probe)

\* Another piece: an interrupted session does not take it (_check_interrupted).
Piece(t) ==
  LET c == call[t] IN
  /\ c.step = "read" /\ c.kind # "compact" /\ ~c.closed /\ c.sent < MaxPieces
  /\ Restores(c.probe /\ ~c.last /\ c.kind = "stream" /\ c.given = <<>>)
  /\ call' = [call EXCEPT ![t] =
       IF stopped[t] /\ c.kind = "stream" THEN NoCall
       ELSE [c EXCEPT !.sent = @ + 1, !.given = Append(@, <<c.attempt, c.sent + 1>>)]]
  /\ UNCHANGED <<tokenVars, client, calls, stopped, closers, stops>>

\* response.failed and response.incomplete are events like the others to the
\* client; it is the session that takes them for an error.
FailedEvent(t) ==
  /\ call[t].step = "read" /\ call[t].kind = "stream" /\ ~call[t].closed
  /\ Restores(call[t].probe /\ ~call[t].last /\ call[t].given = <<>>)
  /\ CallerFails(t)
  /\ UNCHANGED <<tokenVars, client, calls, stopped, closers, stops>>

\* The connection breaks, times out, or was closed by an interrupt.
ReadFails(t) ==
  /\ call[t].step = "read"
  /\ \E limit \in BOOLEAN : Fails(t, limit)
  /\ UNCHANGED <<tokenVars, client, calls, stopped, closers, stops>>

\* The response is complete, or merely ends: nobody asks for response.completed.
\* What was closed may look like that too.
ReadEnds(t) ==
  LET c == call[t] IN
  /\ c.step = "read" /\ c.kind # "compact"
  /\ Restores(c.probe /\ ~c.last /\ (c.kind = "stream" => c.given = <<>>))
  /\ call' = [call EXCEPT ![t] = NoCall]
  /\ UNCHANGED <<tokenVars, client, calls, stopped, closers, stops>>

\* The compacted history comes as one JSON object, or an error (ReadFails).
CompactEnds(t) ==
  /\ call[t].step = "read" /\ call[t].kind = "compact"
  /\ call' = [call EXCEPT ![t] = NoCall]
  /\ UNCHANGED <<tokenVars, clientVars, calls, stopped, closers, stops>>

-----------------------------------------------------------------------------
(* Interrupts, and the end of the process *)

\* VolleySession.interrupt: what closes the responses is a thread of its own, and
\* FallbackModelClient has nothing to close them with.
Interrupt(t) ==
  /\ stops < cfg.stops /\ stops' = stops + 1
  /\ stopped' = [stopped EXCEPT ![t] = TRUE]
  /\ closers' = closers \cup (IF client = "auto" THEN {} ELSE {t})
  /\ UNCHANGED <<tokenVars, clientVars, call, calls>>

\* A slip: the owner of a response is not looked at.
AnyOpen(t) == {u \in Requesters : call[u].step = "read" /\ call[u].kind # "compact"}

\* The responses registered for a thread: a compaction's is not.
OpenOf(t) == {u \in {t} : call[u].step = "read" /\ call[u].kind # "compact"}

\* _close_active_responses(owner)
Close(t) ==
  /\ t \in closers /\ closers' = closers \ {t}
  /\ call' = [u \in Requesters |->
       IF u \in OpenOf(t) THEN [call[u] EXCEPT !.closed = TRUE] ELSE call[u]]
  /\ UNCHANGED <<tokenVars, clientVars, calls, stopped, stops>>

\* The process ends and another starts, with what auth.json holds by then.
Restart ==
  /\ cfg.auth = "chatgpt" => authFile \in Tokens
  /\ client' = Built(authFile)
  /\ usingFallback' = FALSE /\ armed' = FALSE
  /\ snapshot' = [snapshot EXCEPT !["client"] = IF authFile \in Tokens THEN authFile ELSE @]
  /\ call' = [t \in Requesters |-> NoCall]
  /\ stopped' = [t \in Requesters |-> FALSE]
  /\ closers' = {}
  /\ TokensCrash(Requesters)
  /\ UNCHANGED <<calls, stops, visit, visits>>

Next ==
  \/ TokenStep /\ UNCHANGED <<clientVars, call, calls, stopped, closers, stops>>
  \/ \E t \in Requesters :
       \/ \E kind \in cfg.kinds, turn \in BOOLEAN : Begin(t, kind, turn)
       \/ Choose(t) \/ Claim(t) \/ Headers(t) \/ Refreshed(t)
       \/ SendAccount(t) \/ SendKey(t) \/ CompactEnds(t)
       \/ Piece(t) \/ FailedEvent(t) \/ ReadFails(t) \/ ReadEnds(t)
       \/ Interrupt(t) \/ Close(t)
  \/ Restart

Spec == Init /\ [][Next]_vars

-----------------------------------------------------------------------------
\* What the caller of a request has of its answer is the beginning of one response:
\* never the pieces of the account's, then those of the API key's
\* (FallbackModelClient.stream and create, "instead of mixing two partial model
\* streams in a single turn").
OneResponse ==
  \A t \in Requesters : \A i \in DOMAIN call[t].given :
    call[t].given[i] = <<call[t].attempt, i>>

\* An interrupt closes the responses of the session it was meant for and of no
\* other that shares the client (_close_active_responses, VolleySession.interrupt).
CancelIsOwn ==
  [][\A t \in Requesters : call'[t].closed /\ ~call[t].closed => t \in closers]_vars
=============================================================================
