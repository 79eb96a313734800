------------------------------ MODULE ApiToken ------------------------------
(***************************************************************************)
(* The access token of the PSA api (psa/oauth.py and api, _refresh_api_token*)
(* of psacc/application/psa_client.py), shared by the threads that call the *)
(* api: the refresh, the pages, the remote control.                         *)
(*                                                                         *)
(* The token is in two places: the manager, that renews it with a refresh   *)
(* token PSA replaces each time, and api_config, from which each request of *)
(* the generated client takes it.  A call copies the first to the second,   *)
(* is sent, and when it is answered Unauthorized renews the token, under    *)
(* rate_limit, and is sent once more.  The requests the manager makes itself*)
(* (get and post) renew it without rate_limit.                              *)
(*                                                                         *)
(* A pair of tokens is known by its number.  A reading of an attribute and  *)
(* the writing of another are two steps.                                    *)
(***************************************************************************)
EXTENDS RateLimit

CONSTANTS Others,    \* the requests the manager makes itself
          MaxExpires \* bound: the times a token expires

ASSUME TokenAssumption ==
    /\ Others \cap Calls = {}
    /\ MaxExpires \in Nat

VARIABLES
    psa,     \* PSA: the last pair, whether its access token has expired, how many
             \* did, and whether an answer with a pair was lost (external)
    manager, \* the pair the manager holds
    config,  \* api_config.access_token
    at,      \* where each request is
    tok,     \* the pair a request has read, or was answered
    alone    \* history: the calls no other request has run beside

tokenVars == <<psa, manager, config, at, tok, alone>>
allVars == <<permits, state, age, timer, psa, manager, config, at, tok, alone>>

Requests == Calls \cup Others

\* The steps at which a request runs.
Active == {"fill", "send", "unauthorized", "post", "answer", "store", "finish", "deny",
           "reload", "refill", "resend"}

TokenTypeOK ==
    /\ psa \in [last: Nat, expired: BOOLEAN, expires: Nat, lost: BOOLEAN]
    /\ manager \in [access: Nat, refresh: Nat]
    /\ config \in Nat
    /\ at \in [Requests -> Active \cup {"idle", "done", "failed", "limited"}]
    /\ tok \in [Requests -> Nat]
    /\ alone \subseteq Calls

TokenInit ==
    /\ Init
    /\ psa = [last |-> 0, expired |-> FALSE, expires |-> 0, lost |-> FALSE]
    /\ manager = [access |-> 0, refresh |-> 0]
    /\ config = 0
    /\ at = [r \in Requests |-> "idle"]
    /\ tok = [r \in Requests |-> 0]
    /\ alone = {}

Running == {r \in Requests : at[r] \in Active}

Goto(r, place) == at' = [at EXCEPT ![r] = place]

Valid(access) == access = psa.last /\ ~psa.expired

\* A request begins: those that run aren't alone any more.
BesideOthers(r) == alone' = IF Running = {} THEN {r} \cap Calls ELSE {}

Expire ==
    /\ ~psa.expired
    /\ psa.expires < MaxExpires
    /\ psa' = [psa EXCEPT !.expired = TRUE, !.expires = @ + 1]
    /\ alone' = {c \in alone : at[c] \in {"idle", "fill", "send"}}
    /\ UNCHANGED <<permits, state, age, timer, manager, config, at, tok>>

-----------------------------------------------------------------------------
(* A call of the api *)

\* api() reads the token of the manager,
Begin(c) ==
    /\ at[c] = "idle"
    /\ tok' = [tok EXCEPT ![c] = manager.access]
    /\ Goto(c, "fill")
    /\ BesideOthers(c)
    /\ UNCHANGED <<permits, state, age, timer, psa, manager, config>>

\* and writes it in api_config; so does _refresh_api_token before the retry.
Fill(c) ==
    /\ at[c] \in {"fill", "refill"}
    /\ config' = tok[c]
    /\ tok' = [tok EXCEPT ![c] = 0]
    /\ Goto(c, IF at[c] = "fill" THEN "send" ELSE "resend")
    /\ UNCHANGED <<permits, state, age, timer, psa, manager, alone>>

\* The request takes the token that is in api_config now.
Send(c) ==
    /\ at[c] = "send"
    /\ Goto(c, IF Valid(config) THEN "done" ELSE "unauthorized")
    /\ UNCHANGED <<permits, state, age, timer, psa, manager, config, tok, alone>>

Resend(c) ==
    /\ at[c] = "resend"
    /\ Goto(c, IF Valid(config) THEN "done" ELSE "failed")
    /\ UNCHANGED <<permits, state, age, timer, psa, manager, config, tok, alone>>

\* refresh_token_now is let through by rate_limit, or raises.
EnterRefresh(c) ==
    /\ at[c] = "unauthorized"
    /\ Start(c)
    /\ Goto(c, "post")
    /\ UNCHANGED <<psa, manager, config, tok, alone>>

RefuseRefresh(c) ==
    /\ at[c] = "unauthorized"
    /\ Refuse(c)
    /\ Goto(c, "limited")
    /\ UNCHANGED <<psa, manager, config, tok, alone>>

\* refresh_token_now ends: its timer starts, then the token is copied and the
\* call sent once more, or its error is raised.
EndRefresh(c) ==
    /\ at[c] \in {"finish", "deny"}
    /\ Finish(c)
    /\ Goto(c, IF at[c] = "finish" THEN "reload" ELSE "failed")
    /\ UNCHANGED <<psa, manager, config, tok, alone>>

\* Variant: the retry goes with the token of the first attempt.
ReloadOld(c) ==
    /\ at[c] = "reload"
    /\ tok' = [tok EXCEPT ![c] = config]
    /\ Goto(c, "refill")
    /\ UNCHANGED <<permits, state, age, timer, psa, manager, config, alone>>

Reload(c) ==
    /\ at[c] = "reload"
    /\ tok' = [tok EXCEPT ![c] = manager.access]
    /\ Goto(c, "refill")
    /\ UNCHANGED <<permits, state, age, timer, psa, manager, config, alone>>

-----------------------------------------------------------------------------
(* The renewal of the tokens, by the manager *)

\* PSA answers with a new pair, which revokes the last one.
PostGranted(r) ==
    /\ at[r] = "post"
    /\ manager.refresh = psa.last
    /\ psa' = [psa EXCEPT !.last = @ + 1, !.expired = FALSE]
    /\ tok' = [tok EXCEPT ![r] = psa.last + 1]
    /\ Goto(r, "answer")
    /\ UNCHANGED <<permits, state, age, timer, manager, config, alone>>

\* The refresh token was used already: an OAuthError.
PostDenied(r) ==
    /\ at[r] = "post"
    /\ manager.refresh # psa.last
    /\ Goto(r, "deny")
    /\ UNCHANGED <<permits, state, age, timer, psa, manager, config, tok, alone>>

\* The request doesn't reach PSA: a RequestException.
PostFails(r) ==
    /\ at[r] = "post"
    /\ Goto(r, "deny")
    /\ UNCHANGED <<permits, state, age, timer, psa, manager, config, tok, alone>>

\* It does, but its answer comes after the timeout.
PostLost(r) ==
    /\ at[r] = "post"
    /\ manager.refresh = psa.last
    /\ psa' = [psa EXCEPT !.last = @ + 1, !.expired = FALSE, !.lost = TRUE]
    /\ Goto(r, "deny")
    /\ UNCHANGED <<permits, state, age, timer, manager, config, tok, alone>>

\* Variant: only the access token is kept.
StoreNothing(r) ==
    /\ at[r] = "answer"
    /\ Goto(r, "store")
    /\ UNCHANGED <<permits, state, age, timer, psa, manager, config, tok, alone>>

\* The refresh token is stored first, then the access token.
StoreRefresh(r) ==
    /\ at[r] = "answer"
    /\ manager' = [manager EXCEPT !.refresh = tok[r]]
    /\ Goto(r, "store")
    /\ UNCHANGED <<permits, state, age, timer, psa, config, tok, alone>>

StoreAccess(r) ==
    /\ at[r] = "store"
    /\ manager' = [manager EXCEPT !.access = tok[r]]
    /\ tok' = [tok EXCEPT ![r] = 0]
    /\ Goto(r, "finish")
    /\ UNCHANGED <<permits, state, age, timer, psa, config, alone>>

Renew(r) ==
    \/ PostGranted(r) \/ PostDenied(r) \/ PostFails(r) \/ PostLost(r)
    \/ StoreRefresh(r) \/ StoreAccess(r)

\* A request of the manager itself goes with the token it holds.
Ask(o) ==
    /\ at[o] = "idle"
    /\ Goto(o, IF Valid(manager.access) THEN "done" ELSE "post")
    /\ BesideOthers(o)
    /\ UNCHANGED <<permits, state, age, timer, psa, manager, config, tok>>

EndAsk(o) ==
    /\ at[o] \in {"finish", "deny"}
    /\ Goto(o, IF at[o] = "finish" THEN "done" ELSE "failed")
    /\ UNCHANGED <<permits, state, age, timer, psa, manager, config, tok, alone>>

-----------------------------------------------------------------------------

Continue(c) ==
    \/ Fill(c) \/ Send(c) \/ Resend(c) \/ EnterRefresh(c) \/ RefuseRefresh(c)
    \/ Renew(c) \/ EndRefresh(c) \/ Reload(c)

TokenNext ==
    \/ \E c \in Calls : Begin(c) \/ Continue(c)
    \/ \E o \in Others : Ask(o) \/ Renew(o) \/ EndAsk(o)
    \/ Expire
    \/ \E c \in Calls : Release(c) /\ UNCHANGED tokenVars
    \/ Tick /\ UNCHANGED tokenVars

TokenSpec == TokenInit /\ [][TokenNext]_allVars

\* Time goes on, the timers fire, and a call goes on: its requests have a timeout.
TokenFairSpec ==
    /\ TokenSpec
    /\ WF_allVars(Tick /\ UNCHANGED tokenVars)
    /\ \A c \in Calls : WF_allVars(Continue(c)) /\ WF_allVars(Release(c) /\ UNCHANGED tokenVars)

-----------------------------------------------------------------------------

\* The answers on their way.
Answered == {r \in Requests : at[r] = "answer"}

\* Only an answer that comes too late loses the refresh token: threads that renew
\* it at once, one of them denied, never do.
RefreshTokenIsCurrent ==
    ~psa.lost => IF Answered = {} THEN manager.refresh = psa.last
                 ELSE \A r \in Answered : tok[r] = psa.last

\* _refresh_api_token: "Renews the expired access token for the api calls, the one
\* being retried included": a call that renewed the token isn't refused again,
\* unless another ran beside it or the new token expired too.
LoneCallIsAnswered ==
    \A c \in alone : at[c] = "failed" => manager.access # psa.last \/ psa.expired

\* Of the inductive invariant: while no answer was lost at most one is on its way,
\* and the manager holds the token PSA expects but while it is.
OneAnswer ==
    ~psa.lost =>
        /\ Answered = {} => manager.refresh = psa.last
        /\ \A r \in Answered : tok[r] = psa.last /\ manager.refresh # psa.last
        /\ \A r, q \in Answered : r = q

\* What a call that is alone knows at each step.
Knows(c) ==
    LET fresh(access) == access = psa.last /\ ~psa.expired
    IN  /\ at[c] = "fill" => tok[c] = manager.access
        /\ at[c] = "send" => config = manager.access
        /\ at[c] \in {"unauthorized", "post", "deny", "failed"} => ~fresh(manager.access)
        /\ at[c] \in {"answer", "store", "refill"} => fresh(tok[c])
        /\ at[c] \in {"finish", "reload"} => fresh(manager.access)
        /\ at[c] = "resend" => fresh(config)

TokenInv ==
    /\ TokenTypeOK
    /\ OneAnswer
    /\ manager.access <= psa.last /\ \A r \in Requests : tok[r] <= psa.last
    /\ \A c \in alone : Running \subseteq {c} /\ Knows(c)
=============================================================================
