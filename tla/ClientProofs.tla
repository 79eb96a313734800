---------------------------- MODULE ClientProofs ----------------------------
(***************************************************************************)
(* The theorems of the client of the PSA api: rate_limit keeps its promise  *)
(* for every limit, delay and set of calls; so it does under the calls of   *)
(* the api, which share and renew one token; and the loop that refreshes    *)
(* the cars never dies, however many threads start it.                      *)
(***************************************************************************)
EXTENDS ApiToken, Refresh, FiniteSetTheorems, TLAPS

USE RateAssumption

LEMMA InitIInv == Init => IInv
<1> SUFFICES ASSUME Init
             PROVE  IInv
  OBVIOUS
<1>1. Holding = {} /\ Recent = {}
  BY DEF Init, Holding, Recent, Started
<1>2. Cardinality(Holding) = 0
  BY <1>1, FS_EmptySet
<1> QED
  BY <1>1, <1>2 DEF Init, IInv, TypeOK

\* The calls are finitely many, and so are those that hold a permit.
LEMMA HoldingFinite ==
    /\ IsFiniteSet(Holding)
    /\ Cardinality(Holding) \in Nat
<1>1. Holding \subseteq Calls
  BY DEF Holding
<1> QED
  BY <1>1, FS_Subset, FS_CardinalityType

LEMMA StartIInv ==
    ASSUME IInv, NEW c \in Calls, Start(c)
    PROVE  IInv'
<1> USE DEF IInv
<1>1. TypeOK'
  BY DEF Start, TypeOK
<1>2. Holding' = Holding \cup {c} /\ c \notin Holding
  BY DEF Start, TypeOK, Holding
<1>3. Cardinality(Holding') = Cardinality(Holding) + 1
  BY <1>2, HoldingFinite, FS_AddElement
<1>4. Recent' \subseteq Holding'
  BY DEF Start, TypeOK, Recent, Started, Holding
<1> QED
  BY <1>1, <1>3, <1>4, HoldingFinite DEF Start, TypeOK

LEMMA RefuseIInv ==
    ASSUME IInv, NEW c \in Calls, Refuse(c)
    PROVE  IInv'
<1> USE DEF IInv
<1>1. Holding' = Holding /\ Recent' = Recent
  BY DEF Refuse, TypeOK, Holding, Recent, Started
<1> QED
  BY <1>1 DEF Refuse, TypeOK

LEMMA FinishIInv ==
    ASSUME IInv, NEW c \in Calls, Finish(c)
    PROVE  IInv'
<1> USE DEF IInv
<1>1. Holding' = Holding /\ Recent' = Recent
  BY DEF Finish, TypeOK, Holding, Recent, Started
<1>2. TypeOK'
  BY DEF Finish, TypeOK
<1> QED
  BY <1>1, <1>2 DEF Finish, TypeOK

\* The call let go is no longer recent: its timer ran for the whole delay.
LEMMA ReleaseIInv ==
    ASSUME IInv, NEW c \in Calls, Release(c)
    PROVE  IInv'
<1> USE DEF IInv
<1>1. TypeOK'
  BY DEF Release, TypeOK
<1>2. Holding' = Holding \ {c} /\ c \in Holding
  BY DEF Release, TypeOK, Holding
<1>3. Cardinality(Holding') = Cardinality(Holding) - 1
  BY <1>2, HoldingFinite, FS_RemoveElement
<1>4. age[c] >= Every
  BY DEF Release, TypeOK
<1>5. Recent' \subseteq Holding'
  BY <1>4 DEF Release, TypeOK, Recent, Started, Holding
<1> QED
  BY <1>1, <1>3, <1>5, HoldingFinite DEF Release, TypeOK

LEMMA TickIInv ==
    ASSUME IInv, Tick
    PROVE  IInv'
<1> USE DEF IInv
<1>1. TypeOK'
  BY DEF Tick, TypeOK
<1>2. Holding' = Holding /\ Started' = Started
  BY DEF Tick, Holding, Started
<1>3. Recent' \subseteq Recent
  BY <1>2 DEF Tick, TypeOK, Recent, Started
<1>4. \A c \in Calls : state'[c] = "cooling" => age'[c] + timer'[c] >= Every
  BY DEF Tick, TypeOK, Started
<1> QED
  BY <1>1, <1>2, <1>3, <1>4 DEF Tick

LEMMA NextIInv == IInv /\ [Next]_vars => IInv'
<1> SUFFICES ASSUME IInv, [Next]_vars
             PROVE  IInv'
  OBVIOUS
<1>1. ASSUME NEW c \in Calls, Start(c) \/ Refuse(c) \/ Finish(c) \/ Release(c)
      PROVE  IInv'
  BY <1>1, StartIInv, RefuseIInv, FinishIInv, ReleaseIInv
<1>2. CASE Tick
  BY <1>2, TickIInv
<1>3. CASE UNCHANGED vars
  BY <1>3 DEF vars, IInv, TypeOK, Holding, Recent, Started
<1> QED
  BY <1>1, <1>2, <1>3 DEF Next

\* The permits and the calls holding them balance in every reachable state.
THEOREM IInvAlways == Spec => []IInv
<1> QED
  BY InitIInv, NextIInv, PTL DEF Spec

\* The decorator lets at most `limit` calls through in any window of `every`, for
\* every limit, every delay and every finite set of calls.
THEOREM WindowBoundAlways == Spec => []WindowBound
<1>1. IInv => WindowBound
  <2> SUFFICES ASSUME IInv
               PROVE  Cardinality(Recent) <= Limit
    BY DEF WindowBound
  <2>1. Recent \subseteq Holding
    BY DEF IInv
  <2>2. Cardinality(Recent) \in Nat /\ Cardinality(Recent) <= Cardinality(Holding)
    BY <2>1, HoldingFinite, FS_Subset, FS_CardinalityType
  <2> QED
    BY <2>2, HoldingFinite DEF IInv, TypeOK
<1> QED
  BY <1>1, IInvAlways, PTL

\* A call is refused only when exactly `limit` calls hold the permits.
THEOREM RefusedOnlyWhenBusyAlways == Spec => RefusedOnlyWhenBusy
<1>1. IInv /\ [Next]_vars =>
        [\A c \in Calls :
            state[c] = "new" /\ state'[c] = "refused" => Cardinality(Holding) = Limit]_vars
  <2> SUFFICES ASSUME IInv, Next, NEW c \in Calls, state[c] = "new", state'[c] = "refused"
               PROVE  Cardinality(Holding) = Limit
    BY DEF vars
  <2>1. permits = 0
    BY DEF Next, Start, Refuse, Finish, Release, Tick, IInv, TypeOK
  <2> QED
    BY <2>1, HoldingFinite DEF IInv
<1> QED
  BY <1>1, IInvAlways, PTL DEF Spec, RefusedOnlyWhenBusy
-----------------------------------------------------------------------------
(* The token of the api *)

\* Each step of a call of the api is a step of rate_limit, or none.
LEMMA TokenStepIsRateStep == [TokenNext]_allVars => [Next]_vars
<1> SUFFICES ASSUME TokenNext
             PROVE  [Next]_vars
  BY DEF allVars, vars
<1> USE DEF vars
<1>1. ASSUME NEW c \in Calls, EnterRefresh(c) \/ RefuseRefresh(c) \/ EndRefresh(c)
      PROVE  Next
  BY <1>1 DEF EnterRefresh, RefuseRefresh, EndRefresh, Next
<1>2. ASSUME NEW c \in Calls, Begin(c) \/ Fill(c) \/ Send(c) \/ Resend(c) \/ Reload(c)
      PROVE  UNCHANGED vars
  BY <1>2 DEF Begin, Fill, Send, Resend, Reload
<1>3. ASSUME NEW r \in Requests, Renew(r)
      PROVE  UNCHANGED vars
  BY <1>3 DEF Renew, PostGranted, PostDenied, PostFails, PostLost, StoreRefresh, StoreAccess
<1>4. ASSUME NEW o \in Others, Ask(o) \/ EndAsk(o)
      PROVE  UNCHANGED vars
  BY <1>4 DEF Ask, EndAsk
<1>5. CASE Expire
  BY <1>5 DEF Expire
<1>6. CASE \E c \in Calls : Release(c) /\ UNCHANGED tokenVars
  BY <1>6 DEF Next
<1>7. CASE Tick /\ UNCHANGED tokenVars
  BY <1>7 DEF Next
<1> QED
  BY <1>1, <1>2, <1>3, <1>4, <1>5, <1>6, <1>7 DEF TokenNext, Continue, Requests

\* The calls of the api, that renew one token beside the requests of the manager,
\* implement rate_limit.
THEOREM TokenImplementsRateLimit == TokenSpec => Spec
<1>1. TokenInit => Init
  BY DEF TokenInit
<1> QED
  BY <1>1, TokenStepIsRateStep, PTL DEF TokenSpec, Spec

\* The calls of the api renew the token at most `limit` times in any window of
\* `every`.
THEOREM RefreshesInWindow == TokenSpec => []WindowBound
<1> QED
  BY TokenImplementsRateLimit, WindowBoundAlways, PTL

\* One lemma for each action of a request.
LEMMA BeginInv ==
    ASSUME TokenInv, NEW c \in Calls, Begin(c)
    PROVE  TokenInv'
<1> USE DEF TokenInv, Requests
<1>1. TokenTypeOK'
  BY DEF Begin, TokenTypeOK, Goto, BesideOthers, Active
<1>2. OneAnswer'
  BY DEF Begin, OneAnswer, Answered, TokenTypeOK, Goto, Active
<1>3. manager'.access <= psa'.last /\ \A q \in Requests : tok'[q] <= psa'.last
  BY DEF Begin, TokenTypeOK
<1>4. ASSUME NEW d \in alone'
      PROVE  Running' \subseteq {d} /\ Knows(d)'
  BY <1>4 DEF Begin, TokenTypeOK, Goto, BesideOthers, Running, Active, Knows, Valid
<1> QED
  BY <1>1, <1>2, <1>3, <1>4

LEMMA FillInv ==
    ASSUME TokenInv, NEW c \in Calls, Fill(c)
    PROVE  TokenInv'
<1> USE DEF TokenInv, Requests
<1>1. TokenTypeOK'
  BY DEF Fill, TokenTypeOK, Goto, BesideOthers, Active
<1>2. OneAnswer'
  BY DEF Fill, OneAnswer, Answered, TokenTypeOK, Goto, Active
<1>3. manager'.access <= psa'.last /\ \A q \in Requests : tok'[q] <= psa'.last
  BY DEF Fill, TokenTypeOK
<1>4. ASSUME NEW d \in alone'
      PROVE  Running' \subseteq {d} /\ Knows(d)'
  BY <1>4 DEF Fill, TokenTypeOK, Goto, BesideOthers, Running, Active, Knows, Valid
<1> QED
  BY <1>1, <1>2, <1>3, <1>4

LEMMA SendInv ==
    ASSUME TokenInv, NEW c \in Calls, Send(c)
    PROVE  TokenInv'
<1> USE DEF TokenInv, Requests
<1>1. TokenTypeOK'
  BY DEF Send, TokenTypeOK, Goto, BesideOthers, Active
<1>2. OneAnswer'
  BY DEF Send, OneAnswer, Answered, TokenTypeOK, Goto, Active
<1>3. manager'.access <= psa'.last /\ \A q \in Requests : tok'[q] <= psa'.last
  BY DEF Send, TokenTypeOK
<1>4. ASSUME NEW d \in alone'
      PROVE  Running' \subseteq {d} /\ Knows(d)'
  BY <1>4 DEF Send, TokenTypeOK, Goto, BesideOthers, Running, Active, Knows, Valid
<1> QED
  BY <1>1, <1>2, <1>3, <1>4

LEMMA ResendInv ==
    ASSUME TokenInv, NEW c \in Calls, Resend(c)
    PROVE  TokenInv'
<1> USE DEF TokenInv, Requests
<1>1. TokenTypeOK'
  BY DEF Resend, TokenTypeOK, Goto, BesideOthers, Active
<1>2. OneAnswer'
  BY DEF Resend, OneAnswer, Answered, TokenTypeOK, Goto, Active
<1>3. manager'.access <= psa'.last /\ \A q \in Requests : tok'[q] <= psa'.last
  BY DEF Resend, TokenTypeOK
<1>4. ASSUME NEW d \in alone'
      PROVE  Running' \subseteq {d} /\ Knows(d)'
  BY <1>4 DEF Resend, TokenTypeOK, Goto, BesideOthers, Running, Active, Knows, Valid
<1> QED
  BY <1>1, <1>2, <1>3, <1>4

LEMMA EnterInv ==
    ASSUME TokenInv, NEW c \in Calls, EnterRefresh(c) \/ RefuseRefresh(c)
    PROVE  TokenInv'
<1> USE DEF TokenInv, Requests
<1>1. TokenTypeOK'
  BY DEF EnterRefresh, RefuseRefresh, TokenTypeOK, Goto, BesideOthers, Active
<1>2. OneAnswer'
  BY DEF EnterRefresh, RefuseRefresh, OneAnswer, Answered, TokenTypeOK, Goto, Active
<1>3. manager'.access <= psa'.last /\ \A q \in Requests : tok'[q] <= psa'.last
  BY DEF EnterRefresh, RefuseRefresh, TokenTypeOK
<1>4. ASSUME NEW d \in alone'
      PROVE  Running' \subseteq {d} /\ Knows(d)'
  BY <1>4 DEF EnterRefresh, RefuseRefresh, TokenTypeOK, Goto, BesideOthers, Running, Active, Knows, Valid
<1> QED
  BY <1>1, <1>2, <1>3, <1>4

LEMMA EndInv ==
    ASSUME TokenInv, NEW c \in Calls, EndRefresh(c)
    PROVE  TokenInv'
<1> USE DEF TokenInv, Requests
<1>1. TokenTypeOK'
  BY DEF EndRefresh, TokenTypeOK, Goto, BesideOthers, Active
<1>2. OneAnswer'
  BY DEF EndRefresh, OneAnswer, Answered, TokenTypeOK, Goto, Active
<1>3. manager'.access <= psa'.last /\ \A q \in Requests : tok'[q] <= psa'.last
  BY DEF EndRefresh, TokenTypeOK
<1>4. ASSUME NEW d \in alone'
      PROVE  Running' \subseteq {d} /\ Knows(d)'
  BY <1>4 DEF EndRefresh, TokenTypeOK, Goto, BesideOthers, Running, Active, Knows, Valid
<1> QED
  BY <1>1, <1>2, <1>3, <1>4

LEMMA ReloadInv ==
    ASSUME TokenInv, NEW c \in Calls, Reload(c)
    PROVE  TokenInv'
<1> USE DEF TokenInv, Requests
<1>1. TokenTypeOK'
  BY DEF Reload, TokenTypeOK, Goto, BesideOthers, Active
<1>2. OneAnswer'
  BY DEF Reload, OneAnswer, Answered, TokenTypeOK, Goto, Active
<1>3. manager'.access <= psa'.last /\ \A q \in Requests : tok'[q] <= psa'.last
  BY DEF Reload, TokenTypeOK
<1>4. ASSUME NEW d \in alone'
      PROVE  Running' \subseteq {d} /\ Knows(d)'
  BY <1>4 DEF Reload, TokenTypeOK, Goto, BesideOthers, Running, Active, Knows, Valid
<1> QED
  BY <1>1, <1>2, <1>3, <1>4

LEMMA GrantedInv ==
    ASSUME TokenInv, NEW r \in Requests, PostGranted(r)
    PROVE  TokenInv'
<1> USE DEF TokenInv, Requests
<1>1. TokenTypeOK'
  <2>1. psa' \in [last: Nat, expired: BOOLEAN, expires: Nat, lost: BOOLEAN]
    <3>1. psa' = [last |-> psa.last + 1, expired |-> FALSE, expires |-> psa.expires, lost |-> psa.lost]
      BY DEF PostGranted, TokenTypeOK
    <3>2. psa.last \in Nat /\ psa.expired \in BOOLEAN /\ psa.expires \in Nat /\ psa.lost \in BOOLEAN
      BY DEF TokenTypeOK
    <3> QED
      BY <3>1, <3>2
  <2>2. at' \in [Requests -> Active \cup {"idle", "done", "failed", "limited"}]
    BY DEF PostGranted, TokenTypeOK, Goto, Active
  <2> QED
    BY <2>1, <2>2 DEF PostGranted, TokenTypeOK
<1>2. OneAnswer'
  BY DEF PostGranted, OneAnswer, Answered, TokenTypeOK, Goto, Active
<1>3. manager'.access <= psa'.last /\ \A q \in Requests : tok'[q] <= psa'.last
  BY DEF PostGranted, TokenTypeOK
<1>4. ASSUME NEW d \in alone'
      PROVE  Running' \subseteq {d} /\ Knows(d)'
  BY <1>4 DEF PostGranted, TokenTypeOK, Goto, BesideOthers, Running, Active, Knows, Valid
<1> QED
  BY <1>1, <1>2, <1>3, <1>4

LEMMA NotGrantedInv ==
    ASSUME TokenInv, NEW r \in Requests, PostDenied(r) \/ PostFails(r)
    PROVE  TokenInv'
<1> USE DEF TokenInv, Requests
<1>1. TokenTypeOK'
  BY DEF PostDenied, PostFails, TokenTypeOK, Goto, BesideOthers, Active
<1>2. OneAnswer'
  BY DEF PostDenied, PostFails, OneAnswer, Answered, TokenTypeOK, Goto, Active
<1>3. manager'.access <= psa'.last /\ \A q \in Requests : tok'[q] <= psa'.last
  BY DEF PostDenied, PostFails, TokenTypeOK
<1>4. ASSUME NEW d \in alone'
      PROVE  Running' \subseteq {d} /\ Knows(d)'
  BY <1>4 DEF PostDenied, PostFails, TokenTypeOK, Goto, BesideOthers, Running, Active, Knows, Valid
<1> QED
  BY <1>1, <1>2, <1>3, <1>4

LEMMA LostInv ==
    ASSUME TokenInv, NEW r \in Requests, PostLost(r)
    PROVE  TokenInv'
<1> USE DEF TokenInv, Requests
<1>1. TokenTypeOK'
  <2>1. psa' \in [last: Nat, expired: BOOLEAN, expires: Nat, lost: BOOLEAN]
    <3>1. psa' = [last |-> psa.last + 1, expired |-> FALSE, expires |-> psa.expires, lost |-> TRUE]
      BY DEF PostLost, TokenTypeOK
    <3>2. psa.last \in Nat /\ psa.expired \in BOOLEAN /\ psa.expires \in Nat /\ psa.lost \in BOOLEAN
      BY DEF TokenTypeOK
    <3> QED
      BY <3>1, <3>2
  <2>2. at' \in [Requests -> Active \cup {"idle", "done", "failed", "limited"}]
    BY DEF PostLost, TokenTypeOK, Goto, Active
  <2> QED
    BY <2>1, <2>2 DEF PostLost, TokenTypeOK
<1>2. OneAnswer'
  BY DEF PostLost, OneAnswer, Answered, TokenTypeOK, Goto, Active
<1>3. manager'.access <= psa'.last /\ \A q \in Requests : tok'[q] <= psa'.last
  BY DEF PostLost, TokenTypeOK
<1>4. ASSUME NEW d \in alone'
      PROVE  Running' \subseteq {d} /\ Knows(d)'
  BY <1>4 DEF PostLost, TokenTypeOK, Goto, BesideOthers, Running, Active, Knows, Valid
<1> QED
  BY <1>1, <1>2, <1>3, <1>4

LEMMA StoreRefreshInv ==
    ASSUME TokenInv, NEW r \in Requests, StoreRefresh(r)
    PROVE  TokenInv'
<1> USE DEF TokenInv, Requests
<1>1. TokenTypeOK'
  BY DEF StoreRefresh, TokenTypeOK, Goto, BesideOthers, Active
<1>2. OneAnswer'
  BY DEF StoreRefresh, OneAnswer, Answered, TokenTypeOK, Goto, Active
<1>3. manager'.access <= psa'.last /\ \A q \in Requests : tok'[q] <= psa'.last
  BY DEF StoreRefresh, TokenTypeOK
<1>4. ASSUME NEW d \in alone'
      PROVE  Running' \subseteq {d} /\ Knows(d)'
  BY <1>4 DEF StoreRefresh, TokenTypeOK, Goto, BesideOthers, Running, Active, Knows, Valid
<1> QED
  BY <1>1, <1>2, <1>3, <1>4

LEMMA StoreAccessInv ==
    ASSUME TokenInv, NEW r \in Requests, StoreAccess(r)
    PROVE  TokenInv'
<1> USE DEF TokenInv, Requests
<1>1. TokenTypeOK'
  BY DEF StoreAccess, TokenTypeOK, Goto, BesideOthers, Active
<1>2. OneAnswer'
  BY DEF StoreAccess, OneAnswer, Answered, TokenTypeOK, Goto, Active
<1>3. manager'.access <= psa'.last /\ \A q \in Requests : tok'[q] <= psa'.last
  BY DEF StoreAccess, TokenTypeOK
<1>4. ASSUME NEW d \in alone'
      PROVE  Running' \subseteq {d} /\ Knows(d)'
  BY <1>4 DEF StoreAccess, TokenTypeOK, Goto, BesideOthers, Running, Active, Knows, Valid
<1> QED
  BY <1>1, <1>2, <1>3, <1>4

LEMMA AskInv ==
    ASSUME TokenInv, NEW o \in Others, Ask(o)
    PROVE  TokenInv'
<1> USE DEF TokenInv, Requests
<1>1. TokenTypeOK'
  BY DEF Ask, TokenTypeOK, Goto, BesideOthers, Active
<1>2. OneAnswer'
  BY DEF Ask, OneAnswer, Answered, TokenTypeOK, Goto, Active
<1>3. manager'.access <= psa'.last /\ \A q \in Requests : tok'[q] <= psa'.last
  BY DEF Ask, TokenTypeOK
<1>4. ASSUME NEW d \in alone'
      PROVE  Running' \subseteq {d} /\ Knows(d)'
  BY <1>4 DEF Ask, TokenTypeOK, Goto, BesideOthers, Running, Active, Knows, Valid
<1> QED
  BY <1>1, <1>2, <1>3, <1>4

LEMMA EndAskInv ==
    ASSUME TokenInv, NEW o \in Others, EndAsk(o)
    PROVE  TokenInv'
<1> USE DEF TokenInv, Requests
<1>1. TokenTypeOK'
  BY DEF EndAsk, TokenTypeOK, Goto, BesideOthers, Active
<1>2. OneAnswer'
  BY DEF EndAsk, OneAnswer, Answered, TokenTypeOK, Goto, Active
<1>3. manager'.access <= psa'.last /\ \A q \in Requests : tok'[q] <= psa'.last
  BY DEF EndAsk, TokenTypeOK
<1>4. ASSUME NEW d \in alone'
      PROVE  Running' \subseteq {d} /\ Knows(d)'
  BY <1>4 DEF EndAsk, TokenTypeOK, Goto, BesideOthers, Running, Active, Knows, Valid
<1> QED
  BY <1>1, <1>2, <1>3, <1>4

LEMMA ExpireInv ==
    ASSUME TokenInv, Expire
    PROVE  TokenInv'
<1> USE DEF TokenInv, Requests
<1>1. TokenTypeOK'
  <2>1. psa' \in [last: Nat, expired: BOOLEAN, expires: Nat, lost: BOOLEAN]
    <3>1. psa' = [last |-> psa.last, expired |-> TRUE, expires |-> psa.expires + 1, lost |-> psa.lost]
      BY DEF Expire, TokenTypeOK
    <3>2. psa.last \in Nat /\ psa.expired \in BOOLEAN /\ psa.expires \in Nat /\ psa.lost \in BOOLEAN
      BY DEF TokenTypeOK
    <3> QED
      BY <3>1, <3>2
  <2> QED
    BY <2>1 DEF Expire, TokenTypeOK
<1>2. OneAnswer'
  BY DEF Expire, OneAnswer, Answered, TokenTypeOK, Goto, Active
<1>3. manager'.access <= psa'.last /\ \A q \in Requests : tok'[q] <= psa'.last
  BY DEF Expire, TokenTypeOK
<1>4. ASSUME NEW d \in alone'
      PROVE  Running' \subseteq {d} /\ Knows(d)'
  BY <1>4 DEF Expire, TokenTypeOK, Goto, BesideOthers, Running, Active, Knows, Valid
<1> QED
  BY <1>1, <1>2, <1>3, <1>4

LEMMA TokenNextInv == TokenInv /\ [TokenNext]_allVars => TokenInv'
<1> SUFFICES ASSUME TokenInv, [TokenNext]_allVars
             PROVE  TokenInv'
  OBVIOUS
<1>1. ASSUME NEW c \in Calls, Begin(c) \/ Continue(c)
      PROVE  TokenInv'
  BY <1>1, BeginInv, FillInv, SendInv, ResendInv, EnterInv, EndInv, ReloadInv, GrantedInv, NotGrantedInv,
     LostInv, StoreRefreshInv, StoreAccessInv DEF Continue, Renew, Requests
<1>2. ASSUME NEW o \in Others, Ask(o) \/ Renew(o) \/ EndAsk(o)
      PROVE  TokenInv'
  BY <1>2, AskInv, EndAskInv, GrantedInv, NotGrantedInv, LostInv, StoreRefreshInv, StoreAccessInv
     DEF Renew, Requests
<1>3. CASE Expire
  BY <1>3, ExpireInv
<1>4. CASE UNCHANGED tokenVars
  BY <1>4 DEF tokenVars, TokenInv, TokenTypeOK, OneAnswer, Answered, Knows, Running
<1> QED
  BY <1>1, <1>2, <1>3, <1>4 DEF TokenNext, allVars, tokenVars

LEMMA TokenInvAlways == TokenSpec => []TokenInv
<1>1. TokenInit => TokenInv
  BY DEF TokenInit, TokenInv, TokenTypeOK, OneAnswer, Answered, Active
<1> QED
  BY <1>1, TokenNextInv, PTL DEF TokenSpec

\* However many threads renew the tokens at once, only an answer of PSA that comes
\* too late makes the manager lose the refresh token.
THEOREM RefreshTokenIsCurrentAlways == TokenSpec => []RefreshTokenIsCurrent
<1>1. TokenInv => RefreshTokenIsCurrent
  BY DEF TokenInv, OneAnswer, RefreshTokenIsCurrent
<1> QED
  BY <1>1, TokenInvAlways, PTL

\* A call that no other ran beside fails only where its renewal did.
THEOREM LoneCallIsAnsweredAlways == TokenSpec => []LoneCallIsAnswered
<1>1. TokenInv => LoneCallIsAnswered
  BY DEF TokenInv, Knows, LoneCallIsAnswered
<1> QED
  BY <1>1, TokenInvAlways, PTL

-----------------------------------------------------------------------------
(* The loop that refreshes the cars *)

LEMMA ActorsFinite ==
    /\ IsFiniteSet(Waiting) /\ Cardinality(Waiting) \in Nat
    /\ IsFiniteSet(Starting) /\ Cardinality(Starting) \in Nat
    /\ Cardinality(Callers) \in Nat
<1> USE RefreshAssumption
<1>1. IsFiniteSet(Actors)
  BY FS_Union DEF Actors
<1>2. Waiting \subseteq Timers /\ Starting \subseteq Actors
  BY DEF Waiting, Starting
<1> QED
  BY <1>1, <1>2, FS_Subset, FS_CardinalityType

\* Steps that add no timer that waits and no thread that starts one.
LEMMA FewerAreBounded ==
    ASSUME RefreshesAreBounded, Waiting' \subseteq Waiting, Starting' \subseteq Starting
    PROVE  RefreshesAreBounded'
<1>1. /\ Cardinality(Waiting') \in Nat /\ Cardinality(Waiting') <= Cardinality(Waiting)
      /\ Cardinality(Starting') \in Nat /\ Cardinality(Starting') <= Cardinality(Starting)
  BY ActorsFinite, FS_Subset, FS_CardinalityType
<1> QED
  BY <1>1, ActorsFinite DEF RefreshesAreBounded

LEMMA CallerInv ==
    ASSUME LoopInv, NEW c \in Callers, LoadApp(c) \/ LoadControls(c) \/ InitControls(c)
    PROVE  LoopInv'
<1> USE RefreshAssumption DEF LoopInv, Actors, Loads, Cars
<1>1. LoopTypeOK'
  <2>1. CASE LoadApp(c)
    BY <2>1 DEF LoadApp, LoopTypeOK, MoveTo
  <2>2. CASE LoadControls(c)
    <3>1. chc' \in 0..MaxLoads
      BY <2>2 DEF LoadControls, LoopTypeOK
    <3>2. step' \in [Actors -> Beginning \cup {"idle", "init", "ask", "cars", "calls"}]
      BY <2>2 DEF LoadControls, LoopTypeOK, MoveTo
    <3> QED
      BY <2>2, <3>1, <3>2 DEF LoadControls, LoopTypeOK
  <2>3. CASE InitControls(c)
    <3>1. chc \in 1..MaxLoads
      BY <2>3 DEF InitControls, LoopTypeOK, ThreadsMatch
    <3>2. info_callback' \in Seq(1..MaxLoads)
      BY <2>3, <3>1 DEF InitControls, LoopTypeOK
    <3> QED
      BY <2>3, <3>2 DEF InitControls, LoopTypeOK, MoveTo
  <2> QED
    BY <2>1, <2>2, <2>3
<1>2. ThreadsMatch'
  BY DEF ThreadsMatch, LoadApp, LoadControls, InitControls, LoopTypeOK, MoveTo, Beginning
<1>3. LoopIsPledged'
  BY DEF LoopIsPledged, ThreadsMatch, LoadApp, LoadControls, InitControls, LoopTypeOK, MoveTo, Beginning, Waiting, Starting, Pledged
<1>4. RefreshesAreBounded'
  <2>1. Waiting' \subseteq Waiting /\ Starting' \subseteq Starting
    BY DEF LoadApp, LoadControls, InitControls, LoopTypeOK, MoveTo, Beginning, Waiting, Starting
  <2> QED
    BY <2>1, FewerAreBounded
<1> QED
  BY <1>1, <1>2, <1>3, <1>4

\* A thread starts a refresh only while there is none, but those of other callers.
LEMMA StartThreadInv ==
    ASSUME LoopInv, NEW c \in Callers, StartRefreshThread(c)
    PROVE  LoopInv'
<1> USE RefreshAssumption DEF LoopInv, Actors, Loads, Cars
<1>1. LoopTypeOK'
  BY DEF StartRefreshThread, LoopTypeOK, MoveTo, Beginning
<1>2. ThreadsMatch'
  BY DEF ThreadsMatch, StartRefreshThread, LoopTypeOK, MoveTo, Beginning
<1>3. LoopIsPledged'
  BY DEF LoopIsPledged, ThreadsMatch, StartRefreshThread, LoopTypeOK, MoveTo, Beginning, Waiting, Starting, Pledged
<1>4. RefreshesAreBounded'
  <2>1. CASE refresh_thread = NoTimer
    <3>1. Waiting' = {} /\ Starting' \subseteq Callers
      BY <2>1, <1>3 DEF StartRefreshThread, LoopIsPledged
    <3>2. Cardinality(Waiting') = 0 /\ Cardinality(Starting') \in Nat
          /\ Cardinality(Starting') <= Cardinality(Callers)
      BY <3>1, FS_EmptySet, FS_Subset, FS_CardinalityType
    <3> QED
      BY <3>2, ActorsFinite DEF RefreshesAreBounded
  <2>2. CASE refresh_thread # NoTimer
    <3>1. Waiting' = Waiting /\ Starting' = Starting
      BY <2>2 DEF StartRefreshThread, LoopTypeOK, MoveTo, Beginning, Waiting, Starting
    <3> QED
      BY <3>1 DEF RefreshesAreBounded
  <2> QED
    BY <2>1, <2>2
<1> QED
  BY <1>1, <1>2, <1>3, <1>4

\* A timer that fires becomes a thread about to start the next.
LEMMA FireLoopInv ==
    ASSUME LoopInv, NEW t \in Timers, Fire(t)
    PROVE  LoopInv'
<1> USE RefreshAssumption DEF LoopInv, Actors, Loads, Cars
<1>1. LoopTypeOK'
  BY DEF Fire, LoopTypeOK, MoveTo, Beginning
<1>2. ThreadsMatch'
  BY DEF ThreadsMatch, Fire, LoopTypeOK, MoveTo, Beginning
<1>3. LoopIsPledged'
  BY DEF LoopIsPledged, ThreadsMatch, Fire, LoopTypeOK, MoveTo, Beginning, Waiting, Starting, Pledged
<1>4. RefreshesAreBounded'
  <2>1. /\ t \in Waiting /\ Waiting' = Waiting \ {t}
        /\ t \notin Starting /\ Starting' = Starting \cup {t}
    BY DEF Fire, LoopTypeOK, ThreadsMatch, MoveTo, Beginning, Waiting, Starting
  <2>2. /\ Cardinality(Waiting') = Cardinality(Waiting) - 1
        /\ Cardinality(Starting') = Cardinality(Starting) + 1
    BY <2>1, ActorsFinite, FS_RemoveElement, FS_AddElement
  <2> QED
    BY <2>2, ActorsFinite DEF RefreshesAreBounded
<1> QED
  BY <1>1, <1>2, <1>3, <1>4

LEMMA CheckInv ==
    ASSUME LoopInv, NEW a \in Actors, Check(a) \/ Cancel(a)
    PROVE  LoopInv'
<1> USE RefreshAssumption DEF LoopInv, Actors, Loads, Cars
<1>1. LoopTypeOK'
  BY DEF Check, Cancel, Cancelled, LoopTypeOK, MoveTo, Beginning
<1>2. ThreadsMatch'
  BY DEF ThreadsMatch, Check, Cancel, Cancelled, LoopTypeOK, MoveTo, Beginning
<1>3. LoopIsPledged'
  BY DEF LoopIsPledged, ThreadsMatch, Check, Cancel, Cancelled, LoopTypeOK, MoveTo, Beginning, Waiting, Starting, Pledged
<1>4. RefreshesAreBounded'
  <2>1. Waiting' \subseteq Waiting /\ Starting' \subseteq Starting
    BY DEF Check, Cancel, Cancelled, LoopTypeOK, MoveTo, Beginning, Waiting, Starting
  <2> QED
    BY <2>1, FewerAreBounded
<1> QED
  BY <1>1, <1>2, <1>3, <1>4

LEMMA CreateInv ==
    ASSUME LoopInv, NEW a \in Actors, Create(a)
    PROVE  LoopInv'
<1> USE RefreshAssumption DEF LoopInv, Actors, Loads, Cars
<1>1. LoopTypeOK'
  BY DEF Create, Spare, LoopTypeOK, MoveTo, Beginning
<1>2. ThreadsMatch'
  BY DEF ThreadsMatch, Create, Spare, LoopTypeOK, MoveTo, Beginning
<1>3. LoopIsPledged'
  BY DEF LoopIsPledged, ThreadsMatch, Create, Spare, LoopTypeOK, MoveTo, Beginning, Waiting, Starting, Pledged
<1>4. RefreshesAreBounded'
  <2>1. Waiting' \subseteq Waiting /\ Starting' \subseteq Starting
    BY DEF Create, Spare, LoopTypeOK, MoveTo, Beginning, Waiting, Starting
  <2> QED
    BY <2>1, FewerAreBounded
<1> QED
  BY <1>1, <1>2, <1>3, <1>4

\* The thread that starts a timer is done, and the timer waits.
LEMMA StartTimerInv ==
    ASSUME LoopInv, NEW a \in Actors, StartTimer(a)
    PROVE  LoopInv'
<1> USE RefreshAssumption DEF LoopInv, Actors, Loads, Cars
<1>1. LoopTypeOK'
  BY DEF StartTimer, Unstarted, LoopTypeOK, MoveTo, Beginning
<1>2. ThreadsMatch'
  BY DEF ThreadsMatch, StartTimer, Unstarted, LoopTypeOK, MoveTo, Beginning
<1>3. LoopIsPledged'
  BY DEF LoopIsPledged, ThreadsMatch, StartTimer, Unstarted, LoopTypeOK, MoveTo, Beginning, Waiting, Starting, Pledged
<1>4. RefreshesAreBounded'
  <2>1. /\ a \in Starting /\ Starting' = Starting \ {a}
        /\ Waiting' \subseteq Waiting \cup {refresh_thread}
    BY DEF StartTimer, LoopTypeOK, Beginning, Waiting, Starting
  <2>2. Cardinality(Starting') = Cardinality(Starting) - 1
    BY <2>1, ActorsFinite, FS_RemoveElement
  <2>3. /\ IsFiniteSet(Waiting \cup {refresh_thread})
        /\ Cardinality(Waiting \cup {refresh_thread}) <= Cardinality(Waiting) + 1
    <3>1. CASE refresh_thread \in Waiting
      <4>1. Waiting \cup {refresh_thread} = Waiting
        BY <3>1
      <4> QED
        BY <4>1, ActorsFinite
    <3>2. CASE refresh_thread \notin Waiting
      <4>1. Cardinality(Waiting \cup {refresh_thread}) = Cardinality(Waiting) + 1
        BY <3>2, ActorsFinite, FS_AddElement
      <4>2. IsFiniteSet(Waiting \cup {refresh_thread})
        BY ActorsFinite, FS_AddElement
      <4> QED
        BY <4>1, <4>2, ActorsFinite
    <3> QED
      BY <3>1, <3>2
  <2>4. /\ Cardinality(Waiting') \in Nat
        /\ Cardinality(Waiting') <= Cardinality(Waiting) + 1
    BY <2>1, <2>3, ActorsFinite, FS_Subset, FS_CardinalityType
  <2> QED
    BY <2>2, <2>4, ActorsFinite DEF RefreshesAreBounded
<1> QED
  BY <1>1, <1>2, <1>3, <1>4

LEMMA RaisesInv ==
    ASSUME LoopInv, NEW a \in Actors, StartRaises(a)
    PROVE  LoopInv'
<1> USE RefreshAssumption DEF LoopInv, Actors, Loads, Cars
<1>1. LoopTypeOK'
  BY DEF StartRaises, Unstarted, Leave, LoopTypeOK, MoveTo, Beginning
<1>2. ThreadsMatch'
  BY DEF ThreadsMatch, StartRaises, Unstarted, Leave, LoopTypeOK, MoveTo, Beginning
<1>3. LoopIsPledged'
  BY DEF LoopIsPledged, ThreadsMatch, StartRaises, Unstarted, Leave, LoopTypeOK, MoveTo, Beginning, Waiting, Starting, Pledged
<1>4. RefreshesAreBounded'
  <2>1. Waiting' \subseteq Waiting /\ Starting' \subseteq Starting
    BY DEF StartRaises, Unstarted, Leave, LoopTypeOK, MoveTo, Beginning, Waiting, Starting
  <2> QED
    BY <2>1, FewerAreBounded
<1> QED
  BY <1>1, <1>2, <1>3, <1>4

\* The work, and what it raises, touches no timer but its own.
LEMMA WorkInv ==
    ASSUME LoopInv, NEW a \in Actors, GetCar(a) \/ GetCarRaises(a) \/ Call(a) \/ EndWork(a)
    PROVE  LoopInv'
<1> USE RefreshAssumption DEF LoopInv, Actors, Loads, Cars
<1>1. LoopTypeOK'
  <2>1. CASE GetCar(a)
    BY <2>1 DEF GetCar, NextCar, LoopTypeOK
  <2>2. CASE Call(a)
    BY <2>2 DEF Call, LoopTypeOK
  <2>3. CASE GetCarRaises(a) \/ EndWork(a)
    BY <2>3 DEF GetCarRaises, EndWork, Leave, LoopTypeOK, MoveTo
  <2> QED
    BY <2>1, <2>2, <2>3
<1>2. ThreadsMatch'
  BY DEF ThreadsMatch, GetCar, NextCar, GetCarRaises, Call, EndWork, Leave, LoopTypeOK, MoveTo, Beginning
<1>3. LoopIsPledged'
  BY DEF LoopIsPledged, ThreadsMatch, GetCar, NextCar, GetCarRaises, Call, EndWork, Leave, LoopTypeOK, MoveTo, Beginning, Waiting, Starting, Pledged
<1>4. RefreshesAreBounded'
  <2>1. Waiting' \subseteq Waiting /\ Starting' \subseteq Starting
    BY DEF GetCar, NextCar, GetCarRaises, Call, EndWork, Leave, LoopTypeOK, MoveTo, Beginning, Waiting, Starting
  <2> QED
    BY <2>1, FewerAreBounded
<1> QED
  BY <1>1, <1>2, <1>3, <1>4

LEMMA LoopNextInv == LoopInv /\ [LoopNext]_loopVars => LoopInv'
<1> SUFFICES ASSUME LoopInv, [LoopNext]_loopVars
             PROVE  LoopInv'
  OBVIOUS
<1>1. ASSUME NEW c \in Callers, Decide(c)
      PROVE  LoopInv'
  BY <1>1, CallerInv DEF Decide
<1>2. ASSUME NEW a \in Actors, GoOn(a)
      PROVE  LoopInv'
  BY <1>2, CallerInv, StartThreadInv, FireLoopInv, CheckInv, CreateInv, StartTimerInv, RaisesInv, WorkInv
     DEF GoOn
<1>3. CASE UNCHANGED loopVars
  BY <1>3 DEF loopVars, LoopInv, LoopTypeOK, ThreadsMatch, LoopIsPledged, Actors, Waiting, Starting, Pledged, RefreshesAreBounded
<1> QED
  BY <1>1, <1>2, <1>3 DEF LoopNext

LEMMA LoopInvAlways == LoopSpec => []LoopInv
<1>1. LoopInit => LoopInv
  <2> SUFFICES ASSUME LoopInit
               PROVE  LoopInv
    OBVIOUS
  <2>1. Waiting = {} /\ Starting = {}
    BY DEF LoopInit, Waiting, Starting, Beginning, Actors
  <2>2. RefreshesAreBounded
    BY <2>1, FS_EmptySet, ActorsFinite DEF RefreshesAreBounded
  <2>3. LoopTypeOK
    <3>1. <<>> \in Seq(Loads) /\ 0 \in 0..MaxLoads
      BY RefreshAssumption
    <3> QED
      BY <3>1 DEF LoopInit, LoopTypeOK
  <2> QED
    BY <2>1, <2>2, <2>3 DEF LoopInit, LoopInv, ThreadsMatch, LoopIsPledged, Actors
<1> QED
  BY <1>1, LoopNextInv, PTL DEF LoopSpec

\* Once a thread has started the loop there is always a timer that will fire, or a
\* thread about to start one, for any number of threads, timers and cars.
THEOREM ChainNeverDies == LoopSpec => []ChainAlive
<1>1. LoopInv => ChainAlive
  BY RefreshAssumption DEF LoopInv, LoopTypeOK, ThreadsMatch, LoopIsPledged, Pledged, ChainAlive, Waiting, Starting, Beginning, Actors
<1> QED
  BY <1>1, LoopInvAlways, PTL

\* The refreshes pending are never more than the threads that may start the loop.
THEOREM RefreshesAreBoundedAlways == LoopSpec => []RefreshesAreBounded
<1>1. LoopInv => RefreshesAreBounded
  BY DEF LoopInv
<1> QED
  BY <1>1, LoopInvAlways, PTL
=============================================================================
