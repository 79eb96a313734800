------------------------ MODULE RemoteCommandsProofs ------------------------
(***************************************************************************)
(* What is proved of RemoteCommands, for every set of commands, registry    *)
(* size and kind of answers: its types and the bound on resends; the bound  *)
(* on the registry; that pending results are awaited; that a success before *)
(* a resend is the car's; and that the results implement CommandTracking.   *)
(***************************************************************************)
EXTENDS RemoteCommands, FiniteSetTheorems, TLAPS

USE CommandsAssumption

-----------------------------------------------------------------------------
(* The registry *)

LEMMA ElementType ==
    ASSUME NEW S, NEW s \in Seq(S), NEW i \in DOMAIN s
    PROVE  s[i] \in S
OBVIOUS

LEMMA SeqMonotone ==
    ASSUME NEW S, NEW T, S \subseteq T, NEW s \in Seq(S)
    PROVE  s \in Seq(T)
OBVIOUS

\* What the registry stores are results that exist.
LEMMA EntryType ==
    ASSUME TypeOK, NEW i \in DOMAIN registry
    PROVE  registry[i].result \in DOMAIN results
<1>1. registry[i] \in [cid: Cid, result: DOMAIN results]
  BY ElementType DEF TypeOK
<1> QED
  BY <1>1

\* The eviction keeps a sequence of entries a sequence of entries.
LEMMA NewestType ==
    ASSUME NEW S, NEW entries \in Seq(S)
    PROVE  Newest(entries) \in Seq(S)
BY DEF Newest

\* The result an answer is attached to is one the registry stores, or none.
LEMMA ResultOfType ==
    ASSUME TypeOK, NEW cid, NEW carriesId
    PROVE  ResultOf(cid, carriesId) \in DOMAIN results \cup {NoResult}
<1>1. LastPending \in DOMAIN results \cup {NoResult}
  <2> DEFINE last == {i \in PendingEntries : \A j \in PendingEntries : j <= i}
             newest == {registry[i].result : i \in last}
  <2>1. newest \subseteq DOMAIN results
    BY EntryType DEF PendingEntries
  <2>2. newest # {} => (CHOOSE r \in newest : TRUE) \in newest
    OBVIOUS
  <2> QED
    BY <2>1, <2>2 DEF LastPending
<1>2. CASE carriesId /\ Known(cid)
  <2> DEFINE i == CHOOSE i \in DOMAIN registry : registry[i].cid = cid
  <2>1. i \in DOMAIN registry
    BY <1>2 DEF Known
  <2>2. registry[i].result \in DOMAIN results
    BY <2>1, EntryType
  <2> QED
    BY <1>2, <2>2 DEF ResultOf
<1> QED
  BY <1>1, <1>2 DEF ResultOf

\* Giving a result a status keeps the results well typed and loses none.
LEMMA SettleType ==
    ASSUME TypeOK, NEW r \in DOMAIN results \cup {NoResult},
           NEW s \in Status, Settle(r, s)
    PROVE  /\ DOMAIN results' = DOMAIN results
           /\ results' \in [DOMAIN results -> Result]
<1>1. CASE r = NoResult
  BY <1>1 DEF Settle, TypeOK
<1>2. CASE r # NoResult
  <2>1. results' = [results EXCEPT ![r].status = s] /\ r \in DOMAIN results
    BY <1>2 DEF Settle
  <2>2. results[r] \in Result
    BY <2>1 DEF TypeOK
  <2>3. [results[r] EXCEPT !.status = s] \in Result
    BY <2>2 DEF Result
  <2> QED
    BY <2>1, <2>3 DEF TypeOK
<1> QED
  BY <1>1, <1>2

LEMMA RegisterType ==
    ASSUME TypeOK, NEW cid \in Cid, Register(cid)
    PROVE  /\ DOMAIN results' = DOMAIN results \cup {cid}
           /\ results' \in [DOMAIN results' -> Result]
           /\ registry' \in Seq([cid: Cid, result: DOMAIN results'])
<1>1. DOMAIN results' = DOMAIN results \cup {cid}
  BY DEF Register
<1>2. [cid |-> cid, status |-> "pending"] \in Result
  BY DEF Result, Status
<1>3. results' \in [DOMAIN results' -> Result]
  BY <1>1, <1>2 DEF Register, TypeOK
<1>4. registry \in Seq([cid: Cid, result: DOMAIN results'])
  <2>1. [cid: Cid, result: DOMAIN results] \subseteq [cid: Cid, result: DOMAIN results']
    BY <1>1
  <2> QED
    BY <2>1, SeqMonotone DEF TypeOK
<1>5. Append(registry, [cid |-> cid, result |-> cid]) \in Seq([cid: Cid, result: DOMAIN results'])
  BY <1>1, <1>4
<1> QED
  BY <1>1, <1>3, <1>5, NewestType DEF Register

LEMMA RelinkType ==
    ASSUME TypeOK, NEW cid \in Cid, NEW r \in DOMAIN results, Relink(cid, r)
    PROVE  /\ DOMAIN results' = DOMAIN results
           /\ results' \in [DOMAIN results -> Result]
           /\ registry' \in Seq([cid: Cid, result: DOMAIN results])
<1>0. results[r] \in Result
  BY DEF TypeOK
<1>1. [results[r] EXCEPT !.cid = cid] \in Result
  BY <1>0 DEF Result
<1>2. results' \in [DOMAIN results -> Result]
  BY <1>1 DEF Relink, TypeOK
<1> QED
  BY <1>2 DEF Relink, TypeOK
-----------------------------------------------------------------------------
(* The invariant holds initially *)

LEMMA InitIInv == Init => IInv
BY DEF Init, IInv, TypeOK, Waiting, OnlyDoneIsTaken, Begun, MarkedBeforeResend, MarkedAfterExpiry

-----------------------------------------------------------------------------
(* The steps of the thread of a command *)

LEMMA RegisterCommandIInv ==
    ASSUME IInv, NEW c \in Commands, RegisterCommand(c)
    PROVE  IInv'
<1> USE DEF IInv
<1>1. NextId(c) \in Cid
  BY DEF TypeOK, NextId, Cid
<1>2. /\ DOMAIN results' = DOMAIN results \cup {NextId(c)}
      /\ results' \in [DOMAIN results' -> Result]
      /\ registry' \in Seq([cid: Cid, result: DOMAIN results'])
  BY <1>1, RegisterType DEF RegisterCommand
<1>3. TypeOK'
  <2>1. pc' \in [Commands -> {"idle", "unsent", "refreshed", "registered", "sent", "done"}]
    BY DEF RegisterCommand, TypeOK
  <2>2. tries' \in [Commands -> Nat]
    BY DEF RegisterCommand, TypeOK
  <2>3. mqtt'.result \in DOMAIN results' \cup {NoResult}
    BY <1>2 DEF RegisterCommand, TypeOK
  <2> QED
    BY <1>1, <1>2, <2>1, <2>2, <2>3 DEF RegisterCommand, TypeOK
<1>4. OnlyDoneIsTaken'
  BY DEF RegisterCommand, TypeOK, OnlyDoneIsTaken, Begun
<1>5. MarkedBeforeResend'
  <2>1. tries[c] = 0 /\ mqtt.request # c
    <3>1. pc[c] = "refreshed" /\ tries[c] \in Nat
      BY DEF RegisterCommand, TypeOK
    <3>2. ~(tries[c] > 0) /\ mqtt.request # c
      BY <3>1 DEF OnlyDoneIsTaken, Begun
    <3> QED
      BY <3>1, <3>2
  <2>2. tries' = [tries EXCEPT ![c] = 1] /\ UNCHANGED <<retried, mqtt>>
    BY <2>1 DEF RegisterCommand, TypeOK
  <2>3. \A d \in Commands : tries'[d] <= (IF retried'[d] THEN 2 ELSE 1)
    BY <2>2 DEF TypeOK, MarkedBeforeResend
  <2> QED
    BY <2>1, <2>2, <2>3 DEF TypeOK, MarkedBeforeResend
<1>6. MarkedAfterExpiry'
  BY DEF RegisterCommand, MarkedAfterExpiry
<1> QED
  BY <1>3, <1>4, <1>5, <1>6

LEMMA PublishIInv ==
    ASSUME IInv, NEW c \in Commands, Publish(c)
    PROVE  IInv'
<1> USE DEF IInv, OnlyDoneIsTaken, Begun, MarkedBeforeResend, MarkedAfterExpiry
<1>1. CASE Refresh(c)
  BY <1>1 DEF Refresh, TypeOK
<1>2. CASE GiveUpPublish(c)
  BY <1>2 DEF GiveUpPublish, TypeOK
<1>3. CASE RegisterCommand(c)
  BY <1>3, RegisterCommandIInv
<1>4. CASE Send(c)
  <2>1. CurrentId(c) \in Cid
    BY <1>4 DEF Send, CurrentId, Cid, TypeOK
  <2> QED
    BY <1>4, <2>1 DEF Send, TypeOK
<1>5. CASE Store(c)
  BY <1>5 DEF Store, TypeOK
<1> QED
  BY <1>1, <1>2, <1>3, <1>4, <1>5 DEF Publish

-----------------------------------------------------------------------------
(* The steps of the mqtt thread *)

\* Noting an answer keeps the types and the notes made before.
LEMMA DeliverType ==
    ASSUME TypeOK, NEW cid, NEW code, Deliver(cid, code)
    PROVE  /\ outstanding' \in SUBSET Cid
           /\ answered' \in SUBSET Noted
           /\ answered \subseteq answered'
           /\ mqtt.at = "idle"
           /\ code = "expired" => \E a \in answered' : a.code = "expired"
<1>1. cid \in Cid
  BY DEF Deliver, TypeOK
<1>2. code = "expired" => [cmd |-> cid.cmd, code |-> code] \in Noted
  BY <1>1 DEF Noted, Cid
<1> QED
  BY <1>1, <1>2 DEF Deliver, TypeOK

\* The facts about requests survive a step that leaves requests, slot and the
\* request taken alone and goes on listening or clears an accepted request.
LEMMA AnswerIInv ==
    ASSUME IInv, NEW cid, NEW carriesId, NEW refusal \in BOOLEAN,
           \/ HandleOk(cid, carriesId)
           \/ HandleError(cid, carriesId)
           \/ HandleBad(cid, carriesId, refusal)
    PROVE  IInv'
<1> USE DEF IInv
<1> DEFINE r == ResultOf(cid, carriesId)
<1>1. r \in DOMAIN results \cup {NoResult}
  BY ResultOfType
<1> HIDE DEF r
<1>2. CASE HandleOk(cid, carriesId)
  <2>1. Deliver(cid, "ok") /\ UNCHANGED <<pc, tries, retried, registry, lastRequest>>
    BY <1>2 DEF HandleOk
  <2>2. CASE IsForLastRequest(r)
    <3>1. mqtt' = [mqtt EXCEPT !.at = "accepted", !.result = r] /\ results' = results
      BY <1>2, <2>2 DEF HandleOk, r
    <3>2. TypeOK'
      BY <1>1, <2>1, <3>1, DeliverType DEF TypeOK
    <3> QED
      BY <2>1, <3>1, <3>2, DeliverType
      DEF TypeOK, OnlyDoneIsTaken, Begun, MarkedBeforeResend, MarkedAfterExpiry
  <2>3. CASE ~IsForLastRequest(r)
    <3>1. Settle(r, "success") /\ mqtt' = mqtt
      BY <1>2, <2>3 DEF HandleOk, r
    <3>2. /\ DOMAIN results' = DOMAIN results
          /\ results' \in [DOMAIN results -> Result]
      BY <1>1, <3>1, SettleType DEF Status
    <3>3. TypeOK'
      BY <2>1, <3>1, <3>2, DeliverType DEF TypeOK
    <3> QED
      BY <2>1, <3>1, <3>3, DeliverType
      DEF TypeOK, OnlyDoneIsTaken, Begun, MarkedBeforeResend, MarkedAfterExpiry
  <2> QED
    BY <2>2, <2>3
<1>3. CASE HandleError(cid, carriesId)
  <2>1. /\ Deliver(cid, "error") /\ Settle(r, "failed")
        /\ UNCHANGED <<pc, tries, retried, registry, lastRequest, mqtt>>
    BY <1>3 DEF HandleError, r
  <2>2. /\ DOMAIN results' = DOMAIN results
        /\ results' \in [DOMAIN results -> Result]
    BY <1>1, <2>1, SettleType DEF Status
  <2>3. TypeOK'
    BY <2>1, <2>2, DeliverType DEF TypeOK
  <2> QED
    BY <2>1, <2>3, DeliverType
    DEF TypeOK, OnlyDoneIsTaken, Begun, MarkedBeforeResend, MarkedAfterExpiry
<1>4. CASE HandleBad(cid, carriesId, refusal)
  <2>1. /\ Deliver(cid, IF refusal THEN "refused" ELSE "expired")
        /\ mqtt' = [at |-> "bad", result |-> r, request |-> lastRequest, refusal |-> refusal]
        /\ UNCHANGED <<pc, tries, retried, results, registry, lastRequest>>
    BY <1>4 DEF HandleBad, r
  <2>2. TypeOK'
    BY <1>1, <2>1, DeliverType DEF TypeOK
  <2>3. MarkedAfterExpiry'
    BY <2>1, DeliverType DEF MarkedAfterExpiry
  <2> QED
    BY <2>1, <2>2, <2>3 DEF TypeOK, OnlyDoneIsTaken, Begun, MarkedBeforeResend
<1> QED
  BY <1>2, <1>3, <1>4

LEMMA ClearLastIInv ==
    ASSUME IInv, ClearLast
    PROVE  IInv'
<1> USE DEF IInv
<1>1. mqtt.result \in DOMAIN results \cup {NoResult}
  BY DEF TypeOK
<1>2. Settle(mqtt.result, "success")
  BY DEF ClearLast
<1>3. /\ DOMAIN results' = DOMAIN results
      /\ results' \in [DOMAIN results -> Result]
  BY <1>1, <1>2, SettleType DEF Status
<1>4. TypeOK'
  BY <1>3 DEF ClearLast, Waiting, TypeOK
<1> QED
  BY <1>4 DEF ClearLast, Waiting, TypeOK, OnlyDoneIsTaken, Begun, MarkedBeforeResend,
              MarkedAfterExpiry

\* The two ways a 400 ends in a failed result.
LEMMA GiveUpIInv ==
    ASSUME IInv, GiveUpResend \/ ResendRefreshFails
    PROVE  IInv'
<1> USE DEF IInv
<1>1. mqtt.result \in DOMAIN results \cup {NoResult}
  BY DEF TypeOK
<1>2. Settle(mqtt.result, "failed")
  BY DEF GiveUpResend, ResendRefreshFails
<1>3. /\ DOMAIN results' = DOMAIN results
      /\ results' \in [DOMAIN results -> Result]
  BY <1>1, <1>2, SettleType DEF Status
<1>4. TypeOK'
  <2>1. /\ mqtt' = Waiting
        /\ lastRequest' \in {lastRequest, NoCommand}
        /\ UNCHANGED <<pc, tries, retried, registry, outstanding, answered>>
    BY DEF GiveUpResend, ResendRefreshFails
  <2>2. mqtt' \in [at: {"idle", "accepted", "bad", "refresh", "link", "send", "store", "dead"},
                   result: DOMAIN results \cup {NoResult},
                   request: Commands \cup {NoCommand},
                   refusal: BOOLEAN]
    BY <2>1 DEF Waiting
  <2> QED
    BY <1>3, <2>1, <2>2 DEF TypeOK
<1> QED
  BY <1>4 DEF GiveUpResend, ResendRefreshFails, Waiting, TypeOK, OnlyDoneIsTaken, Begun,
              MarkedBeforeResend, MarkedAfterExpiry

\* The request taken is done and not marked, so it was sent exactly once.
LEMMA StartResendIInv ==
    ASSUME IInv, StartResend
    PROVE  IInv'
<1> USE DEF IInv
<1> DEFINE c == mqtt.request
<1>1. c \in Commands /\ ~retried[c] /\ mqtt.at = "bad" /\ ~mqtt.refusal
  BY DEF StartResend, Resendable, TypeOK
<1>2. pc[c] = "done" /\ c \in Begun
  BY <1>1 DEF OnlyDoneIsTaken, Begun
<1>3. tries[c] = 1
  BY <1>1, <1>2 DEF OnlyDoneIsTaken, MarkedBeforeResend, TypeOK
<1>4. /\ mqtt' = [mqtt EXCEPT !.at = "refresh"]
      /\ retried' = [retried EXCEPT ![c] = TRUE]
      /\ lastRequest' = NoCommand
      /\ UNCHANGED <<pc, tries, results, registry, outstanding, answered>>
  BY DEF StartResend
<1>5. TypeOK'
  <2>1. retried' \in [Commands -> BOOLEAN]
    BY <1>1, <1>4 DEF TypeOK
  <2>2. mqtt' \in [at: {"idle", "accepted", "bad", "refresh", "link", "send", "store", "dead"},
                   result: DOMAIN results \cup {NoResult},
                   request: Commands \cup {NoCommand},
                   refusal: BOOLEAN]
    BY <1>4 DEF TypeOK
  <2> QED
    BY <1>4, <2>1, <2>2 DEF TypeOK
<1>6. OnlyDoneIsTaken'
  BY <1>1, <1>2, <1>4 DEF TypeOK, OnlyDoneIsTaken, Begun
<1>7. MarkedBeforeResend'
  BY <1>1, <1>3, <1>4 DEF TypeOK, MarkedBeforeResend
<1>8. MarkedAfterExpiry'
  BY <1>1, <1>4 DEF MarkedAfterExpiry
<1> QED
  BY <1>5, <1>6, <1>7, <1>8

LEMMA ResendLinkIInv ==
    ASSUME IInv, ResendLink
    PROVE  IInv'
<1> USE DEF IInv
<1> DEFINE c == mqtt.request
<1>1. c \in Commands /\ retried[c] /\ tries[c] = 1
  BY DEF ResendLink, MarkedBeforeResend
<1>2. /\ mqtt' = [mqtt EXCEPT !.at = "send"]
      /\ tries' = [tries EXCEPT ![c] = 2]
      /\ UNCHANGED <<pc, retried, lastRequest, outstanding, answered>>
  BY <1>1 DEF ResendLink, TypeOK
<1>3. NextId(c) \in Cid
  BY <1>1 DEF NextId, Cid
<1>4. /\ DOMAIN results \subseteq DOMAIN results'
      /\ DOMAIN results' \subseteq Cid
      /\ results' \in [DOMAIN results' -> Result]
      /\ registry' \in Seq([cid: Cid, result: DOMAIN results'])
  <2>1. CASE mqtt.result = NoResult
    BY <1>3, <2>1, RegisterType DEF ResendLink, TypeOK
  <2>2. CASE mqtt.result # NoResult
    <3>1. mqtt.result \in DOMAIN results /\ Relink(NextId(c), mqtt.result)
      BY <2>2 DEF ResendLink, TypeOK
    <3>2. /\ DOMAIN results' = DOMAIN results
          /\ results' \in [DOMAIN results -> Result]
          /\ registry' \in Seq([cid: Cid, result: DOMAIN results])
      BY <1>3, <3>1, RelinkType
    <3> QED
      BY <3>2 DEF TypeOK
  <2> QED
    BY <2>1, <2>2
<1>5. TypeOK'
  <2>1. tries' \in [Commands -> Nat]
    BY <1>2 DEF TypeOK
  <2>2. mqtt' \in [at: {"idle", "accepted", "bad", "refresh", "link", "send", "store", "dead"},
                   result: DOMAIN results' \cup {NoResult},
                   request: Commands \cup {NoCommand},
                   refusal: BOOLEAN]
    BY <1>2, <1>4 DEF TypeOK
  <2> QED
    BY <1>2, <1>4, <2>1, <2>2 DEF TypeOK
<1>6. OnlyDoneIsTaken'
  BY <1>1, <1>2 DEF TypeOK, OnlyDoneIsTaken, Begun
<1>7. MarkedBeforeResend'
  BY <1>1, <1>2 DEF TypeOK, MarkedBeforeResend
<1>8. MarkedAfterExpiry'
  BY <1>2 DEF TypeOK, MarkedAfterExpiry
<1> QED
  BY <1>5, <1>6, <1>7, <1>8

LEMMA ContinueIInv ==
    ASSUME IInv, Continue
    PROVE  IInv'
<1> USE DEF IInv
<1>1. CASE ClearLast
  BY <1>1, ClearLastIInv
<1>2. CASE GiveUpResend \/ ResendRefreshFails
  BY <1>2, GiveUpIInv
<1>3. CASE StartResend
  BY <1>3, StartResendIInv
<1>4. CASE ResendRefresh
  BY <1>4 DEF ResendRefresh, TypeOK, OnlyDoneIsTaken, Begun, MarkedBeforeResend, MarkedAfterExpiry
<1>5. CASE ResendRefreshRaises
  BY <1>5 DEF ResendRefreshRaises, Waiting, TypeOK, OnlyDoneIsTaken, Begun, MarkedBeforeResend,
              MarkedAfterExpiry
<1>6. CASE ResendLink
  BY <1>6, ResendLinkIInv
<1>7. CASE ResendSend
  <2>1. mqtt.request \in Commands /\ retried[mqtt.request]
    BY <1>7 DEF ResendSend, MarkedBeforeResend
  <2>2. CurrentId(mqtt.request) \in Cid
    BY <2>1 DEF CurrentId, Cid, TypeOK, OnlyDoneIsTaken, Begun
  <2> QED
    BY <1>7, <2>1, <2>2
    DEF ResendSend, TypeOK, OnlyDoneIsTaken, Begun, MarkedBeforeResend, MarkedAfterExpiry
<1>8. CASE ResendStore
  <2>1. mqtt.request \in Commands
    BY <1>8 DEF ResendStore, MarkedBeforeResend
  <2> QED
    BY <1>8, <2>1 DEF ResendStore, Waiting, TypeOK, OnlyDoneIsTaken, Begun, MarkedBeforeResend,
                      MarkedAfterExpiry
<1> QED
  BY <1>1, <1>2, <1>3, <1>4, <1>5, <1>6, <1>7, <1>8 DEF Continue

-----------------------------------------------------------------------------
(* The invariant and what it implies *)

LEMMA NextIInv == IInv /\ [Next]_vars => IInv'
<1> SUFFICES ASSUME IInv, [Next]_vars
             PROVE  IInv'
  OBVIOUS
<1>1. ASSUME NEW c \in Commands, Publish(c)
      PROVE  IInv'
  BY <1>1, PublishIInv
<1>2. ASSUME NEW cid \in outstanding, Answer(cid)
      PROVE  IInv'
  BY <1>2, AnswerIInv DEF Answer
<1>3. CASE Continue
  BY <1>3, ContinueIInv
<1>4. CASE UNCHANGED vars
  BY <1>4 DEF vars, client, IInv, TypeOK, OnlyDoneIsTaken, Begun, MarkedBeforeResend,
              MarkedAfterExpiry
<1> QED
  BY <1>1, <1>2, <1>3, <1>4 DEF Next

\* The inductive invariant of RemoteClient's commands holds in every state, so
\* every variable keeps its type.
THEOREM IInvAlways == Spec => []IInv
<1> QED
  BY InitIInv, NextIInv, PTL DEF Spec

\* Every variable of the model keeps its type, for any number of commands.
THEOREM TypeOKAlways == Spec => []TypeOK
<1>1. IInv => TypeOK
  BY DEF IInv
<1> QED
  BY <1>1, IInvAlways, PTL

\* RemoteClient never sends a request more than twice, for any number of threads,
\* any size of the registry, duplicated answers and answers without an id.
THEOREM AtMostOneResendAlways == Spec => []AtMostOneResend
<1>1. IInv => AtMostOneResend
  BY DEF IInv, TypeOK, MarkedBeforeResend, AtMostOneResend
<1> QED
  BY <1>1, IInvAlways, PTL

\* RemoteClient sends a request again only after a 400 that isn't a refusal.
THEOREM ResendNeedsExpiryAlways == Spec => []ResendNeedsExpiry
<1>1. IInv => ResendNeedsExpiry
  BY DEF IInv, TypeOK, MarkedBeforeResend, MarkedAfterExpiry, ResendNeedsExpiry
<1> QED
  BY <1>1, IInvAlways, PTL
-----------------------------------------------------------------------------
(* The bound on the registry *)

\* The eviction drops entries from the front until MaxSize are left.
LEMMA NewestDrops ==
    ASSUME NEW S, NEW entries \in Seq(S)
    PROVE  \E k \in 0..Len(entries) :
              /\ Newest(entries) \in Seq(S)
              /\ Len(Newest(entries)) = Len(entries) - k
              /\ \A i \in 1..Len(entries) - k : Newest(entries)[i] = entries[i + k]
              /\ Len(entries) - k <= MaxSize
              /\ Len(entries) <= MaxSize => k = 0
<1>1. CASE Len(entries) > MaxSize
  <2> DEFINE k == Len(entries) - MaxSize
  <2>1. k \in 0..Len(entries) /\ k \in Nat
    BY <1>1
  <2>2. Newest(entries) = SubSeq(entries, k + 1, Len(entries))
    BY <1>1 DEF Newest
  <2> HIDE DEF k
  <2>3. /\ Newest(entries) \in Seq(S)
        /\ Len(Newest(entries)) = Len(entries) - k
        /\ \A i \in 1..Len(entries) - k : Newest(entries)[i] = entries[i + k]
    BY <2>1, <2>2
  <2>4. Len(entries) - k = MaxSize
    BY DEF k
  <2> QED
    BY <1>1, <2>1, <2>3, <2>4
<1>2. CASE ~(Len(entries) > MaxSize)
  <2>1. Newest(entries) = entries
    BY <1>2 DEF Newest
  <2> QED
    BY <1>2, <2>1
<1> QED
  BY <1>1, <1>2

\* Only two steps build a message, and no other changes the registry.
LEMMA RegistrySteps ==
    ASSUME [Next]_vars
    PROVE  \/ \E c \in Commands : RegisterCommand(c)
           \/ ResendLink
           \/ UNCHANGED <<tries, registry>>
<1>1. ASSUME NEW c \in Commands, Publish(c)
      PROVE  RegisterCommand(c) \/ UNCHANGED <<tries, registry>>
  BY <1>1 DEF Publish, Refresh, GiveUpPublish, Send, Store
<1>2. ASSUME NEW cid \in outstanding, Answer(cid)
      PROVE  UNCHANGED <<tries, registry>>
  BY <1>2 DEF Answer, HandleOk, HandleError, HandleBad
<1>3. CASE Continue
  BY <1>3 DEF Continue, ClearLast, GiveUpResend, StartResend, ResendRefresh, ResendRefreshFails,
              ResendRefreshRaises, ResendSend, ResendStore
<1>4. CASE UNCHANGED vars
  BY <1>4 DEF vars, client
<1> QED
  BY <1>1, <1>2, <1>3, <1>4 DEF Next

\* A command that registers has sent nothing; one that is linked has sent once.
LEMMA FirstMessage ==
    ASSUME IInv, NEW c \in Commands, pc[c] \in {"refreshed", "registered", "sent"}
    PROVE  tries[c] = IF pc[c] = "refreshed" THEN 0 ELSE 1
BY DEF IInv, TypeOK, OnlyDoneIsTaken, Begun, MarkedBeforeResend

LEMMA RegisterBound ==
    ASSUME TypeOK, NEW cid \in Cid, Register(cid)
    PROVE  Len(registry') <= MaxSize
<1> DEFINE E == [cid: Cid, result: DOMAIN results \cup {cid}]
           entries == Append(registry, [cid |-> cid, result |-> cid])
<1>1. registry \in Seq(E)
  BY SeqMonotone DEF TypeOK
<1>2. entries \in Seq(E)
  BY <1>1
<1> HIDE DEF entries
<1> QED
  BY <1>2, NewestDrops DEF Register, entries

LEMMA NextBound == BoundInv /\ [Next]_vars => BoundInv'
<1> SUFFICES ASSUME BoundInv, [Next]_vars
             PROVE  BoundInv'
  OBVIOUS
<1> USE DEF BoundInv
<1>0. IInv' /\ TypeOK
  BY NextIInv DEF IInv
<1>1. ASSUME NEW c \in Commands, RegisterCommand(c)
      PROVE  IsFiniteSet(Resent') /\ BoundedByResends'
  <2>1. tries[c] = 0
    BY <1>1, FirstMessage DEF RegisterCommand
  <2>2. Resent' = Resent
    BY <1>0, <1>1, <2>1 DEF RegisterCommand, Resent, TypeOK
  <2>3. NextId(c) \in Cid /\ Len(registry') \in Nat
    BY <1>0, <2>1 DEF NextId, Cid, IInv, TypeOK
  <2>4. Len(registry') <= MaxSize
    BY <1>0, <1>1, <2>3, RegisterBound DEF RegisterCommand
  <2> QED
    BY <2>2, <2>3, <2>4, FS_CardinalityType DEF BoundedByResends
<1>2. CASE ResendLink
  <2> DEFINE c == mqtt.request
  <2>1. c \in Commands /\ tries[c] = 1
    BY <1>2 DEF ResendLink, IInv, MarkedBeforeResend
  <2>2. c \notin Resent /\ Resent' = Resent \cup {c}
    BY <1>0, <1>2, <2>1 DEF ResendLink, Resent, TypeOK
  <2>3. /\ IsFiniteSet(Resent')
        /\ Cardinality(Resent') = Cardinality(Resent) + 1
        /\ Cardinality(Resent) \in Nat
    BY <2>2, FS_AddElement, FS_CardinalityType
  <2>4. Len(registry') <= MaxSize \/ Len(registry') = Len(registry) + 1
    <3>1. NextId(c) \in Cid
      BY <2>1 DEF NextId, Cid
    <3>2. CASE mqtt.result = NoResult
      BY <1>0, <1>2, <3>1, <3>2, RegisterBound DEF ResendLink
    <3>3. CASE mqtt.result # NoResult
      BY <1>0, <1>2, <3>3 DEF ResendLink, Relink, TypeOK
    <3> QED
      BY <3>2, <3>3
  <2>5. Len(registry) \in Nat /\ Len(registry') \in Nat
    BY <1>0 DEF IInv, TypeOK
  <2> QED
    BY <1>0, <2>3, <2>4, <2>5 DEF BoundedByResends
<1>3. CASE UNCHANGED <<tries, registry>>
  BY <1>0, <1>3 DEF Resent, BoundedByResends
<1> QED
  BY <1>0, <1>1, <1>2, <1>3, RegistrySteps

\* The registry outgrows MAX_STORED_RESULTS by at most one entry for each request
\* sent again, for any number of commands and any answers.
THEOREM BoundedByResendsAlways == Spec => []BoundedByResends
<1>1. Init => BoundInv
  <2> SUFFICES ASSUME Init
               PROVE  BoundInv
    OBVIOUS
  <2>1. Resent = {} /\ Len(registry) = 0
    BY DEF Init, Resent
  <2> QED
    BY <2>1, InitIInv, FS_EmptySet DEF BoundInv, BoundedByResends
<1>2. BoundInv => BoundedByResends
  BY DEF BoundInv
<1> QED
  BY <1>1, <1>2, NextBound, PTL DEF Spec
-----------------------------------------------------------------------------
(* What each step does to the registry and the results *)

\* The oldest k entries are evicted and a new one is the last.
Grown(k, entry) ==
    /\ k \in 0..Len(registry)
    /\ DOMAIN registry' = 1..Len(registry) + 1 - k
    /\ \A i \in 1..Len(registry) - k : i + k \in DOMAIN registry /\ registry'[i] = registry[i + k]
    /\ registry'[Len(registry) + 1 - k] = entry

LEMMA RegisterGrows ==
    ASSUME TypeOK, NEW cid \in Cid, Register(cid)
    PROVE  \E k : /\ Grown(k, [cid |-> cid, result |-> cid])
                  /\ Len(registry) < MaxSize => k = 0
<1> DEFINE E == [cid: Cid, result: DOMAIN results \cup {cid}]
           entry == [cid |-> cid, result |-> cid]
           entries == Append(registry, entry)
<1>1. registry \in Seq(E) /\ entry \in E
  BY SeqMonotone DEF TypeOK
<1> HIDE DEF E, entry
<1>2. /\ entries \in Seq(E)
      /\ Len(entries) = Len(registry) + 1
      /\ \A i \in DOMAIN registry : entries[i] = registry[i]
      /\ entries[Len(registry) + 1] = entry
      /\ Len(registry) \in Nat /\ DOMAIN registry = 1..Len(registry)
  BY <1>1
<1> HIDE DEF entries
<1>3. registry' = Newest(entries)
  BY DEF Register, entries, entry
<1>4. PICK k \in 0..Len(entries) :
              /\ Newest(entries) \in Seq(E)
              /\ Len(Newest(entries)) = Len(entries) - k
              /\ \A i \in 1..Len(entries) - k : Newest(entries)[i] = entries[i + k]
              /\ Len(entries) - k <= MaxSize
              /\ Len(entries) <= MaxSize => k = 0
  BY <1>2, NewestDrops
<1>5. Len(Newest(entries)) >= 1
  <2>1. CASE Len(entries) > MaxSize
    BY <1>2, <2>1 DEF Newest
  <2>2. CASE ~(Len(entries) > MaxSize)
    BY <1>2, <2>2 DEF Newest
  <2> QED
    BY <2>1, <2>2
<1>6. k \in 0..Len(registry) /\ DOMAIN registry' = 1..Len(registry) + 1 - k
  BY <1>2, <1>3, <1>4, <1>5
<1>7. \A i \in 1..Len(registry) - k : i + k \in DOMAIN registry /\ registry'[i] = registry[i + k]
  BY <1>2, <1>3, <1>4, <1>6
<1>8. registry'[Len(registry) + 1 - k] = entry
  BY <1>2, <1>3, <1>4, <1>6
<1>9. Len(registry) < MaxSize => k = 0
  BY <1>2, <1>4
<1> QED
  BY <1>6, <1>7, <1>8, <1>9 DEF Grown, entry

LEMMA RelinkGrows ==
    ASSUME TypeOK, NEW cid \in Cid, NEW r \in DOMAIN results, Relink(cid, r)
    PROVE  Grown(0, [cid |-> cid, result |-> r])
<1> DEFINE entry == [cid |-> cid, result |-> r]
<1>1. entry \in [cid: Cid, result: DOMAIN results] /\ registry \in Seq([cid: Cid, result: DOMAIN results])
  BY DEF TypeOK
<1>2. registry' = Append(registry, entry)
  BY DEF Relink
<1> HIDE DEF entry
<1>3. /\ Len(registry) \in Nat /\ DOMAIN registry = 1..Len(registry)
      /\ DOMAIN registry' = 1..Len(registry) + 1
      /\ \A i \in DOMAIN registry : registry'[i] = registry[i]
      /\ registry'[Len(registry) + 1] = entry
  BY <1>1, <1>2
<1> QED
  BY <1>3 DEF Grown, entry

\* The entries and the keys of the results have their types.
LEMMA EntriesTyped ==
    ASSUME TypeOK, NEW i \in DOMAIN registry
    PROVE  /\ registry[i].cid \in Cid
           /\ registry[i].result \in DOMAIN results
           /\ registry[i].result \in Cid
           /\ registry[i].result # NoResult
<1>1. registry[i] \in [cid: Cid, result: DOMAIN results]
  BY ElementType DEF TypeOK
<1> QED
  BY <1>1 DEF TypeOK

\* Only the status of the result settled changes.
LEMMA SettleEffect ==
    ASSUME TypeOK, NEW r \in DOMAIN results \cup {NoResult}, NEW s \in Status, Settle(r, s)
    PROVE  /\ DOMAIN results' = DOMAIN results
           /\ r # NoResult => results'[r].status = s
           /\ \A q \in DOMAIN results : q # r => results'[q] = results[q]
<1>1. CASE r = NoResult
  BY <1>1 DEF Settle, TypeOK
<1>2. CASE r # NoResult
  <2>1. results' = [results EXCEPT ![r].status = s] /\ r \in DOMAIN results
    BY <1>2 DEF Settle
  <2>2. results[r] \in Result
    BY <2>1 DEF TypeOK
  <2>3. results'[r] = [results[r] EXCEPT !.status = s]
    BY <2>1 DEF TypeOK
  <2>4. results'[r].status = s
    BY <2>2, <2>3 DEF Result
  <2> QED
    BY <2>1, <2>4 DEF TypeOK
<1> QED
  BY <1>1, <1>2

-----------------------------------------------------------------------------
(* Ids are fresh *)

LEMMA QuietEntries ==
    ASSUME EntriesAreFresh, UNCHANGED <<tries, registry>>,
           mqtt'.at = "send" => mqtt' = mqtt
    PROVE  EntriesAreFresh'
BY DEF EntriesAreFresh, Message

\* A message is built for c and its id is the last entry.
LEMMA GrownEntries ==
    ASSUME IInv, EntriesAreFresh, NEW c \in Commands, NEW r, NEW k,
           Grown(k, [cid |-> NextId(c), result |-> r]),
           tries' = [tries EXCEPT ![c] = @ + 1],
           tries[c] = 0 => r = NextId(c),
           \/ UNCHANGED mqtt /\ tries[c] = 0
           \/ /\ mqtt'.at = "send" /\ mqtt'.request = c /\ tries[c] = 1
              /\ r \in {NextId(c), mqtt'.result}
    PROVE  EntriesAreFresh'
<1> DEFINE last == Len(registry) + 1 - k
           next == [cid |-> NextId(c), result |-> r]
<1>1. /\ TypeOK /\ tries[c] \in Nat /\ Len(registry) \in Nat /\ k \in 0..Len(registry)
      /\ DOMAIN registry = 1..Len(registry)
  BY DEF IInv, TypeOK, Grown
<1>2. tries'[c] = tries[c] + 1 /\ \A d \in Commands : tries[d] \in Nat /\ tries'[d] >= tries[d]
  BY DEF IInv, TypeOK
<1>3. /\ DOMAIN registry' = 1..last /\ registry'[last] = next /\ last \in Nat
      /\ \A i \in 1..last : i = last \/ (i \in 1..Len(registry) - k)
  <2>1. DOMAIN registry' = 1..last /\ registry'[last] = next
    BY DEF Grown
  <2>2. last \in Nat /\ \A i \in 1..last : i = last \/ (i \in 1..Len(registry) - k)
    BY <1>1
  <2> QED
    BY <2>1, <2>2
<1>4. \A i \in 1..Len(registry) - k : i + k \in DOMAIN registry /\ registry'[i] = registry[i + k]
  BY DEF Grown
<1>5. ASSUME NEW i \in DOMAIN registry
      PROVE  /\ registry[i].cid \in Cid /\ registry[i].cid # NextId(c)
             /\ registry[i].cid.try <= tries[registry[i].cid.cmd]
             /\ registry[i].cid.try <= tries'[registry[i].cid.cmd]
  <2>1. registry[i].cid \in Cid /\ registry[i].cid.try <= tries[registry[i].cid.cmd]
    BY <1>1, EntriesTyped DEF EntriesAreFresh
  <2> QED
    BY <1>1, <1>2, <2>1 DEF Cid, NextId
<1>6. ASSUME NEW i \in DOMAIN registry'
      PROVE  LET cid == registry'[i].cid IN
             /\ cid.try <= tries'[cid.cmd]
             /\ cid.try = 1 => registry'[i].result = cid
             /\ mqtt'.at = "send" /\ cid = Message(mqtt'.request, 2) =>
                   registry'[i].result \in {cid, mqtt'.result}
  <2>1. CASE i = last
    <3>1. registry'[i].cid = NextId(c) /\ registry'[i].result = r
      BY <1>3, <2>1
    <3>2. NextId(c).try = tries[c] + 1 /\ NextId(c).cmd = c
      BY DEF NextId
    <3>3. NextId(c).try = 1 => r = NextId(c)
      BY <1>1, <3>2
    <3>4. mqtt'.at = "send" /\ NextId(c) = Message(mqtt'.request, 2) => r \in {NextId(c), mqtt'.result}
      <4>1. CASE UNCHANGED mqtt /\ tries[c] = 0
        BY <3>3, <4>1
      <4> QED
        BY <4>1
    <3> QED
      BY <1>2, <3>1, <3>2, <3>3, <3>4
  <2>2. CASE i # last
    <3>1. i + k \in DOMAIN registry /\ registry'[i] = registry[i + k]
      BY <1>3, <1>4, <2>2
    <3>2. LET cid == registry[i + k].cid IN
          /\ cid \in Cid /\ cid # NextId(c)
          /\ cid.try <= tries[cid.cmd] /\ cid.try <= tries'[cid.cmd]
          /\ cid.try = 1 => registry[i + k].result = cid
          /\ mqtt.at = "send" /\ cid = Message(mqtt.request, 2) =>
                registry[i + k].result \in {cid, mqtt.result}
      BY <1>5, <3>1 DEF EntriesAreFresh
    <3>3. mqtt' = mqtt \/ registry[i + k].cid # Message(mqtt'.request, 2)
      BY <3>2 DEF Message, NextId
    <3> QED
      BY <3>1, <3>2, <3>3
  <2> QED
    BY <2>1, <2>2
<1>7. ASSUME NEW i \in DOMAIN registry', NEW j \in DOMAIN registry', registry'[i].cid = registry'[j].cid
      PROVE  i = j
  <2>1. next.cid = NextId(c)
    OBVIOUS
  <2>2. CASE i = last \/ j = last
    BY <1>3, <1>4, <1>5, <1>7, <2>1, <2>2
  <2>3. CASE i # last /\ j # last
    <3>1. /\ i + k \in DOMAIN registry /\ registry'[i] = registry[i + k]
          /\ j + k \in DOMAIN registry /\ registry'[j] = registry[j + k]
      BY <1>3, <1>4, <2>3
    <3>2. i + k = j + k
      BY <1>7, <3>1 DEF EntriesAreFresh
    <3> QED
      BY <1>1, <1>3, <3>2
  <2> QED
    BY <2>2, <2>3
<1> QED
  BY <1>6, <1>7 DEF EntriesAreFresh, Message

\* What a command's thread does, but for RegisterCommand.
LEMMA PublishIds ==
    ASSUME IInv, IdsAreFresh, NEW c \in Commands, Publish(c), ~RegisterCommand(c)
    PROVE  IdsAreFresh'
<1>1. EntriesAreFresh'
  BY QuietEntries DEF Publish, Refresh, GiveUpPublish, Send, Store, IdsAreFresh
<1>2. CASE Refresh(c) \/ GiveUpPublish(c) \/ Store(c)
  BY <1>1, <1>2 DEF Refresh, GiveUpPublish, Store, IdsAreFresh, SentLast, IInv, TypeOK
<1>3. CASE Send(c)
  <2>1. pc[c] = "registered" /\ tries[c] = 1 /\ CurrentId(c) = Message(c, 1)
    BY <1>3, FirstMessage DEF Send, CurrentId, Message
  <2>2. outstanding' = outstanding \cup {Message(c, 1)} /\ pc' = [pc EXCEPT ![c] = "sent"]
        /\ UNCHANGED <<tries, results, mqtt>>
    BY <1>3, <2>1 DEF Send
  <2>3. SentLast'
    BY <2>1, <2>2 DEF IdsAreFresh, SentLast, Message, IInv, TypeOK
  <2> QED
    BY <1>1, <2>3 DEF IdsAreFresh
<1> QED
  BY <1>2, <1>3 DEF Publish

LEMMA RegisterCommandIds ==
    ASSUME IInv, IdsAreFresh, NEW c \in Commands, RegisterCommand(c)
    PROVE  IdsAreFresh'
<1>1. tries[c] = 0 /\ NextId(c) = Message(c, 1) /\ NextId(c) \in Cid
  BY FirstMessage DEF RegisterCommand, NextId, Message, Cid
<1>2. PICK k : Grown(k, [cid |-> NextId(c), result |-> NextId(c)])
  BY <1>1, RegisterGrows DEF RegisterCommand, IInv
<1>3. EntriesAreFresh'
  BY <1>1, <1>2, GrownEntries DEF RegisterCommand, IdsAreFresh
<1>4. \A cid \in Cid : cid.try <= tries[cid.cmd] => cid.cmd # c /\ cid.try <= tries'[cid.cmd]
  BY <1>1 DEF RegisterCommand, Cid, IInv, TypeOK
<1>5. DOMAIN results' = DOMAIN results \cup {Message(c, 1)} /\ tries'[c] = 1
  BY <1>1 DEF RegisterCommand, Register, IInv, TypeOK
<1>6. SentLast'
  <2>1. \A cid \in outstanding : cid.try <= tries'[cid.cmd] /\ cid.cmd # c
    BY <1>4 DEF IdsAreFresh, SentLast, IInv, TypeOK
  <2>2. \A r \in DOMAIN results' : r.try <= tries'[r.cmd]
    <3>1. \A r \in DOMAIN results : r \in Cid /\ r.try <= tries[r.cmd]
      BY DEF IdsAreFresh, SentLast, IInv, TypeOK
    <3> QED
      BY <1>4, <1>5, <3>1 DEF Message
  <2>3. \A d \in Commands : pc'[d] = "registered" => Message(d, 1) \notin outstanding
    BY <2>1 DEF RegisterCommand, IdsAreFresh, SentLast, Message, IInv, TypeOK
  <2>4. mqtt.at \in {"send", "store"} => mqtt.request # c
    BY <1>1 DEF IdsAreFresh, SentLast
  <2> QED
    BY <2>1, <2>2, <2>3, <2>4 DEF RegisterCommand, IdsAreFresh, SentLast, IInv, TypeOK
<1> QED
  BY <1>3, <1>6 DEF IdsAreFresh

Handled(cid, carriesId, refusal) ==
    HandleOk(cid, carriesId) \/ HandleError(cid, carriesId) \/ HandleBad(cid, carriesId, refusal)

\* The mqtt thread takes the result of an answer, or settles it at once.
Takes(r, cid) ==
    LET accepted == [cmd |-> cid.cmd, code |-> "ok"] \in answered' IN
    \/ /\ UNCHANGED results
       /\ mqtt'.at \in {"accepted", "bad"} /\ mqtt'.result = r
       /\ mqtt'.at = "accepted" => accepted
    \/ /\ UNCHANGED mqtt
       /\ (Settle(r, "success") /\ accepted) \/ Settle(r, "failed")

\* An answer is noted; its result is settled, or held by the mqtt thread.
LEMMA AnswerEffect ==
    ASSUME TypeOK, NEW cid, NEW carriesId, NEW refusal \in BOOLEAN,
           Handled(cid, carriesId, refusal)
    PROVE  LET r == ResultOf(cid, carriesId) IN
           /\ mqtt.at = "idle" /\ cid \in outstanding /\ answered \subseteq answered'
           /\ outstanding' \in {outstanding \ {cid}, outstanding}
           /\ ~Duplicates => outstanding' = outstanding \ {cid}
           /\ UNCHANGED <<pc, tries, retried, registry, lastRequest>>
           /\ r \in DOMAIN results \cup {NoResult}
           /\ Takes(r, cid)
<1> DEFINE r == ResultOf(cid, carriesId)
<1>1. r \in DOMAIN results \cup {NoResult}
  BY ResultOfType
<1> HIDE DEF r
<1>2. PICK code : Deliver(cid, code) /\ (HandleOk(cid, carriesId) => code = "ok")
  BY DEF Handled, HandleOk, HandleError, HandleBad
<1>3. /\ mqtt.at = "idle" /\ cid \in outstanding /\ answered \subseteq answered'
      /\ outstanding' \in {outstanding \ {cid}, outstanding}
      /\ ~Duplicates => outstanding' = outstanding \ {cid}
  BY <1>2 DEF Deliver
<1>4. HandleOk(cid, carriesId) => [cmd |-> cid.cmd, code |-> "ok"] \in answered'
  BY <1>2 DEF Deliver, Noted, TypeOK, Cid
<1>5. CASE HandleOk(cid, carriesId)
  <2>1. CASE IsForLastRequest(r)
    <3>1. mqtt' = [mqtt EXCEPT !.at = "accepted", !.result = r] /\ UNCHANGED results
      BY <1>5, <2>1 DEF HandleOk, r
    <3>2. mqtt'.at = "accepted" /\ mqtt'.result = r
      BY <3>1 DEF TypeOK
    <3> QED
      BY <1>1, <1>3, <1>4, <1>5, <3>1, <3>2 DEF HandleOk, Takes, r
  <2>2. CASE ~IsForLastRequest(r)
    <3>1. UNCHANGED mqtt /\ Settle(r, "success")
      BY <1>5, <2>2 DEF HandleOk, r
    <3> QED
      BY <1>1, <1>3, <1>4, <1>5, <3>1 DEF HandleOk, Takes, r
  <2> QED
    BY <2>1, <2>2
<1>6. CASE HandleError(cid, carriesId)
  BY <1>1, <1>3, <1>6 DEF HandleError, Takes, r
<1>7. CASE HandleBad(cid, carriesId, refusal)
  BY <1>1, <1>3, <1>7 DEF HandleBad, Takes, r
<1> QED
  BY <1>5, <1>6, <1>7 DEF Handled

LEMMA AnswerIds ==
    ASSUME IInv, IdsAreFresh, NEW cid, NEW carriesId, NEW refusal \in BOOLEAN,
           Handled(cid, carriesId, refusal)
    PROVE  IdsAreFresh'
<1> DEFINE r == ResultOf(cid, carriesId)
<1>1. TypeOK
  BY DEF IInv
<1>2. /\ mqtt.at = "idle" /\ outstanding' \in {outstanding \ {cid}, outstanding}
      /\ UNCHANGED <<pc, tries, retried, registry, lastRequest>>
      /\ r \in DOMAIN results \cup {NoResult} /\ Takes(r, cid)
  BY <1>1, AnswerEffect
<1> HIDE DEF r
<1>3. EntriesAreFresh'
  BY <1>2, QuietEntries DEF IdsAreFresh, Takes
<1>4. DOMAIN results' = DOMAIN results
  BY <1>1, <1>2, SettleEffect DEF Status, Takes
<1> QED
  BY <1>2, <1>3, <1>4 DEF IdsAreFresh, SentLast, Takes

LEMMA ContinueIds ==
    ASSUME IInv, IdsAreFresh, Continue, ~ResendLink
    PROVE  IdsAreFresh'
<1>1. EntriesAreFresh'
  BY QuietEntries DEF Continue, ClearLast, GiveUpResend, StartResend, ResendRefresh, ResendRefreshFails,
                      ResendRefreshRaises, ResendSend, ResendStore, Waiting, IdsAreFresh, IInv, TypeOK
<1>2. CASE ~ResendSend
  <2>1. UNCHANGED <<pc, tries, outstanding>>
    BY <1>2 DEF Continue, ClearLast, GiveUpResend, StartResend, ResendRefresh, ResendRefreshFails,
                ResendRefreshRaises, ResendStore
  <2>2. mqtt' = Waiting \/ mqtt'.at \in {"refresh", "link"} \/ (mqtt'.at = "dead" /\ mqtt'.result = NoResult)
    BY <1>2 DEF Continue, ClearLast, GiveUpResend, StartResend, ResendRefresh, ResendRefreshFails,
                ResendRefreshRaises, ResendStore, Waiting, IInv, TypeOK
  <2>3. DOMAIN results' = DOMAIN results
    <3>1. mqtt.result \in DOMAIN results \cup {NoResult}
      BY DEF IInv, TypeOK
    <3> QED
      BY <1>2, <3>1, SettleEffect
      DEF Continue, ClearLast, GiveUpResend, StartResend, ResendRefresh, ResendRefreshFails,
          ResendRefreshRaises, ResendStore, Status, IInv
  <2> QED
    BY <1>1, <2>1, <2>2, <2>3 DEF IdsAreFresh, SentLast, Waiting
<1>3. CASE ResendSend
  <2> DEFINE c == mqtt.request
  <2>1. c \in Commands /\ tries[c] = 2 /\ pc[c] = "done" /\ CurrentId(c) = Message(c, 2)
    BY <1>3 DEF ResendSend, IInv, MarkedBeforeResend, OnlyDoneIsTaken, IdsAreFresh, SentLast, CurrentId, Message
  <2>2. /\ outstanding' = outstanding \cup {Message(c, 2)} /\ mqtt'.at = "store" /\ mqtt'.request = c
        /\ UNCHANGED <<pc, tries, results>>
    BY <1>3, <2>1 DEF ResendSend, IInv, TypeOK
  <2>3. SentLast'
    BY <2>1, <2>2 DEF IdsAreFresh, SentLast, Message
  <2> QED
    BY <1>1, <2>3 DEF IdsAreFresh
<1> QED
  BY <1>2, <1>3

\* The new message of a resend, and the result it is linked to.
LEMMA LinkEffect ==
    ASSUME IInv, IdsAreFresh, ResendLink
    PROVE  LET c == mqtt.request
               r == IF mqtt.result = NoResult THEN Message(c, 2) ELSE mqtt.result
           IN  /\ c \in Commands /\ tries[c] = 1 /\ tries'[c] = 2 /\ tries' = [tries EXCEPT ![c] = 2]
               /\ pc[c] = "done"
               /\ mqtt'.at = "send" /\ mqtt'.request = c /\ mqtt'.result = mqtt.result
               /\ \E k : /\ Grown(k, [cid |-> Message(c, 2), result |-> r])
                         /\ Len(registry) < MaxSize => k = 0
               /\ DOMAIN results' = DOMAIN results \cup {r}
               /\ mqtt.result = NoResult => Pending(r)' /\ r \notin DOMAIN results
               /\ \A q \in DOMAIN results : results'[q].status = results[q].status
<1> DEFINE c == mqtt.request
<1>1. c \in Commands /\ tries[c] = 1 /\ pc[c] = "done" /\ TypeOK
  BY DEF ResendLink, IInv, MarkedBeforeResend, OnlyDoneIsTaken
<1>2. NextId(c) = Message(c, 2) /\ NextId(c) \in Cid
  BY <1>1 DEF NextId, Message, Cid
<1>3. tries' = [tries EXCEPT ![c] = 2] /\ mqtt' = [mqtt EXCEPT !.at = "send"]
  BY <1>1 DEF ResendLink, TypeOK
<1>4. tries'[c] = 2 /\ mqtt'.at = "send" /\ mqtt'.request = c /\ mqtt'.result = mqtt.result
  BY <1>1, <1>3 DEF TypeOK
<1>5. CASE mqtt.result = NoResult
  <2>1. Register(Message(c, 2))
    BY <1>2, <1>5 DEF ResendLink
  <2>2. Message(c, 2) \notin DOMAIN results
    BY <1>1 DEF IdsAreFresh, SentLast, Message
  <2>3. /\ DOMAIN results' = DOMAIN results \cup {Message(c, 2)}
        /\ results'[Message(c, 2)].status = "pending"
        /\ \A q \in DOMAIN results : results'[q].status = results[q].status
    BY <2>1, <2>2 DEF Register
  <2>4. \E k : /\ Grown(k, [cid |-> Message(c, 2), result |-> Message(c, 2)])
               /\ Len(registry) < MaxSize => k = 0
    BY <1>1, <1>2, <2>1, RegisterGrows
  <2> QED
    BY <1>1, <1>3, <1>4, <1>5, <2>2, <2>3, <2>4 DEF Pending
<1>6. CASE mqtt.result # NoResult
  <2>1. mqtt.result \in DOMAIN results /\ Relink(Message(c, 2), mqtt.result)
    BY <1>1, <1>2, <1>6 DEF ResendLink, TypeOK
  <2>2. Grown(0, [cid |-> Message(c, 2), result |-> mqtt.result])
    BY <1>1, <1>2, <2>1, RelinkGrows
  <2>3. DOMAIN results' = DOMAIN results /\ \A q \in DOMAIN results : results'[q].status = results[q].status
    <3>1. results[mqtt.result] \in Result
      BY <1>1, <2>1 DEF TypeOK
    <3> QED
      BY <1>1, <2>1, <3>1 DEF Relink, TypeOK, Result
  <2> QED
    BY <1>1, <1>3, <1>4, <1>6, <2>1, <2>2, <2>3
<1> QED
  BY <1>5, <1>6

LEMMA ResendLinkIds ==
    ASSUME IInv, IdsAreFresh, ResendLink
    PROVE  IdsAreFresh'
<1> DEFINE c == mqtt.request
           r == IF mqtt.result = NoResult THEN Message(c, 2) ELSE mqtt.result
<1>1. /\ c \in Commands /\ tries[c] = 1 /\ tries'[c] = 2 /\ tries' = [tries EXCEPT ![c] = 2]
      /\ pc[c] = "done"
      /\ mqtt'.at = "send" /\ mqtt'.request = c /\ mqtt'.result = mqtt.result
      /\ \E k : Grown(k, [cid |-> Message(c, 2), result |-> r])
      /\ DOMAIN results' = DOMAIN results \cup {r}
  BY LinkEffect
<1>2. UNCHANGED <<pc, outstanding>>
  BY DEF ResendLink
<1>3. NextId(c) = Message(c, 2) /\ tries' = [tries EXCEPT ![c] = @ + 1]
  BY <1>1 DEF NextId, Message
<1>4. EntriesAreFresh'
  <2>1. r \in {NextId(c), mqtt'.result}
    BY <1>1, <1>3
  <2> HIDE DEF r
  <2>2. PICK k : Grown(k, [cid |-> NextId(c), result |-> r])
    BY <1>1, <1>3
  <2> QED
    <3>1. c \in Commands /\ EntriesAreFresh /\ tries[c] = 1
      BY <1>1 DEF IdsAreFresh
    <3>2. mqtt'.at = "send" /\ mqtt'.request = c
      BY <1>1
    <3> HIDE DEF c
    <3>3. tries[c] # 0
      BY <3>1
    <3> QED
      BY <1>3, <2>1, <2>2, <3>1, <3>2, <3>3, GrownEntries
<1>5. \A cid \in Cid : cid.try <= tries[cid.cmd] => cid.try <= tries'[cid.cmd]
  BY <1>1 DEF Cid, IInv, TypeOK
<1>6. r \in DOMAIN results \/ r = Message(c, 2)
  BY DEF IInv, TypeOK
<1>7. SentLast'
  <2>1. \A cid \in outstanding : cid.try <= tries'[cid.cmd] /\ cid # Message(c, 2)
    BY <1>1, <1>5 DEF IdsAreFresh, SentLast, IInv, TypeOK, Message
  <2>2. \A q \in DOMAIN results' : q.try <= tries'[q.cmd]
    <3>1. \A q \in DOMAIN results : q \in Cid /\ q.try <= tries[q.cmd]
      BY DEF IdsAreFresh, SentLast, IInv, TypeOK
    <3>2. Message(c, 2).try <= tries'[Message(c, 2).cmd]
      BY <1>1 DEF Message
    <3> QED
      BY <1>1, <1>5, <1>6, <3>1, <3>2
  <2> QED
    BY <1>1, <1>2, <2>1, <2>2 DEF IdsAreFresh, SentLast
<1> QED
  BY <1>4, <1>7 DEF IdsAreFresh

LEMMA NextIds == ASSUME IInv, IdsAreFresh, [Next]_vars PROVE IdsAreFresh'
<1>1. ASSUME NEW c \in Commands, Publish(c)
      PROVE  IdsAreFresh'
  BY <1>1, PublishIds, RegisterCommandIds
<1>2. ASSUME NEW cid \in outstanding, Answer(cid)
      PROVE  IdsAreFresh'
  BY <1>2, AnswerIds DEF Answer, Handled
<1>3. CASE Continue
  BY <1>3, ContinueIds, ResendLinkIds
<1>4. CASE UNCHANGED vars
  BY <1>4 DEF vars, client, IdsAreFresh, EntriesAreFresh, SentLast, Message
<1> QED
  BY <1>1, <1>2, <1>3, <1>4 DEF Next
-----------------------------------------------------------------------------
(* Pending results are awaited *)

\* A step that adds no entry and leaves what it leaves pending awaited.
LEMMA QuietAwaited ==
    ASSUME TypeOK, NewestIsAwaited, UNCHANGED registry,
           \A cid \in Cid, r \in DOMAIN results :
              results'[r].status = "pending" =>
                 /\ results[r].status = "pending"
                 /\ mqtt.at # "dead"
                 /\ Held(r) => mqtt'.at = "dead" \/ Held(r)'
                 /\ (\E i \in DOMAIN registry : registry[i].cid = cid /\ registry[i].result = r) /\ IsLive(cid) =>
                       Held(r)' \/ IsLive(cid)'
    PROVE  NewestIsAwaited'
<1> SUFFICES ASSUME NEW i \in DOMAIN registry, NEW r, NEW cid,
                    r = registry[i].result, cid = registry[i].cid,
                    results'[r].status = "pending", \A j \in DOMAIN registry : registry[j].result = r => j <= i
             PROVE  mqtt'.at = "dead" \/ Held(r)' \/ IsLive(cid)'
  BY DEF NewestIsAwaited, Pending, Held, IsLive, Message
<1>1. r \in DOMAIN results /\ cid \in Cid
  BY EntriesTyped
<1>2. mqtt.at = "dead" \/ Held(r) \/ IsLive(cid)
  BY <1>1 DEF NewestIsAwaited, Pending
<1> QED
  BY <1>1, <1>2

\* A new entry that may be answered is the newest of its result.
LEMMA GrownAwaited ==
    ASSUME IInv, IdsAreFresh, NewestIsAwaited, NEW k, NEW cid \in Cid, NEW r,
           Grown(k, [cid |-> cid, result |-> r]),
           IsLive(cid)', mqtt.at # "dead",
           \A q \in DOMAIN results : results'[q].status = results[q].status,
           \A q \in DOMAIN results : q # r /\ Held(q) => Held(q)',
           \A old \in Cid : (\E i \in DOMAIN registry : registry[i].cid = old) /\ IsLive(old) => IsLive(old)'
    PROVE  NewestIsAwaited'
<1> DEFINE last == Len(registry) + 1 - k
<1>1. /\ Len(registry) \in Nat /\ k \in 0..Len(registry) /\ DOMAIN registry = 1..Len(registry) /\ TypeOK
      /\ DOMAIN registry' = 1..last /\ registry'[last] = [cid |-> cid, result |-> r]
      /\ \A i \in 1..Len(registry) - k : i + k \in DOMAIN registry /\ registry'[i] = registry[i + k]
  BY DEF Grown, IInv, TypeOK
<1>2. last \in Nat /\ \A i \in 1..last : i = last \/ i \in 1..Len(registry) - k
  BY <1>1
<1> SUFFICES ASSUME NEW i \in DOMAIN registry', NEW q, NEW id,
                    q = registry'[i].result, id = registry'[i].cid, results'[q].status = "pending",
                    \A j \in DOMAIN registry' : registry'[j].result = q => j <= i
             PROVE  Held(q)' \/ IsLive(id)'
  BY DEF NewestIsAwaited, Pending, Held, IsLive, Message
<1>3. CASE i = last
  BY <1>1, <1>3
<1>4. CASE i # last
  <2>1. i + k \in DOMAIN registry /\ registry'[i] = registry[i + k] /\ i \in 1..Len(registry) - k
    BY <1>1, <1>2, <1>4
  <2>2. q = registry[i + k].result /\ id = registry[i + k].cid /\ q \in DOMAIN results /\ id \in Cid
    BY <1>1, <2>1, EntriesTyped
  <2>3. q # r
    BY <1>1, <1>2, <1>4, <2>1
  <2>4. ASSUME NEW j \in DOMAIN registry, registry[j].result = q
        PROVE  j <= i + k
    <3>1. CASE j <= k
      BY <1>1, <2>1, <3>1
    <3>2. CASE j > k
      <4>1. j - k \in 1..Len(registry) - k
        BY <1>1, <3>2
      <4>2. j - k \in DOMAIN registry' /\ registry'[j - k] = registry[(j - k) + k] /\ (j - k) + k = j
        BY <1>1, <4>1
      <4>3. j - k <= i
        BY <2>1, <2>4, <4>2
      <4> QED
        BY <1>1, <2>1, <4>3
    <3> QED
      BY <1>1, <3>1, <3>2
  <2>5. Pending(q)
    BY <2>2 DEF Pending
  <2>6. Held(q) \/ IsLive(id)
    BY <2>1, <2>2, <2>4, <2>5 DEF NewestIsAwaited
  <2> QED
    BY <2>1, <2>2, <2>3, <2>6
<1> QED
  BY <1>3, <1>4

\* An answer with its id settles the result it belongs to, or holds it.
LEMMA AnswerAwaited ==
    ASSUME AwaitedInv, NEW cid, NEW refusal \in BOOLEAN, Handled(cid, TRUE, refusal)
    PROVE  NewestIsAwaited'
<1> DEFINE r == ResultOf(cid, TRUE)
<1>1. TypeOK
  BY DEF AwaitedInv, IInv
<1>2. /\ mqtt.at = "idle" /\ cid \in outstanding /\ outstanding' \in {outstanding \ {cid}, outstanding}
      /\ UNCHANGED <<pc, tries, retried, registry, lastRequest>>
      /\ r \in DOMAIN results \cup {NoResult} /\ Takes(r, cid)
  BY <1>1, AnswerEffect
<1>3. ASSUME NEW i \in DOMAIN registry, registry[i].cid = cid
      PROVE  r = registry[i].result
  BY <1>3 DEF ResultOf, Known, AwaitedInv, IdsAreFresh, EntriesAreFresh
<1> HIDE DEF r
<1>4. ASSUME NEW id \in Cid, NEW q \in DOMAIN results, results'[q].status = "pending"
      PROVE  /\ results[q].status = "pending" /\ mqtt.at # "dead" /\ ~Held(q)
             /\ (\E i \in DOMAIN registry : registry[i].cid = id /\ registry[i].result = q) /\ IsLive(id) =>
                   Held(q)' \/ IsLive(id)'
  <2>1. results[q].status = "pending" /\ (q = r => UNCHANGED results)
    BY <1>1, <1>2, <1>4, SettleEffect DEF Takes, Status, TypeOK
  <2>2. id # cid => (IsLive(id) => IsLive(id)')
    BY <1>2 DEF IsLive
  <2>3. id = cid /\ (\E i \in DOMAIN registry : registry[i].cid = id /\ registry[i].result = q) => Held(q)'
    <3> SUFFICES ASSUME q = r
                 PROVE  Held(q)'
      BY <1>3
    <3>1. r # NoResult /\ results'[r].status = "pending"
      BY <1>1, <1>4 DEF TypeOK
    <3>2. ~(Settle(r, "success") \/ Settle(r, "failed"))
      BY <1>1, <1>2, <3>1, SettleEffect DEF Status
    <3> QED
      BY <1>2, <3>2 DEF Takes, Held
  <2> QED
    BY <1>2, <2>1, <2>2, <2>3 DEF Held
<1> QED
  BY <1>1, <1>2, <1>4, QuietAwaited DEF AwaitedInv

LEMMA PublishAwaited ==
    ASSUME AwaitedInv, NEW c \in Commands, Publish(c)
    PROVE  NewestIsAwaited'
<1> USE DEF AwaitedInv
<1>1. TypeOK /\ CurrentId(c) = Message(c, tries[c])
  BY DEF IInv, CurrentId, Message
<1>2. CASE RegisterCommand(c)
  <2> DEFINE cid == Message(c, 1)
  <2>1. tries[c] = 0 /\ NextId(c) = cid /\ cid \in Cid
    BY <1>2, FirstMessage DEF RegisterCommand, NextId, Message, Cid
  <2>2. PICK k : Grown(k, [cid |-> cid, result |-> cid])
    BY <1>1, <1>2, <2>1, RegisterGrows DEF RegisterCommand
  <2>3. cid \notin DOMAIN results
    BY <2>1 DEF IdsAreFresh, SentLast, Message
  <2>4. \A q \in DOMAIN results : results'[q].status = results[q].status
    BY <1>2, <2>1, <2>3 DEF RegisterCommand, Register
  <2>5. UNCHANGED <<mqtt, outstanding>> /\ pc' = [pc EXCEPT ![c] = "registered"]
    BY <1>2 DEF RegisterCommand
  <2>6. IsLive(cid)' /\ \A old \in Cid : IsLive(old) => IsLive(old)'
    BY <1>1, <2>5 DEF IsLive, Message, TypeOK, Cid
  <2>7. \A q \in DOMAIN results : Held(q) => Held(q)'
    BY <2>5 DEF Held
  <2>8. CASE mqtt.at # "dead"
    <3> HIDE DEF cid
    <3> QED
      BY <2>1, <2>2, <2>4, <2>6, <2>7, <2>8, GrownAwaited
  <2>9. CASE mqtt.at = "dead"
    BY <2>5, <2>9 DEF NewestIsAwaited
  <2> QED
    BY <2>8, <2>9
<1>3. CASE Refresh(c) \/ GiveUpPublish(c) \/ Send(c) \/ Store(c)
  <2>1. UNCHANGED <<registry, results, mqtt>>
    BY <1>3 DEF Refresh, GiveUpPublish, Send, Store
  <2>2. \A id \in Cid : IsLive(id) => IsLive(id)'
    <3>1. CASE Send(c)
      <4>1. tries[c] = 1 /\ pc' = [pc EXCEPT ![c] = "sent"] /\ outstanding' = outstanding \cup {Message(c, 1)}
        BY <1>1, <3>1, FirstMessage DEF Send
      <4> QED
        BY <1>1, <2>1, <4>1 DEF IsLive, Message, Cid, TypeOK
    <3>2. CASE Refresh(c) \/ GiveUpPublish(c) \/ Store(c)
      BY <1>1, <2>1, <3>2 DEF Refresh, GiveUpPublish, Store, IsLive, Cid, TypeOK
    <3> QED
      BY <1>3, <3>1, <3>2
  <2>3. \A q \in DOMAIN results : Held(q) => Held(q)'
    BY <2>1 DEF Held
  <2>4. CASE mqtt.at # "dead"
    BY <1>1, <2>1, <2>2, <2>3, <2>4, QuietAwaited
  <2>5. CASE mqtt.at = "dead"
    BY <2>1, <2>5 DEF NewestIsAwaited
  <2> QED
    BY <2>4, <2>5
<1> QED
  BY <1>2, <1>3 DEF Publish

LEMMA ContinueAwaited ==
    ASSUME AwaitedInv, Continue
    PROVE  NewestIsAwaited'
<1> USE DEF AwaitedInv
<1>1. TypeOK
  BY DEF IInv
<1>2. CASE ResendLink
  <2>1. PICK c \in Commands :
          /\ c = mqtt.request /\ mqtt'.at = "send" /\ mqtt'.request = c
          /\ \E r : /\ r = IF mqtt.result = NoResult THEN Message(c, 2) ELSE mqtt.result
                   /\ \E k : Grown(k, [cid |-> Message(c, 2), result |-> r])
          /\ \A q \in DOMAIN results : results'[q].status = results[q].status
    BY <1>2, LinkEffect
  <2>2. PICK r, k : /\ r = IF mqtt.result = NoResult THEN Message(c, 2) ELSE mqtt.result
                    /\ Grown(k, [cid |-> Message(c, 2), result |-> r])
    BY <2>1
  <2>3. UNCHANGED <<pc, outstanding>> /\ mqtt.at = "link"
    BY <1>2 DEF ResendLink
  <2>4. Message(c, 2) \in Cid /\ IsLive(Message(c, 2))'
    BY <2>1 DEF Message, Cid, IsLive
  <2>5. \A q \in DOMAIN results : q # r => ~Held(q)
    BY <1>1, <2>2 DEF Held, TypeOK
  <2>6. \A old \in Cid : IsLive(old) => IsLive(old)'
    BY <2>3 DEF IsLive
  <2> QED
    BY <2>1, <2>2, <2>3, <2>4, <2>5, <2>6, GrownAwaited
<1>3. CASE ResendRefreshRaises
  BY <1>3 DEF ResendRefreshRaises, Waiting, NewestIsAwaited
<1>4. CASE StartResend \/ ResendRefresh \/ ResendSend \/ ResendStore
  <2>1. UNCHANGED <<registry, results, pc>> /\ mqtt.at # "dead"
    BY <1>4 DEF StartResend, ResendRefresh, ResendSend, ResendStore
  <2>2. \A q \in DOMAIN results : Held(q) => Held(q)'
    BY <1>1, <1>4 DEF StartResend, ResendRefresh, ResendSend, ResendStore, Held, TypeOK
  <2>3. \A id \in Cid : IsLive(id) => IsLive(id)'
    <3>1. CASE ResendSend
      <4>1. tries[mqtt.request] = 2 /\ CurrentId(mqtt.request) = Message(mqtt.request, 2)
        BY <3>1 DEF ResendSend, IdsAreFresh, SentLast, CurrentId, Message
      <4> QED
        BY <2>1, <3>1, <4>1 DEF ResendSend, IsLive
    <3>2. CASE StartResend \/ ResendRefresh \/ ResendStore
      BY <2>1, <3>2 DEF StartResend, ResendRefresh, ResendStore, IsLive
    <3> QED
      BY <1>4, <3>1, <3>2
  <2> QED
    BY <1>1, <2>1, <2>2, <2>3, QuietAwaited
<1>5. CASE ClearLast \/ GiveUpResend \/ ResendRefreshFails
  <2>1. /\ UNCHANGED <<registry, pc, outstanding>> /\ mqtt.at \in {"accepted", "bad", "refresh"}
        /\ \E s \in {"success", "failed"} : Settle(mqtt.result, s)
    BY <1>5 DEF ClearLast, GiveUpResend, ResendRefreshFails
  <2>2. mqtt.result \in DOMAIN results \cup {NoResult}
    BY <1>1 DEF TypeOK
  <2>3. \A q \in DOMAIN results : results'[q].status = "pending" => results[q].status = "pending" /\ q # mqtt.result
    BY <1>1, <2>1, <2>2, SettleEffect DEF Status, TypeOK
  <2>4. \A q \in DOMAIN results : results'[q].status = "pending" => ~Held(q)
    BY <2>3 DEF Held
  <2>5. \A id \in Cid : IsLive(id) => IsLive(id)'
    BY <2>1 DEF IsLive
  <2> QED
    BY <1>1, <2>1, <2>3, <2>4, <2>5, QuietAwaited
<1> QED
  BY <1>2, <1>3, <1>4, <1>5 DEF Continue

LEMMA NextAwaited == ~IdLess /\ AwaitedInv /\ [Next]_vars => AwaitedInv'
<1> SUFFICES ASSUME ~IdLess, AwaitedInv, [Next]_vars
             PROVE  AwaitedInv'
  OBVIOUS
<1>1. IInv' /\ IdsAreFresh'
  BY NextIInv, NextIds DEF AwaitedInv
<1>2. ASSUME NEW c \in Commands, Publish(c)
      PROVE  NewestIsAwaited'
  BY <1>2, PublishAwaited
<1>3. ASSUME NEW cid \in outstanding, Answer(cid)
      PROVE  NewestIsAwaited'
  <2>1. CarriesId = {TRUE}
    BY DEF CarriesId
  <2>2. PICK refusal \in BOOLEAN : Handled(cid, TRUE, refusal)
    BY <1>3, <2>1 DEF Answer, Handled
  <2> QED
    BY <2>2, AnswerAwaited
<1>4. ASSUME Continue
      PROVE  NewestIsAwaited'
  BY <1>4, ContinueAwaited
<1>5. ASSUME UNCHANGED vars
      PROVE  NewestIsAwaited'
  BY <1>5 DEF vars, client, AwaitedInv, NewestIsAwaited, Pending, Held, IsLive, Message
<1> QED
  BY <1>1, <1>2, <1>3, <1>4, <1>5 DEF Next, AwaitedInv

LEMMA InitAwaited == Init => AwaitedInv
BY InitIInv DEF Init, AwaitedInv, IdsAreFresh, EntriesAreFresh, SentLast, NewestIsAwaited, Waiting

\* A nonempty set of positions has a last one: no set above it is smaller.
LEMMA LastOfPositions ==
    ASSUME NEW n \in Nat, NEW P, P \subseteq 1..n, P # {}
    PROVE  \E i \in P : \A j \in P : j <= i
<1> DEFINE Above(i) == {k \in 1..n : i < k}
           T == {Above(i) : i \in P}
           R == StrictSubsetOrdering(1..n)
<1>1. IsWellFoundedOn(R, FiniteSubsetsOf(1..n))
  BY FS_StrictSubsetOrderingWellFounded
<1>2. T \subseteq FiniteSubsetsOf(1..n) /\ T # {}
  <2>1. IsFiniteSet(1..n)
    BY FS_Interval
  <2>2. FiniteSubsetsOf(1..n) = SUBSET (1..n)
    BY <2>1, FS_FiniteSubsetsOfFinite
  <2>3. \A i \in P : Above(i) \in SUBSET (1..n)
    OBVIOUS
  <2> HIDE DEF Above
  <2>4. T \subseteq SUBSET (1..n) /\ T # {}
    BY <2>3
  <2> HIDE DEF T
  <2> QED
    BY <2>2, <2>4
<1>3. PICK x \in T : \A y \in T : <<y, x>> \notin R
  <2> HIDE DEF R, T
  <2> QED
    BY <1>1, <1>2, WFMin
<1>4. PICK i \in P : x = Above(i)
  BY <1>3
<1>5. ASSUME NEW j \in P, i < j PROVE FALSE
  <2>1. Above(j) \in T /\ Above(j) \subseteq Above(i)
    BY <1>5
  <2>2. j \in Above(i) /\ j \notin Above(j)
    BY <1>5
  <2>3. <<Above(j), Above(i)>> \in R
    BY <2>1, <2>2 DEF StrictSubsetOrdering
  <2> QED
    BY <1>3, <1>4, <2>1, <2>3
<1> QED
  BY <1>5

LEMMA AwaitedImplies == AwaitedInv => PendingIsAwaited
<1> SUFFICES ASSUME AwaitedInv, NEW n \in DOMAIN registry, Pending(registry[n].result),
                    mqtt.at # "dead", mqtt.result # registry[n].result
             PROVE  LET r == registry[n].result IN
                    \/ r = CurrentId(r.cmd) /\ (pc[r.cmd] = "registered" \/ mqtt.at = "send")
                    \/ \E j \in DOMAIN registry : registry[j].result = r /\ registry[j].cid \in outstanding
  BY DEF PendingIsAwaited, Pending
<1> USE DEF AwaitedInv
<1> DEFINE r == registry[n].result
           Same == {j \in DOMAIN registry : registry[j].result = r}
<1>1. PICK i \in Same : \A j \in Same : j <= i
  <2>1. Len(registry) \in Nat /\ DOMAIN registry = 1..Len(registry)
    BY DEF IInv, TypeOK
  <2>2. Same \subseteq 1..Len(registry) /\ n \in Same
    BY <2>1
  <2> HIDE DEF Same
  <2> QED
    BY <2>1, <2>2, LastOfPositions
<1>2. TypeOK /\ i \in DOMAIN registry /\ registry[i].result = r
  BY <1>1 DEF IInv
<1> DEFINE cid == registry[i].cid
<1>3. cid \in Cid /\ ~Held(r)
  BY <1>2, EntriesTyped DEF Held
<1>4. IsLive(cid)
  BY <1>1, <1>2, <1>3 DEF NewestIsAwaited
<1>5. CASE cid \in outstanding
  BY <1>2, <1>5
<1>6. CASE pc[cid.cmd] = "registered" /\ cid.try = 1
  <2>1. tries[cid.cmd] = 1 /\ r = cid
    BY <1>2, <1>3, <1>6, FirstMessage DEF IdsAreFresh, EntriesAreFresh, Cid
  <2>2. cid = CurrentId(cid.cmd)
    BY <1>3, <1>6, <2>1 DEF CurrentId, Cid
  <2> QED
    BY <1>6, <2>1, <2>2
<1>7. CASE mqtt.at = "send" /\ cid = Message(mqtt.request, 2)
  <2>1. r = cid /\ tries[mqtt.request] = 2
    BY <1>2, <1>7 DEF IdsAreFresh, EntriesAreFresh, SentLast
  <2>2. r = CurrentId(r.cmd)
    BY <1>7, <2>1 DEF Message, CurrentId
  <2> QED
    BY <1>7, <2>2
<1> QED
  BY <1>4, <1>5, <1>6, <1>7 DEF IsLive

\* When answers carry their id, a pending result is awaited or its command about to
\* be sent, for any number of commands, registry size and duplicated answers.
THEOREM PendingIsAwaitedAlways == ~IdLess => (Spec => []PendingIsAwaited)
<1> SUFFICES ASSUME ~IdLess
             PROVE  Spec => []PendingIsAwaited
  OBVIOUS
<1>1. AwaitedInv /\ [Next]_vars => AwaitedInv'
  BY NextAwaited
<1> QED
  BY <1>1, InitAwaited, AwaitedImplies, PTL DEF Spec
-----------------------------------------------------------------------------
(* No entry is missed *)

\* Two entries for each command fit, and the command that gets another has at
\* most one.
LEMMA RoomForOneMore ==
    ASSUME HasRoom, IInv, IdsAreFresh, NEW c \in Commands, tries[c] <= 1
    PROVE  Len(registry) < MaxSize
<1> DEFINE n == Len(registry)
           T == Commands \X (1..2)
           f == [i \in 1..n + 1 |-> IF i = n + 1 THEN <<c, 2>>
                                    ELSE <<registry[i].cid.cmd, registry[i].cid.try>>]
<1>1. TypeOK /\ n \in Nat /\ DOMAIN registry = 1..n
  BY DEF IInv, TypeOK
<1>2. IsFiniteSet(T) /\ Cardinality(T) <= MaxSize /\ Cardinality(T) \in Nat
  <2>1. IsFiniteSet(1..2) /\ Cardinality(1..2) = 2
    <3>1. \A b \in Nat \ {0} : IsFiniteSet(1..b) /\ Cardinality(1..b) = b
      BY FS_Interval
    <3> QED
      BY <3>1, 2 \in Nat \ {0}
  <2>2. IsFiniteSet(Commands) /\ Cardinality(Commands) \in Nat /\ 2 * Cardinality(Commands) <= MaxSize
    BY FS_CardinalityType DEF HasRoom
  <2>3. IsFiniteSet(T) /\ Cardinality(T) = Cardinality(Commands) * 2
    BY <2>1, <2>2, FS_Product
  <2> HIDE DEF T
  <2> QED
    BY <2>2, <2>3
<1>3. IsFiniteSet(1..n + 1) /\ Cardinality(1..n + 1) = n + 1
  BY <1>1, FS_Interval
<1>4. \A i \in DOMAIN registry :
         /\ registry[i].cid \in Cid
         /\ registry[i].cid.try \in 1..2
         /\ registry[i].cid.try <= tries[registry[i].cid.cmd]
  <2> TAKE i \in DOMAIN registry
  <2>1. registry[i].cid \in Cid /\ registry[i].cid.try <= tries[registry[i].cid.cmd]
    BY <1>1, EntriesTyped DEF IdsAreFresh, EntriesAreFresh
  <2>2. \A d \in Commands : tries[d] \in Nat /\ tries[d] <= 2
    BY DEF IInv, TypeOK, MarkedBeforeResend
  <2> QED
    BY <2>1, <2>2 DEF Cid
<1>5. f \in [1..n + 1 -> T]
  <2>1. \A i \in 1..n + 1 : i = n + 1 \/ i \in DOMAIN registry
    BY <1>1
  <2>2. \A i \in DOMAIN registry : <<registry[i].cid.cmd, registry[i].cid.try>> \in T
    BY <1>4 DEF Cid
  <2> QED
    BY <2>1, <2>2
<1>6. ASSUME n >= MaxSize
      PROVE  FALSE
  <2>1. PICK x \in 1..n + 1, y \in 1..n + 1 : x # y /\ f[x] = f[y]
    <3> DEFINE S == 1..n + 1
    <3>1. IsFiniteSet(S) /\ Cardinality(T) < Cardinality(S) /\ f \in [S -> T]
      BY <1>1, <1>2, <1>3, <1>5, <1>6
    <3> HIDE DEF f, T, S
    <3>2. \E x, y \in S : x # y /\ f[x] = f[y]
      BY <1>2, <3>1, FS_PigeonHole
    <3> QED
      BY <3>2 DEF S
  <2>2. \A i \in DOMAIN registry : f[i] = <<registry[i].cid.cmd, registry[i].cid.try>> /\ f[i] # <<c, 2>>
    BY <1>1, <1>4 DEF IInv, TypeOK
  <2>3. f[n + 1] = <<c, 2>> /\ x \in DOMAIN registry \cup {n + 1} /\ y \in DOMAIN registry \cup {n + 1}
    BY <1>1
  <2>4. x \in DOMAIN registry /\ y \in DOMAIN registry
    BY <2>1, <2>2, <2>3
  <2>5. registry[x].cid = registry[y].cid
    <3>1. /\ registry[x].cid.cmd = registry[y].cid.cmd /\ registry[x].cid.try = registry[y].cid.try
          /\ registry[x].cid \in Cid /\ registry[y].cid \in Cid
      <4> HIDE DEF f
      <4> QED
        BY <1>4, <2>1, <2>2, <2>4
    <3> QED
      BY <3>1 DEF Cid
  <2> QED
    BY <2>1, <2>4, <2>5 DEF IdsAreFresh, EntriesAreFresh
<1> QED
  BY <1>1, <1>6

\* An id that may be answered is the first or second message of its command.
LEMMA LiveIsMessage ==
    ASSUME IInv, IdsAreFresh, NEW cid \in outstanding
    PROVE  /\ cid.cmd \in Commands /\ cid.try \in 1..2 /\ cid = Message(cid.cmd, cid.try)
           /\ IsLive(Message(cid.cmd, cid.try))
<1>1. cid \in Cid /\ cid.try <= tries[cid.cmd]
  BY DEF IInv, TypeOK, IdsAreFresh, SentLast
<1>2. tries[cid.cmd] \in Nat /\ tries[cid.cmd] <= 2
  BY <1>1 DEF Cid, IInv, TypeOK, MarkedBeforeResend
<1>3. cid = Message(cid.cmd, cid.try)
  BY <1>1 DEF Cid, Message
<1> QED
  BY <1>1, <1>2, <1>3 DEF Cid, IsLive

LEMMA QuietKnown ==
    ASSUME LiveIsKnown, UNCHANGED registry, \A id \in Cid : IsLive(id)' => IsLive(id)
    PROVE  LiveIsKnown'
<1> SUFFICES ASSUME NEW c \in Commands, NEW n \in 1..2, NEW id, id = Message(c, n), IsLive(id)'
             PROVE  \E i \in DOMAIN registry : registry[i].cid = id
  BY DEF LiveIsKnown, Known, Message, IsLive
<1>1. id \in Cid
  BY DEF Message, Cid
<1> QED
  BY <1>1 DEF LiveIsKnown, Known

\* With nothing evicted the entries stay where they are.
LEMMA GrownAtEnd ==
    ASSUME TypeOK, NEW entry, Grown(0, entry)
    PROVE  /\ Len(registry) \in Nat /\ DOMAIN registry = 1..Len(registry)
           /\ DOMAIN registry' = 1..Len(registry) + 1
           /\ \A i \in DOMAIN registry : registry'[i] = registry[i]
           /\ registry'[Len(registry) + 1] = entry
<1>1. Len(registry) \in Nat /\ DOMAIN registry = 1..Len(registry)
  BY DEF TypeOK
<1>2. Len(registry) + 1 - 0 = Len(registry) + 1 /\ Len(registry) - 0 = Len(registry)
      /\ \A i \in 1..Len(registry) : i + 0 = i
  BY <1>1
<1> QED
  BY <1>1, <1>2 DEF Grown

LEMMA GrownKnown ==
    ASSUME TypeOK, LiveIsKnown, NEW cid, NEW r, Grown(0, [cid |-> cid, result |-> r]),
           \A c \in Commands, n \in 1..2 : IsLive(Message(c, n))' => IsLive(Message(c, n)) \/ Message(c, n) = cid
    PROVE  LiveIsKnown'
<1>1. /\ \A i \in DOMAIN registry : i \in DOMAIN registry' /\ registry'[i] = registry[i]
      /\ registry'[Len(registry) + 1].cid = cid /\ Len(registry) + 1 \in DOMAIN registry'
  BY GrownAtEnd
<1>2. \A id : Known(id) => Known(id)'
  BY <1>1 DEF Known
<1>3. Known(cid)'
  BY <1>1 DEF Known
<1> QED
  BY <1>2, <1>3 DEF LiveIsKnown, Message, IsLive

\* Only a new entry makes an id one that may be answered.
LEMMA NoNewLive ==
    ASSUME IInv, IdsAreFresh,
           \/ \E d \in Commands : Publish(d) /\ ~RegisterCommand(d)
           \/ Continue /\ ~ResendLink,
           NEW id \in Cid, IsLive(id)'
    PROVE  IsLive(id)
<1>1. ASSUME NEW d \in Commands, Publish(d), ~RegisterCommand(d)
      PROVE  IsLive(id)
  <2>1. CASE Refresh(d) \/ GiveUpPublish(d) \/ Store(d)
    BY <2>1 DEF Refresh, GiveUpPublish, Store, IsLive, Message, Cid, IInv, TypeOK
  <2>2. CASE Send(d)
    <3>1. tries[d] = 1 /\ CurrentId(d) = Message(d, 1) /\ pc[d] = "registered"
      BY <2>2, FirstMessage DEF Send, CurrentId, Message
    <3> QED
      BY <2>2, <3>1 DEF Send, IsLive, Message, Cid, IInv, TypeOK
  <2> QED
    BY <1>1, <2>1, <2>2 DEF Publish
<1>2. CASE Continue /\ ~ResendLink
  <2>1. CASE ResendSend
    <3>1. tries[mqtt.request] = 2 /\ CurrentId(mqtt.request) = Message(mqtt.request, 2)
      BY <2>1 DEF ResendSend, IdsAreFresh, SentLast, CurrentId, Message
    <3> QED
      BY <2>1, <3>1 DEF ResendSend, IsLive, Message, Cid, IInv, TypeOK
  <2>2. CASE ~ResendSend
    <3>1. UNCHANGED <<pc, outstanding>> /\ mqtt'.at # "send"
      BY <1>2, <2>2 DEF Continue, ClearLast, GiveUpResend, StartResend, ResendRefresh, ResendRefreshFails,
                ResendRefreshRaises, ResendStore, Waiting, IInv, TypeOK
    <3> QED
      BY <3>1 DEF IsLive, Message
  <2> QED
    BY <2>1, <2>2
<1> QED
  BY <1>1, <1>2

-----------------------------------------------------------------------------
(* Before a resend a success is the car's *)

\* A step that makes a success only of what the car accepted.
LEMMA KeepsAccepted ==
    ASSUME IInv, AcceptedFirst, \A c \in Commands : tries'[c] <= 1 => tries[c] <= 1,
           answered \subseteq answered',
           \A r \in DOMAIN results' :
              results'[r].status = "success" \/ (mqtt'.at = "accepted" /\ mqtt'.result = r) =>
                 \/ r \in DOMAIN results /\ results[r].status = "success"
                 \/ r \in DOMAIN results /\ mqtt.at = "accepted" /\ mqtt.result = r
                 \/ [cmd |-> r.cmd, code |-> "ok"] \in answered'
    PROVE  AcceptedFirst'
<1> SUFFICES ASSUME \A c \in Commands : tries'[c] <= 1, NEW r \in DOMAIN results',
                    results'[r].status = "success" \/ (mqtt'.at = "accepted" /\ mqtt'.result = r)
             PROVE  [cmd |-> r.cmd, code |-> "ok"] \in answered'
  BY DEF AcceptedFirst, Succeeds
<1>1. \A c \in Commands : tries[c] <= 1
  OBVIOUS
<1> QED
  BY <1>1 DEF AcceptedFirst, Succeeds

LEMMA PublishKnown ==
    ASSUME HasRoom, KnownInv, NEW c \in Commands, Publish(c)
    PROVE  LiveIsKnown' /\ AcceptedFirst'
<1> USE DEF KnownInv
<1>1. TypeOK
  BY DEF IInv
<1>2. CASE RegisterCommand(c)
  <2> DEFINE cid == Message(c, 1)
  <2>1. tries[c] = 0 /\ NextId(c) = cid /\ cid \in Cid
    BY <1>2, FirstMessage DEF RegisterCommand, NextId, Message, Cid
  <2>2. Register(cid) /\ UNCHANGED <<mqtt, outstanding, answered>>
        /\ pc' = [pc EXCEPT ![c] = "registered"] /\ tries' = [tries EXCEPT ![c] = @ + 1]
    BY <1>2, <2>1 DEF RegisterCommand
  <2>3. cid \notin DOMAIN results
    BY <2>1 DEF IdsAreFresh, SentLast, Message
  <2>4. Grown(0, [cid |-> cid, result |-> cid])
    BY <1>1, <2>1, <2>2, RoomForOneMore, RegisterGrows
  <2>5. \A d \in Commands, n \in 1..2 : IsLive(Message(d, n))' => IsLive(Message(d, n)) \/ Message(d, n) = cid
    BY <1>1, <2>2 DEF IsLive, Message, TypeOK
  <2>6. LiveIsKnown'
    <3> HIDE DEF cid
    <3> QED
      BY <1>1, <2>4, <2>5, GrownKnown
  <2>7. /\ DOMAIN results' = DOMAIN results \cup {cid} /\ results'[cid].status = "pending"
        /\ \A r \in DOMAIN results : results'[r] = results[r]
        /\ mqtt.result # cid
    BY <1>1, <2>1, <2>2, <2>3 DEF Register, TypeOK
  <2>8. \A d \in Commands : tries'[d] <= 1 => tries[d] <= 1
    BY <1>1, <2>1, <2>2 DEF TypeOK
  <2>9. AcceptedFirst'
    <3> HIDE DEF cid
    <3> QED
      BY <2>2, <2>7, <2>8, KeepsAccepted
  <2> QED
    BY <2>6, <2>9
<1>3. CASE ~RegisterCommand(c)
  <2>1. UNCHANGED <<tries, registry, results, mqtt, answered>>
    BY <1>3 DEF Publish, Refresh, GiveUpPublish, Send, Store
  <2>2. LiveIsKnown'
    BY <1>3, <2>1, NoNewLive, QuietKnown
  <2>3. AcceptedFirst'
    BY <2>1, KeepsAccepted
  <2> QED
    BY <2>2, <2>3
<1> QED
  BY <1>2, <1>3

\* An answer that carries its id finds the entry of the id; a first message's
\* result is its own.
LEMMA AnswerFindsEntry ==
    ASSUME IInv, IdsAreFresh, LiveIsKnown, NEW cid \in outstanding
    PROVE  /\ \E i \in DOMAIN registry : registry[i].cid = cid /\ ResultOf(cid, TRUE) = registry[i].result
           /\ cid.try \in 1..2 /\ cid.cmd \in Commands
           /\ cid.try = 1 => ResultOf(cid, TRUE) = cid
           /\ cid.try <= tries[cid.cmd]
<1>1. Known(cid) /\ cid.try \in 1..2 /\ cid.cmd \in Commands
  BY LiveIsMessage DEF LiveIsKnown
<1>2. PICK i \in DOMAIN registry : registry[i].cid = cid /\ ResultOf(cid, TRUE) = registry[i].result
  BY <1>1 DEF Known, ResultOf
<1> QED
  BY <1>1, <1>2 DEF IdsAreFresh, EntriesAreFresh, SentLast

LEMMA AnswerKnown ==
    ASSUME KnownInv, NEW cid \in outstanding, NEW refusal \in BOOLEAN, Handled(cid, TRUE, refusal)
    PROVE  LiveIsKnown' /\ AcceptedFirst'
<1> DEFINE r == ResultOf(cid, TRUE)
<1> USE DEF KnownInv
<1>1. TypeOK
  BY DEF IInv
<1>2. /\ mqtt.at = "idle" /\ outstanding' \subseteq outstanding /\ answered \subseteq answered'
      /\ UNCHANGED <<pc, tries, registry>>
      /\ r \in DOMAIN results \cup {NoResult} /\ Takes(r, cid)
  BY <1>1, AnswerEffect
<1>3. cid.cmd \in Commands /\ (tries[cid.cmd] <= 1 => r.cmd = cid.cmd)
  <2>1. cid.try \in 1..2 /\ cid.cmd \in Commands /\ (cid.try = 1 => r = cid) /\ cid.try <= tries[cid.cmd]
    BY AnswerFindsEntry
  <2>2. tries[cid.cmd] \in Nat
    BY <1>1, <2>1 DEF TypeOK
  <2>3. tries[cid.cmd] <= 1 => cid.try = 1
    BY <2>1, <2>2
  <2> QED
    BY <2>1, <2>3
<1> HIDE DEF r
<1>4. mqtt' = mqtt \/ mqtt'.at \in {"accepted", "bad"}
  BY <1>2 DEF Takes
<1>5. LiveIsKnown'
  <2>1. \A id \in Cid : IsLive(id)' => IsLive(id)
    BY <1>2, <1>4 DEF IsLive
  <2> QED
    BY <1>2, <2>1, QuietKnown
<1>6. AcceptedFirst'
  <2> SUFFICES ASSUME \A c \in Commands : tries[c] <= 1, NEW q \in DOMAIN results',
                      results'[q].status = "success" \/ (mqtt'.at = "accepted" /\ mqtt'.result = q)
               PROVE  [cmd |-> q.cmd, code |-> "ok"] \in answered'
    BY <1>2 DEF AcceptedFirst, Succeeds
  <2>1. DOMAIN results' = DOMAIN results
    BY <1>1, <1>2, SettleEffect DEF Takes, Status
  <2>2. CASE results[q].status = "success"
    BY <1>2, <2>1, <2>2 DEF AcceptedFirst, Succeeds
  <2>3. CASE results[q].status # "success"
    <3>1. q = r /\ [cmd |-> cid.cmd, code |-> "ok"] \in answered'
      BY <1>1, <1>2, <2>1, <2>3, SettleEffect DEF Takes, Status, TypeOK
    <3> QED
      BY <1>3, <3>1
  <2> QED
    BY <2>2, <2>3
<1> QED
  BY <1>5, <1>6

LEMMA ContinueKnown ==
    ASSUME HasRoom, KnownInv, Continue
    PROVE  LiveIsKnown' /\ AcceptedFirst'
<1> USE DEF KnownInv
<1>1. TypeOK
  BY DEF IInv
<1>2. CASE ResendLink
  <2>1. PICK c \in Commands :
          /\ c = mqtt.request /\ mqtt'.at = "send" /\ mqtt'.request = c /\ tries[c] = 1 /\ tries'[c] = 2
          /\ \E r : \E k : /\ Grown(k, [cid |-> Message(c, 2), result |-> r])
                           /\ Len(registry) < MaxSize => k = 0
    BY <1>2, LinkEffect
  <2>2. PICK r, k : /\ Grown(k, [cid |-> Message(c, 2), result |-> r])
                    /\ Len(registry) < MaxSize => k = 0
    BY <2>1
  <2>3. Grown(0, [cid |-> Message(c, 2), result |-> r])
    <3>1. Len(registry) < MaxSize
      BY <2>1, RoomForOneMore
    <3> QED
      BY <2>2, <3>1
  <2>4. \A d \in Commands, n \in 1..2 :
           IsLive(Message(d, n))' => IsLive(Message(d, n)) \/ Message(d, n) = Message(c, 2)
    BY <1>2, <2>1 DEF ResendLink, IsLive, Message
  <2>5. LiveIsKnown'
    BY <1>1, <2>3, <2>4, GrownKnown
  <2>6. AcceptedFirst'
    BY <2>1 DEF AcceptedFirst
  <2> QED
    BY <2>5, <2>6
<1>3. CASE ~ResendLink
  <2>1. UNCHANGED <<tries, registry, answered>>
    BY <1>3 DEF Continue, ClearLast, GiveUpResend, StartResend, ResendRefresh, ResendRefreshFails,
                ResendRefreshRaises, ResendSend, ResendStore
  <2>2. LiveIsKnown'
    BY <1>3, <2>1, NoNewLive, QuietKnown
  <2>3. /\ mqtt'.at # "accepted"
        /\ \/ UNCHANGED results
           \/ mqtt.at = "accepted" /\ Settle(mqtt.result, "success")
           \/ Settle(mqtt.result, "failed")
    BY <1>1, <1>3 DEF Continue, ClearLast, GiveUpResend, StartResend, ResendRefresh, ResendRefreshFails,
                      ResendRefreshRaises, ResendSend, ResendStore, Waiting, TypeOK
  <2>4. mqtt.result \in DOMAIN results \cup {NoResult}
    BY <1>1 DEF TypeOK
  <2>5. \A q \in DOMAIN results' :
           results'[q].status = "success" =>
              /\ q \in DOMAIN results
              /\ results[q].status = "success" \/ (mqtt.at = "accepted" /\ mqtt.result = q)
    BY <1>1, <2>3, <2>4, SettleEffect DEF Status, TypeOK
  <2>6. AcceptedFirst'
    BY <2>1, <2>3, <2>5, KeepsAccepted
  <2> QED
    BY <2>2, <2>6
<1> QED
  BY <1>2, <1>3

LEMMA NextKnown == HasRoom /\ ~IdLess /\ KnownInv /\ [Next]_vars => KnownInv'
<1> SUFFICES ASSUME HasRoom, ~IdLess, KnownInv, [Next]_vars
             PROVE  KnownInv'
  OBVIOUS
<1>1. IInv' /\ IdsAreFresh'
  BY NextIInv, NextIds DEF KnownInv
<1>2. ASSUME NEW c \in Commands, Publish(c)
      PROVE  LiveIsKnown' /\ AcceptedFirst'
  BY <1>2, PublishKnown
<1>3. ASSUME NEW cid \in outstanding, Answer(cid)
      PROVE  LiveIsKnown' /\ AcceptedFirst'
  <2>1. PICK refusal \in BOOLEAN : Handled(cid, TRUE, refusal)
    BY <1>3 DEF Answer, CarriesId, Handled
  <2> QED
    BY <2>1, AnswerKnown
<1>4. ASSUME Continue
      PROVE  LiveIsKnown' /\ AcceptedFirst'
  BY <1>4, ContinueKnown
<1>5. ASSUME UNCHANGED vars
      PROVE  LiveIsKnown' /\ AcceptedFirst'
  BY <1>5 DEF vars, client, KnownInv, LiveIsKnown, AcceptedFirst, Succeeds, Known, IsLive, Message
<1> QED
  BY <1>1, <1>2, <1>3, <1>4, <1>5 DEF Next, KnownInv

LEMMA InitKnown == Init => KnownInv
BY InitIInv DEF Init, KnownInv, IdsAreFresh, EntriesAreFresh, SentLast, LiveIsKnown, AcceptedFirst, Succeeds,
                IsLive, Message, Waiting

\* Until something is sent again a result is a success only when the car accepted
\* its own command, when no entry is evicted and answers carry their id.
THEOREM UnresentSuccessIsAcceptedAlways ==
    HasRoom /\ ~IdLess => (Spec => []UnresentSuccessIsAccepted)
<1>1. KnownInv => UnresentSuccessIsAccepted
  BY DEF KnownInv, AcceptedFirst, Succeeds, UnresentSuccessIsAccepted
<1>2. ASSUME HasRoom, ~IdLess
      PROVE  Spec => []UnresentSuccessIsAccepted
  <2>1. KnownInv /\ [Next]_vars => KnownInv'
    BY <1>2, NextKnown
  <2> QED
    BY <1>1, <2>1, InitKnown, PTL DEF Spec
<1> QED
  BY <1>2
-----------------------------------------------------------------------------
(* The refinement: a result is settled once *)

LEMMA QuietClaim ==
    ASSUME TypeOK, OneClaim, UNCHANGED registry,
           \A id \in Cid : IsLive(id)' => IsLive(id),
           \A i \in DOMAIN registry :
              IsLive(registry[i].cid)' => LET r == registry[i].result IN Pending(r)' /\ ~Held(r)',
           \A r \in DOMAIN results' : Held(r)' => Pending(r)'
    PROVE  OneClaim'
<1>1. \A i \in DOMAIN registry : registry[i].cid \in Cid
  BY EntriesTyped
<1> QED
  BY <1>1 DEF OneClaim, Pending, Held, IsLive, Message

\* A new entry of a pending result that nothing else can settle.
LEMMA GrownClaim ==
    ASSUME TypeOK, OneClaim, NEW cid \in Cid, NEW r, Grown(0, [cid |-> cid, result |-> r]),
           results'[r].status = "pending",
           \A q : Held(q)' => Held(q) /\ q # r,
           \A q \in DOMAIN results' : Held(q)' => results'[q].status = "pending",
           \A id \in Cid : IsLive(id)' => IsLive(id) \/ id = cid,
           \A i \in DOMAIN registry :
              LET q == registry[i].result IN
              /\ registry[i].cid # cid
              /\ IsLive(registry[i].cid) => results'[q].status = "pending" /\ q # r
    PROVE  OneClaim'
<1> DEFINE last == Len(registry) + 1
<1>1. /\ \A i \in DOMAIN registry : registry'[i] = registry[i] /\ registry[i].cid \in Cid
      /\ registry'[last].cid = cid /\ registry'[last].result = r
      /\ \A i \in DOMAIN registry' : i \in DOMAIN registry \/ i = last
  BY GrownAtEnd, EntriesTyped
<1> HIDE DEF last
<1>2. ASSUME NEW i \in DOMAIN registry, NEW id, id = registry[i].cid, IsLive(id)'
      PROVE  LET q == registry[i].result IN results'[q].status = "pending" /\ q # r
  BY <1>1, <1>2 DEF Pending
<1>3. ASSUME NEW i \in DOMAIN registry', NEW id, NEW q,
             id = registry'[i].cid, q = registry'[i].result, IsLive(id)'
      PROVE  results'[q].status = "pending" /\ ~Held(q)'
  <2>1. CASE i = last
    BY <1>1, <1>3, <2>1
  <2>2. CASE i \in DOMAIN registry
    <3>1. IsLive(id) /\ id = registry[i].cid /\ q = registry[i].result
      BY <1>1, <1>3, <2>2
    <3>2. ~Held(q)
      BY <2>2, <3>1 DEF OneClaim
    <3> QED
      BY <1>2, <1>3, <2>2, <3>1, <3>2
  <2> QED
    BY <1>1, <2>1, <2>2
<1>4. ASSUME NEW i \in DOMAIN registry', NEW j \in DOMAIN registry', NEW id, NEW jd,
             id = registry'[i].cid, jd = registry'[j].cid, IsLive(id)', IsLive(jd)',
             registry'[i].result = registry'[j].result
      PROVE  i = j
  <2>1. CASE i \in DOMAIN registry /\ j \in DOMAIN registry
    <3>1. (IsLive(id) \/ id = cid) /\ (IsLive(jd) \/ jd = cid)
      BY <1>1, <1>4, <2>1
    <3> QED
      BY <1>1, <1>4, <2>1, <3>1 DEF OneClaim
  <2>2. CASE i = last /\ j # last
    BY <1>1, <1>2, <1>4, <2>2
  <2>3. CASE i # last /\ j = last
    BY <1>1, <1>2, <1>4, <2>3
  <2> QED
    BY <1>1, <2>1, <2>2, <2>3
<1> QED
  BY <1>3, <1>4 DEF OneClaim, Pending, Held, IsLive, Message

LEMMA PublishClaim ==
    ASSUME HasRoom, ClaimInv, NEW c \in Commands, Publish(c)
    PROVE  OneClaim'
<1> USE DEF ClaimInv, KnownInv
<1>1. TypeOK
  BY DEF IInv
<1>2. CASE RegisterCommand(c)
  <2>1. tries[c] = 0 /\ NextId(c) = Message(c, 1) /\ Message(c, 1) \in Cid
    BY <1>2, FirstMessage DEF RegisterCommand, NextId, Message, Cid
  <2>2. PICK cid \in Cid : cid = Message(c, 1)
    BY <2>1
  <2>3. Register(cid) /\ UNCHANGED <<mqtt, outstanding>> /\ pc' = [pc EXCEPT ![c] = "registered"]
    BY <1>2, <2>1, <2>2 DEF RegisterCommand
  <2>4. cid \notin DOMAIN results /\ (\A i \in DOMAIN registry : registry[i].cid # cid)
    BY <2>1, <2>2 DEF IdsAreFresh, SentLast, EntriesAreFresh, Message
  <2>5. Grown(0, [cid |-> cid, result |-> cid])
    BY <1>1, <2>1, <2>3, RoomForOneMore, RegisterGrows
  <2>6. \A id \in Cid : IsLive(id)' => IsLive(id) \/ id = cid
    BY <1>1, <2>2, <2>3 DEF IsLive, Message, TypeOK, Cid
  <2>7. /\ DOMAIN results' = DOMAIN results \cup {cid} /\ results'[cid].status = "pending"
        /\ \A r \in DOMAIN results : results'[r] = results[r]
    BY <2>3, <2>4 DEF Register
  <2>8. \A i \in DOMAIN registry :
           IsLive(registry[i].cid) =>
              LET q == registry[i].result IN results'[q].status = "pending" /\ q # cid /\ ~Held(q)
    BY <1>1, <2>4, <2>7, EntriesTyped DEF OneClaim, Pending
  <2>9. /\ \A q : Held(q)' => Held(q) /\ q # cid
        /\ \A q \in DOMAIN results' : Held(q)' => results'[q].status = "pending"
    <3>1. \A q : Held(q)' => Held(q) /\ q \in DOMAIN results \cup {NoResult}
      BY <1>1, <2>3 DEF Held, TypeOK
    <3>2. \A q \in DOMAIN results : Held(q) => results[q].status = "pending"
      BY DEF OneClaim, Pending
    <3>3. cid # NoResult
      OBVIOUS
    <3> QED
      BY <2>4, <2>7, <3>1, <3>2, <3>3
  <2> QED
    BY <1>1, <2>4, <2>5, <2>6, <2>7, <2>8, <2>9, GrownClaim
<1>3. CASE ~RegisterCommand(c)
  <2>1. UNCHANGED <<registry, results, mqtt>>
    BY <1>3 DEF Publish, Refresh, GiveUpPublish, Send, Store
  <2>2. \A id \in Cid : IsLive(id)' => IsLive(id)
    BY <1>3, NoNewLive
  <2> QED
    BY <1>1, <2>1, <2>2, QuietClaim, EntriesTyped DEF OneClaim, Pending, Held
<1> QED
  BY <1>2, <1>3

\* An id answered once is no longer live; its result is settled or held.
LEMMA AnswerClaim ==
    ASSUME ~Duplicates, ClaimInv, NEW cid \in outstanding, NEW refusal \in BOOLEAN,
           Handled(cid, TRUE, refusal)
    PROVE  OneClaim'
<1> USE DEF ClaimInv, KnownInv
<1>1. TypeOK
  BY DEF IInv
<1>2. PICK n \in DOMAIN registry : registry[n].cid = cid /\ ResultOf(cid, TRUE) = registry[n].result
  BY AnswerFindsEntry
<1>3. PICK r \in DOMAIN results : r = registry[n].result /\ r # NoResult
  BY <1>1, <1>2, EntriesTyped
<1>4. /\ mqtt.at = "idle" /\ outstanding' = outstanding \ {cid}
      /\ UNCHANGED <<pc, tries, registry>> /\ Takes(r, cid)
  <2>1. /\ mqtt.at = "idle" /\ outstanding' = outstanding \ {cid}
        /\ UNCHANGED <<pc, tries, registry>> /\ Takes(ResultOf(cid, TRUE), cid)
    BY <1>1, AnswerEffect
  <2>2. r = ResultOf(cid, TRUE)
    BY <1>2, <1>3
  <2> QED
    BY <2>1, <2>2
<1>5. mqtt'.at # "send" /\ \A q : Held(q)' => q = r /\ UNCHANGED results
  BY <1>4 DEF Takes, Held
<1>6. cid \in Cid /\ ~(pc[cid.cmd] = "registered" /\ cid.try = 1)
  BY <1>1 DEF IdsAreFresh, SentLast, TypeOK, Cid, Message
<1>7. \A id \in Cid : IsLive(id)' => IsLive(id) /\ id # cid
  BY <1>4, <1>5, <1>6 DEF IsLive
<1>8. IsLive(cid) /\ results[r].status = "pending"
  BY <1>2, <1>3 DEF IsLive, OneClaim, Pending
<1>9. ASSUME NEW i \in DOMAIN registry, NEW q, q = registry[i].result, IsLive(registry[i].cid), registry[i].cid # cid
      PROVE  results'[q].status = "pending" /\ q # r
  <2>1. q # r /\ results[q].status = "pending" /\ q \in DOMAIN results
    BY <1>1, <1>2, <1>3, <1>8, <1>9, EntriesTyped DEF OneClaim, Pending
  <2> QED
    BY <1>1, <1>4, <2>1, SettleEffect DEF Takes, Status
<1>10. ASSUME NEW i \in DOMAIN registry, NEW id, NEW q,
              id = registry[i].cid, q = registry[i].result, IsLive(id)'
       PROVE  results'[q].status = "pending" /\ ~Held(q)'
  <2>1. IsLive(id) /\ id # cid
    BY <1>1, <1>7, <1>10, EntriesTyped
  <2> QED
    BY <1>5, <1>9, <1>10, <2>1
<1>11. \A q \in DOMAIN results' : Held(q)' => results'[q].status = "pending"
  BY <1>5, <1>8
<1> QED
  BY <1>1, <1>4, <1>7, <1>10, <1>11, QuietClaim DEF Pending, Held, IsLive, Message

LEMMA ContinueClaim ==
    ASSUME HasRoom, ClaimInv, Continue
    PROVE  OneClaim'
<1> USE DEF ClaimInv, KnownInv
<1>1. TypeOK
  BY DEF IInv
<1>2. CASE ResendLink
  <2>1. PICK c, cid, r, k :
          /\ c \in Commands /\ cid \in Cid
          /\ c = mqtt.request /\ mqtt'.at = "send" /\ mqtt'.request = c /\ tries[c] = 1
          /\ cid = Message(c, 2) /\ r = IF mqtt.result = NoResult THEN cid ELSE mqtt.result
          /\ Grown(k, [cid |-> cid, result |-> r])
          /\ Len(registry) < MaxSize => k = 0
          /\ DOMAIN results' = DOMAIN results \cup {r}
          /\ mqtt.result = NoResult => results'[r].status = "pending" /\ r \notin DOMAIN results
          /\ \A q \in DOMAIN results : results'[q].status = results[q].status
    <3>1. PICK c : c = mqtt.request /\ c \in Commands
      BY <1>2, LinkEffect
    <3>2. Message(c, 2) \in Cid
      BY <3>1 DEF Message, Cid
    <3>3. PICK r : r = IF mqtt.result = NoResult THEN Message(c, 2) ELSE mqtt.result
      OBVIOUS
    <3> QED
      BY <1>2, <3>1, <3>2, <3>3, LinkEffect DEF Pending
  <2>2. Grown(0, [cid |-> cid, result |-> r])
    BY <2>1, RoomForOneMore
  <2>3. mqtt.at = "link" /\ UNCHANGED <<pc, outstanding>>
    BY <1>2 DEF ResendLink
  <2>4. \A q : ~Held(q)'
    BY <2>1 DEF Held
  <2>5. results'[r].status = "pending"
    <3>1. CASE mqtt.result # NoResult
      BY <1>1, <2>1, <2>3, <3>1 DEF OneClaim, Held, Pending, TypeOK
    <3> QED
      BY <2>1, <3>1
  <2>6. \A id \in Cid : IsLive(id)' => IsLive(id) \/ id = cid
    BY <2>1, <2>3 DEF IsLive
  <2>7. ASSUME NEW i \in DOMAIN registry
        PROVE  LET q == registry[i].result IN
               /\ registry[i].cid # cid
               /\ IsLive(registry[i].cid) => results'[q].status = "pending" /\ q # r
    <3>1. registry[i].cid # cid
      BY <2>1 DEF IdsAreFresh, EntriesAreFresh, Message
    <3>2. registry[i].result \in DOMAIN results
      BY <1>1, EntriesTyped
    <3>3. ASSUME IsLive(registry[i].cid)
          PROVE  results[registry[i].result].status = "pending" /\ ~Held(registry[i].result)
      BY <3>3 DEF OneClaim, Pending
    <3> QED
      BY <2>1, <2>3, <3>1, <3>2, <3>3 DEF Held
  <2>8. cid \in Cid /\ \A q : Held(q)' => Held(q) /\ q # r
    BY <2>1, <2>4
  <2>9. \A q \in DOMAIN results' : Held(q)' => results'[q].status = "pending"
    BY <2>4
  <2> QED
    BY <1>1, <2>2, <2>5, <2>6, <2>7, <2>8, <2>9, GrownClaim
<1>3. CASE ~ResendLink
  <2>1. UNCHANGED registry
    BY <1>3 DEF Continue, ClearLast, GiveUpResend, StartResend, ResendRefresh, ResendRefreshFails,
                ResendRefreshRaises, ResendSend, ResendStore
  <2>2. \A id \in Cid : IsLive(id)' => IsLive(id)
    BY <1>3, NoNewLive
  <2>3. \/ /\ UNCHANGED results
           /\ \A q : Held(q)' => Held(q)
        \/ /\ mqtt.at \in {"accepted", "bad", "refresh"} /\ \A q : ~Held(q)'
           /\ \E s \in {"success", "failed"} : Settle(mqtt.result, s)
    BY <1>1, <1>3 DEF Continue, ClearLast, GiveUpResend, StartResend, ResendRefresh, ResendRefreshFails,
                      ResendRefreshRaises, ResendSend, ResendStore, Waiting, Held, TypeOK
  <2>4. CASE UNCHANGED results /\ \A q : Held(q)' => Held(q)
    <3>1. ASSUME NEW i \in DOMAIN registry, NEW id, NEW q,
                 id = registry[i].cid, q = registry[i].result, IsLive(id)'
          PROVE  results'[q].status = "pending" /\ ~Held(q)'
      BY <1>1, <2>2, <2>4, <3>1, EntriesTyped DEF OneClaim, Pending
    <3>2. \A q \in DOMAIN results' : Held(q)' => results'[q].status = "pending"
      BY <2>4 DEF OneClaim, Pending
    <3> QED
      BY <1>1, <2>1, <2>2, <3>1, <3>2, QuietClaim DEF Pending, Held, IsLive, Message
  <2>5. CASE /\ mqtt.at \in {"accepted", "bad", "refresh"} /\ \A q : ~Held(q)'
             /\ \E s \in {"success", "failed"} : Settle(mqtt.result, s)
    <3>1. mqtt.result \in DOMAIN results \cup {NoResult}
      BY <1>1 DEF TypeOK
    <3>2. \A q \in DOMAIN results : q # mqtt.result => results'[q] = results[q]
      BY <1>1, <2>5, <3>1, SettleEffect DEF Status
    <3>3. ASSUME NEW i \in DOMAIN registry, NEW id, NEW q,
                 id = registry[i].cid, q = registry[i].result, IsLive(id)'
          PROVE  results'[q].status = "pending" /\ ~Held(q)'
      <4>1. IsLive(id) /\ q \in DOMAIN results
        BY <1>1, <2>2, <3>3, EntriesTyped
      <4>2. results[q].status = "pending" /\ ~Held(q)
        BY <3>3, <4>1 DEF OneClaim, Pending
      <4>3. q # mqtt.result
        BY <2>5, <4>2 DEF Held
      <4> QED
        BY <2>5, <3>2, <4>1, <4>2, <4>3
    <3> QED
      BY <1>1, <2>1, <2>2, <2>5, <3>3, QuietClaim DEF Pending, Held, IsLive, Message
  <2> QED
    BY <2>3, <2>4, <2>5
<1> QED
  BY <1>2, <1>3

LEMMA NextClaim ==
    ASSUME HasRoom, ~IdLess, ~Duplicates, ClaimInv, [Next]_vars
    PROVE  ClaimInv'
<1>1. KnownInv'
  BY NextKnown DEF ClaimInv
<1>2. ASSUME NEW c \in Commands, Publish(c)
      PROVE  OneClaim'
  BY <1>2, PublishClaim
<1>3. ASSUME NEW cid \in outstanding, Answer(cid)
      PROVE  OneClaim'
  <2>1. PICK refusal \in BOOLEAN : Handled(cid, TRUE, refusal)
    BY <1>3 DEF Answer, CarriesId, Handled
  <2> QED
    BY <2>1, AnswerClaim
<1>4. ASSUME Continue
      PROVE  OneClaim'
  BY <1>4, ContinueClaim
<1>5. ASSUME UNCHANGED vars
      PROVE  OneClaim'
  BY <1>5 DEF vars, client, ClaimInv, OneClaim, Pending, Held, IsLive, Message
<1> QED
  BY <1>1, <1>2, <1>3, <1>4, <1>5 DEF Next, ClaimInv

LEMMA InitClaim == Init => ClaimInv
BY InitKnown DEF Init, ClaimInv, OneClaim, Held, Waiting

\* Where the tracked state of a command comes from.
LEMMA TrackedFrom ==
    ASSUME NEW c \in Commands
    PROVE  TrackedState[c] = IF pc[c] = "unsent" THEN "unsent"
                             ELSE IF Message(c, 1) \in DOMAIN results THEN results[Message(c, 1)].status
                             ELSE "new"
BY DEF TrackedState, Message

\* Without a change to what is tracked the abstract state stutters.
LEMMA TrackedStutters ==
    ASSUME \A c \in Commands : pc'[c] = "unsent" <=> pc[c] = "unsent",
           \A c \in Commands : Message(c, 1) \in DOMAIN results' <=> Message(c, 1) \in DOMAIN results,
           \A c \in Commands : Message(c, 1) \in DOMAIN results =>
              results'[Message(c, 1)].status = results[Message(c, 1)].status
    PROVE  UNCHANGED TrackedState
BY DEF TrackedState, Message

\* Settling a pending result finishes its command.
LEMMA SettleTracks ==
    ASSUME IInv, IdsAreFresh, UNCHANGED pc, NEW r \in DOMAIN results \cup {NoResult},
           r # NoResult => results[r].status = "pending",
           NEW s \in {"success", "failed"}, Settle(r, s)
    PROVE  [Tracking!TrackingNext]_TrackedState
<1>1. TypeOK /\ s \in Status
  BY DEF IInv, Status
<1>2. /\ DOMAIN results' = DOMAIN results
      /\ r # NoResult => results'[r].status = s
      /\ \A q \in DOMAIN results : q # r => results'[q] = results[q]
  BY <1>1, SettleEffect
<1>3. CASE \E c \in Commands : r = Message(c, 1) /\ r \in DOMAIN results
  <2>1. PICK c \in Commands : r = Message(c, 1) /\ r \in DOMAIN results /\ r # NoResult
    BY <1>1, <1>3 DEF TypeOK
  <2>2. tries[c] > 0
    BY <1>1, <2>1 DEF IdsAreFresh, SentLast, Message, TypeOK
  <2>3. pc[c] # "unsent"
    BY <2>2 DEF IInv, OnlyDoneIsTaken, Begun
  <2>4. TrackedState[c] = "pending"
    BY <2>1, <2>3, TrackedFrom
  <2>5. TrackedState' = [TrackedState EXCEPT ![c] = s]
    <3>1. \A d \in Commands : d # c => Message(d, 1) # r
      BY <2>1 DEF Message
    <3> QED
      BY <1>2, <2>1, <2>3, <3>1 DEF TrackedState, Message
  <2> QED
    BY <2>4, <2>5 DEF Tracking!TrackingNext, Tracking!Finish
<1>4. CASE ~ \E c \in Commands : r = Message(c, 1) /\ r \in DOMAIN results
  BY <1>2, <1>4, TrackedStutters
<1> QED
  BY <1>3, <1>4

LEMMA PublishTracks ==
    ASSUME ClaimInv, NEW c \in Commands, Publish(c)
    PROVE  [Tracking!TrackingNext]_TrackedState
<1> USE DEF ClaimInv, KnownInv
<1>1. TypeOK
  BY DEF IInv
<1>2. ASSUME tries[c] = 0
      PROVE  Message(c, 1) \notin DOMAIN results
  BY <1>2 DEF IdsAreFresh, SentLast, Message
<1>3. CASE RegisterCommand(c)
  <2>1. tries[c] = 0 /\ NextId(c) = Message(c, 1) /\ pc[c] = "refreshed"
    BY <1>3, FirstMessage DEF RegisterCommand, NextId, Message
  <2>2. Register(Message(c, 1)) /\ pc' = [pc EXCEPT ![c] = "registered"]
    BY <1>3, <2>1 DEF RegisterCommand
  <2>3. TrackedState[c] = "new"
    BY <1>2, <2>1, TrackedFrom
  <2>4. TrackedState' = [TrackedState EXCEPT ![c] = "pending"]
    BY <1>1, <1>2, <2>1, <2>2 DEF TrackedState, Register, Message, TypeOK
  <2> QED
    BY <2>3, <2>4 DEF Tracking!TrackingNext, Tracking!Issue
<1>4. CASE GiveUpPublish(c)
  <2>1. pc[c] = "idle" /\ pc' = [pc EXCEPT ![c] = "unsent"] /\ UNCHANGED results
    BY <1>4 DEF GiveUpPublish
  <2>2. tries[c] = 0
    <3>1. c \notin Begun /\ tries[c] \in Nat
      BY <1>1, <2>1 DEF Begun, TypeOK
    <3>2. OnlyDoneIsTaken
      BY DEF IInv
    <3> QED
      BY <3>1, <3>2 DEF OnlyDoneIsTaken
  <2>3. TrackedState[c] = "new"
    BY <1>2, <2>1, <2>2, TrackedFrom
  <2>4. TrackedState' = [TrackedState EXCEPT ![c] = "unsent"]
    BY <1>1, <2>1 DEF TrackedState, TypeOK
  <2> QED
    BY <2>3, <2>4 DEF Tracking!TrackingNext, Tracking!Issue
<1>5. CASE Refresh(c) \/ Send(c) \/ Store(c)
  <2>1. UNCHANGED results /\ \A d \in Commands : pc'[d] = "unsent" <=> pc[d] = "unsent"
    BY <1>1, <1>5 DEF Refresh, Send, Store, TypeOK
  <2> QED
    BY <2>1, TrackedStutters
<1> QED
  BY <1>3, <1>4, <1>5 DEF Publish

LEMMA AnswerTracks ==
    ASSUME ClaimInv, NEW cid \in outstanding, NEW refusal \in BOOLEAN, Handled(cid, TRUE, refusal)
    PROVE  [Tracking!TrackingNext]_TrackedState
<1> USE DEF ClaimInv, KnownInv
<1>1. TypeOK
  BY DEF IInv
<1>2. PICK r : r = ResultOf(cid, TRUE)
  OBVIOUS
<1>3. UNCHANGED pc /\ Takes(ResultOf(cid, TRUE), cid) /\ r \in DOMAIN results \cup {NoResult}
  BY <1>1, <1>2, AnswerEffect
<1>4. UNCHANGED results \/ Settle(r, "success") \/ Settle(r, "failed")
  BY <1>2, <1>3 DEF Takes
<1>5. PICK n \in DOMAIN registry : registry[n].cid = cid /\ r = registry[n].result
  BY <1>2, AnswerFindsEntry
<1>6. results[r].status = "pending"
  BY <1>5 DEF OneClaim, IsLive, Pending
<1>7. CASE UNCHANGED results
  BY <1>3, <1>7, TrackedStutters
<1>8. CASE Settle(r, "success") \/ Settle(r, "failed")
  BY <1>3, <1>6, <1>8, SettleTracks
<1> QED
  BY <1>4, <1>7, <1>8

LEMMA ContinueTracks ==
    ASSUME ClaimInv, Continue
    PROVE  [Tracking!TrackingNext]_TrackedState
<1> USE DEF ClaimInv, KnownInv
<1>1. TypeOK
  BY DEF IInv
<1>2. UNCHANGED pc
  BY DEF Continue, ClearLast, GiveUpResend, StartResend, ResendRefresh, ResendRefreshFails,
         ResendRefreshRaises, ResendLink, ResendSend, ResendStore
<1>3. CASE ResendLink
  <2>1. PICK c, r :
          /\ c \in Commands /\ r = IF mqtt.result = NoResult THEN Message(c, 2) ELSE mqtt.result
          /\ DOMAIN results' = DOMAIN results \cup {r}
          /\ \A q \in DOMAIN results : results'[q].status = results[q].status
    BY <1>3, LinkEffect
  <2>2. r \in DOMAIN results \/ \A d \in Commands : Message(d, 1) # r
    BY <1>1, <2>1 DEF Message, TypeOK
  <2> QED
    BY <1>2, <2>1, <2>2, TrackedStutters
<1>4. CASE ~ResendLink
  <2>1. \/ UNCHANGED results
        \/ /\ mqtt.at \in {"accepted", "bad", "refresh"}
           /\ \E s \in {"success", "failed"} : Settle(mqtt.result, s)
    BY <1>4 DEF Continue, ClearLast, GiveUpResend, StartResend, ResendRefresh, ResendRefreshFails,
                ResendRefreshRaises, ResendSend, ResendStore
  <2>2. CASE UNCHANGED results
    BY <1>2, <2>2, TrackedStutters
  <2>3. CASE /\ mqtt.at \in {"accepted", "bad", "refresh"}
             /\ \E s \in {"success", "failed"} : Settle(mqtt.result, s)
    <3>1. PICK r : r = mqtt.result
      OBVIOUS
    <3>2. r \in DOMAIN results \cup {NoResult}
      BY <1>1, <3>1 DEF TypeOK
    <3>3. r # NoResult => results[r].status = "pending"
      BY <2>3, <3>1, <3>2 DEF OneClaim, Held, Pending
    <3> QED
      BY <1>2, <2>3, <3>1, <3>2, <3>3, SettleTracks
  <2> QED
    BY <2>1, <2>2, <2>3
<1> QED
  BY <1>3, <1>4

\* The results seen through the API go from pending to a final status once and keep
\* it, for any number of commands: when no entry is evicted, answers carry their
\* id and each id is answered once.
THEOREM TrackingIsImplemented ==
    HasRoom /\ ~IdLess /\ ~Duplicates => (Spec => ImplementsTracking)
<1>1. ASSUME HasRoom, ~IdLess, ~Duplicates
      PROVE  Spec => ImplementsTracking
  <2>1. Init => Tracking!TrackingInit
    BY DEF Init, Tracking!TrackingInit, TrackedState
  <2>2. ClaimInv /\ [Next]_vars => ClaimInv'
    BY <1>1, NextClaim
  <2>3. ClaimInv /\ [Next]_vars => [Tracking!TrackingNext]_TrackedState
    <3> SUFFICES ASSUME ClaimInv, [Next]_vars
                 PROVE  [Tracking!TrackingNext]_TrackedState
      OBVIOUS
    <3>1. ASSUME NEW cid \in outstanding, Answer(cid)
          PROVE  [Tracking!TrackingNext]_TrackedState
      <4>1. PICK refusal \in BOOLEAN : Handled(cid, TRUE, refusal)
        BY <1>1, <3>1 DEF Answer, CarriesId, Handled
      <4> QED
        BY <4>1, AnswerTracks
    <3>2. ASSUME UNCHANGED vars
          PROVE  UNCHANGED TrackedState
      BY <3>2 DEF vars, client, TrackedState
    <3> QED
      BY <3>1, <3>2, PublishTracks, ContinueTracks DEF Next
  <2> QED
    BY <2>1, <2>2, <2>3, InitClaim, PTL DEF Spec, ImplementsTracking, Tracking!TrackingSpec
<1> QED
  BY <1>1
=============================================================================
