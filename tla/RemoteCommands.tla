--------------------------- MODULE RemoteCommands ---------------------------
(***************************************************************************)
(* Remote commands and their asynchronous answers (psa/RemoteClient.py,     *)
(* psa/mqtt_request.py, psa/remote_events.py).                              *)
(*                                                                         *)
(* A command is one call of RemoteClient.publish by a thread of its own: an *)
(* HTTP handler, the refresh loop, the charge control or the keep-alive     *)
(* timer.  The answers are handled one at a time by the mqtt thread, which  *)
(* may send the last request again when PSA answers 400.  The two share the *)
(* slot last_request, which no lock protects, and the command registry,     *)
(* whose lock covers one registry call at a time.                           *)
(*                                                                         *)
(* A step is a stretch of a thread between two accesses to that shared      *)
(* state.  A wakeup that the mqtt thread itself sends (_fix_not_updated_api)*)
(* is one of the commands: it has fewer interleavings than the others.      *)
(* A message without a return code changes nothing and is not modelled.     *)
(***************************************************************************)
EXTENDS Integers, Sequences, FiniteSets

CONSTANTS Commands,    \* the calls of publish, one thread each
          MaxSize,     \* MAX_STORED_RESULTS, the size of the registry
          Duplicates,  \* may PSA answer the same correlation id more than once?
          IdLess,      \* may an answer come back without its correlation id?
          NoCommand,   \* last_request is None
          NoResult     \* no CommandResult was found

\* A correlation id is fresh at each call of get_message: the request it was
\* generated for and the number of the call stand for the uuid and the date.
Cid == [cmd: Commands, try: Nat \ {0}]

ASSUME CommandsAssumption == /\ MaxSize \in Nat \ {0}
                             /\ Duplicates \in BOOLEAN
                             /\ IdLess \in BOOLEAN
                             /\ NoCommand \notin Commands
                             /\ NoResult \notin Cid

VARIABLES
    pc,          \* where the thread of each command is in publish
    tries,       \* how often get_message was called on each request
    retried,     \* the flag MQTTRequest.retried
    results,     \* the CommandResult objects, named by the id they were registered with
    registry,    \* the OrderedDict of the registry, oldest entry first
    lastRequest, \* RemoteClient.last_request
    mqtt,        \* the mqtt thread: its position and its local variables
    outstanding, \* the ids PSA has been sent and may answer (external)
    answered     \* the Noted answers PSA gave to each command so far (external)

client == <<pc, tries, retried, results, registry, lastRequest, mqtt>>
vars   == <<client, outstanding, answered>>

Status == {"pending", "success", "failed"}
Noted  == [cmd: Commands, code: {"ok", "expired", "refused"}]
Result == [cid: Cid, status: Status]

\* The mqtt thread waiting for a message.
Waiting == [at |-> "idle", result |-> NoResult, request |-> NoCommand, refusal |-> FALSE]

TypeOK ==
    /\ pc \in [Commands -> {"idle", "unsent", "refreshed", "registered", "sent", "done"}]
    /\ tries \in [Commands -> Nat]
    /\ retried \in [Commands -> BOOLEAN]
    /\ DOMAIN results \subseteq Cid
    /\ results \in [DOMAIN results -> Result]
    /\ registry \in Seq([cid: Cid, result: DOMAIN results])
    /\ lastRequest \in Commands \cup {NoCommand}
    /\ mqtt \in [at: {"idle", "accepted", "bad", "refresh", "link", "send", "store", "dead"},
                 result: DOMAIN results \cup {NoResult},
                 request: Commands \cup {NoCommand},
                 refusal: BOOLEAN]
    /\ outstanding \in SUBSET Cid
    /\ answered \in SUBSET Noted

Init ==
    /\ pc = [c \in Commands |-> "idle"]
    /\ tries = [c \in Commands |-> 0]
    /\ retried = [c \in Commands |-> FALSE]
    /\ results = [r \in {} |-> [cid |-> r, status |-> "pending"]]
    /\ registry = <<>>
    /\ lastRequest = NoCommand
    /\ mqtt = Waiting
    /\ outstanding = {}
    /\ answered = {}

-----------------------------------------------------------------------------
(* CommandRegistry and CommandResult *)

\* MQTTRequest.correlation_id: the id of the last message built for c.
CurrentId(c) == [cmd |-> c, try |-> tries[c]]
NextId(c)    == [cmd |-> c, try |-> tries[c] + 1]

\* Variant: the eviction is off by one.
NewestAndOneMore(entries) ==
    IF Len(entries) > MaxSize + 1
    THEN SubSeq(entries, Len(entries) - MaxSize, Len(entries))
    ELSE entries

\* What the registry keeps: at most MaxSize entries, the oldest evicted first.
Newest(entries) ==
    IF Len(entries) > MaxSize
    THEN SubSeq(entries, Len(entries) - MaxSize + 1, Len(entries))
    ELSE entries

\* CommandRegistry.register: a new pending result, then the eviction.
Register(cid) ==
    /\ results' = [r \in DOMAIN results \cup {cid} |->
                      IF r = cid THEN [cid |-> cid, status |-> "pending"] ELSE results[r]]
    /\ registry' = Newest(Append(registry, [cid |-> cid, result |-> cid]))

\* Variant: the registry isn't told about the new id.
RelinkResultOnly(cid, r) ==
    /\ results' = [results EXCEPT ![r].cid = cid]
    /\ UNCHANGED registry

\* CommandRegistry.relink: the result follows the new id; nothing is evicted.
Relink(cid, r) ==
    /\ results' = [results EXCEPT ![r].cid = cid]
    /\ registry' = Append(registry, [cid |-> cid, result |-> r])

PendingEntries == {i \in DOMAIN registry : results[registry[i].result].status = "pending"}

\* CommandRegistry.get_last_pending: the newest entry whose result is pending.
LastPending ==
    LET newest == {registry[i].result : i \in {i \in PendingEntries : \A j \in PendingEntries : j <= i}}
    IN IF newest = {} THEN NoResult ELSE CHOOSE r \in newest : TRUE

Known(cid) == \E i \in DOMAIN registry : registry[i].cid = cid

\* Variant: the correlation id of the answer isn't looked up.
ResultOfPending(cid, carriesId) == LastPending

\* _get_command_result: by correlation id, else the waiting command.
ResultOf(cid, carriesId) ==
    IF carriesId /\ Known(cid)
    THEN registry[CHOOSE i \in DOMAIN registry : registry[i].cid = cid].result
    ELSE LastPending

\* CommandResult.set_result and set_failed, when there is a result to set.
Settle(r, status) ==
    results' = IF r = NoResult THEN results ELSE [results EXCEPT ![r].status = status]

-----------------------------------------------------------------------------
(* publish, in the thread of a command *)

\* The remote token is refreshed, or still valid.
Refresh(c) ==
    /\ pc[c] = "idle"
    /\ pc' = [pc EXCEPT ![c] = "refreshed"]
    /\ UNCHANGED <<tries, retried, results, registry, lastRequest, mqtt, outstanding, answered>>

\* It can't be refreshed: publish returns None, or the exception reaches the caller.
GiveUpPublish(c) ==
    /\ pc[c] = "idle"
    /\ pc' = [pc EXCEPT ![c] = "unsent"]
    /\ UNCHANGED <<tries, retried, results, registry, lastRequest, mqtt, outstanding, answered>>

\* The message is built, with a new correlation id, and registered.
RegisterCommand(c) ==
    /\ pc[c] = "refreshed"
    /\ pc' = [pc EXCEPT ![c] = "registered"]
    /\ tries' = [tries EXCEPT ![c] = @ + 1]
    /\ Register(NextId(c))
    /\ UNCHANGED <<retried, lastRequest, mqtt, outstanding, answered>>

\* The message is handed to PSA, which may answer from now on.
Send(c) ==
    /\ pc[c] = "registered"
    /\ pc' = [pc EXCEPT ![c] = "sent"]
    /\ outstanding' = outstanding \cup {CurrentId(c)}
    /\ UNCHANGED <<tries, retried, results, registry, lastRequest, mqtt, answered>>

\* The request becomes the one a 400 would send again.
Store(c) ==
    /\ pc[c] = "sent"
    /\ pc' = [pc EXCEPT ![c] = "done"]
    /\ lastRequest' = c
    /\ UNCHANGED <<tries, retried, results, registry, mqtt, outstanding, answered>>

Publish(c) == Refresh(c) \/ GiveUpPublish(c) \/ RegisterCommand(c) \/ Send(c) \/ Store(c)

-----------------------------------------------------------------------------
(* _handle_response, in the mqtt thread *)

\* PSA answers an id it was sent with a code: "ok" is return_code 0, "expired" a
\* 400, "refused" a 400 with a refusal reason, "error" any other one.  Answers
\* are lost (an id may stay outstanding for ever), come in any order and, with
\* Duplicates, more than once.
Deliver(cid, code) ==
    /\ mqtt.at = "idle"
    /\ cid \in outstanding
    /\ answered' = answered \cup ({[cmd |-> cid.cmd, code |-> code]} \cap Noted)
    /\ outstanding' \in {outstanding \ {cid}} \cup (IF Duplicates THEN {outstanding} ELSE {})

\* The answer is for the request that would be sent again.
IsForLastRequest(r) ==
    /\ r # NoResult
    /\ lastRequest # NoCommand
    /\ CurrentId(lastRequest) = results[r].cid

\* return_code "0": the last request is looked at here and cleared in a later
\* step (ClearLast), between which another thread may have stored its own.
HandleOk(cid, carriesId) ==
    LET r == ResultOf(cid, carriesId) IN
    /\ Deliver(cid, "ok")
    /\ \/ /\ IsForLastRequest(r)
          /\ mqtt' = [mqtt EXCEPT !.at = "accepted", !.result = r]
          /\ UNCHANGED results
       \/ /\ ~IsForLastRequest(r)
          /\ Settle(r, "success")
          /\ UNCHANGED mqtt
    /\ UNCHANGED <<pc, tries, retried, registry, lastRequest>>

ClearLast ==
    /\ mqtt.at = "accepted"
    /\ lastRequest' = NoCommand
    /\ Settle(mqtt.result, "success")
    /\ mqtt' = Waiting
    /\ UNCHANGED <<pc, tries, retried, registry, outstanding, answered>>

\* Any other code but 400.
HandleError(cid, carriesId) ==
    /\ Deliver(cid, "error")
    /\ Settle(ResultOf(cid, carriesId), "failed")
    /\ UNCHANGED <<pc, tries, retried, registry, lastRequest, mqtt>>

\* A 400: the last request is read here and cleared in the next step.
HandleBad(cid, carriesId, refusal) ==
    /\ Deliver(cid, IF refusal THEN "refused" ELSE "expired")
    /\ mqtt' = [at |-> "bad", result |-> ResultOf(cid, carriesId),
                request |-> lastRequest, refusal |-> refusal]
    /\ UNCHANGED <<pc, tries, retried, results, registry, lastRequest>>

\* Variant: a refusal is treated as an expired token.
ResendableRefusal == mqtt.request # NoCommand /\ ~retried[mqtt.request]

Resendable == ~mqtt.refusal /\ mqtt.request # NoCommand /\ ~retried[mqtt.request]

\* Refused, nothing to send again, or already sent again: the result fails.
GiveUpResend ==
    /\ mqtt.at = "bad"
    /\ ~Resendable
    /\ lastRequest' = NoCommand
    /\ Settle(mqtt.result, "failed")
    /\ mqtt' = Waiting
    /\ UNCHANGED <<pc, tries, retried, registry, outstanding, answered>>

\* Variant: the request isn't marked as sent again.
StartResendUnmarked ==
    /\ mqtt.at = "bad"
    /\ Resendable
    /\ lastRequest' = NoCommand
    /\ mqtt' = [mqtt EXCEPT !.at = "refresh"]
    /\ UNCHANGED <<pc, tries, retried, results, registry, outstanding, answered>>

StartResend ==
    /\ mqtt.at = "bad"
    /\ Resendable
    /\ lastRequest' = NoCommand
    /\ retried' = [retried EXCEPT ![mqtt.request] = TRUE]
    /\ mqtt' = [mqtt EXCEPT !.at = "refresh"]
    /\ UNCHANGED <<pc, tries, results, registry, outstanding, answered>>

\* The forced refresh and the one publish makes again both answer True.
ResendRefresh ==
    /\ mqtt.at = "refresh"
    /\ mqtt' = [mqtt EXCEPT !.at = "link"]
    /\ UNCHANGED <<pc, tries, retried, results, registry, lastRequest, outstanding, answered>>

\* Variant: the result isn't told that its command wasn't sent.
ResendRefreshFailsSilently ==
    /\ mqtt.at = "refresh"
    /\ mqtt' = Waiting
    /\ UNCHANGED <<pc, tries, retried, results, registry, lastRequest, outstanding, answered>>

\* Variant: the return is missing after set_failed.
ResendRefreshFailsAndGoesOn ==
    /\ mqtt.at = "refresh"
    /\ Settle(mqtt.result, "failed")
    /\ mqtt' = [mqtt EXCEPT !.at = "link"]
    /\ UNCHANGED <<pc, tries, retried, registry, lastRequest, outstanding, answered>>

\* One of them answers False: the command isn't sent again.
ResendRefreshFails ==
    /\ mqtt.at = "refresh"
    /\ Settle(mqtt.result, "failed")
    /\ mqtt' = Waiting
    /\ UNCHANGED <<pc, tries, retried, registry, lastRequest, outstanding, answered>>

\* One of them raises (a ConfigException is not caught): only KeyError is
\* caught above, and paho ends the mqtt thread on an exception of a callback.
ResendRefreshRaises ==
    /\ mqtt.at = "refresh"
    /\ mqtt' = [Waiting EXCEPT !.at = "dead"]
    /\ UNCHANGED <<pc, tries, retried, results, registry, lastRequest, outstanding, answered>>

\* A new message for the request taken; the result of the answer follows it.
ResendLink ==
    /\ mqtt.at = "link"
    /\ tries' = [tries EXCEPT ![mqtt.request] = @ + 1]
    /\ IF mqtt.result = NoResult
       THEN Register(NextId(mqtt.request))
       ELSE Relink(NextId(mqtt.request), mqtt.result)
    /\ mqtt' = [mqtt EXCEPT !.at = "send"]
    /\ UNCHANGED <<pc, retried, lastRequest, outstanding, answered>>

ResendSend ==
    /\ mqtt.at = "send"
    /\ outstanding' = outstanding \cup {CurrentId(mqtt.request)}
    /\ mqtt' = [mqtt EXCEPT !.at = "store"]
    /\ UNCHANGED <<pc, tries, retried, results, registry, lastRequest, answered>>

ResendStore ==
    /\ mqtt.at = "store"
    /\ lastRequest' = mqtt.request
    /\ mqtt' = Waiting
    /\ UNCHANGED <<pc, tries, retried, results, registry, outstanding, answered>>

CarriesId == IF IdLess THEN BOOLEAN ELSE {TRUE}

Answer(cid) ==
    \E carriesId \in CarriesId :
        \/ HandleOk(cid, carriesId)
        \/ HandleError(cid, carriesId)
        \/ \E refusal \in BOOLEAN : HandleBad(cid, carriesId, refusal)

Continue ==
    \/ ClearLast
    \/ GiveUpResend
    \/ StartResend
    \/ ResendRefresh
    \/ ResendRefreshFails
    \/ ResendRefreshRaises
    \/ ResendLink
    \/ ResendSend
    \/ ResendStore

Next ==
    \/ \E c \in Commands : Publish(c)
    \/ \E cid \in outstanding : Answer(cid)
    \/ Continue

Spec == Init /\ [][Next]_vars

\* Threads run, and PSA answers what it was sent.
FairSpec ==
    /\ Spec
    /\ \A c \in Commands : WF_vars(Publish(c))
    /\ WF_vars(Continue)
    /\ \A c \in Commands : \A n \in 1..2 : WF_vars(LET cid == [cmd |-> c, try |-> n]
                                                   IN cid \in outstanding /\ Answer(cid))

-----------------------------------------------------------------------------
(* Safety *)

\* A request is sent at most twice: "a resend is attempted at most once per
\* request" (RemoteClient._handle_bad_request), whatever answers come, for
\* whichever command, while other threads replace the last request.
AtMostOneResend == \A c \in Commands : tries[c] <= 2

\* A command is sent again only after PSA answered some command with a 400 that
\* isn't a refusal: refusals never burn the token refresh budget.
ResendNeedsExpiry ==
    (\E c \in Commands : tries[c] > 1) => \E a \in answered : a.code = "expired"

\* docs/psacc_api.md: `status` is `success` when the command was "accepted by
\* the car".  Until something is sent again, answers that carry their id make
\* a success only of the command the car accepted, in whatever order they come.
\* After a resend a result may follow another command than its own.
UnresentSuccessIsAccepted ==
    (\A c \in Commands : tries[c] <= 1) =>
        \A r \in DOMAIN results :
            results[r].status = "success" => [cmd |-> r.cmd, code |-> "ok"] \in answered

\* The registry outgrows MAX_STORED_RESULTS only by the entries of resends,
\* which relink adds without evicting.
Resent == {c \in Commands : tries[c] > 1}
BoundedByResends == Len(registry) <= MaxSize + Cardinality(Resent)

\* A stored result that is still pending is waited for: its publisher hasn't
\* sent it yet, an answer to one of its ids is due, or the mqtt thread is busy
\* with it.  Only a dead mqtt thread leaves it pending for nothing.  Holds when
\* answers carry their id.
PendingIsAwaited ==
    \A i \in DOMAIN registry :
        LET r == registry[i].result IN
        results[r].status = "pending" =>
            \/ mqtt.at = "dead"
            \/ mqtt.result = r
            \/ r = CurrentId(r.cmd) /\ (pc[r.cmd] = "registered" \/ mqtt.at = "send")
            \/ \E j \in DOMAIN registry : registry[j].result = r /\ registry[j].cid \in outstanding

(* The inductive invariant behind AtMostOneResend and ResendNeedsExpiry *)

Begun == {c \in Commands : pc[c] \in {"registered", "sent", "done"}}

\* Only a request whose publish returned can be the last request, be taken by
\* the mqtt thread, or be marked as sent again.
OnlyDoneIsTaken ==
    \A c \in Commands :
        /\ c \in Begun <=> tries[c] > 0
        /\ pc[c] # "done" => lastRequest # c /\ mqtt.request # c /\ ~retried[c]

\* The second message of a request is preceded by its mark.
MarkedBeforeResend ==
    /\ \A c \in Commands : tries[c] <= (IF retried[c] THEN 2 ELSE 1)
    /\ mqtt.at \in {"refresh", "link", "send", "store"} =>
          mqtt.request \in Commands /\ retried[mqtt.request]
    /\ mqtt.at \in {"refresh", "link"} => tries[mqtt.request] = 1

MarkedAfterExpiry ==
    (\E c \in Commands : retried[c]) \/ (mqtt.at = "bad" /\ ~mqtt.refusal) =>
        \E a \in answered : a.code = "expired"

\* What every step keeps: the types and the life of the flag `retried`, from
\* the 400 that sets it to the message it allows.
IInv == TypeOK /\ OnlyDoneIsTaken /\ MarkedBeforeResend /\ MarkedAfterExpiry

\* The bound on the registry, with the requests sent again finitely many.
BoundInv == IInv /\ IsFiniteSet(Resent) /\ BoundedByResends

(* The inductive invariants behind the properties of results *)

Message(c, n) == [cmd |-> c, try |-> n]

\* An answer to the id may come: PSA has been sent it, or is about to be.
IsLive(cid) ==
    \/ cid \in outstanding
    \/ pc[cid.cmd] = "registered" /\ cid.try = 1
    \/ mqtt.at = "send" /\ cid = Message(mqtt.request, 2)

\* The mqtt thread has the result, to settle it or to link it to a new id.
Held(r) == mqtt.at \in {"accepted", "bad", "refresh", "link"} /\ mqtt.result = r

Pending(r) == results[r].status = "pending"

\* Ids are those of messages built, and no two entries have the same; only a
\* second message is linked to the result of another.
EntriesAreFresh ==
    /\ \A i \in DOMAIN registry :
          LET cid == registry[i].cid IN
          /\ cid.try <= tries[cid.cmd]
          /\ cid.try = 1 => registry[i].result = cid
          /\ mqtt.at = "send" /\ cid = Message(mqtt.request, 2) =>
                registry[i].result \in {cid, mqtt.result}
    /\ \A i, j \in DOMAIN registry : registry[i].cid = registry[j].cid => i = j

\* A message is built, registered and sent, in this order.
SentLast ==
    /\ \A cid \in outstanding : cid.try <= tries[cid.cmd]
    /\ \A r \in DOMAIN results : r.try <= tries[r.cmd]
    /\ \A c \in Commands : pc[c] = "registered" => Message(c, 1) \notin outstanding
    /\ mqtt.at \in {"send", "store"} => tries[mqtt.request] = 2
    /\ mqtt.at = "send" => Message(mqtt.request, 2) \notin outstanding
    /\ mqtt.at \in {"idle", "dead"} => mqtt.result = NoResult

IdsAreFresh == EntriesAreFresh /\ SentLast

\* The newest id of a pending result may be answered, unless the result is held:
\* an older one may be lost, with or without its entry.
NewestIsAwaited ==
    \A i \in DOMAIN registry :
        LET r == registry[i].result IN
        Pending(r) /\ (\A j \in DOMAIN registry : registry[j].result = r => j <= i) =>
            mqtt.at = "dead" \/ Held(r) \/ IsLive(registry[i].cid)

\* What every step keeps when answers carry their id.
AwaitedInv == IInv /\ IdsAreFresh /\ NewestIsAwaited

\* The registry has room for two entries of each command: none is evicted.
HasRoom == IsFiniteSet(Commands) /\ 2 * Cardinality(Commands) <= MaxSize

\* No entry is missed: each id that may be answered is there.
LiveIsKnown == \A c \in Commands : \A n \in 1..2 : IsLive(Message(c, n)) => Known(Message(c, n))

Succeeds(r) == results[r].status = "success" \/ (mqtt.at = "accepted" /\ mqtt.result = r)

\* Before anything is sent again a success, given or about to be, is the car's.
AcceptedFirst ==
    (\A c \in Commands : tries[c] <= 1) =>
        \A r \in DOMAIN results : Succeeds(r) => [cmd |-> r.cmd, code |-> "ok"] \in answered

\* What every step keeps when also nothing is evicted.
KnownInv == IInv /\ IdsAreFresh /\ LiveIsKnown /\ AcceptedFirst

\* A result that can still be settled is pending, and by one only: the mqtt thread,
\* or the answer to one id.
OneClaim ==
    /\ \A i \in DOMAIN registry :
          IsLive(registry[i].cid) => Pending(registry[i].result) /\ ~Held(registry[i].result)
    /\ \A i, j \in DOMAIN registry :
          IsLive(registry[i].cid) /\ IsLive(registry[j].cid) /\ registry[i].result = registry[j].result => i = j
    /\ \A r \in DOMAIN results : Held(r) => Pending(r)

\* What every step keeps when also no id is answered twice.
ClaimInv == KnownInv /\ OneClaim

(* What a command promises to the caller of the API *)

TrackedState ==
    [c \in Commands |->
        IF pc[c] = "unsent" THEN "unsent"
        ELSE LET r == [cmd |-> c, try |-> 1]
             IN IF r \in DOMAIN results THEN results[r].status ELSE "new"]

Tracking == INSTANCE CommandTracking WITH state <- TrackedState

\* The results seen through the API go from pending to a final status once and
\* keep it, whatever resends cross; holds when PSA answers an id only once.
ImplementsTracking == Tracking!TrackingSpec

\* If PSA answers what it is sent, every command registered gets its final
\* status, through the resends too, unless the mqtt thread died; in a registry
\* large enough to evict none.
Registered(c)  == pc[c] \in {"registered", "sent", "done"}
Settled(c)     == TrackedState[c] \in {"success", "failed"}
EveryCommandSettles ==
    \A c \in Commands : Registered(c) ~> Settled(c) \/ mqtt.at = "dead"
=============================================================================
