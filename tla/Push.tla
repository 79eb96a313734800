-------------------------------- MODULE Push --------------------------------
(***************************************************************************)
(* The push subscription at PSA (psa_push_enable and psa_push_disable of    *)
(* web/view/api.py, PushState of psa/push.py).                              *)
(*                                                                         *)
(* Enabling creates a callback, then a monitor for each group of data;      *)
(* disabling deletes the monitors and then the callback.  What psacc created*)
(* is kept in memory and in psa_push.json.  A request is a thread of the web*)
(* server; its steps are the calls to PSA, what is done between two, and the*)
(* steps of a save: the file is opened, which empties it, the state is      *)
(* turned into text, and the text is written.  An answer may be lost, a     *)
(* request refused, the file not opened or not written and psacc restarted. *)
(* A callback that is deleted takes its monitors with it.                   *)
(***************************************************************************)
EXTENDS Integers, FiniteSets

CONSTANTS Requests,  \* the threads of the web server
          Cars,      \* the cars of the account
          Groups,    \* the labels of MONITOR_GROUPS
          None,      \* no token, no callback
          Broken,    \* a file that can't be read: empty, cut off, or two texts
          MaxFresh,  \* bound: the tokens and ids given
          MaxTroubles \* bound: the lost answers, refusals, failed saves and crashes

ASSUME PushAssumption ==
    /\ IsFiniteSet(Requests) /\ Requests # {} /\ IsFiniteSet(Cars)
    /\ None \notin Nat
    /\ MaxFresh \in Nat /\ MaxTroubles \in Nat

VARIABLES
    callbacks, \* the callbacks psacc created at PSA: their token by id (external)
    monitors,  \* the monitors psacc created at PSA (external)
    fresh,     \* the last id or token given
    state,     \* PUSH_STATE
    file,      \* psa_push.json
    save,      \* the saves of the requests: their position and text
    request,   \* the requests: their position and what they hold
    watched,   \* history: the car of the last request that enabled all, or None
    doubt,     \* history: why PSA and the state may differ
    unsaved,   \* history: the file and the state may differ
    troubles   \* the losses, refusals, failed saves and crashes so far

psa  == <<callbacks, monitors>>
disk == <<file, save, unsaved>>
vars == <<psa, fresh, state, disk, request, watched, doubt, troubles>>

Id == Nat \ {0}

Monitor == [id: Id, car: Cars, callback: Id \cup {None}, label: Groups]

State == [token: Id \cup {None}, callback: Id \cup {None}, monitors: SUBSET Monitor]

Empty == [token |-> None, callback |-> None, monitors |-> {}]

ASSUME FileAssumption == Broken \notin State

\* labels are to be created, the known monitors to be deleted; path is the callback
\* under which a monitor is created; answer is an id that PSA gave, None when it
\* refused or wasn't heard.
RequestState ==
    [at: {"idle", "start", "callback", "called", "listing", "monitors", "created",
          "removing", "removed", "leaving", "ending"},
     car: Cars \cup {None}, labels: SUBSET Groups, known: SUBSET Monitor,
     path: Id \cup {None}, answer: Id \cup {None}, ok: BOOLEAN]

Idle == [at |-> "idle", car |-> None, labels |-> {}, known |-> {},
         path |-> None, answer |-> None, ok |-> TRUE]

Save == [at: {"none", "open", "dump", "write"}, text: State]

NoSave == [at |-> "none", text |-> Empty]

PsaTypeOK ==
    /\ DOMAIN callbacks \subseteq Id /\ \A id \in DOMAIN callbacks : callbacks[id] \in Id \cup {None}
    /\ monitors \subseteq Monitor
    /\ fresh \in Nat
    /\ state \in State
    /\ request \in [Requests -> RequestState]
    /\ watched \in Cars \cup {None}
    /\ doubt \subseteq {"created", "removed"}
    /\ troubles \in Nat

DiskTypeOK ==
    /\ file \in State \cup {Broken}
    /\ save \in [Requests -> Save]
    /\ unsaved \in BOOLEAN

TypeOK == PsaTypeOK /\ DiskTypeOK

Init ==
    /\ callbacks = <<>>
    /\ monitors = {}
    /\ fresh = 0
    /\ state = Empty
    /\ file = Empty
    /\ save = [r \in Requests |-> NoSave]
    /\ request = [r \in Requests |-> Idle]
    /\ watched = None
    /\ doubt = {}
    /\ unsaved = FALSE
    /\ troubles = 0

Become(r, new) == request' = [request EXCEPT ![r] = new]

Goto(r, at) == Become(r, [request[r] EXCEPT !.at = at])

\* No other request runs.
Alone(r) == \A q \in Requests \ {r} : request[q].at = "idle"

\* The position of a request that isn't in a save.
At(r, at) == request[r].at = at /\ save[r].at = "none"

-----------------------------------------------------------------------------
(* PushState.save *)

Saving(r, new) == save' = [save EXCEPT ![r] = new]

\* A request changes the state, then saves.
Change(r, new) ==
    /\ state' = new
    /\ Saving(r, [NoSave EXCEPT !.at = "open"])
    /\ UNCHANGED <<file, unsaved>>

\* What open empties is whole again when this save ends, if it ends, and nothing
\* runs beside.
Open(r) ==
    /\ save[r].at = "open"
    /\ file' = Broken
    /\ Saving(r, [save[r] EXCEPT !.at = "dump"])
    /\ unsaved' = (unsaved /\ ~Alone(r))
    /\ UNCHANGED <<psa, fresh, state, request, watched, doubt, troubles>>

\* A file that can't be opened stays as it is.
OpenFails(r) ==
    /\ save[r].at = "open"
    /\ troubles < MaxTroubles
    /\ troubles' = troubles + 1
    /\ Saving(r, NoSave)
    /\ unsaved' = TRUE
    /\ UNCHANGED <<psa, fresh, state, file, request, watched, doubt>>

Dump(r) ==
    /\ save[r].at = "dump"
    /\ Saving(r, [at |-> "write", text |-> state])
    /\ UNCHANGED <<psa, fresh, state, file, unsaved, request, watched, doubt, troubles>>

\* The monitors change under the loop over them: the request ends there.
DumpRaises(r) ==
    /\ save[r].at = "dump"
    /\ \E q \in Requests \ {r} : \/ request[q].at = "created" /\ request[q].answer # None
                                 \/ request[q].at = "removed" /\ request[q].ok
    /\ file' = Broken
    /\ Saving(r, NoSave)
    /\ Become(r, Idle)
    /\ UNCHANGED <<psa, fresh, state, unsaved, watched, doubt, troubles>>

\* The text is written over what another save has put there since: what is longer stays.
Write(r) ==
    /\ save[r].at = "write"
    /\ file' = save[r].text \/ (file # Broken /\ file' = Broken)
    /\ Saving(r, NoSave)
    /\ UNCHANGED <<psa, fresh, state, unsaved, request, watched, doubt, troubles>>

WriteFails(r) ==
    /\ save[r].at = "write"
    /\ troubles < MaxTroubles
    /\ troubles' = troubles + 1
    /\ file' = Broken
    /\ Saving(r, NoSave)
    /\ unsaved' = TRUE
    /\ UNCHANGED <<psa, fresh, state, request, watched, doubt>>

-----------------------------------------------------------------------------
(* psa_push_enable *)

\* Variant: one monitor is enough.
MissingAny(known) == IF known = {} THEN Groups ELSE {}

\* The groups that no monitor of the state has the label of, whatever its car.
Missing(known) == {g \in Groups : \A m \in known : m.label # g}

\* A request that starts beside another puts everything in doubt.
Start(r, new) ==
    /\ At(r, "idle")
    /\ Become(r, new)
    /\ watched' = None
    /\ doubt' = IF Alone(r) THEN doubt ELSE {"created", "removed"}
    /\ UNCHANGED psa

Beside(r) == unsaved' = (unsaved \/ ~Alone(r))

\* ensure_token: a token is made, and saved, once.
Enable(r, car) ==
    /\ Start(r, [Idle EXCEPT !.at = "start", !.car = car])
    /\ state.token # None
    /\ Beside(r)
    /\ UNCHANGED <<fresh, state, file, save, troubles>>

EnableFirst(r, car) ==
    /\ Start(r, [Idle EXCEPT !.at = "start", !.car = car])
    /\ state.token = None
    /\ fresh < MaxFresh
    /\ fresh' = fresh + 1
    /\ state' = [state EXCEPT !.token = fresh']
    /\ Saving(r, [NoSave EXCEPT !.at = "open"])
    /\ Beside(r)
    /\ UNCHANGED <<file, troubles>>

\* A callback is reused.
CheckCallback(r) ==
    /\ At(r, "start")
    /\ Goto(r, IF state.callback = None THEN "callback" ELSE "listing")
    /\ UNCHANGED <<psa, fresh, state, disk, watched, doubt, troubles>>

\* call_api: what PSA created is answered, or the answer is lost.
Answered(r, asked) ==
    \/ /\ Become(r, [asked EXCEPT !.answer = fresh'])
       /\ UNCHANGED <<doubt, troubles>>
    \/ /\ troubles < MaxTroubles
       /\ troubles' = troubles + 1
       /\ Become(r, asked)
       /\ doubt' = doubt \cup {"created"}

PostCallback(r) ==
    /\ At(r, "callback")
    /\ fresh < MaxFresh
    /\ fresh' = fresh + 1
    /\ callbacks' = [id \in DOMAIN callbacks \cup {fresh'} |->
                        IF id = fresh' THEN state.token ELSE callbacks[id]]
    /\ Answered(r, [request[r] EXCEPT !.at = "called"])
    /\ UNCHANGED <<monitors, state, disk, watched>>

\* PSA refuses, or isn't reached.
RefuseCallback(r) ==
    /\ At(r, "callback")
    /\ troubles < MaxTroubles
    /\ troubles' = troubles + 1
    /\ Goto(r, "called")
    /\ UNCHANGED <<psa, fresh, state, disk, watched, doubt>>

\* Variant: the callback isn't saved.
StoreCallbackUnsaved(r) ==
    /\ At(r, "called")
    /\ IF request[r].answer = None
       THEN /\ Become(r, Idle)
            /\ UNCHANGED state
       ELSE /\ state' = [state EXCEPT !.callback = request[r].answer]
            /\ Become(r, [request[r] EXCEPT !.at = "listing", !.answer = None])
    /\ UNCHANGED <<psa, fresh, disk, watched, doubt, troubles>>

\* Without a callback the request ends there.
StoreCallback(r) ==
    /\ At(r, "called")
    /\ IF request[r].answer = None
       THEN /\ Become(r, Idle)
            /\ UNCHANGED <<state, disk>>
       ELSE /\ Change(r, [state EXCEPT !.callback = request[r].answer])
            /\ Become(r, [request[r] EXCEPT !.at = "listing", !.answer = None])
    /\ UNCHANGED <<psa, fresh, watched, doubt, troubles>>

ListMissing(r) ==
    /\ At(r, "listing")
    /\ Become(r, [request[r] EXCEPT !.at = "monitors", !.labels = Missing(state.monitors)])
    /\ UNCHANGED <<psa, fresh, state, disk, watched, doubt, troubles>>

\* The group whose turn it is.
Turn(labels) == CHOOSE g \in labels : TRUE

MonitorOf(r, path, id) ==
    [id |-> id, car |-> request[r].car, callback |-> path, label |-> Turn(request[r].labels)]

Asking(r) == [request[r] EXCEPT !.at = "created", !.path = state.callback]

\* A monitor is created under the callback the state has at that time.
PostMonitor(r) ==
    /\ At(r, "monitors")
    /\ request[r].labels # {}
    /\ state.callback \in DOMAIN callbacks
    /\ fresh < MaxFresh
    /\ fresh' = fresh + 1
    /\ monitors' = monitors \cup {MonitorOf(r, state.callback, fresh')}
    /\ Answered(r, Asking(r))
    /\ UNCHANGED <<callbacks, state, disk, watched>>

RefuseMonitor(r) ==
    /\ At(r, "monitors")
    /\ request[r].labels # {}
    /\ \/ state.callback \notin DOMAIN callbacks /\ UNCHANGED troubles
       \/ troubles < MaxTroubles /\ troubles' = troubles + 1
    /\ Become(r, Asking(r))
    /\ UNCHANGED <<psa, fresh, state, disk, watched, doubt>>

Forward(r, ok) ==
    Become(r, [request[r] EXCEPT !.at = "monitors", !.answer = None, !.labels = @ \ {Turn(@)},
                               !.ok = @ /\ ok])

\* A monitor that PSA answered is kept and saved; another is left out.
StoreMonitor(r) ==
    /\ At(r, "created")
    /\ IF request[r].answer = None
       THEN Forward(r, FALSE) /\ UNCHANGED <<state, disk>>
       ELSE /\ Forward(r, TRUE)
            /\ Change(r, [state EXCEPT !.monitors =
                              @ \cup {MonitorOf(r, request[r].path, request[r].answer)}])
    /\ UNCHANGED <<psa, fresh, watched, doubt, troubles>>

EndEnable(r) ==
    /\ At(r, "monitors")
    /\ request[r].labels = {}
    /\ Become(r, Idle)
    /\ watched' = IF request[r].ok THEN request[r].car ELSE None
    /\ UNCHANGED <<psa, fresh, state, disk, doubt, troubles>>

-----------------------------------------------------------------------------
(* psa_push_disable *)

\* The loop goes over the monitors of the state as they are now, in their order.
Oldest(ms) == CHOOSE m \in ms : \A n \in ms : m.id <= n.id

Disable(r) ==
    /\ Start(r, [Idle EXCEPT !.at = "removing", !.known = state.monitors])
    /\ Beside(r)
    /\ UNCHANGED <<fresh, state, file, save, troubles>>

\* PSA deletes what is asked, or answers 404 when it doesn't have it: ok.
\* Otherwise nothing is deleted, or the answer is lost.
Deleted(r, at, delete) ==
    \/ /\ delete
       /\ Become(r, [request[r] EXCEPT !.at = at, !.ok = TRUE])
       /\ UNCHANGED <<doubt, troubles>>
    \/ /\ troubles < MaxTroubles
       /\ troubles' = troubles + 1
       /\ Become(r, [request[r] EXCEPT !.at = at, !.ok = FALSE])
       /\ \/ UNCHANGED <<psa, doubt>>
          \/ delete /\ doubt' = doubt \cup {"removed"}

DeleteMonitor(r) ==
    /\ At(r, "removing")
    /\ request[r].known # {}
    /\ Deleted(r, "removed", /\ monitors' = {m \in monitors : m.id # Oldest(request[r].known).id}
                             /\ UNCHANGED callbacks)
    /\ UNCHANGED <<fresh, state, disk, watched>>

\* Variant: whatever PSA answered.
ForgetMonitorAlways(r) ==
    /\ At(r, "removed")
    /\ state' = [state EXCEPT !.monitors = {m \in @ : m.id # Oldest(request[r].known).id}]
    /\ Become(r, [request[r] EXCEPT !.at = "removing", !.known = @ \ {Oldest(@)}])
    /\ UNCHANGED <<psa, fresh, disk, watched, doubt, troubles>>

\* A monitor that PSA doesn't have any more is dropped; the file waits for the end.
ForgetMonitor(r) ==
    /\ At(r, "removed")
    /\ state' = IF request[r].ok
                THEN [state EXCEPT !.monitors = {m \in @ : m.id # Oldest(request[r].known).id}]
                ELSE state
    /\ Become(r, [request[r] EXCEPT !.at = "removing", !.known = @ \ {Oldest(@)}])
    /\ UNCHANGED <<psa, fresh, disk, watched, doubt, troubles>>

\* The callback goes when no monitor is left.
DeleteCallback(r) ==
    /\ At(r, "removing")
    /\ request[r].known = {}
    /\ state.monitors = {}
    /\ state.callback # None
    /\ Deleted(r, "leaving",
               /\ callbacks' = [id \in DOMAIN callbacks \ {state.callback} |-> callbacks[id]]
               /\ monitors' = {m \in monitors : m.callback # state.callback})
    /\ UNCHANGED <<fresh, state, disk, watched>>

KeepCallback(r) ==
    /\ At(r, "removing")
    /\ request[r].known = {}
    /\ state.monitors # {} \/ state.callback = None
    /\ Become(r, [request[r] EXCEPT !.at = "leaving", !.ok = FALSE])
    /\ UNCHANGED <<psa, fresh, state, disk, watched, doubt, troubles>>

LeaveCallback(r) ==
    /\ At(r, "leaving")
    /\ Change(r, IF request[r].ok THEN [state EXCEPT !.callback = None] ELSE state)
    /\ Goto(r, "ending")
    /\ UNCHANGED <<psa, fresh, watched, doubt, troubles>>

\* What is known of PSA is right again when nothing is left.
EndDisable(r) ==
    /\ At(r, "ending")
    /\ Become(r, Idle)
    /\ doubt' = IF Alone(r) /\ state.monitors = {} /\ state.callback = None
                THEN doubt \ {"removed"} ELSE doubt
    /\ UNCHANGED <<psa, fresh, state, disk, watched, troubles>>

-----------------------------------------------------------------------------

\* What the state is after a restart: the file, or nothing when it can't be read.
Loaded == IF file = Broken THEN Empty ELSE file

\* A creation that isn't saved is forgotten, a removal that isn't saved is still known.
Crash ==
    /\ troubles < MaxTroubles
    /\ troubles' = troubles + 1
    /\ state' = Loaded
    /\ unsaved' = FALSE
    /\ save' = [r \in Requests |-> NoSave]
    /\ request' = [r \in Requests |-> Idle]
    /\ watched' = None
    /\ doubt' = doubt
          \cup (IF /\ \A r \in Requests : request[r].answer = None
                   /\ state.callback \in {Loaded.callback, None}
                   /\ state.monitors \subseteq Loaded.monitors
                THEN {} ELSE {"created"})
          \cup (IF /\ \A r \in Requests : request[r].at \notin {"removed", "leaving"}
                   /\ Loaded = state
                THEN {} ELSE {"removed"})
    /\ UNCHANGED <<psa, fresh, file>>

Serve(r) ==
    \/ \E car \in Cars : Enable(r, car) \/ EnableFirst(r, car)
    \/ CheckCallback(r) \/ PostCallback(r) \/ RefuseCallback(r) \/ StoreCallback(r) \/ ListMissing(r)
    \/ PostMonitor(r) \/ RefuseMonitor(r) \/ StoreMonitor(r) \/ EndEnable(r)
    \/ Disable(r)
    \/ DeleteMonitor(r) \/ ForgetMonitor(r) \/ DeleteCallback(r) \/ KeepCallback(r)
    \/ LeaveCallback(r) \/ EndDisable(r)
    \/ Open(r) \/ OpenFails(r) \/ Dump(r) \/ DumpRaises(r) \/ Write(r) \/ WriteFails(r)

Next == Crash \/ \E r \in Requests : Serve(r)

Spec == Init /\ [][Next]_vars

-----------------------------------------------------------------------------

Quiet == \A r \in Requests : request[r].at = "idle"

\* Disabling can remove all that psacc created: while no request runs, the state
\* knows every callback and monitor, unless the answer to a creation was lost,
\* it wasn't saved at a restart, or two requests ran at once.
NothingIsForgotten ==
    Quiet /\ "created" \notin doubt =>
        DOMAIN callbacks \subseteq {state.callback} /\ monitors \subseteq state.monitors

\* What the state knows is at PSA, posting to the token psacc accepts; a loss is
\* repaired by disabling again.
KnownIsThere ==
    Quiet /\ doubt = {} =>
        /\ state.monitors \subseteq monitors
        /\ \A m \in state.monitors : m.callback = state.callback
        /\ state.callback # None => /\ state.callback \in DOMAIN callbacks
                                    /\ callbacks[state.callback] = state.token

\* A request to enable that PSA granted leaves each group of its car watched.
EnabledIsWatched ==
    Quiet /\ doubt = {} /\ watched # None =>
        \A g \in Groups : \E m \in monitors : m.car = watched /\ m.label = g

\* The push that psacc believes in is the one PSA has.
PushIsWhole == KnownIsThere /\ EnabledIsWatched

\* Restarting between two requests loses nothing, unless the file couldn't be opened
\* or written, or two requests ran at once, and no request has saved alone since.
FileIsCurrent == Quiet /\ ~unsaved => Loaded = state
-----------------------------------------------------------------------------
(* The inductive invariant *)

\* No request runs but r, and what PSA has is known or on its way to r.
KnownBy(r) ==
    /\ Alone(r)
    /\ DOMAIN callbacks \subseteq
          {state.callback} \cup (IF request[r].at = "called" THEN {request[r].answer} ELSE {})
    /\ monitors \subseteq
          state.monitors \cup (IF request[r].at = "created"
                              THEN {MonitorOf(r, request[r].path, request[r].answer)} ELSE {})
    /\ request[r].at \in {"callback", "called"} => state.callback = None
    /\ request[r].at = "removed" /\ request[r].ok =>
          \A m \in monitors : m.id # Oldest(request[r].known).id
    /\ request[r].at = "leaving" /\ request[r].ok => DOMAIN callbacks = {}

\* What a request holds at its position.
Positions ==
    \A r \in Requests :
        /\ request[r].at \notin {"called", "created"} => request[r].answer = None
        /\ request[r].at \in {"start", "callback", "called", "listing", "monitors", "created"} =>
              request[r].car \in Cars
        /\ request[r].at = "created" => request[r].labels # {}

IInv ==
    /\ PsaTypeOK
    /\ Positions
    /\ "created" \notin doubt => \E r \in Requests : KnownBy(r)

Disabling == {"removing", "removed", "leaving"}

\* No request runs but r, and the file is the state, or will be when r has saved;
\* only disabling leaves something to save.
SavedBy(r) ==
    /\ Alone(r)
    /\ save[r].at = "none" /\ request[r].at \notin Disabling => Loaded = state
    /\ save[r].at \in {"dump", "write"} => file = Broken
    /\ save[r].at = "write" => save[r].text = state

\* The inductive invariant of the file.
DiskInv ==
    /\ DiskTypeOK
    /\ \A r \in Requests :
          save[r].at # "none" => request[r].at \in {"start", "listing", "monitors", "ending"}
    /\ ~unsaved => \E r \in Requests : SavedBy(r)

\* The monitor that a request has posted and not stored yet.
Posted(one) == [id |-> one.answer, car |-> one.car, callback |-> one.path, label |-> Turn(one.labels)]

HasCallback(id) == id \in DOMAIN callbacks /\ callbacks[id] = state.token

\* What is known is at PSA, but for what the request that runs has just removed,
\* and what it has just created is at PSA too.
There(one) ==
    /\ state.token = None =>
          /\ state.callback = None
          /\ one.at \notin {"start", "callback", "called", "listing", "monitors", "created"}
    /\ \A m \in state.monitors :
          /\ m.callback = state.callback /\ m.callback # None
          /\ m \in monitors \/ (one.at = "removed" /\ one.ok /\ m.id = Oldest(one.known).id)
    /\ one.at = "leaving" /\ one.ok => state.monitors = {}
    /\ state.callback # None => HasCallback(state.callback) \/ (one.at = "leaving" /\ one.ok)
    /\ one.at = "called" /\ one.answer # None => HasCallback(one.answer)
    /\ one.at = "created" /\ one.answer # None =>
          Posted(one) \in monitors /\ one.path = state.callback /\ one.path # None

Known(g) == \E m \in state.monitors : m.label = g

\* The groups a request has not failed to enable are known or to come.
Covering(one) ==
    one.at \in {"monitors", "created"} /\ one.ok => \A g \in Groups : g \in one.labels \/ Known(g)

\* The inductive invariant behind PushIsWhole.
PushInv ==
    /\ IInv
    /\ "created" \notin doubt /\ watched # None => Quiet
    /\ doubt = {} => \E r \in Requests : Alone(r) /\ There(request[r]) /\ Covering(request[r])
    /\ doubt = {} /\ watched # None => \A g \in Groups : Known(g)

\* The account of one car: the groups that are missing are looked for whatever the car.
OneCar == \A c, d \in Cars : c = d
=============================================================================
