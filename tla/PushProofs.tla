----------------------------- MODULE PushProofs -----------------------------
(***************************************************************************)
(* What psacc knows of its subscription, for any requests, cars and groups: *)
(* nothing that PSA has is forgotten, what is known is there, and the file  *)
(* is current.                                                              *)
(***************************************************************************)
EXTENDS Push, TLAPS

\* The types of all but the requests.
Rest ==
    /\ DOMAIN callbacks \subseteq Id /\ \A id \in DOMAIN callbacks : callbacks[id] \in Id \cup {None}
    /\ monitors \subseteq Monitor
    /\ fresh \in Nat
    /\ state \in State
    /\ watched \in Cars \cup {None}
    /\ doubt \subseteq {"created", "removed"}
    /\ troubles \in Nat

\* What Positions says of one request.
Fits(one) ==
    /\ one.at \notin {"called", "created"} => one.answer = None
    /\ one.at \in {"start", "callback", "called", "listing", "monitors", "created"} => one.car \in Cars
    /\ one.at = "created" => one.labels # {}

LEMMA TypeRest == IInv => Rest /\ request \in [Requests -> RequestState]
BY DEF IInv, PsaTypeOK, Rest

LEMMA FitsAll == ASSUME IInv, NEW r \in Requests PROVE Fits(request[r]) /\ request[r] \in RequestState
BY DEF IInv, PsaTypeOK, Positions, Fits

LEMMA IdleFits == Idle \in RequestState /\ Fits(Idle)
BY DEF Idle, RequestState, Fits

LEMMA Changed ==
    ASSUME NEW r \in Requests, NEW new, Become(r, new), request \in [Requests -> RequestState]
    PROVE  request'[r] = new /\ \A q \in Requests \ {r} : request'[q] = request[q]
BY DEF Become

LEMMA StaysAlone ==
    ASSUME NEW r \in Requests, NEW new, Become(r, new), request \in [Requests -> RequestState], Alone(r)
    PROVE  Alone(r)'
<1>1. \A q \in Requests \ {r} : request'[q] = request[q]
  BY Changed
<1> QED
  BY <1>1 DEF Alone

\* While nothing is in doubt, a request that runs is the one that knows.
LEMMA Mine ==
    ASSUME IInv, "created" \notin doubt, NEW r \in Requests, request[r].at # "idle" \/ Alone(r)
    PROVE  KnownBy(r)
<1>1. PICK q \in Requests : KnownBy(q)
  BY DEF IInv
<1>2. CASE q = r
  BY <1>1, <1>2
<1>3. CASE q # r
  <2>1. request[r].at = "idle"
    BY <1>1, <1>3 DEF KnownBy, Alone
  <2>2. Alone(r)
    BY <2>1
  <2>3. request[q].at = "idle"
    BY <1>3, <2>2 DEF Alone
  <2> QED
    BY <1>1, <2>1, <2>2, <2>3 DEF KnownBy
<1> QED
  BY <1>2, <1>3

\* What is to be shown of a step of a request.
LEMMA Steps ==
    ASSUME IInv, NEW r \in Requests, NEW new \in RequestState, Become(r, new), Rest', Fits(new),
           "created" \notin doubt' => KnownBy(r)'
    PROVE  IInv'
<1>1. request \in [Requests -> RequestState]
  BY TypeRest
<1>2. request' \in [Requests -> RequestState]
  BY <1>1 DEF Become
<1>3. PsaTypeOK'
  BY <1>2 DEF Rest, PsaTypeOK
<1>4. ASSUME NEW q \in Requests PROVE Fits(request'[q])
  <2>1. CASE q = r
    BY <1>1, <2>1, Changed
  <2>2. CASE q # r
    BY <1>1, <2>2, Changed, FitsAll
  <2> QED
    BY <2>1, <2>2
<1>5. Positions'
  BY <1>4 DEF Fits, Positions
<1> QED
  BY <1>3, <1>5 DEF IInv

LEMMA StartedAlone ==
    ASSUME NEW r \in Requests, NEW new, Start(r, new), "created" \notin doubt'
    PROVE  Alone(r) /\ "created" \notin doubt /\ doubt' = doubt
BY DEF Start

\* The actions of a request that don't change what PSA has or what is known.
LEMMA Untouched ==
    ASSUME IInv, NEW r \in Requests, NEW new \in RequestState, Become(r, new), Fits(new),
           UNCHANGED <<callbacks, monitors>>, Rest',
           state'.callback = state.callback, state'.monitors = state.monitors,
           request[r].answer = None,
           "created" \notin doubt' => "created" \notin doubt /\ (request[r].at # "idle" \/ Alone(r)),
           "created" \notin doubt' /\ new.at \in {"callback", "called"} => state.callback = None,
           new.at \in {"called", "created"} => new.answer = None,
           ~(new.at \in {"removed", "leaving"} /\ new.ok)
    PROVE  IInv'
<1>2. ASSUME "created" \notin doubt' PROVE KnownBy(r)'
  <2>1. KnownBy(r)
    BY <1>2, Mine
  <2>2. request'[r] = new
    BY TypeRest, Changed
  <2>3. Alone(r)'
    BY <2>1, TypeRest, StaysAlone DEF KnownBy
  <2>4. DOMAIN callbacks \subseteq {state.callback}
    <3>1. DOMAIN callbacks \subseteq {state.callback, None}
      BY <2>1 DEF KnownBy
    <3>2. None \notin DOMAIN callbacks
      BY PushAssumption, TypeRest DEF Rest, Id
    <3> QED
      BY <3>1, <3>2
  <2>5. monitors \subseteq state.monitors
    <3>1. \A m \in monitors : m.id # None
      BY PushAssumption, TypeRest DEF Rest, Id, Monitor
    <3>2. MonitorOf(r, request[r].path, request[r].answer).id = None
      BY DEF MonitorOf
    <3> QED
      BY <2>1, <3>1, <3>2 DEF KnownBy
  <2>6. DOMAIN callbacks' \subseteq {state'.callback} /\ monitors' \subseteq state'.monitors
    BY <2>4, <2>5
  <2>7. request'[r].at \in {"callback", "called"} => state'.callback = None
    BY <1>2, <2>2
  <2>8. ~(request'[r].at \in {"removed", "leaving"} /\ request'[r].ok)
    BY <2>2
  <2> QED
    BY <2>3, <2>6, <2>7, <2>8 DEF KnownBy
<1> QED
  BY <1>2, Steps

\* A field or two of a request change.
LEMMA WithAt ==
    ASSUME IInv, NEW r \in Requests,
           NEW at \in {"idle", "start", "callback", "called", "listing", "monitors", "created",
                     "removing", "removed", "leaving", "ending"},
           NEW answer \in Id \cup {None}, NEW ok \in BOOLEAN
    PROVE  /\ [request[r] EXCEPT !.at = at] \in RequestState
           /\ [request[r] EXCEPT !.at = at, !.answer = answer] \in RequestState
           /\ [request[r] EXCEPT !.at = at, !.ok = ok] \in RequestState
<1>1. request[r] \in RequestState
  BY FitsAll
<1> QED
  BY <1>1 DEF RequestState

LEMMA StartIInv ==
    ASSUME IInv, NEW r \in Requests, NEW new \in RequestState, Start(r, new), Fits(new),
           new.at \in {"start", "removing"}, new.answer = None,
           state' \in State, state'.callback = state.callback, state'.monitors = state.monitors,
           fresh' \in Nat, troubles' \in Nat
    PROVE  IInv'
<1>1. /\ Become(r, new) /\ request[r].at = "idle" /\ watched' = None
      /\ UNCHANGED <<callbacks, monitors>>
  BY DEF Start, At, psa
<1>2. request[r].answer = None
  BY <1>1, FitsAll DEF Fits
<1>3. doubt' \subseteq {"created", "removed"}
  BY TypeRest DEF Start, Rest
<1>4. Rest'
  BY <1>1, <1>3, TypeRest DEF Rest
<1>5. "created" \notin doubt' => "created" \notin doubt /\ Alone(r)
  BY StartedAlone
<1> QED
  BY <1>1, <1>2, <1>4, <1>5, Untouched

LEMMA StartingFits ==
    ASSUME NEW car \in Cars
    PROVE  LET new == [Idle EXCEPT !.at = "start", !.car = car]
           IN  new \in RequestState /\ Fits(new) /\ new.at = "start" /\ new.answer = None
BY IdleFits DEF RequestState, Fits, Idle

LEMMA EnableIInv == ASSUME IInv, NEW r \in Requests, NEW car \in Cars, Enable(r, car) PROVE IInv'
<1>1. /\ Start(r, [Idle EXCEPT !.at = "start", !.car = car])
      /\ UNCHANGED <<fresh, state, troubles>>
  BY DEF Enable
<1>2. state' \in State /\ fresh' \in Nat /\ troubles' \in Nat
  BY <1>1, TypeRest DEF Rest
<1> QED
  BY <1>1, <1>2, StartingFits, StartIInv

LEMMA EnableFirstIInv == ASSUME IInv, NEW r \in Requests, NEW car \in Cars, EnableFirst(r, car) PROVE IInv'
<1>1. /\ Start(r, [Idle EXCEPT !.at = "start", !.car = car])
      /\ fresh' = fresh + 1 /\ state' = [state EXCEPT !.token = fresh'] /\ UNCHANGED troubles
  BY DEF EnableFirst
<1>2. fresh' \in Id /\ fresh' \in Nat /\ troubles' \in Nat
  BY <1>1, TypeRest DEF Rest, Id
<1>3. state' \in State /\ state'.callback = state.callback /\ state'.monitors = state.monitors
  BY <1>1, <1>2, TypeRest DEF Rest, State
<1> QED
  BY <1>1, <1>2, <1>3, StartingFits, StartIInv

\* A step that leaves the state and the file as they are, and changes troubles at most.
LEMMA QuietStep ==
    ASSUME IInv, NEW r \in Requests, NEW new \in RequestState, Become(r, new), Fits(new),
           UNCHANGED <<psa, fresh, state, watched, doubt>>, troubles' \in Nat,
           request[r].at # "idle", request[r].answer = None,
           "created" \notin doubt' /\ new.at \in {"callback", "called"} => state.callback = None,
           new.at \in {"called", "created"} => new.answer = None,
           ~(new.at \in {"removed", "leaving"} /\ new.ok)
    PROVE  IInv'
<1>1. Rest'
  BY TypeRest DEF Rest, psa
<1> QED
  BY <1>1, Untouched DEF psa

LEMMA CheckCallbackIInv == ASSUME IInv, NEW r \in Requests, CheckCallback(r) PROVE IInv'
<1>1. request[r] \in RequestState /\ Fits(request[r]) /\ request[r].at = "start"
  BY FitsAll DEF CheckCallback, At
<1>2. PICK at \in {"callback", "listing"} :
         /\ Goto(r, at)
         /\ at = "callback" => state.callback = None
  BY DEF CheckCallback
<1>3. PICK new : new = [request[r] EXCEPT !.at = at]
  OBVIOUS
<1>4. Become(r, new) /\ UNCHANGED <<psa, fresh, state, watched, doubt, troubles>>
  BY <1>2, <1>3 DEF CheckCallback, Goto
<1>5. new \in RequestState /\ new.at = at /\ new.answer = None /\ new.car \in Cars
  BY <1>1, <1>3 DEF Fits, RequestState
<1>6. Fits(new) /\ request[r].answer = None /\ troubles' \in Nat
  BY <1>1, <1>4, <1>5, TypeRest DEF Fits, Rest
<1> QED
  BY <1>1, <1>2, <1>4, <1>5, <1>6, QuietStep

LEMMA ListMissingIInv == ASSUME IInv, NEW r \in Requests, ListMissing(r) PROVE IInv'
<1>1. request[r] \in RequestState /\ Fits(request[r]) /\ request[r].at = "listing"
  BY FitsAll DEF ListMissing, At
<1>2. PICK new : new = [request[r] EXCEPT !.at = "monitors", !.labels = Missing(state.monitors)]
  OBVIOUS
<1>3. Become(r, new) /\ UNCHANGED <<psa, fresh, state, watched, doubt, troubles>>
  BY <1>2 DEF ListMissing
<1>4. Missing(state.monitors) \subseteq Groups
  BY DEF Missing
<1>5. new \in RequestState /\ new.at = "monitors" /\ new.answer = None /\ new.car \in Cars
  BY <1>1, <1>2, <1>4 DEF Fits, RequestState
<1>6. Fits(new) /\ request[r].answer = None /\ troubles' \in Nat
  BY <1>1, <1>3, <1>5, TypeRest DEF Fits, Rest
<1> QED
  BY <1>1, <1>3, <1>5, <1>6, QuietStep

LEMMA RefuseCallbackIInv == ASSUME IInv, NEW r \in Requests, RefuseCallback(r) PROVE IInv'
<1> DEFINE new == [request[r] EXCEPT !.at = "called"]
<1>1. request[r] \in RequestState /\ Fits(request[r]) /\ request[r].at = "callback"
  BY FitsAll DEF RefuseCallback, At
<1>2. new \in RequestState /\ Become(r, new)
  BY <1>1 DEF RefuseCallback, Goto, RequestState, At
<1>3. new.at = "called" /\ new.answer = None /\ new.car \in Cars /\ request[r].answer = None
  BY <1>1 DEF Fits, RequestState
<1> HIDE DEF new
<1>4. "created" \in doubt \/ state.callback = None
  BY <1>1, Mine DEF KnownBy
<1>5. /\ UNCHANGED <<psa, fresh, state, watched, doubt>>
      /\ troubles' \in Nat
  BY TypeRest DEF RefuseCallback, Rest, At
<1> QED
  BY <1>1, <1>2, <1>3, <1>4, <1>5, QuietStep DEF Fits

LEMMA RefuseMonitorIInv == ASSUME IInv, NEW r \in Requests, RefuseMonitor(r) PROVE IInv'
<1> DEFINE new == [request[r] EXCEPT !.at = "created", !.path = state.callback]
<1>1. /\ request[r] \in RequestState /\ Fits(request[r])
      /\ request[r].at = "monitors" /\ request[r].labels # {}
  BY FitsAll DEF RefuseMonitor, At
<1>2. new \in RequestState /\ Become(r, new)
  <2>1. state.callback \in Id \cup {None}
    BY TypeRest DEF Rest, State
  <2> QED
    BY <1>1, <2>1 DEF RefuseMonitor, Asking, RequestState, At
<1>3. /\ new.at = "created" /\ new.answer = None /\ new.car \in Cars /\ new.labels # {}
      /\ request[r].answer = None
  BY <1>1 DEF Fits, RequestState
<1> HIDE DEF new
<1>4. /\ UNCHANGED <<psa, fresh, state, watched, doubt>>
      /\ troubles' \in Nat
  BY TypeRest DEF RefuseMonitor, Rest, At
<1> QED
  BY <1>1, <1>2, <1>3, <1>4, QuietStep DEF Fits

LEMMA EndEnableIInv == ASSUME IInv, NEW r \in Requests, EndEnable(r) PROVE IInv'
<1>1. request[r] \in RequestState /\ Fits(request[r]) /\ request[r].at = "monitors"
  BY FitsAll DEF EndEnable, At
<1>2. Become(r, Idle) /\ UNCHANGED <<callbacks, monitors, fresh, state, doubt, troubles>>
  BY DEF EndEnable, psa, At
<1>3. watched' \in Cars \cup {None}
  BY <1>1 DEF EndEnable, Fits, At
<1>4. Rest'
  BY <1>2, <1>3, TypeRest DEF Rest
<1>5. Idle.at = "idle" /\ Idle.answer = None
  BY DEF Idle
<1> QED
  BY <1>1, <1>2, <1>4, <1>5, IdleFits, Untouched DEF Fits

LEMMA DisableIInv == ASSUME IInv, NEW r \in Requests, Disable(r) PROVE IInv'
<1>1. PICK new : new = [Idle EXCEPT !.at = "removing", !.known = state.monitors]
  OBVIOUS
<1>2. Start(r, new) /\ UNCHANGED <<fresh, state, troubles>>
  BY <1>1 DEF Disable
<1>3. state.monitors \subseteq Monitor
  BY TypeRest DEF Rest, State
<1>4. new \in RequestState /\ Fits(new) /\ new.at = "removing" /\ new.answer = None
  BY <1>1, <1>3, IdleFits DEF RequestState, Fits, Idle
<1>5. state' \in State /\ fresh' \in Nat /\ troubles' \in Nat
  BY <1>2, TypeRest DEF Rest
<1> QED
  BY <1>2, <1>4, <1>5, StartIInv

LEMMA KeepCallbackIInv == ASSUME IInv, NEW r \in Requests, KeepCallback(r) PROVE IInv'
<1> DEFINE new == [request[r] EXCEPT !.at = "leaving", !.ok = FALSE]
<1>1. request[r] \in RequestState /\ Fits(request[r]) /\ request[r].at = "removing"
  BY FitsAll DEF KeepCallback, At
<1>2. new \in RequestState /\ new.at = "leaving" /\ new.ok = FALSE /\ new.answer = None
  BY <1>1 DEF RequestState, Fits
<1>3. Become(r, new) /\ UNCHANGED <<psa, fresh, state, watched, doubt>> /\ troubles' \in Nat
  BY TypeRest DEF KeepCallback, Rest, At
<1> HIDE DEF new
<1> QED
  BY <1>1, <1>2, <1>3, QuietStep DEF Fits

\* What a request knows, when it has run alone.
LEMMA KnownNow ==
    ASSUME IInv, NEW r \in Requests, request[r].at # "idle", "created" \notin doubt,
           NEW new, Become(r, new)
    PROVE  KnownBy(r) /\ Alone(r)' /\ request'[r] = new
<1>1. KnownBy(r)
  BY Mine
<1> QED
  BY <1>1, TypeRest, StaysAlone, Changed DEF KnownBy

LEMMA PostCallbackIInv == ASSUME IInv, NEW r \in Requests, PostCallback(r) PROVE IInv'
<1>1. request[r] \in RequestState /\ Fits(request[r]) /\ request[r].at = "callback"
  BY FitsAll DEF PostCallback, At
<1>2. fresh' \in Id /\ fresh' \in Nat
  BY TypeRest DEF PostCallback, Rest, Id, At
<1>3. PICK answer \in {fresh', None} :
         /\ Become(r, [request[r] EXCEPT !.at = "called", !.answer = answer])
         /\ troubles' \in Nat
         /\ doubt' = IF answer = None THEN doubt \cup {"created"} ELSE doubt
  <2>1. None # fresh'
    BY <1>2, PushAssumption
  <2>0. /\ [[request[r] EXCEPT !.at = "called"] EXCEPT !.answer = fresh']
            = [request[r] EXCEPT !.at = "called", !.answer = fresh']
        /\ [request[r] EXCEPT !.at = "called"] = [request[r] EXCEPT !.at = "called", !.answer = None]
    BY <1>1 DEF RequestState, Fits
  <2>2. CASE Become(r, [request[r] EXCEPT !.at = "called", !.answer = fresh']) /\ UNCHANGED <<doubt, troubles>>
    BY <2>1, <2>2, TypeRest DEF Rest
  <2>3. CASE /\ Become(r, [request[r] EXCEPT !.at = "called", !.answer = None])
             /\ troubles' = troubles + 1 /\ doubt' = doubt \cup {"created"}
    BY <2>3, TypeRest DEF Rest
  <2> QED
    BY <2>0, <2>2, <2>3 DEF PostCallback, Answered, At
<1> DEFINE new == [request[r] EXCEPT !.at = "called", !.answer = answer]
<1>4. /\ new \in RequestState /\ new.at = "called" /\ new.answer = answer /\ new.car = request[r].car
  BY <1>1, <1>2 DEF RequestState
<1>5. Fits(new)
  BY <1>1, <1>4 DEF Fits
<1> HIDE DEF new
<1>6. state.token \in Id \cup {None}
  BY TypeRest DEF Rest, State
<1>7. /\ callbacks' = [id \in DOMAIN callbacks \cup {fresh'} |->
                          IF id = fresh' THEN state.token ELSE callbacks[id]]
      /\ UNCHANGED <<monitors, state, watched>>
  BY DEF PostCallback, At
<1>8. /\ DOMAIN callbacks' = DOMAIN callbacks \cup {fresh'}
      /\ DOMAIN callbacks' \subseteq Id
      /\ \A id \in DOMAIN callbacks' : callbacks'[id] \in Id \cup {None}
  BY <1>2, <1>6, <1>7, TypeRest DEF Rest
<1>9. Rest'
  BY <1>2, <1>3, <1>7, <1>8, TypeRest DEF Rest
<1>11. ASSUME "created" \notin doubt' PROVE KnownBy(r)'
  <2>1. "created" \notin doubt /\ answer = fresh'
    BY <1>3, <1>11
  <2>2. KnownBy(r) /\ Alone(r)' /\ request'[r] = new
    BY <1>1, <1>3, <2>1, KnownNow DEF new
  <2>3. DOMAIN callbacks \subseteq {state.callback} /\ state.callback = None
    BY <1>1, <2>2 DEF KnownBy
  <2>4. DOMAIN callbacks' \subseteq {state'.callback, request'[r].answer} /\ state'.callback = None
    BY <1>4, <1>7, <1>8, <2>1, <2>2, <2>3
  <2>5. monitors' \subseteq state'.monitors
    BY <1>1, <1>7, <2>2 DEF KnownBy
  <2>6. request'[r].at = "called"
    BY <1>4, <2>2
  <2> QED
    BY <2>2, <2>4, <2>5, <2>6 DEF KnownBy
<1> QED
  BY <1>3, <1>4, <1>5, <1>9, <1>11, Steps DEF new

LEMMA StoreCallbackIInv == ASSUME IInv, NEW r \in Requests, StoreCallback(r) PROVE IInv'
<1>1. request[r] \in RequestState /\ Fits(request[r]) /\ request[r].at = "called"
  BY FitsAll DEF StoreCallback, At
<1>2. UNCHANGED <<callbacks, monitors, fresh, watched, doubt>>
  BY DEF StoreCallback, psa, At
<1>3. CASE request[r].answer = None
  <2>1. Become(r, Idle) /\ UNCHANGED <<state, troubles>>
    BY <1>3 DEF StoreCallback, At
  <2>2. Idle.at = "idle" /\ Idle.answer = None
    BY DEF Idle
  <2> QED
    BY <1>1, <1>2, <1>3, <2>1, <2>2, IdleFits, QuietStep, TypeRest DEF psa, Rest
<1>4. CASE request[r].answer # None
  <2> DEFINE new == [request[r] EXCEPT !.at = "listing", !.answer = None]
             stored == [state EXCEPT !.callback = request[r].answer]
  <2>1. Become(r, new) /\ Change(r, stored)
    BY <1>4 DEF StoreCallback, At
  <2>3. new \in RequestState /\ new.at = "listing" /\ new.answer = None /\ new.car = request[r].car
    BY <1>1 DEF RequestState
  <2>4. request[r].answer \in Id
    BY <1>1, <1>4 DEF RequestState
  <2>5. /\ stored \in State /\ stored.callback = request[r].answer /\ stored.monitors = state.monitors
    BY <2>4, TypeRest DEF Rest, State
  <2>6. Fits(new)
    BY <1>1, <2>3 DEF Fits
  <2> HIDE DEF new, stored
  <2>7. state' = stored /\ troubles' \in Nat
    BY <1>4, <2>1, TypeRest DEF StoreCallback, Change, Rest
  <2>8. Rest'
    BY <1>2, <2>5, <2>7, TypeRest DEF Rest
  <2>10. ASSUME "created" \notin doubt' PROVE KnownBy(r)'
    <3>1. KnownBy(r) /\ Alone(r)' /\ request'[r] = new
      BY <1>1, <1>2, <2>1, <2>10, KnownNow
    <3>2. DOMAIN callbacks \subseteq {None, request[r].answer}
      BY <1>1, <3>1 DEF KnownBy
    <3>3. None \notin DOMAIN callbacks
      BY PushAssumption, TypeRest DEF Rest, Id
    <3>4. DOMAIN callbacks' \subseteq {state'.callback}
      BY <1>2, <2>5, <2>7, <3>2, <3>3
    <3>5. monitors' \subseteq state'.monitors
      BY <1>1, <1>2, <2>5, <2>7, <3>1 DEF KnownBy
    <3> QED
      BY <2>3, <3>1, <3>4, <3>5 DEF KnownBy
  <2> QED
    BY <2>1, <2>3, <2>6, <2>8, <2>10, Steps
<1> QED
  BY <1>3, <1>4

LEMMA TurnType == ASSUME NEW labels \in SUBSET Groups, labels # {} PROVE Turn(labels) \in labels
BY DEF Turn

LEMMA PostMonitorIInv == ASSUME IInv, NEW r \in Requests, PostMonitor(r) PROVE IInv'
<1>1. /\ request[r] \in RequestState /\ Fits(request[r])
      /\ request[r].at = "monitors" /\ request[r].labels # {}
  BY FitsAll DEF PostMonitor, At
<1>2. fresh' \in Id /\ fresh' \in Nat
  BY TypeRest DEF PostMonitor, Rest, Id, At
<1>3. PICK answer \in {fresh', None} :
         /\ Become(r, [request[r] EXCEPT !.at = "created", !.path = state.callback, !.answer = answer])
         /\ troubles' \in Nat
         /\ doubt' = IF answer = None THEN doubt \cup {"created"} ELSE doubt
  <2>1. None # fresh'
    BY <1>2, PushAssumption
  <2>0. /\ [Asking(r) EXCEPT !.answer = fresh']
            = [request[r] EXCEPT !.at = "created", !.path = state.callback, !.answer = fresh']
        /\ Asking(r) = [request[r] EXCEPT !.at = "created", !.path = state.callback, !.answer = None]
    BY <1>1 DEF RequestState, Fits, Asking
  <2>2. CASE Become(r, [request[r] EXCEPT !.at = "created", !.path = state.callback, !.answer = fresh']) /\ UNCHANGED <<doubt, troubles>>
    BY <2>1, <2>2, TypeRest DEF Rest
  <2>3. CASE /\ Become(r, [request[r] EXCEPT !.at = "created", !.path = state.callback, !.answer = None])
             /\ troubles' = troubles + 1 /\ doubt' = doubt \cup {"created"}
    BY <2>3, TypeRest DEF Rest
  <2> QED
    BY <2>0, <2>2, <2>3 DEF PostMonitor, Answered, At
<1> DEFINE new == [request[r] EXCEPT !.at = "created", !.path = state.callback, !.answer = answer]
           added == MonitorOf(r, state.callback, fresh')
<1>4. /\ new \in RequestState /\ new.at = "created" /\ new.answer = answer
      /\ new.car = request[r].car /\ new.labels = request[r].labels /\ new.path = state.callback
  <2>1. state.callback \in Id \cup {None}
    BY TypeRest DEF Rest, State
  <2> QED
    BY <1>1, <1>2, <2>1 DEF RequestState
<1>5. Fits(new)
  BY <1>1, <1>4 DEF Fits
<1>6. added \in Monitor
  <2>1. Turn(request[r].labels) \in Groups
    BY <1>1, TurnType DEF RequestState
  <2>2. state.callback \in Id /\ request[r].car \in Cars
    BY <1>1, TypeRest DEF PostMonitor, Rest, Fits, At
  <2> QED
    BY <1>2, <2>1, <2>2 DEF MonitorOf, Monitor
<1>7. monitors' = monitors \cup {added} /\ UNCHANGED <<callbacks, state, watched>>
  BY DEF PostMonitor, At
<1>8. Become(r, new)
  BY <1>3
<1> HIDE DEF new
<1>9. Rest'
  BY <1>2, <1>3, <1>6, <1>7, TypeRest DEF Rest
<1>11. ASSUME "created" \notin doubt' PROVE KnownBy(r)'
  <2>1. "created" \notin doubt /\ answer = fresh'
    BY <1>3, <1>11
  <2>2. KnownBy(r) /\ Alone(r)' /\ request'[r] = new
    BY <1>1, <1>8, <2>1, KnownNow
  <2>3. DOMAIN callbacks' \subseteq {state'.callback}
    BY <1>1, <1>7, <2>2 DEF KnownBy
  <2>4. MonitorOf(r, request[r].path, request[r].answer)' = added
    BY <1>4, <1>7, <2>1, <2>2 DEF MonitorOf
  <2>5. monitors' \subseteq state'.monitors \cup {MonitorOf(r, request[r].path, request[r].answer)'}
    BY <1>1, <1>7, <2>2, <2>4 DEF KnownBy
  <2> QED
    BY <1>4, <2>2, <2>3, <2>5 DEF KnownBy
<1> QED
  BY <1>4, <1>5, <1>8, <1>9, <1>11, Steps

\* The monitor that was posted is stored.
LEMMA StoreMonitorIInv == ASSUME IInv, NEW r \in Requests, StoreMonitor(r) PROVE IInv'
<1>1. /\ request[r] \in RequestState /\ Fits(request[r])
      /\ request[r].at = "created" /\ request[r].labels # {}
  BY FitsAll DEF StoreMonitor, Fits, At
<1>2. UNCHANGED <<callbacks, monitors, fresh, watched, doubt>>
  BY DEF StoreMonitor, psa, At
<1>3. PICK ok \in BOOLEAN : Forward(r, ok)
  BY DEF StoreMonitor, At
<1> DEFINE new == [request[r] EXCEPT !.at = "monitors", !.answer = None, !.labels = @ \ {Turn(@)},
                                   !.ok = @ /\ ok]
<1>4. Become(r, new)
  BY <1>3 DEF Forward
<1>5. new \in RequestState /\ new.at = "monitors" /\ new.answer = None /\ new.car = request[r].car
  <2>1. (request[r].ok /\ ok) \in BOOLEAN
    OBVIOUS
  <2>2. request[r].labels \ {Turn(request[r].labels)} \subseteq Groups
    BY <1>1 DEF RequestState
  <2> QED
    BY <1>1, <2>1, <2>2 DEF RequestState
<1>6. Fits(new)
  BY <1>1, <1>5 DEF Fits
<1> HIDE DEF new
<1>7. CASE request[r].answer = None
  <2>1. UNCHANGED <<state, troubles>>
    BY <1>7 DEF StoreMonitor, At
  <2> QED
    BY <1>1, <1>2, <1>4, <1>5, <1>6, <1>7, <2>1, QuietStep, TypeRest DEF psa, Rest
<1>8. CASE request[r].answer # None
  <2> DEFINE added == MonitorOf(r, request[r].path, request[r].answer)
             stored == [state EXCEPT !.monitors = @ \cup {added}]
  <2>1. Change(r, stored)
    BY <1>8 DEF StoreMonitor, At
  <2>2. added \in Monitor
    <3>1. Turn(request[r].labels) \in Groups
      BY <1>1, TurnType DEF RequestState
    <3> QED
      BY <1>1, <1>8, <3>1 DEF MonitorOf, Monitor, RequestState, Fits
  <2>3. stored \in State /\ stored.callback = state.callback /\ stored.monitors = state.monitors \cup {added}
    BY <2>2, TypeRest DEF Rest, State
  <2> HIDE DEF stored
  <2>4. state' = stored /\ troubles' \in Nat
    BY <1>8, <2>1, TypeRest DEF StoreMonitor, Change, Rest
  <2>5. Rest'
    BY <1>2, <2>3, <2>4, TypeRest DEF Rest
  <2>7. ASSUME "created" \notin doubt' PROVE KnownBy(r)'
    <3>1. KnownBy(r) /\ Alone(r)' /\ request'[r] = new
      BY <1>1, <1>2, <1>4, <2>7, KnownNow
    <3>2. DOMAIN callbacks' \subseteq {state'.callback}
      BY <1>1, <1>2, <2>3, <2>4, <3>1 DEF KnownBy
    <3>3. monitors' \subseteq state'.monitors
      BY <1>1, <1>2, <2>3, <2>4, <3>1 DEF KnownBy
    <3> QED
      BY <1>5, <3>1, <3>2, <3>3 DEF KnownBy
  <2> QED
    BY <1>4, <1>5, <1>6, <2>5, <2>7, Steps
<1> QED
  BY <1>7, <1>8

\* A deletion takes something from PSA, or nothing.
LEMMA Removals ==
    ASSUME IInv, NEW r \in Requests, NEW to \in {"removed", "leaving"}, NEW ACTION delete, delete \in BOOLEAN,
           Deleted(r, to, delete), request[r].at = "removing",
           UNCHANGED <<fresh, state, watched>>,
           delete => /\ DOMAIN callbacks' \subseteq DOMAIN callbacks
                     /\ \A id \in DOMAIN callbacks' : callbacks'[id] = callbacks[id]
                     /\ monitors' \subseteq monitors,
           delete /\ to = "removed" => \A m \in monitors' : m.id # Oldest(request[r].known).id,
           delete /\ to = "leaving" => DOMAIN callbacks' \subseteq DOMAIN callbacks \ {state.callback}
    PROVE  IInv'
<1>1. request[r] \in RequestState /\ Fits(request[r])
  BY FitsAll
<1>2. PICK ok \in BOOLEAN : Become(r, [request[r] EXCEPT !.at = to, !.ok = ok]) /\ (ok => delete)
  BY DEF Deleted
<1> DEFINE new == [request[r] EXCEPT !.at = to, !.ok = ok]
<1>3. /\ new \in RequestState /\ new.at = to /\ new.ok = ok /\ new.answer = None
      /\ new.known = request[r].known
  BY <1>1 DEF RequestState, Fits
<1>4. Fits(new)
  BY <1>3 DEF Fits
<1>5. Become(r, new)
  BY <1>2
<1> HIDE DEF new
<1>6. /\ doubt' \in {doubt, doubt \cup {"removed"}} /\ troubles' \in Nat
  BY TypeRest DEF Deleted, Rest
<1>7. delete \/ UNCHANGED psa
  BY DEF Deleted
<1>8. /\ DOMAIN callbacks' \subseteq DOMAIN callbacks
      /\ \A id \in DOMAIN callbacks' : callbacks'[id] = callbacks[id]
      /\ monitors' \subseteq monitors
  BY <1>7 DEF psa
<1>9. Rest'
  BY <1>6, <1>8, TypeRest DEF Rest
<1>11. ASSUME "created" \notin doubt' PROVE KnownBy(r)'
  <2>1. KnownBy(r) /\ Alone(r)' /\ request'[r] = new
    BY <1>5, <1>6, <1>11, KnownNow
  <2>2. DOMAIN callbacks \subseteq {state.callback} /\ monitors \subseteq state.monitors
    BY <2>1 DEF KnownBy
  <2>3. DOMAIN callbacks' \subseteq {state'.callback} /\ monitors' \subseteq state'.monitors
    BY <1>8, <2>2
  <2>4. ok /\ to = "leaving" => DOMAIN callbacks' = {}
    BY <1>2, <2>2
  <2>5. ok /\ to = "removed" => \A m \in monitors' : m.id # Oldest(new.known).id
    BY <1>2, <1>3
  <2>6. new.at \notin {"callback", "called", "created"}
    BY <1>3
  <2> QED
    BY <1>3, <2>1, <2>3, <2>4, <2>5, <2>6 DEF KnownBy
<1> QED
  BY <1>3, <1>4, <1>5, <1>9, <1>11, Steps

LEMMA DeleteMonitorIInv == ASSUME IInv, NEW r \in Requests, DeleteMonitor(r) PROVE IInv'
<1> DEFINE delete == /\ monitors' = {m \in monitors : m.id # Oldest(request[r].known).id}
                     /\ UNCHANGED callbacks
<1>1. /\ Deleted(r, "removed", delete) /\ request[r].at = "removing"
      /\ UNCHANGED <<fresh, state, watched>>
  BY DEF DeleteMonitor, At
<1>2. delete \in BOOLEAN
  OBVIOUS
<1>3. delete => /\ DOMAIN callbacks' \subseteq DOMAIN callbacks
                /\ \A id \in DOMAIN callbacks' : callbacks'[id] = callbacks[id]
                /\ monitors' \subseteq monitors
                /\ \A m \in monitors' : m.id # Oldest(request[r].known).id
  OBVIOUS
<1> HIDE DEF delete
<1> QED
  BY <1>1, <1>2, <1>3, Removals

LEMMA DeleteCallbackIInv == ASSUME IInv, NEW r \in Requests, DeleteCallback(r) PROVE IInv'
<1> DEFINE delete == /\ callbacks' = [id \in DOMAIN callbacks \ {state.callback} |-> callbacks[id]]
                     /\ monitors' = {m \in monitors : m.callback # state.callback}
<1>1. /\ Deleted(r, "leaving", delete) /\ request[r].at = "removing"
      /\ UNCHANGED <<fresh, state, watched>>
  BY DEF DeleteCallback, At
<1>2. delete \in BOOLEAN
  OBVIOUS
<1>3. delete => /\ DOMAIN callbacks' \subseteq DOMAIN callbacks \ {state.callback}
                /\ \A id \in DOMAIN callbacks' : callbacks'[id] = callbacks[id]
                /\ monitors' \subseteq monitors
  OBVIOUS
<1> HIDE DEF delete
<1> QED
  BY <1>1, <1>2, <1>3, Removals

LEMMA ForgetMonitorIInv == ASSUME IInv, NEW r \in Requests, ForgetMonitor(r) PROVE IInv'
<1> DEFINE new == [request[r] EXCEPT !.at = "removing", !.known = @ \ {Oldest(@)}]
<1>1. request[r] \in RequestState /\ Fits(request[r]) /\ request[r].at = "removed"
  BY FitsAll DEF ForgetMonitor, At
<1>2. /\ Become(r, new)
      /\ UNCHANGED <<callbacks, monitors, fresh, watched, doubt, troubles>>
  BY DEF ForgetMonitor, psa, At
<1>3. new \in RequestState /\ new.at = "removing" /\ new.answer = None
  <2>1. request[r].known \ {Oldest(request[r].known)} \subseteq Monitor
    BY <1>1 DEF RequestState
  <2> QED
    BY <1>1, <2>1 DEF RequestState, Fits
<1>4. Fits(new)
  BY <1>3 DEF Fits
<1> HIDE DEF new
<1>5. /\ state' \in State /\ state'.callback = state.callback
      /\ ~request[r].ok => state' = state
      /\ request[r].ok => state'.monitors = {m \in state.monitors : m.id # Oldest(request[r].known).id}
  <2>1. state \in State
    BY TypeRest DEF Rest
  <2>2. CASE request[r].ok
    <3> DEFINE kept == {m \in state.monitors : m.id # Oldest(request[r].known).id}
    <3>1. state' = [state EXCEPT !.monitors = kept]
      BY <2>2 DEF ForgetMonitor, At
    <3>2. kept \subseteq Monitor
      BY <2>1 DEF State
    <3>3. state' \in State /\ state'.callback = state.callback /\ state'.monitors = kept
      <4> HIDE DEF kept
      <4> QED
        BY <2>1, <3>1, <3>2 DEF State
    <3> QED
      BY <2>2, <3>3
  <2>3. CASE ~request[r].ok
    BY <2>1, <2>3 DEF ForgetMonitor, At
  <2> QED
    BY <2>2, <2>3
<1>6. Rest'
  BY <1>2, <1>5, TypeRest DEF Rest
<1>8. ASSUME "created" \notin doubt' PROVE KnownBy(r)'
  <2>1. KnownBy(r) /\ Alone(r)' /\ request'[r] = new
    BY <1>1, <1>2, <1>8, KnownNow
  <2>2. DOMAIN callbacks' \subseteq {state'.callback}
    BY <1>1, <1>2, <1>5, <2>1 DEF KnownBy
  <2>3. monitors' \subseteq state'.monitors
    <3>1. monitors \subseteq state.monitors
      BY <1>1, <2>1 DEF KnownBy
    <3>2. CASE ~request[r].ok
      BY <1>2, <1>5, <3>1, <3>2
    <3>3. CASE request[r].ok
      <4>1. \A m \in monitors : m.id # Oldest(request[r].known).id
        BY <1>1, <2>1, <3>3 DEF KnownBy
      <4> QED
        BY <1>2, <1>5, <3>1, <3>3, <4>1
    <3> QED
      BY <3>2, <3>3
  <2> QED
    BY <1>3, <2>1, <2>2, <2>3 DEF KnownBy
<1> QED
  BY <1>2, <1>3, <1>4, <1>6, <1>8, Steps

LEMMA LeaveCallbackIInv == ASSUME IInv, NEW r \in Requests, LeaveCallback(r) PROVE IInv'
<1> DEFINE left == IF request[r].ok THEN [state EXCEPT !.callback = None] ELSE state
           new == [request[r] EXCEPT !.at = "ending"]
<1>1. request[r] \in RequestState /\ Fits(request[r]) /\ request[r].at = "leaving"
  BY FitsAll DEF LeaveCallback, At
<1>2. /\ state' = left /\ Become(r, new)
      /\ UNCHANGED <<callbacks, monitors, fresh, watched, doubt, troubles>>
  BY DEF LeaveCallback, Change, Goto, psa
<1>3. /\ left \in State /\ left.monitors = state.monitors
      /\ ~request[r].ok => left.callback = state.callback
  <2>1. state \in State
    BY TypeRest DEF Rest
  <2>2. [state EXCEPT !.callback = None] \in State /\ [state EXCEPT !.callback = None].monitors = state.monitors
    BY <2>1 DEF State
  <2> QED
    BY <2>1, <2>2
<1>4. new \in RequestState /\ new.at = "ending" /\ new.answer = None
  BY <1>1 DEF RequestState, Fits
<1> HIDE DEF left, new
<1>5. Rest'
  BY <1>2, <1>3, TypeRest DEF Rest
<1>6. ASSUME "created" \notin doubt' PROVE KnownBy(r)'
  <2>1. KnownBy(r) /\ Alone(r)' /\ request'[r] = new
    BY <1>1, <1>2, <1>6, KnownNow
  <2>2. DOMAIN callbacks' \subseteq {state'.callback}
    <3>1. CASE request[r].ok
      BY <1>1, <1>2, <2>1, <3>1 DEF KnownBy
    <3>2. CASE ~request[r].ok
      BY <1>1, <1>2, <1>3, <2>1, <3>2 DEF KnownBy
    <3> QED
      BY <3>1, <3>2
  <2>3. monitors' \subseteq state'.monitors
    BY <1>1, <1>2, <1>3, <2>1 DEF KnownBy
  <2> QED
    BY <1>4, <2>1, <2>2, <2>3 DEF KnownBy
<1>7. Fits(new)
  BY <1>4 DEF Fits
<1> QED
  BY <1>2, <1>4, <1>5, <1>6, <1>7, Steps

LEMMA EndDisableIInv == ASSUME IInv, NEW r \in Requests, EndDisable(r) PROVE IInv'
<1>1. request[r] \in RequestState /\ Fits(request[r]) /\ request[r].at = "ending"
  BY FitsAll DEF EndDisable, At
<1>2. /\ Become(r, Idle) /\ UNCHANGED <<callbacks, monitors, fresh, state, watched, troubles>>
      /\ doubt' \in {doubt, doubt \ {"removed"}}
  BY DEF EndDisable, psa
<1>3. Rest'
  BY <1>2, TypeRest DEF Rest
<1>4. Idle.at = "idle" /\ request[r].answer = None
  BY <1>1 DEF Idle, Fits
<1> QED
  BY <1>1, <1>2, <1>3, <1>4, IdleFits, Untouched

\* A save leaves the requests as they are.
LEMMA SaveIInv ==
    ASSUME IInv, UNCHANGED <<psa, fresh, state, request, watched, doubt>>, troubles' \in Nat
    PROVE  IInv'
<1>1. UNCHANGED <<callbacks, monitors, fresh, state, request, watched, doubt>>
  BY DEF psa
<1> QED
  BY <1>1 DEF IInv, PsaTypeOK, Positions, KnownBy, Alone, MonitorOf

LEMMA DumpRaisesIInv == ASSUME IInv, DiskInv, NEW r \in Requests, DumpRaises(r) PROVE IInv'
<1>1. request[r] \in RequestState /\ Fits(request[r])
  BY FitsAll
<1>2. request[r].at \in {"start", "listing", "monitors", "ending"}
  BY DEF DumpRaises, DiskInv
<1>3. Become(r, Idle) /\ UNCHANGED <<psa, fresh, state, watched, doubt, troubles>>
  BY DEF DumpRaises
<1>4. Idle.at = "idle" /\ request[r].answer = None /\ troubles' \in Nat
  BY <1>1, <1>2, <1>3, TypeRest DEF Idle, Fits, Rest
<1> QED
  BY <1>2, <1>3, <1>4, IdleFits, QuietStep

LEMMA EmptyType == Empty \in State
BY DEF Empty, State

\* After a restart no request runs, and the file is all that is known.
LEMMA CrashIInv == ASSUME IInv, DiskInv, Crash PROVE IInv'
<1>1. request' = [r \in Requests |-> Idle] /\ UNCHANGED <<callbacks, monitors, fresh>>
      /\ state' = Loaded /\ watched' = None
  BY DEF Crash, psa
<1>2. troubles' \in Nat
  BY TypeRest DEF Crash, Rest
<1>3. Loaded \in State
  BY EmptyType DEF Loaded, DiskInv, DiskTypeOK
<1>4. doubt' \subseteq {"created", "removed"} /\ doubt \subseteq doubt'
  BY TypeRest DEF Crash, Rest
<1>5. PsaTypeOK'
  <2>1. request' \in [Requests -> RequestState]
    BY <1>1, IdleFits
  <2> QED
    BY <1>1, <1>2, <1>3, <1>4, <2>1, TypeRest DEF PsaTypeOK, Rest
<1>6. Positions'
  <2>1. ASSUME NEW q \in Requests PROVE Fits(request'[q])
    BY <1>1, IdleFits
  <2> QED
    BY <2>1 DEF Positions, Fits
<1>8. ASSUME "created" \notin doubt' PROVE \E r \in Requests : KnownBy(r)'
  <2>1. /\ \A r \in Requests : request[r].answer = None
        /\ state.callback \in {Loaded.callback, None}
        /\ state.monitors \subseteq Loaded.monitors
    BY <1>8 DEF Crash
  <2>2. PICK r \in Requests : KnownBy(r)
    BY <1>4, <1>8 DEF IInv
  <2>3. None \notin DOMAIN callbacks /\ \A m \in monitors : m.id # None
    BY PushAssumption, TypeRest DEF Rest, Id, Monitor
  <2>4. DOMAIN callbacks \subseteq {state.callback}
    BY <2>1, <2>2, <2>3 DEF KnownBy
  <2>5. monitors \subseteq state.monitors
    BY <2>1, <2>2, <2>3 DEF KnownBy, MonitorOf
  <2>6. DOMAIN callbacks' \subseteq {state'.callback} /\ monitors' \subseteq state'.monitors
    BY <1>1, <2>1, <2>3, <2>4, <2>5
  <2>7. Alone(r)' /\ request'[r].at = "idle"
    BY <1>1 DEF Alone, Idle
  <2> QED
    BY <2>6, <2>7 DEF KnownBy
<1> QED
  BY <1>5, <1>6, <1>8 DEF IInv

LEMMA InitIInv == Init => IInv
<1> SUFFICES ASSUME Init PROVE IInv
  OBVIOUS
<1>1. request = [r \in Requests |-> Idle] /\ callbacks = <<>> /\ monitors = {}
  BY DEF Init
<1>2. DOMAIN callbacks = {}
  BY <1>1
<1>3. PsaTypeOK
  BY <1>1, <1>2, IdleFits, EmptyType DEF Init, PsaTypeOK
<1>4. Positions
  BY <1>1, IdleFits DEF Positions, Fits
<1>6. PICK r \in Requests : TRUE
  BY PushAssumption
<1>7. KnownBy(r)
  BY <1>1, <1>2 DEF KnownBy, Alone, Idle
<1> QED
  BY <1>3, <1>4, <1>7 DEF IInv

LEMMA ServeIInv == ASSUME IInv, DiskInv, NEW r \in Requests, Serve(r) PROVE IInv'
<1>1. ASSUME Open(r) \/ OpenFails(r) \/ Dump(r) \/ Write(r) \/ WriteFails(r) PROVE IInv'
  <2>1. UNCHANGED <<psa, fresh, state, request, watched, doubt>> /\ troubles' \in Nat
    BY <1>1, TypeRest DEF Open, OpenFails, Dump, Write, WriteFails, Rest
  <2> QED
    BY <2>1, SaveIInv
<1> QED
  BY <1>1, EnableIInv, EnableFirstIInv, CheckCallbackIInv, PostCallbackIInv, RefuseCallbackIInv,
     StoreCallbackIInv, ListMissingIInv, PostMonitorIInv, RefuseMonitorIInv, StoreMonitorIInv,
     EndEnableIInv, DisableIInv, DeleteMonitorIInv, ForgetMonitorIInv, DeleteCallbackIInv,
     KeepCallbackIInv, LeaveCallbackIInv, EndDisableIInv, DumpRaisesIInv DEF Serve

-----------------------------------------------------------------------------
(* The file is current. *)

LEMMA DiskTypes == DiskInv => DiskTypeOK
BY DEF DiskInv

\* While nothing is unsaved, a request that runs is the one that saves.
LEMMA MySave ==
    ASSUME DiskInv, ~unsaved, NEW r \in Requests, request[r].at # "idle" \/ Alone(r)
    PROVE  SavedBy(r)
<1>1. PICK q \in Requests : SavedBy(q)
  BY DEF DiskInv
<1>2. CASE q = r
  BY <1>1, <1>2
<1>3. CASE q # r
  <2>1. request[r].at = "idle" /\ Alone(r)
    BY <1>1, <1>3 DEF SavedBy, Alone
  <2>2. request[q].at = "idle"
    BY <1>3, <2>1 DEF Alone
  <2>3. save[q].at = "none" /\ save[r].at = "none"
    BY <2>1, <2>2 DEF DiskInv, DiskTypeOK, Save
  <2> QED
    BY <1>1, <2>1, <2>2, <2>3 DEF SavedBy, Disabling
<1> QED
  BY <1>2, <1>3

\* A step of a request that is in no save and begins none.
LEMMA StepDisk ==
    ASSUME IInv, DiskInv, NEW r \in Requests, NEW new, Become(r, new), save[r].at = "none",
           UNCHANGED <<file, save>>, unsaved' \in BOOLEAN,
           new.at \in Disabling \/ (UNCHANGED state /\ request[r].at \notin Disabling),
           ~unsaved' => ~unsaved /\ (request[r].at # "idle" \/ Alone(r))
    PROVE  DiskInv'
<1>1. request'[r] = new /\ \A q \in Requests \ {r} : request'[q] = request[q]
  BY TypeRest, Changed
<1>2. DiskTypeOK'
  BY DiskTypes DEF DiskTypeOK
<1>3. \A q \in Requests :
         save'[q].at # "none" => request'[q].at \in {"start", "listing", "monitors", "ending"}
  BY <1>1 DEF DiskInv
<1>4. ASSUME ~unsaved' PROVE SavedBy(r)'
  <2>1. SavedBy(r)
    BY <1>4, MySave
  <2>2. Alone(r)'
    BY <2>1, TypeRest, StaysAlone DEF SavedBy
  <2>3. UNCHANGED state => (Loaded = state => Loaded' = state')
    BY DEF Loaded
  <2> QED
    BY <1>1, <2>1, <2>2, <2>3 DEF SavedBy, Disabling
<1> QED
  BY <1>2, <1>3, <1>4 DEF DiskInv

\* A step of a request that begins a save.
LEMMA BeginDisk ==
    ASSUME IInv, DiskInv, NEW r \in Requests, NEW new, Become(r, new),
           new.at \in {"start", "listing", "monitors", "ending"},
           Saving(r, [NoSave EXCEPT !.at = "open"]),
           UNCHANGED file, unsaved' \in BOOLEAN,
           ~unsaved' => ~unsaved /\ (request[r].at # "idle" \/ Alone(r))
    PROVE  DiskInv'
<1>1. request'[r] = new /\ \A q \in Requests \ {r} : request'[q] = request[q]
  BY TypeRest, Changed
<1>2. [NoSave EXCEPT !.at = "open"] \in Save /\ [NoSave EXCEPT !.at = "open"].at = "open"
  BY EmptyType DEF NoSave, Save
<1>3. /\ save' \in [Requests -> Save] /\ save'[r].at = "open"
      /\ \A q \in Requests \ {r} : save'[q] = save[q]
  BY <1>2, DiskTypes DEF DiskTypeOK, Saving
<1>4. DiskTypeOK'
  BY <1>3, DiskTypes DEF DiskTypeOK
<1>5. \A q \in Requests :
         save'[q].at # "none" => request'[q].at \in {"start", "listing", "monitors", "ending"}
  BY <1>1, <1>3 DEF DiskInv
<1>6. ASSUME ~unsaved' PROVE SavedBy(r)'
  <2>1. Alone(r)
    BY <1>6, MySave DEF SavedBy
  <2>2. Alone(r)'
    BY <2>1, TypeRest, StaysAlone
  <2> QED
    BY <1>3, <2>2 DEF SavedBy
<1> QED
  BY <1>4, <1>5, <1>6 DEF DiskInv

\* A step of a save.
LEMMA SavingDisk ==
    ASSUME IInv, DiskInv, NEW r \in Requests, save[r].at # "none", NEW new \in Save, Saving(r, new),
           UNCHANGED <<request, state>>, file' \in State \cup {Broken}, unsaved' \in BOOLEAN,
           ~unsaved' => /\ Alone(r)
                        /\ new.at = "none" => Loaded' = state
                        /\ new.at \in {"dump", "write"} => file' = Broken
                        /\ new.at = "write" => new.text = state
    PROVE  DiskInv'
<1>1. /\ save' \in [Requests -> Save] /\ save'[r] = new
      /\ \A q \in Requests \ {r} : save'[q] = save[q]
  BY DiskTypes DEF DiskTypeOK, Saving
<1>2. DiskTypeOK'
  BY <1>1 DEF DiskTypeOK
<1>3. \A q \in Requests :
         save'[q].at # "none" => request'[q].at \in {"start", "listing", "monitors", "ending"}
  BY <1>1 DEF DiskInv
<1>4. ~unsaved' => SavedBy(r)'
  BY <1>1 DEF SavedBy, Alone
<1> QED
  BY <1>2, <1>3, <1>4 DEF DiskInv

LEMMA StartedSaved ==
    ASSUME DiskInv, NEW r \in Requests, Beside(r)
    PROVE  unsaved' \in BOOLEAN /\ (~unsaved' => ~unsaved /\ Alone(r))
BY DiskTypes DEF Beside, DiskTypeOK

LEMMA EnablingDisk ==
    ASSUME IInv, DiskInv, NEW r \in Requests, NEW car \in Cars, Enable(r, car) \/ EnableFirst(r, car)
    PROVE  DiskInv'
<1>1. PICK new : new = [Idle EXCEPT !.at = "start", !.car = car]
  OBVIOUS
<1>2. Start(r, new) /\ Beside(r) /\ UNCHANGED file
  BY <1>1 DEF Enable, EnableFirst
<1>3. new.at = "start" /\ Become(r, new) /\ request[r].at = "idle" /\ save[r].at = "none"
  BY <1>1, <1>2, StartingFits DEF Start, At, Idle
<1>4. CASE UNCHANGED <<state, save>>
  BY <1>2, <1>3, <1>4, StartedSaved, StepDisk DEF Disabling
<1>5. CASE Saving(r, [NoSave EXCEPT !.at = "open"])
  BY <1>2, <1>3, <1>5, StartedSaved, BeginDisk
<1> QED
  BY <1>4, <1>5 DEF Enable, EnableFirst

\* The steps that leave the state as it is.
LEMMA SameDisk ==
    ASSUME IInv, DiskInv, NEW r \in Requests, NEW new, Become(r, new), save[r].at = "none",
           UNCHANGED disk, request[r].at # "idle",
           new.at \in Disabling \/ (UNCHANGED state /\ request[r].at \notin Disabling)
    PROVE  DiskInv'
<1>1. UNCHANGED <<file, save, unsaved>>
  BY DEF disk
<1>2. unsaved' \in BOOLEAN
  BY <1>1, DiskTypes DEF DiskTypeOK
<1> QED
  BY <1>1, <1>2, StepDisk

LEMMA EnableDisk ==
    ASSUME IInv, DiskInv, NEW r \in Requests,
           \/ CheckCallback(r) \/ PostCallback(r) \/ RefuseCallback(r) \/ ListMissing(r)
           \/ PostMonitor(r) \/ RefuseMonitor(r) \/ EndEnable(r)
    PROVE  DiskInv'
<1>1. PICK new : Become(r, new)
  BY DEF CheckCallback, PostCallback, RefuseCallback, ListMissing, PostMonitor, RefuseMonitor,
         EndEnable, Answered, Goto
<1>2. /\ save[r].at = "none" /\ UNCHANGED <<disk, state>>
      /\ request[r].at \in {"start", "callback", "listing", "monitors"}
  BY DEF CheckCallback, PostCallback, RefuseCallback, ListMissing, PostMonitor, RefuseMonitor,
         EndEnable, At
<1> QED
  BY <1>1, <1>2, SameDisk DEF Disabling

LEMMA StoringDisk ==
    ASSUME IInv, DiskInv, NEW r \in Requests, StoreCallback(r) \/ StoreMonitor(r)
    PROVE  DiskInv'
<1>1. request[r].at \in {"called", "created"} /\ save[r].at = "none" /\ request[r] \in RequestState
  BY FitsAll DEF StoreCallback, StoreMonitor, At
<1>2. CASE request[r].answer = None
  <2>1. PICK new : Become(r, new)
    BY <1>2 DEF StoreCallback, StoreMonitor, Forward
  <2>2. UNCHANGED <<disk, state>>
    BY <1>2 DEF StoreCallback, StoreMonitor
  <2> QED
    BY <1>1, <2>1, <2>2, SameDisk DEF Disabling
<1>3. CASE request[r].answer # None
  <2>1. \E new : Become(r, new) /\ new.at \in {"listing", "monitors"}
    <3>1. CASE StoreCallback(r)
      <4>1. PICK new : new = [request[r] EXCEPT !.at = "listing", !.answer = None]
        OBVIOUS
      <4>2. Become(r, new) /\ new.at = "listing"
        BY <1>1, <1>3, <3>1, <4>1 DEF StoreCallback, RequestState
      <4> QED
        BY <4>2
    <3>2. CASE StoreMonitor(r)
      <4>1. PICK new : new = [request[r] EXCEPT !.at = "monitors", !.answer = None,
                                  !.labels = @ \ {Turn(@)}, !.ok = @ /\ TRUE]
        OBVIOUS
      <4>2. Become(r, new)
        BY <1>3, <3>2, <4>1 DEF StoreMonitor, Forward
      <4>3. new.at = "monitors"
        BY <1>1, <4>1 DEF RequestState
      <4> QED
        BY <4>2, <4>3
    <3> QED
      BY <3>1, <3>2
  <2>9. PICK new : Become(r, new) /\ new.at \in {"listing", "monitors"}
    BY <2>1
  <2>2. Saving(r, [NoSave EXCEPT !.at = "open"]) /\ UNCHANGED <<file, unsaved>>
    BY <1>3 DEF StoreCallback, StoreMonitor, Change
  <2>3. unsaved' \in BOOLEAN
    BY <2>2, DiskTypes DEF DiskTypeOK
  <2> QED
    BY <1>1, <2>9, <2>2, <2>3, BeginDisk
<1> QED
  BY <1>2, <1>3

LEMMA DisablingDisk ==
    ASSUME IInv, DiskInv, NEW r \in Requests,
           \/ Disable(r) \/ DeleteMonitor(r) \/ ForgetMonitor(r) \/ DeleteCallback(r)
           \/ KeepCallback(r) \/ LeaveCallback(r) \/ EndDisable(r)
    PROVE  DiskInv'
<1>1. CASE Disable(r)
  <2>1. PICK new : new = [Idle EXCEPT !.at = "removing", !.known = state.monitors]
    OBVIOUS
  <2>2. Start(r, new) /\ Beside(r) /\ UNCHANGED <<state, file, save>>
    BY <1>1, <2>1 DEF Disable
  <2>3. new.at = "removing" /\ Become(r, new) /\ save[r].at = "none"
    BY <2>1, <2>2 DEF Start, At, Idle
  <2> QED
    BY <2>2, <2>3, StartedSaved, StepDisk DEF Disabling
<1>2. CASE DeleteMonitor(r) \/ DeleteCallback(r) \/ ForgetMonitor(r) \/ KeepCallback(r)
  <2>1. request[r] \in RequestState
    BY FitsAll
  <2>4. \E new : Become(r, new) /\ new.at \in Disabling
    <3>1. ASSUME NEW at \in Disabling, NEW ok \in BOOLEAN,
                 Become(r, [request[r] EXCEPT !.at = at, !.ok = ok])
          PROVE  \E new : Become(r, new) /\ new.at \in Disabling
      <4>1. PICK new : new = [request[r] EXCEPT !.at = at, !.ok = ok]
        OBVIOUS
      <4>2. Become(r, new) /\ new.at = at
        BY <2>1, <3>1, <4>1 DEF RequestState
      <4> QED
        BY <4>2
    <3>2. CASE DeleteMonitor(r) \/ DeleteCallback(r)
      BY <3>1, <3>2 DEF DeleteMonitor, DeleteCallback, Deleted, Disabling
    <3>3. CASE ForgetMonitor(r)
      <4>1. PICK new : new = [request[r] EXCEPT !.at = "removing", !.known = @ \ {Oldest(@)}]
        OBVIOUS
      <4>2. Become(r, new)
        BY <3>3, <4>1 DEF ForgetMonitor
      <4>3. new.at = "removing"
        BY <2>1, <4>1 DEF RequestState
      <4> QED
        BY <4>2, <4>3 DEF Disabling
    <3>4. CASE KeepCallback(r)
      BY <3>1, <3>4 DEF KeepCallback, Disabling
    <3> QED
      BY <1>2, <3>2, <3>3, <3>4
  <2>2. PICK new : Become(r, new) /\ new.at \in Disabling
    BY <2>4
  <2>3. save[r].at = "none" /\ request[r].at # "idle" /\ UNCHANGED disk
    BY <1>2 DEF DeleteMonitor, DeleteCallback, ForgetMonitor, KeepCallback, At
  <2> QED
    BY <2>2, <2>3, SameDisk
<1>3. CASE LeaveCallback(r)
  <2>1. PICK new : new = [request[r] EXCEPT !.at = "ending"]
    OBVIOUS
  <2>2. /\ Become(r, new) /\ request[r].at = "leaving"
        /\ Saving(r, [NoSave EXCEPT !.at = "open"]) /\ UNCHANGED <<file, unsaved>>
    BY <1>3, <2>1 DEF LeaveCallback, Goto, Change, At
  <2>3. new.at = "ending" /\ unsaved' \in BOOLEAN
    BY <2>1, <2>2, FitsAll, DiskTypes DEF DiskTypeOK, RequestState
  <2> QED
    BY <2>2, <2>3, BeginDisk
<1>4. CASE EndDisable(r)
  <2>1. /\ Become(r, Idle) /\ save[r].at = "none" /\ request[r].at = "ending"
        /\ UNCHANGED <<disk, state>>
    BY <1>4 DEF EndDisable, At
  <2> QED
    BY <2>1, SameDisk DEF Disabling
<1> QED
  BY <1>1, <1>2, <1>3, <1>4

LEMMA NoSaveType == NoSave \in Save /\ NoSave.at = "none"
BY EmptyType DEF NoSave, Save

\* The file is whole again when its text is written.
LEMMA SavesDisk ==
    ASSUME IInv, DiskInv, NEW r \in Requests,
           Open(r) \/ OpenFails(r) \/ Dump(r) \/ Write(r) \/ WriteFails(r)
    PROVE  DiskInv'
<1>1. /\ save[r] \in Save /\ file \in State \cup {Broken} /\ unsaved \in BOOLEAN /\ state \in State
  BY DiskTypes, TypeRest DEF DiskTypeOK, Rest
<1>2. UNCHANGED <<request, state>> /\ save[r].at # "none" /\ request[r].at # "idle"
  BY DEF Open, OpenFails, Dump, Write, WriteFails, DiskInv
<1>3. CASE Open(r)
  <2>1. PICK new : new = [save[r] EXCEPT !.at = "dump"]
    OBVIOUS
  <2>2. Saving(r, new) /\ file' = Broken /\ unsaved' = (unsaved /\ ~Alone(r))
    BY <1>3, <2>1 DEF Open
  <2>3. new \in Save /\ new.at = "dump"
    BY <1>1, <2>1 DEF Save
  <2>4. unsaved' \in BOOLEAN /\ (~unsaved' => Alone(r))
    BY <1>1, <1>2, <2>2, MySave DEF SavedBy
  <2> QED
    BY <1>2, <2>2, <2>3, <2>4, SavingDisk
<1>4. CASE OpenFails(r) \/ WriteFails(r)
  <2>1. Saving(r, NoSave) /\ file' \in State \cup {Broken} /\ unsaved' = TRUE
    BY <1>1, <1>4 DEF OpenFails, WriteFails
  <2> QED
    BY <1>2, <2>1, NoSaveType, SavingDisk
<1>5. CASE Dump(r)
  <2>1. PICK new : new = [at |-> "write", text |-> state]
    OBVIOUS
  <2>2. Saving(r, new) /\ UNCHANGED <<file, unsaved>>
    BY <1>5, <2>1 DEF Dump
  <2>3. new \in Save /\ new.at = "write" /\ new.text = state
    BY <1>1, <2>1 DEF Save
  <2>4. ~unsaved' => Alone(r) /\ file' = Broken
    BY <1>2, <1>5, <2>2, MySave DEF SavedBy, Dump
  <2> QED
    BY <1>1, <1>2, <2>2, <2>3, <2>4, SavingDisk
<1>6. CASE Write(r)
  <2>1. /\ Saving(r, NoSave) /\ UNCHANGED unsaved
        /\ save[r].at = "write" /\ (file' = save[r].text \/ (file # Broken /\ file' = Broken))
    BY <1>6 DEF Write
  <2>2. file' \in State \cup {Broken}
    BY <1>1, <2>1 DEF Save
  <2>3. ASSUME ~unsaved' PROVE Alone(r) /\ Loaded' = state
    <3>1. SavedBy(r)
      BY <1>2, <2>1, <2>3, MySave
    <3> QED
      BY <1>1, <2>1, <3>1, FileAssumption DEF SavedBy, Loaded
  <2> QED
    BY <1>1, <1>2, <2>1, <2>2, <2>3, NoSaveType, SavingDisk
<1> QED
  BY <1>3, <1>4, <1>5, <1>6

\* It takes two requests.
LEMMA DumpRaisesDisk == ASSUME IInv, DiskInv, NEW r \in Requests, DumpRaises(r) PROVE DiskInv'
<1>1. /\ Become(r, Idle) /\ Saving(r, NoSave) /\ file' = Broken /\ UNCHANGED unsaved
      /\ save[r].at = "dump"
  BY DEF DumpRaises
<1>2. /\ save' \in [Requests -> Save] /\ save'[r] = NoSave
      /\ \A q \in Requests \ {r} : save'[q] = save[q]
  BY <1>1, NoSaveType, DiskTypes DEF DiskTypeOK, Saving
<1>3. request'[r] = Idle /\ \A q \in Requests \ {r} : request'[q] = request[q]
  BY <1>1, TypeRest, Changed
<1>4. DiskTypeOK'
  BY <1>1, <1>2, DiskTypes DEF DiskTypeOK
<1>5. \A q \in Requests :
         save'[q].at # "none" => request'[q].at \in {"start", "listing", "monitors", "ending"}
  BY <1>2, <1>3, NoSaveType DEF DiskInv
<1>6. request[r].at # "idle" /\ ~Alone(r)
  BY <1>1 DEF DumpRaises, DiskInv, Alone
<1>7. unsaved
  BY <1>6, MySave DEF SavedBy
<1> QED
  BY <1>1, <1>4, <1>5, <1>7 DEF DiskInv

LEMMA ServeDisk == ASSUME IInv, DiskInv, NEW r \in Requests, Serve(r) PROVE DiskInv'
BY EnablingDisk, EnableDisk, StoringDisk, DisablingDisk, SavesDisk, DumpRaisesDisk DEF Serve

LEMMA CrashDisk == ASSUME IInv, DiskInv, Crash PROVE DiskInv'
<1>1. /\ request' = [r \in Requests |-> Idle] /\ save' = [r \in Requests |-> NoSave]
      /\ state' = Loaded /\ UNCHANGED file /\ unsaved' = FALSE
  BY DEF Crash
<1>2. DiskTypeOK'
  BY <1>1, NoSaveType, DiskTypes DEF DiskTypeOK
<1>3. PICK r \in Requests : TRUE
  BY PushAssumption
<1>4. SavedBy(r)'
  BY <1>1, NoSaveType DEF SavedBy, Alone, Idle, Loaded
<1> QED
  BY <1>1, <1>2, <1>4, NoSaveType DEF DiskInv

LEMMA InitDisk == Init => DiskInv
<1> SUFFICES ASSUME Init PROVE DiskInv
  OBVIOUS
<1>1. /\ request = [r \in Requests |-> Idle] /\ save = [r \in Requests |-> NoSave]
      /\ state = Empty /\ file = Empty /\ unsaved = FALSE
  BY DEF Init
<1>2. DiskTypeOK
  BY <1>1, NoSaveType, EmptyType DEF DiskTypeOK
<1>3. PICK r \in Requests : TRUE
  BY PushAssumption
<1>4. SavedBy(r)
  BY <1>1, NoSaveType DEF SavedBy, Alone, Idle, Loaded
<1> QED
  BY <1>1, <1>2, <1>4, NoSaveType DEF DiskInv

-----------------------------------------------------------------------------

\* The invariant of the subscription, for any requests, cars and groups.
THEOREM IInvAlways == Spec => [](IInv /\ DiskInv)
<1>1. IInv /\ DiskInv /\ UNCHANGED vars => (IInv /\ DiskInv)'
  <2> SUFFICES ASSUME IInv, DiskInv, UNCHANGED vars PROVE IInv' /\ DiskInv'
    OBVIOUS
  <2>1. UNCHANGED <<callbacks, monitors, fresh, state, file, save, unsaved, request, watched, doubt, troubles>>
    BY DEF vars, psa, disk
  <2>2. IInv'
    BY <2>1 DEF IInv, PsaTypeOK, Positions, KnownBy, Alone, MonitorOf
  <2>3. DiskInv'
    BY <2>1 DEF DiskInv, DiskTypeOK, SavedBy, Alone, Loaded
  <2> QED
    BY <2>2, <2>3
<1>2. IInv /\ DiskInv /\ Next => (IInv /\ DiskInv)'
  BY CrashIInv, ServeIInv, CrashDisk, ServeDisk DEF Next
<1> QED
  BY <1>1, <1>2, InitIInv, InitDisk, PTL DEF Spec

\* Disabling can always remove what psacc created, unless an answer was lost, a
\* creation wasn't saved, or two requests ran at once.
THEOREM NothingIsForgottenAlways == Spec => []NothingIsForgotten
<1>1. IInv /\ DiskInv => NothingIsForgotten
  BY DEF IInv, KnownBy, NothingIsForgotten, Quiet
<1> QED
  BY <1>1, IInvAlways, PTL

\* Restarting between two requests brings the same state back, unless the last save
\* failed or ran beside another request.
THEOREM FileIsCurrentAlways == Spec => []FileIsCurrent
<1>1. IInv /\ DiskInv => FileIsCurrent
  BY DEF DiskInv, SavedBy, FileIsCurrent, Quiet, Disabling
<1> QED
  BY <1>1, IInvAlways, PTL

-----------------------------------------------------------------------------
(* What is known is at PSA. *)

LEMMA Alone0 == ASSUME IInv, "created" \notin doubt, NEW r \in Requests, request[r].at # "idle" PROVE Alone(r)
BY Mine DEF KnownBy

\* The request that runs, or any when none does, knows what is there.
LEMMA ThereNow ==
    ASSUME PushInv, doubt = {}, NEW r \in Requests, request[r].at # "idle" \/ Alone(r)
    PROVE  Alone(r) /\ There(request[r]) /\ Covering(request[r])
<1>1. PICK q \in Requests : Alone(q) /\ There(request[q]) /\ Covering(request[q])
  BY DEF PushInv
<1>2. CASE q = r
  BY <1>1, <1>2
<1>3. CASE q # r
  <2>1. request[r].at = "idle" /\ Alone(r)
    BY <1>1, <1>3 DEF Alone
  <2>2. request[q].at = "idle"
    BY <1>3, <2>1 DEF Alone
  <2>3. There(request[r])
    BY <1>1, <2>1, <2>2 DEF There
  <2>4. Covering(request[r])
    BY <2>1 DEF Covering
  <2> QED
    BY <2>1, <2>3, <2>4
<1> QED
  BY <1>2, <1>3

\* What is to be shown of a step of a request.
LEMMA WholeSteps ==
    ASSUME PushInv, IInv', NEW r \in Requests, NEW new, Become(r, new),
           "created" \notin doubt' => "created" \notin doubt /\ (request[r].at # "idle" \/ Alone(r)),
           "created" \notin doubt' /\ watched' # None => new.at = "idle",
           doubt' = {} => There(new)' /\ Covering(new)',
           doubt' = {} /\ watched' # None => \A g \in Groups : Known(g)'
    PROVE  PushInv'
<1>1. request'[r] = new /\ IInv
  BY TypeRest, Changed DEF PushInv
<1>2. ASSUME "created" \notin doubt' PROVE Alone(r)'
  <2>1. Alone(r)
    BY <1>1, <1>2, Alone0
  <2> QED
    BY <1>1, <2>1, TypeRest, StaysAlone
<1>3. ASSUME "created" \notin doubt', watched' # None PROVE Quiet'
  BY <1>1, <1>2, <1>3 DEF Alone, Quiet
<1>4. doubt' = {} => There(request[r])' /\ Covering(request[r])'
  BY <1>1 DEF There, Covering, Posted, HasCallback, Known
<1>5. doubt' = {} => \E q \in Requests : Alone(q)' /\ There(request[q])' /\ Covering(request[q])'
  BY <1>2, <1>4
<1> QED
  BY <1>3, <1>5 DEF PushInv

\* A request that goes on: no request has enabled all since it began.
LEMMA GoesOn ==
    ASSUME PushInv, IInv', NEW r \in Requests, request[r].at # "idle", NEW new, Become(r, new),
           doubt \subseteq doubt', watched' = watched,
           ASSUME doubt = {}, doubt' = {}, There(request[r]), Covering(request[r]), Alone(r)
           PROVE  There(new)' /\ Covering(new)'
    PROVE  PushInv'
<1>1. "created" \notin doubt => watched = None
  BY DEF PushInv, Quiet
<1>2. doubt' = {} => There(new)' /\ Covering(new)'
  BY ThereNow
<1> QED
  BY <1>1, <1>2, WholeSteps

\* The token is there when it is needed, whatever the request.
LEMMA ThereIdle ==
    ASSUME NEW one, There(one), one.at \notin {"removed", "leaving"} \/ ~one.ok
    PROVE  There(Idle) /\ Covering(Idle)
BY DEF There, Covering, Idle

LEMMA RefuseCallbackPush == ASSUME PushInv, NEW r \in Requests, RefuseCallback(r) PROVE PushInv'
<1>1. IInv' /\ request[r] \in RequestState /\ Fits(request[r])
  BY RefuseCallbackIInv, FitsAll DEF PushInv
<1>2. PICK one : one = request[r]
  OBVIOUS
<1>3. PICK new : new = [one EXCEPT !.at = "called"]
  OBVIOUS
<1>4. /\ one.at = "callback" /\ Become(r, new)
      /\ UNCHANGED <<callbacks, monitors, state, watched, doubt>>
  BY <1>2, <1>3 DEF RefuseCallback, Goto, psa, At
<1>5. new.at = "called" /\ new.answer = None
  BY <1>1, <1>2, <1>3, <1>4 DEF RequestState, Fits
<1>6. There(one) => There(new)' /\ Covering(new)'
  BY <1>4, <1>5 DEF There, Covering, HasCallback
<1> QED
  BY <1>1, <1>2, <1>4, <1>6, GoesOn

LEMMA RefuseMonitorPush == ASSUME PushInv, NEW r \in Requests, RefuseMonitor(r) PROVE PushInv'
<1>1. IInv' /\ request[r] \in RequestState /\ Fits(request[r])
  BY RefuseMonitorIInv, FitsAll DEF PushInv
<1>2. PICK one : one = request[r]
  OBVIOUS
<1>3. PICK new : new = [one EXCEPT !.at = "created", !.path = state.callback]
  OBVIOUS
<1>4. /\ one.at = "monitors" /\ Become(r, new)
      /\ UNCHANGED <<callbacks, monitors, state, watched, doubt>>
  BY <1>2, <1>3 DEF RefuseMonitor, Asking, psa, At
<1>5. new.at = "created" /\ new.answer = None /\ new.labels = one.labels /\ new.ok = one.ok
  BY <1>1, <1>2, <1>3, <1>4 DEF RequestState, Fits
<1>6. There(one) => There(new)'
  BY <1>4, <1>5 DEF There, HasCallback
<1>7. Covering(one) => Covering(new)'
  BY <1>4, <1>5 DEF Covering, Known
<1> QED
  BY <1>1, <1>2, <1>4, <1>6, <1>7, GoesOn

\* The callback created has the token of the state.
LEMMA PostCallbackPush == ASSUME PushInv, NEW r \in Requests, PostCallback(r) PROVE PushInv'
<1>1. IInv' /\ IInv /\ request[r] \in RequestState /\ Fits(request[r])
  BY PostCallbackIInv, FitsAll DEF PushInv
<1>2. PICK one : one = request[r]
  OBVIOUS
<1>3. PICK id : id = fresh'
  OBVIOUS
<1>4. /\ one.at = "callback" /\ UNCHANGED <<monitors, state, watched>>
      /\ callbacks' = [c \in DOMAIN callbacks \cup {id} |-> IF c = id THEN state.token ELSE callbacks[c]]
      /\ Answered(r, [one EXCEPT !.at = "called"])
  BY <1>2, <1>3 DEF PostCallback, At
<1>5. doubt \subseteq doubt'
  BY <1>4 DEF Answered
<1>6. CASE "created" \in doubt'
  <2>1. PICK new : Become(r, new)
    BY <1>4 DEF Answered
  <2>2. doubt' # {}
    BY <1>6
  <2> QED
    BY <1>1, <1>2, <1>4, <1>5, <2>1, <2>2, GoesOn
<1>7. CASE "created" \notin doubt'
  <2>1. PICK new : new = [one EXCEPT !.at = "called", !.answer = id]
    OBVIOUS
  <2>2. Become(r, new)
    <3>1. Become(r, [[one EXCEPT !.at = "called"] EXCEPT !.answer = fresh'])
      BY <1>4, <1>7 DEF Answered
    <3>2. [[one EXCEPT !.at = "called"] EXCEPT !.answer = fresh'] = new
      BY <1>1, <1>2, <1>3, <2>1 DEF RequestState
    <3> QED
      BY <3>1, <3>2 DEF Become
  <2>3. new.at = "called" /\ new.answer = id
    BY <1>1, <1>2, <2>1 DEF RequestState
  <2>4. HasCallback(id)'
    BY <1>4 DEF HasCallback
  <2>5. ASSUME doubt = {}, There(one)
        PROVE  There(new)' /\ Covering(new)'
    <3>1. state.callback = None
      BY <1>1, <1>2, <1>4, <2>5, Mine DEF KnownBy
    <3> QED
      BY <1>4, <2>3, <2>4, <2>5, <3>1 DEF There, Covering
  <2> QED
    BY <1>1, <1>2, <1>4, <1>5, <2>2, <2>5, GoesOn
<1> QED
  BY <1>6, <1>7

\* The callback stored is the first: no monitor is known yet.
LEMMA StoreCallbackPush == ASSUME PushInv, NEW r \in Requests, StoreCallback(r) PROVE PushInv'
<1>1. IInv' /\ IInv /\ request[r] \in RequestState /\ Fits(request[r])
  BY StoreCallbackIInv, FitsAll DEF PushInv
<1>2. PICK one : one = request[r]
  OBVIOUS
<1>3. one.at = "called" /\ UNCHANGED <<callbacks, monitors, watched, doubt>>
  BY <1>2 DEF StoreCallback, psa, At
<1>4. CASE one.answer = None
  <2>1. Become(r, Idle) /\ state' = state
    BY <1>2, <1>4 DEF StoreCallback, At
  <2>2. There(one) => There(Idle) /\ Covering(Idle)
    BY <1>3, ThereIdle
  <2>3. There(one) => There(Idle)' /\ Covering(Idle)'
    BY <1>3, <2>1, <2>2 DEF There, Covering, HasCallback, Idle
  <2> QED
    BY <1>1, <1>2, <1>3, <2>1, <2>3, GoesOn
<1>5. CASE one.answer # None
  <2>1. PICK new : new = [one EXCEPT !.at = "listing", !.answer = None]
    OBVIOUS
  <2>2. Become(r, new) /\ Change(r, [state EXCEPT !.callback = one.answer])
    BY <1>2, <1>5, <2>1 DEF StoreCallback, At
  <2>3. state' = [state EXCEPT !.callback = one.answer]
    BY <2>2 DEF Change
  <2>4. state'.callback = one.answer /\ state'.token = state.token /\ state'.monitors = state.monitors
    BY <1>1, <2>3, TypeRest DEF Rest, State
  <2>5. new.at = "listing"
    BY <1>1, <1>2, <2>1 DEF RequestState
  <2>6. ASSUME doubt = {}, There(one)
        PROVE  There(new)' /\ Covering(new)'
    <3>1. state.callback = None
      BY <1>1, <1>2, <1>3, <2>6, Mine DEF KnownBy
    <3>2. state.monitors = {}
      BY <2>6, <3>1 DEF There
    <3>3. HasCallback(one.answer)'
      BY <1>3, <1>5, <2>4, <2>6 DEF There, HasCallback
    <3>4. There(new)'
      BY <1>3, <2>4, <2>5, <2>6, <3>2, <3>3 DEF There
    <3>5. Covering(new)'
      BY <2>5 DEF Covering
    <3> QED
      BY <3>4, <3>5
  <2> QED
    BY <1>1, <1>2, <1>3, <2>2, <2>6, GoesOn
<1> QED
  BY <1>4, <1>5

LEMMA PostMonitorPush == ASSUME PushInv, NEW r \in Requests, PostMonitor(r) PROVE PushInv'
<1>1. IInv' /\ IInv /\ request[r] \in RequestState /\ Fits(request[r])
  BY PostMonitorIInv, FitsAll DEF PushInv
<1>2. PICK one : one = request[r]
  OBVIOUS
<1>3. PICK id : id = fresh'
  OBVIOUS
<1>4. /\ one.at = "monitors" /\ UNCHANGED <<callbacks, state, watched>>
      /\ monitors' = monitors \cup {MonitorOf(r, state.callback, id)}
      /\ state.callback \in DOMAIN callbacks
      /\ Answered(r, [one EXCEPT !.at = "created", !.path = state.callback])
  BY <1>2, <1>3 DEF PostMonitor, Asking, At
<1>5. doubt \subseteq doubt'
  BY <1>4 DEF Answered
<1>6. CASE "created" \in doubt'
  <2>1. PICK new : Become(r, new)
    BY <1>4 DEF Answered
  <2>2. doubt' # {}
    BY <1>6
  <2> QED
    BY <1>1, <1>2, <1>4, <1>5, <2>1, <2>2, GoesOn
<1>7. CASE "created" \notin doubt'
  <2>1. PICK new : new = [one EXCEPT !.at = "created", !.path = state.callback, !.answer = id]
    OBVIOUS
  <2>2. Become(r, new)
    <3>1. Become(r, [[one EXCEPT !.at = "created", !.path = state.callback] EXCEPT !.answer = fresh'])
      BY <1>4, <1>7 DEF Answered
    <3>2. [[one EXCEPT !.at = "created", !.path = state.callback] EXCEPT !.answer = fresh'] = new
      BY <1>1, <1>2, <1>3, <2>1 DEF RequestState
    <3> QED
      BY <3>1, <3>2 DEF Become
  <2>3. /\ new.at = "created" /\ new.answer = id /\ new.path = state.callback /\ new.car = one.car
        /\ new.labels = one.labels /\ new.ok = one.ok
    BY <1>1, <1>2, <2>1 DEF RequestState
  <2>4. Posted(new) = MonitorOf(r, state.callback, id)
    BY <1>2, <2>3 DEF Posted, MonitorOf
  <2>5. state.callback # None
    BY <1>1, <1>4, PushAssumption, TypeRest DEF Rest, Id
  <2>6. There(one) => There(new)'
    BY <1>4, <2>3, <2>4, <2>5 DEF There, HasCallback, Posted
  <2>7. Covering(one) => Covering(new)'
    BY <1>4, <2>3 DEF Covering, Known
  <2> QED
    BY <1>1, <1>2, <1>4, <1>5, <2>2, <2>6, <2>7, GoesOn
<1> QED
  BY <1>6, <1>7

\* The monitor stored is at PSA, under the callback of the state.
LEMMA StoreMonitorPush == ASSUME PushInv, NEW r \in Requests, StoreMonitor(r) PROVE PushInv'
<1>1. IInv' /\ IInv /\ request[r] \in RequestState /\ Fits(request[r])
  BY StoreMonitorIInv, FitsAll DEF PushInv
<1>2. PICK one : one = request[r]
  OBVIOUS
<1>3. one.at = "created" /\ UNCHANGED <<callbacks, monitors, watched, doubt>>
  BY <1>2 DEF StoreMonitor, psa, At
<1>4. PICK ok \in BOOLEAN : Forward(r, ok) /\ (ok <=> one.answer # None)
  BY <1>2 DEF StoreMonitor, At
<1>5. PICK new : new = [one EXCEPT !.at = "monitors", !.answer = None,
                                   !.labels = one.labels \ {Turn(one.labels)}, !.ok = one.ok /\ ok]
  OBVIOUS
<1>6. Become(r, new)
  BY <1>2, <1>4, <1>5 DEF Forward
<1>7. new.at = "monitors" /\ new.labels = one.labels \ {Turn(one.labels)} /\ (new.ok <=> one.ok /\ ok)
  BY <1>1, <1>2, <1>5 DEF RequestState
<1>8. CASE one.answer = None
  <2>1. state' = state
    BY <1>2, <1>8 DEF StoreMonitor, At
  <2>2. There(one) => There(new)'
    BY <1>3, <1>7, <2>1 DEF There, HasCallback
  <2>3. Covering(new)'
    BY <1>4, <1>7, <1>8 DEF Covering
  <2> QED
    BY <1>1, <1>2, <1>3, <1>6, <2>2, <2>3, GoesOn
<1>9. CASE one.answer # None
  <2>1. PICK added : added = Posted(one)
    OBVIOUS
  <2>2. added = MonitorOf(r, request[r].path, request[r].answer)
    BY <1>2, <2>1 DEF Posted, MonitorOf
  <2>3. state' = [state EXCEPT !.monitors = state.monitors \cup {added}]
    BY <1>2, <1>9, <2>2 DEF StoreMonitor, Change, At
  <2>4. /\ state'.callback = state.callback /\ state'.token = state.token
        /\ state'.monitors = state.monitors \cup {added}
    BY <1>1, <2>3, TypeRest DEF Rest, State
  <2>5. added.callback = one.path /\ added.label = Turn(one.labels)
    BY <2>1 DEF Posted
  <2>6. ASSUME There(one) PROVE There(new)'
    <3>1. added \in monitors /\ added.callback = state.callback /\ state.callback # None
      BY <1>3, <1>9, <2>1, <2>5, <2>6 DEF There
    <3>2. \A m \in state.monitors : m.callback = state.callback /\ m.callback # None /\ m \in monitors
      BY <1>3, <2>6 DEF There
    <3>3. state.token # None /\ HasCallback(state.callback)
      BY <1>3, <2>6, <3>1 DEF There
    <3>4. HasCallback(state.callback)'
      BY <1>3, <2>4, <3>3 DEF HasCallback
    <3> QED
      BY <1>3, <1>7, <2>4, <3>1, <3>2, <3>3, <3>4 DEF There
  <2>7. ASSUME Covering(one) PROVE Covering(new)'
    BY <1>3, <1>7, <2>4, <2>5, <2>7 DEF Covering, Known
  <2> QED
    BY <1>1, <1>2, <1>3, <1>6, <2>6, <2>7, GoesOn
<1> QED
  BY <1>8, <1>9

\* A token is made before anything is known; the groups to come are those that are missing.
LEMMA StartPush ==
    ASSUME PushInv, IInv', NEW r \in Requests, NEW new, Start(r, new), new.at \in {"start", "removing"},
           state'.callback = state.callback, state'.monitors = state.monitors,
           state'.token = state.token \/ state.token = None,
           new.at = "start" => state'.token # None
    PROVE  PushInv'
<1>1. PICK one : one = request[r]
  OBVIOUS
<1>2. /\ one.at = "idle" /\ Become(r, new) /\ watched' = None
      /\ UNCHANGED <<callbacks, monitors>>
  BY <1>1 DEF Start, At, psa
<1>3. "created" \notin doubt' => "created" \notin doubt /\ Alone(r)
  BY StartedAlone
<1>4. ASSUME doubt' = {} PROVE There(new)' /\ Covering(new)'
  <2>1. doubt = {} /\ Alone(r)
    BY <1>4 DEF Start
  <2>2. There(one)
    BY <1>1, <2>1, ThereNow
  <2>3. \A m \in state.monitors : m.callback = state.callback /\ m.callback # None /\ m \in monitors
    BY <1>2, <2>2 DEF There
  <2>4. state.callback # None => state.token # None /\ HasCallback(state.callback)
    BY <1>2, <2>2 DEF There
  <2>5. state.callback # None => HasCallback(state.callback)'
    BY <1>2, <2>4 DEF HasCallback
  <2>6. state'.token = None => state'.callback = None
    BY <2>4
  <2>7. There(new)'
    BY <1>2, <2>3, <2>5, <2>6 DEF There
  <2>8. Covering(new)'
    BY DEF Covering
  <2> QED
    BY <2>7, <2>8
<1> QED
  BY <1>1, <1>2, <1>3, <1>4, WholeSteps

LEMMA EnablePush == ASSUME PushInv, NEW r \in Requests, NEW car \in Cars, Enable(r, car) PROVE PushInv'
<1>1. IInv'
  BY EnableIInv DEF PushInv
<1>2. /\ Start(r, [Idle EXCEPT !.at = "start", !.car = car])
      /\ state' = state /\ state.token # None
  BY DEF Enable
<1> QED
  BY <1>1, <1>2, StartingFits, StartPush

LEMMA EnableFirstPush ==
    ASSUME PushInv, NEW r \in Requests, NEW car \in Cars, EnableFirst(r, car)
    PROVE  PushInv'
<1>1. IInv' /\ IInv
  BY EnableFirstIInv DEF PushInv
<1>2. /\ Start(r, [Idle EXCEPT !.at = "start", !.car = car]) /\ state.token = None
      /\ fresh' = fresh + 1 /\ state' = [state EXCEPT !.token = fresh']
  BY DEF EnableFirst
<1>3. state \in State /\ fresh' # None
  BY <1>1, <1>2, PushAssumption, TypeRest DEF Rest
<1>4. state'.callback = state.callback /\ state'.monitors = state.monitors /\ state'.token = fresh'
  BY <1>2, <1>3 DEF State
<1> QED
  BY <1>1, <1>2, <1>3, <1>4, StartingFits, StartPush

\* Whether there is a callback, and which groups are missing, is read.
LEMMA CheckCallbackPush == ASSUME PushInv, NEW r \in Requests, CheckCallback(r) PROVE PushInv'
<1>1. IInv' /\ request[r] \in RequestState
  BY CheckCallbackIInv, FitsAll DEF PushInv
<1>2. PICK one : one = request[r]
  OBVIOUS
<1>3. PICK at \in {"callback", "listing"} : Goto(r, at)
  BY DEF CheckCallback
<1>4. PICK new : new = [one EXCEPT !.at = at]
  OBVIOUS
<1>5. /\ one.at = "start" /\ Become(r, new)
      /\ UNCHANGED <<callbacks, monitors, state, watched, doubt>>
  BY <1>2, <1>3, <1>4 DEF CheckCallback, Goto, At, psa
<1>6. new.at \in {"callback", "listing"}
  BY <1>1, <1>2, <1>4 DEF RequestState
<1>7. There(one) => There(new)' /\ Covering(new)'
  BY <1>5, <1>6 DEF There, Covering, HasCallback
<1> QED
  BY <1>1, <1>2, <1>5, <1>7, GoesOn

LEMMA ListMissingPush == ASSUME PushInv, NEW r \in Requests, ListMissing(r) PROVE PushInv'
<1>1. IInv' /\ request[r] \in RequestState
  BY ListMissingIInv, FitsAll DEF PushInv
<1>2. PICK one : one = request[r]
  OBVIOUS
<1>3. PICK new : new = [one EXCEPT !.at = "monitors", !.labels = Missing(state.monitors)]
  OBVIOUS
<1>4. /\ one.at = "listing" /\ Become(r, new)
      /\ UNCHANGED <<callbacks, monitors, state, watched, doubt>>
  BY <1>2, <1>3 DEF ListMissing, At, psa
<1>5. new.at = "monitors" /\ new.labels = Missing(state.monitors)
  BY <1>1, <1>2, <1>3 DEF RequestState
<1>6. There(one) => There(new)'
  BY <1>4, <1>5 DEF There, HasCallback
<1>7. Covering(new)'
  BY <1>4, <1>5 DEF Covering, Missing, Known
<1> QED
  BY <1>1, <1>2, <1>4, <1>6, <1>7, GoesOn

\* A request that failed at nothing leaves every group known.
LEMMA EndEnablePush == ASSUME PushInv, NEW r \in Requests, EndEnable(r) PROVE PushInv'
<1>1. IInv'
  BY EndEnableIInv DEF PushInv
<1>2. PICK one : one = request[r]
  OBVIOUS
<1>3. /\ one.at = "monitors" /\ one.labels = {} /\ Become(r, Idle)
      /\ UNCHANGED <<callbacks, monitors, state, doubt>>
      /\ watched' # None => one.ok
  BY <1>2 DEF EndEnable, psa, At
<1>4. doubt' = {} => There(one) /\ Covering(one)
  BY <1>2, <1>3, ThereNow
<1>5. doubt' = {} => There(Idle)' /\ Covering(Idle)'
  <2>1. There(one) => There(Idle)
    BY <1>3, ThereIdle
  <2> QED
    BY <1>3, <1>4, <2>1 DEF There, Covering, HasCallback, Idle
<1>6. doubt' = {} /\ watched' # None => \A g \in Groups : Known(g)'
  BY <1>3, <1>4 DEF Covering, Known
<1>7. Idle.at = "idle"
  BY DEF Idle
<1> QED
  BY <1>1, <1>2, <1>3, <1>5, <1>6, <1>7, WholeSteps

LEMMA DisablePush == ASSUME PushInv, NEW r \in Requests, Disable(r) PROVE PushInv'
<1>1. IInv'
  BY DisableIInv DEF PushInv
<1>2. PICK new : new = [Idle EXCEPT !.at = "removing", !.known = state.monitors]
  OBVIOUS
<1>3. Start(r, new) /\ UNCHANGED state /\ new.at = "removing"
  BY <1>2 DEF Disable, Idle
<1> QED
  BY <1>1, <1>3, StartPush

\* Only the monitor that was asked for goes.
LEMMA DeleteMonitorPush == ASSUME PushInv, NEW r \in Requests, DeleteMonitor(r) PROVE PushInv'
<1>1. IInv' /\ request[r] \in RequestState
  BY DeleteMonitorIInv, FitsAll DEF PushInv
<1>2. PICK one : one = request[r]
  OBVIOUS
<1>3. PICK gone : gone = Oldest(one.known).id
  OBVIOUS
<1>4. one.at = "removing" /\ UNCHANGED <<state, watched>> /\ doubt \subseteq doubt'
  BY <1>2 DEF DeleteMonitor, Deleted, At
<1>5. PICK ok \in BOOLEAN :
         /\ Become(r, [one EXCEPT !.at = "removed", !.ok = ok])
         /\ doubt' = {} =>
               \/ ok /\ monitors' = {m \in monitors : m.id # gone} /\ UNCHANGED callbacks
               \/ UNCHANGED <<callbacks, monitors>>
  BY <1>2, <1>3 DEF DeleteMonitor, Deleted, psa, At
<1>6. PICK new : new = [one EXCEPT !.at = "removed", !.ok = ok]
  OBVIOUS
<1>7. new.at = "removed" /\ new.ok = ok /\ new.known = one.known
  BY <1>1, <1>2, <1>6 DEF RequestState
<1>8. ASSUME doubt' = {}, There(one) PROVE There(new)' /\ Covering(new)'
  <2>1. \A m \in state.monitors : m.callback = state.callback /\ m.callback # None /\ m \in monitors
    BY <1>4, <1>8 DEF There
  <2>2. \A m \in state.monitors : m \in monitors' \/ (ok /\ m.id = gone)
    BY <1>5, <1>8, <2>1
  <2>3. UNCHANGED callbacks
    BY <1>5, <1>8
  <2>4. state.token = None => state.callback = None
    BY <1>8 DEF There
  <2>5. state.callback # None => HasCallback(state.callback)'
    BY <1>4, <1>8, <2>3 DEF There, HasCallback
  <2>6. Oldest(new.known).id = gone
    BY <1>3, <1>7
  <2>7. There(new)'
    BY <1>4, <1>7, <2>1, <2>2, <2>4, <2>5, <2>6 DEF There
  <2> QED
    BY <1>7, <2>7 DEF Covering
<1>9. Become(r, new)
  BY <1>5, <1>6
<1> QED
  BY <1>1, <1>2, <1>4, <1>8, <1>9, GoesOn

\* What was removed isn't known any more.
LEMMA ForgetMonitorPush == ASSUME PushInv, NEW r \in Requests, ForgetMonitor(r) PROVE PushInv'
<1>1. IInv' /\ IInv /\ request[r] \in RequestState
  BY ForgetMonitorIInv, FitsAll DEF PushInv
<1>2. PICK one : one = request[r]
  OBVIOUS
<1>3. PICK gone : gone = Oldest(one.known).id
  OBVIOUS
<1>4. PICK new : new = [one EXCEPT !.at = "removing", !.known = one.known \ {Oldest(one.known)}]
  OBVIOUS
<1>5. /\ one.at = "removed" /\ UNCHANGED <<callbacks, monitors, watched, doubt>>
      /\ Become(r, new)
      /\ one.ok => state' = [state EXCEPT !.monitors = {m \in state.monitors : m.id # gone}]
      /\ ~one.ok => state' = state
  BY <1>2, <1>3, <1>4 DEF ForgetMonitor, psa, At
<1>6. new.at = "removing"
  BY <1>1, <1>2, <1>4 DEF RequestState
<1>7. state \in State
  BY <1>1, TypeRest DEF Rest
<1>8. /\ state'.token = state.token /\ state'.callback = state.callback
      /\ state'.monitors \subseteq state.monitors
      /\ one.ok => \A m \in state'.monitors : m.id # gone
  <2>1. CASE one.ok
    <3>1. PICK kept : kept = {m \in state.monitors : m.id # gone}
      OBVIOUS
    <3>2. state' = [state EXCEPT !.monitors = kept]
      BY <1>5, <2>1, <3>1
    <3>3. state'.token = state.token /\ state'.callback = state.callback /\ state'.monitors = kept
      BY <1>7, <3>2 DEF State
    <3> QED
      BY <3>1, <3>3
  <2>2. CASE ~one.ok
    BY <1>5, <2>2
  <2> QED
    BY <2>1, <2>2
<1>9. ASSUME There(one) PROVE There(new)' /\ Covering(new)'
  <2>1. \A m \in state.monitors :
          /\ m.callback = state.callback /\ m.callback # None
          /\ m \in monitors \/ (one.ok /\ m.id = gone)
    BY <1>3, <1>9 DEF There
  <2>2. \A m \in state'.monitors :
           m.callback = state'.callback /\ m.callback # None /\ m \in monitors'
    BY <1>5, <1>8, <2>1
  <2>3. state.token = None => state.callback = None
    BY <1>9 DEF There
  <2>4. state'.callback # None => HasCallback(state.callback)'
    BY <1>5, <1>8, <1>9 DEF There, HasCallback
  <2>5. There(new)'
    BY <1>6, <1>8, <2>2, <2>3, <2>4 DEF There
  <2> QED
    BY <1>6, <2>5 DEF Covering
<1> QED
  BY <1>1, <1>2, <1>5, <1>9, GoesOn

\* The callback goes after the last monitor.
LEMMA DeleteCallbackPush == ASSUME PushInv, NEW r \in Requests, DeleteCallback(r) PROVE PushInv'
<1>1. IInv' /\ request[r] \in RequestState
  BY DeleteCallbackIInv, FitsAll DEF PushInv
<1>2. PICK one : one = request[r]
  OBVIOUS
<1>3. /\ one.at = "removing" /\ state.monitors = {} /\ state.callback # None
      /\ UNCHANGED <<state, watched>> /\ doubt \subseteq doubt'
  BY <1>2 DEF DeleteCallback, Deleted, At
<1>4. PICK ok \in BOOLEAN :
         /\ Become(r, [one EXCEPT !.at = "leaving", !.ok = ok])
         /\ doubt' = {} => ok \/ UNCHANGED callbacks
  BY <1>2 DEF DeleteCallback, Deleted, psa, At
<1>5. PICK new : new = [one EXCEPT !.at = "leaving", !.ok = ok]
  OBVIOUS
<1>6. new.at = "leaving" /\ new.ok = ok /\ Become(r, new)
  BY <1>1, <1>2, <1>4, <1>5 DEF RequestState
<1>7. ASSUME doubt' = {}, There(one) PROVE There(new)' /\ Covering(new)'
  <2>1. state.token = None => state.callback = None
    BY <1>7 DEF There
  <2>2. ok \/ HasCallback(state.callback)'
    BY <1>3, <1>4, <1>7 DEF There, HasCallback
  <2>3. There(new)'
    BY <1>3, <1>6, <2>1, <2>2 DEF There
  <2> QED
    BY <1>6, <2>3 DEF Covering
<1> QED
  BY <1>1, <1>2, <1>3, <1>6, <1>7, GoesOn

LEMMA KeepCallbackPush == ASSUME PushInv, NEW r \in Requests, KeepCallback(r) PROVE PushInv'
<1>1. IInv' /\ request[r] \in RequestState
  BY KeepCallbackIInv, FitsAll DEF PushInv
<1>2. PICK one : one = request[r]
  OBVIOUS
<1>3. PICK new : new = [one EXCEPT !.at = "leaving", !.ok = FALSE]
  OBVIOUS
<1>4. /\ one.at = "removing" /\ Become(r, new)
      /\ UNCHANGED <<callbacks, monitors, state, watched, doubt>>
  BY <1>2, <1>3 DEF KeepCallback, psa, At
<1>5. new.at = "leaving" /\ ~new.ok
  BY <1>1, <1>2, <1>3 DEF RequestState
<1>6. There(one) => There(new)' /\ Covering(new)'
  BY <1>4, <1>5 DEF There, Covering, HasCallback
<1> QED
  BY <1>1, <1>2, <1>4, <1>6, GoesOn

\* The callback that was removed isn't known any more.
LEMMA LeaveCallbackPush == ASSUME PushInv, NEW r \in Requests, LeaveCallback(r) PROVE PushInv'
<1>1. IInv' /\ IInv /\ request[r] \in RequestState
  BY LeaveCallbackIInv, FitsAll DEF PushInv
<1>2. PICK one : one = request[r]
  OBVIOUS
<1>3. PICK new : new = [one EXCEPT !.at = "ending"]
  OBVIOUS
<1>4. /\ one.at = "leaving" /\ Become(r, new)
      /\ UNCHANGED <<callbacks, monitors, watched, doubt>>
      /\ state' = IF one.ok THEN [state EXCEPT !.callback = None] ELSE state
  BY <1>2, <1>3 DEF LeaveCallback, Change, Goto, At, psa
<1>5. /\ state'.token = state.token /\ state'.monitors = state.monitors
      /\ state'.callback = IF one.ok THEN None ELSE state.callback
  BY <1>1, <1>4, TypeRest DEF Rest, State
<1>6. new.at = "ending"
  BY <1>1, <1>2, <1>3 DEF RequestState
<1>7. ASSUME There(one) PROVE There(new)' /\ Covering(new)'
  <2>1. CASE one.ok
    <3>1. state.monitors = {}
      BY <1>4, <1>7, <2>1 DEF There
    <3> QED
      BY <1>5, <1>6, <2>1, <3>1 DEF There, Covering
  <2>2. CASE ~one.ok
    BY <1>4, <1>5, <1>6, <1>7, <2>2 DEF There, Covering, HasCallback
  <2> QED
    BY <2>1, <2>2
<1> QED
  BY <1>1, <1>2, <1>4, <1>7, GoesOn

\* A removal in doubt is settled when nothing is left to know.
LEMMA EndDisablePush == ASSUME PushInv, NEW r \in Requests, EndDisable(r) PROVE PushInv'
<1>1. IInv'
  BY EndDisableIInv DEF PushInv
<1>2. PICK one : one = request[r]
  OBVIOUS
<1>3. /\ one.at = "ending" /\ Become(r, Idle) /\ UNCHANGED <<callbacks, monitors, state, watched>>
      /\ \/ doubt' = doubt
         \/ doubt' = doubt \ {"removed"} /\ state.monitors = {} /\ state.callback = None
  BY <1>2 DEF EndDisable, At, psa
<1>4. "created" \notin doubt' => "created" \notin doubt
  BY <1>3
<1>5. "created" \notin doubt => watched = None
  BY <1>2, <1>3 DEF PushInv, Quiet
<1>6. Idle.at = "idle"
  BY DEF Idle
<1>7. ASSUME doubt' = {} PROVE There(Idle)' /\ Covering(Idle)'
  <2>1. CASE state.monitors = {} /\ state.callback = None
    BY <1>3, <1>6, <2>1 DEF There, Covering
  <2>2. CASE doubt = {}
    <3>1. There(one)
      BY <1>2, <1>3, <2>2, ThereNow
    <3>2. There(Idle) /\ Covering(Idle)
      BY <1>3, <3>1, ThereIdle
    <3> QED
      BY <1>3, <1>6, <3>2 DEF There, Covering, HasCallback
  <2> QED
    BY <1>3, <1>7, <2>1, <2>2
<1> QED
  BY <1>1, <1>2, <1>3, <1>4, <1>5, <1>6, <1>7, WholeSteps

\* Two requests put everything in doubt.
LEMMA DumpRaisesPush == ASSUME PushInv, DiskInv, NEW r \in Requests, DumpRaises(r) PROVE PushInv'
<1>1. IInv' /\ IInv
  BY DumpRaisesIInv DEF PushInv
<1>2. Become(r, Idle) /\ UNCHANGED doubt /\ request[r].at # "idle" /\ ~Alone(r)
  BY DEF DumpRaises, DiskInv, Alone
<1>3. "created" \in doubt'
  BY <1>1, <1>2, Alone0
<1>4. doubt' # {}
  BY <1>3
<1> QED
  BY <1>1, <1>2, <1>3, <1>4, WholeSteps

LEMMA SavePush ==
    ASSUME PushInv, IInv', UNCHANGED <<psa, fresh, state, request, watched, doubt>>
    PROVE  PushInv'
<1>1. UNCHANGED <<callbacks, monitors, state, request, watched, doubt>>
  BY DEF psa
<1> QED
  BY <1>1 DEF PushInv, Alone, There, Covering, HasCallback, Posted, Known, Quiet

\* A restart that leaves nothing in doubt brings the same state back.
LEMMA CrashPush == ASSUME PushInv, DiskInv, Crash PROVE PushInv'
<1>1. IInv' /\ IInv
  BY CrashIInv DEF PushInv
<1>2. /\ request' = [q \in Requests |-> Idle] /\ state' = Loaded /\ watched' = None
      /\ UNCHANGED <<callbacks, monitors>>
  BY DEF Crash, psa
<1>3. Idle.at = "idle"
  BY DEF Idle
<1>4. ASSUME doubt' = {} PROVE \E q \in Requests : Alone(q)' /\ There(request[q])' /\ Covering(request[q])'
  <2>1. /\ doubt = {} /\ Loaded = state
        /\ \A q \in Requests : request[q].at \notin {"removed", "leaving"}
    BY <1>4 DEF Crash
  <2>2. PICK r \in Requests : Alone(r) /\ There(request[r])
    BY <2>1 DEF PushInv
  <2>3. PICK one : one = request[r]
    OBVIOUS
  <2>4. There(one) /\ one.at \notin {"removed", "leaving"}
    BY <2>1, <2>2, <2>3
  <2>5. There(Idle) /\ Covering(Idle)
    BY <2>4, ThereIdle
  <2>6. There(Idle)' /\ Covering(Idle)'
    BY <1>2, <1>3, <2>1, <2>5 DEF There, Covering, HasCallback
  <2>7. request'[r] = Idle
    BY <1>2
  <2>8. There(request[r])' /\ Covering(request[r])'
    BY <2>6, <2>7 DEF There, Covering, HasCallback, Posted, Known
  <2>9. Alone(r)'
    BY <1>2, <1>3 DEF Alone
  <2> QED
    BY <2>8, <2>9
<1> QED
  BY <1>1, <1>2, <1>4 DEF PushInv

LEMMA InitPush == Init => PushInv
<1> SUFFICES ASSUME Init PROVE PushInv
  OBVIOUS
<1>1. IInv
  BY InitIInv
<1>2. PICK r \in Requests : TRUE
  BY PushAssumption
<1>3. request = [q \in Requests |-> Idle] /\ state = Empty /\ watched = None
  BY DEF Init
<1>4. Alone(r) /\ There(request[r]) /\ Covering(request[r])
  BY <1>3 DEF Alone, There, Covering, Idle, Empty
<1> QED
  BY <1>1, <1>3, <1>4 DEF PushInv

LEMMA ServePush == ASSUME PushInv, DiskInv, NEW r \in Requests, Serve(r) PROVE PushInv'
<1>1. ASSUME Open(r) \/ OpenFails(r) \/ Dump(r) \/ Write(r) \/ WriteFails(r) PROVE PushInv'
  <2>1. UNCHANGED <<psa, fresh, state, request, watched, doubt>> /\ IInv'
    BY <1>1, ServeIInv DEF Open, OpenFails, Dump, Write, WriteFails, PushInv, Serve
  <2> QED
    BY <2>1, SavePush
<1> QED
  BY <1>1, EnablePush, EnableFirstPush, CheckCallbackPush, PostCallbackPush, RefuseCallbackPush,
     StoreCallbackPush, ListMissingPush, PostMonitorPush, RefuseMonitorPush, StoreMonitorPush,
     EndEnablePush, DisablePush, DeleteMonitorPush, ForgetMonitorPush, DeleteCallbackPush,
     KeepCallbackPush, LeaveCallbackPush, EndDisablePush, DumpRaisesPush DEF Serve

\* The inductive invariant of what is at PSA, for any requests, cars and groups.
THEOREM PushInvAlways == Spec => []PushInv
<1>1. PushInv /\ UNCHANGED vars => PushInv'
  <2> SUFFICES ASSUME PushInv, UNCHANGED vars PROVE PushInv'
    OBVIOUS
  <2>1. UNCHANGED <<callbacks, monitors, fresh, state, request, watched, doubt, troubles>>
    BY DEF vars, psa
  <2>2. IInv'
    BY <2>1 DEF PushInv, IInv, PsaTypeOK, Positions, KnownBy, Alone, MonitorOf
  <2> QED
    BY <2>1, <2>2 DEF PushInv, Alone, There, Covering, HasCallback, Posted, Known, Quiet
<1>2. PushInv /\ DiskInv /\ Next => PushInv'
  BY CrashPush, ServePush DEF Next
<1> QED
  BY <1>1, <1>2, InitPush, IInvAlways, PTL DEF Spec

LEMMA KnownWhenQuiet == PushInv => KnownIsThere
<1> SUFFICES ASSUME PushInv, Quiet, doubt = {}
             PROVE  /\ state.monitors \subseteq monitors
                    /\ \A m \in state.monitors : m.callback = state.callback
                    /\ state.callback # None => /\ state.callback \in DOMAIN callbacks
                                                /\ callbacks[state.callback] = state.token
  BY DEF KnownIsThere
<1>1. PICK r \in Requests : There(request[r])
  BY DEF PushInv
<1>2. request[r].at = "idle"
  BY DEF Quiet
<1> QED
  BY <1>1, <1>2 DEF There, HasCallback

\* What the state knows is at PSA with the token psacc accepts, whatever the number of
\* requests, while nothing is in doubt.
THEOREM KnownIsThereAlways == Spec => []KnownIsThere
BY PushInvAlways, KnownWhenQuiet, PTL

\* The push that psacc believes in is the one PSA has, and a request to enable that PSA
\* granted leaves each group watched: in an account of one car, as the groups that are
\* missing are looked for whatever the car.
THEOREM PushIsWholeAlways == OneCar => (Spec => []PushIsWhole)
<1> SUFFICES ASSUME OneCar PROVE Spec => []PushIsWhole
  OBVIOUS
<1>1. PushInv => PushIsWhole
  <2> SUFFICES ASSUME PushInv PROVE PushIsWhole
    OBVIOUS
  <2>1. KnownIsThere
    BY KnownWhenQuiet
  <2>2. EnabledIsWatched
    <3> SUFFICES ASSUME Quiet, doubt = {}, watched # None, NEW g \in Groups
                 PROVE  \E m \in monitors : m.car = watched /\ m.label = g
      BY DEF EnabledIsWatched
    <3>1. PICK m \in state.monitors : m.label = g
      BY DEF PushInv, Known
    <3>2. m \in monitors
      BY <2>1, <3>1 DEF KnownIsThere
    <3>3. m.car \in Cars /\ watched \in Cars
      BY <3>2, TypeRest DEF PushInv, Rest, Monitor
    <3> QED
      BY <3>1, <3>2, <3>3 DEF OneCar
  <2> QED
    BY <2>1, <2>2 DEF PushIsWhole
<1> QED
  BY <1>1, PushInvAlways, PTL
=============================================================================
