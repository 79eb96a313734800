---------------------------- MODULE ChargeControl ----------------------------
(***************************************************************************)
(* The charge control of one car (psacc/application/charge_control.py):     *)
(* it stops a charge that reaches a threshold, or that passes an hour.      *)
(*                                                                         *)
(* process runs after each refresh and from a timer armed for the stop      *)
(* hour, in threads of their own, so that two can run at once; the hour is  *)
(* set by the threads of the web server.  A step is a statement or a few    *)
(* that touch one shared attribute.  Hours are slots of a day of Day slots. *)
(*                                                                         *)
(* A control without a threshold is one whose car never reaches it.  The    *)
(* wake-ups and the postponing of the scheduled hour change nothing here.   *)
(***************************************************************************)
EXTENDS Integers, FiniteSets

CONSTANTS Processors,    \* the threads that run process
          Setters,       \* the threads that serve /charge_control
          Hours,         \* the stop hours they set; hour 0 stands for none
          FirstStop,     \* the first stop, or NoStop
          NoStop,        \* _next_stop_hour is None
          NoStatus,      \* the car has no status
          Day,           \* the slots of a day
          UnseenRestart, \* whether a charge may restart before it was seen stopped
          MaxLost,       \* bound: the orders and the statuses that are lost
          MaxRetry,      \* bound: where retry_count and tried stop counting
          MaxTime        \* bound: the clock

ASSUME ControlAssumption ==
    /\ Day \in Nat \ {0}
    /\ IsFiniteSet(Processors) /\ Processors # {}
    /\ IsFiniteSet(Setters)
    /\ Hours \subseteq 1..(Day - 1)
    /\ NoStop \notin Int
    /\ FirstStop \in (1..(Day - 1)) \cup {NoStop}
    /\ UnseenRestart \in BOOLEAN
    /\ MaxLost \in Nat
    /\ MaxRetry \in Nat
    /\ MaxTime \in Nat

VARIABLES
    now,     \* the clock
    car,     \* the car: whether it charges, and has reached the threshold (external)
    order,   \* the orders to stop on their way to the car, 2 for any more (external)
    lost,    \* the orders and statuses lost (external)
    seen,    \* the last status fetched
    next,    \* _next_stop_hour
    retry,   \* retry_count
    tried,   \* history: the orders sent for the threshold since retry was last reset
    proc,    \* the processors: their position and whether they try the threshold
    setter   \* the setters: their position

vars == <<now, car, order, lost, seen, next, retry, tried, proc, setter>>

Status == [charging: BOOLEAN, reached: BOOLEAN]

ProcState == [at: {"idle", "advance", "send", "wait", "resend", "reset"},
              charging: BOOLEAN, threshold: BOOLEAN]

TypeOK ==
    /\ now \in Nat
    /\ car \in Status
    /\ order \in 0..2
    /\ lost \in Nat
    /\ seen \in Status \cup {NoStatus}
    /\ next \in Nat \cup {NoStop}
    /\ retry \in Nat
    /\ tried \in Nat
    /\ proc \in [Processors -> ProcState]
    /\ setter \in [Setters -> {"idle", "compare", "plus"}]

Init ==
    /\ now = 0
    /\ car = [charging |-> FALSE, reached |-> FALSE]
    /\ order = 0
    /\ lost = 0
    /\ seen = NoStatus
    /\ next = FirstStop
    /\ retry = 0
    /\ tried = 0
    /\ proc = [p \in Processors |-> [at |-> "idle", charging |-> FALSE, threshold |-> FALSE]]
    /\ setter = [s \in Setters |-> "idle"]

-----------------------------------------------------------------------------
(* The clock, the car and its status *)

Tick ==
    /\ now < MaxTime
    /\ now' = now + 1
    /\ UNCHANGED <<car, order, lost, seen, next, retry, tried, proc, setter>>

Plug ==
    /\ ~car.charging
    /\ UnseenRestart \/ retry = 0
    /\ car' = [car EXCEPT !.charging = TRUE]
    /\ UNCHANGED <<now, order, lost, seen, next, retry, tried, proc, setter>>

Unplug ==
    /\ car.charging
    /\ car' = [car EXCEPT !.charging = FALSE]
    /\ UNCHANGED <<now, order, lost, seen, next, retry, tried, proc, setter>>

\* The level passes the threshold in a charge, and comes back below on the road.
LevelPasses ==
    /\ car.reached = ~car.charging
    /\ car' = [car EXCEPT !.reached = ~@]
    /\ UNCHANGED <<now, order, lost, seen, next, retry, tried, proc, setter>>

Obey ==
    /\ order > 0
    /\ order' = order - 1
    /\ car' = [car EXCEPT !.charging = FALSE]
    /\ UNCHANGED <<now, lost, seen, next, retry, tried, proc, setter>>

Lose ==
    /\ order > 0
    /\ lost < MaxLost
    /\ order' = order - 1
    /\ lost' = lost + 1
    /\ UNCHANGED <<now, car, seen, next, retry, tried, proc, setter>>

\* get_vehicle_info, by any thread: car.status is None when it fails.
Fetch ==
    /\ seen' = car
    /\ UNCHANGED <<now, car, order, lost, next, retry, tried, proc, setter>>

FetchFails ==
    /\ lost < MaxLost
    /\ lost' = lost + 1
    /\ seen' = NoStatus
    /\ UNCHANGED <<now, car, order, next, retry, tried, proc, setter>>

-----------------------------------------------------------------------------
(* process *)

\* One more, up to a bound.
UpTo(bound, n) == IF n < bound THEN n + 1 ELSE n

Goto(p, at) == proc' = [proc EXCEPT ![p].at = at]

Due == next # NoStop /\ next < now

\* Variant: one attempt too many.
MayTryOnceMore == retry < 3

MayTry == retry < 2

\* The threshold is reached: stop the charge.
ReachThreshold(p) ==
    /\ proc[p].at = "idle"
    /\ seen # NoStatus
    /\ seen.charging
    /\ seen.reached
    /\ MayTry
    /\ proc' = [proc EXCEPT ![p] = [at |-> "send", charging |-> TRUE, threshold |-> TRUE]]
    /\ UNCHANGED <<now, car, order, lost, seen, next, retry, tried, setter>>

\* Otherwise the hour is passed: the next stop is moved on, then the charge is stopped.
PassHour(p) ==
    /\ proc[p].at = "idle"
    /\ seen # NoStatus
    /\ seen.charging => ~(seen.reached /\ MayTry)
    /\ Due
    /\ proc' = [proc EXCEPT ![p] = [at |-> "advance", charging |-> seen.charging, threshold |-> FALSE]]
    /\ UNCHANGED <<now, car, order, lost, seen, next, retry, tried, setter>>

\* Variant: two days are added.
AdvanceTwoDays(p) ==
    /\ proc[p].at = "advance"
    /\ next' = IF next = NoStop THEN next ELSE next + 2 * Day
    /\ Goto(p, IF next = NoStop THEN "idle" ELSE IF proc[p].charging THEN "send" ELSE "reset")
    /\ UNCHANGED <<now, car, order, lost, seen, retry, tried, setter>>

\* A day is added to what is there now; to None it is a TypeError, that ends it.
Advance(p) ==
    /\ proc[p].at = "advance"
    /\ next' = IF next = NoStop THEN next ELSE next + Day
    /\ Goto(p, IF next = NoStop THEN "idle" ELSE IF proc[p].charging THEN "send" ELSE "reset")
    /\ UNCHANGED <<now, car, order, lost, seen, retry, tried, setter>>

\* The car doesn't charge and no stop has passed.
SeeIdle(p) ==
    /\ proc[p].at = "idle"
    /\ seen # NoStatus
    /\ ~seen.charging
    /\ ~Due
    /\ Goto(p, "reset")
    /\ UNCHANGED <<now, car, order, lost, seen, next, retry, tried, setter>>

Reset(p) ==
    /\ proc[p].at = "reset"
    /\ retry' = 0
    /\ tried' = 0
    /\ Goto(p, "idle")
    /\ UNCHANGED <<now, car, order, lost, seen, next, setter>>

\* One more order for the threshold.
CountedTries(p) == IF proc[p].threshold THEN UpTo(MaxRetry, tried) ELSE tried

\* charge_now(False), then a minute to wait.
Send(p) ==
    /\ proc[p].at = "send"
    /\ seen # NoStatus
    /\ order' = UpTo(2, order)
    /\ retry' = UpTo(MaxRetry, retry)
    /\ tried' = CountedTries(p)
    /\ Goto(p, "wait")
    /\ UNCHANGED <<now, car, lost, seen, next, setter>>

\* charge_now reads the status again for the scheduled hour: None raises, and
\* process ends.
SendRaises(p) ==
    /\ proc[p].at \in {"send", "resend"}
    /\ seen = NoStatus
    /\ Goto(p, "idle")
    /\ UNCHANGED <<now, car, order, lost, seen, next, retry, tried, setter>>

\* The charge has stopped.
Confirm(p) ==
    /\ proc[p].at = "wait"
    /\ ~car.charging
    /\ seen' = car
    /\ retry' = 0
    /\ tried' = 0
    /\ Goto(p, "idle")
    /\ UNCHANGED <<now, car, order, lost, next, setter>>

\* It goes on.
Insist(p) ==
    /\ proc[p].at = "wait"
    /\ car.charging
    /\ seen' = car
    /\ Goto(p, "resend")
    /\ UNCHANGED <<now, car, order, lost, next, retry, tried, setter>>

\* Variant: the second order is counted, never sent.
ResendUnsent(p) ==
    /\ proc[p].at = "resend"
    /\ seen # NoStatus
    /\ retry' = UpTo(MaxRetry, retry)
    /\ Goto(p, "idle")
    /\ UNCHANGED <<now, car, order, lost, seen, next, tried, setter>>

Resend(p) ==
    /\ proc[p].at = "resend"
    /\ seen # NoStatus
    /\ order' = UpTo(2, order)
    /\ retry' = UpTo(MaxRetry, retry)
    /\ tried' = CountedTries(p)
    /\ Goto(p, "idle")
    /\ UNCHANGED <<now, car, lost, seen, next, setter>>

\* The status can't be had: process ends.
WaitRaises(p) ==
    /\ proc[p].at = "wait"
    /\ lost < MaxLost
    /\ lost' = lost + 1
    /\ seen' = NoStatus
    /\ Goto(p, "idle")
    /\ UNCHANGED <<now, car, order, next, retry, tried, setter>>

Process(p) ==
    \/ ReachThreshold(p)
    \/ PassHour(p)
    \/ Advance(p)
    \/ SeeIdle(p)
    \/ Reset(p)
    \/ Send(p)
    \/ SendRaises(p)
    \/ Confirm(p)
    \/ Insist(p)
    \/ Resend(p)
    \/ WaitRaises(p)

-----------------------------------------------------------------------------
(* set_stop_hour *)

Today(h) == (now \div Day) * Day + h

\* The stop is first set to today.
SetToday(s) ==
    /\ setter[s] = "idle"
    /\ \E h \in Hours : next' = Today(h)
    /\ setter' = [setter EXCEPT ![s] = "compare"]
    /\ UNCHANGED <<now, car, order, lost, seen, retry, tried, proc>>

ClearStop(s) ==
    /\ setter[s] = "idle"
    /\ Hours # {}
    /\ next' = NoStop
    /\ UNCHANGED <<now, car, order, lost, seen, retry, tried, proc, setter>>

\* Then compared; a day is added when it has passed.
Compare(s) ==
    /\ setter[s] = "compare"
    /\ setter' = [setter EXCEPT ![s] = IF Due THEN "plus" ELSE "idle"]
    /\ UNCHANGED <<now, car, order, lost, seen, next, retry, tried, proc>>

PlusDay(s) ==
    /\ setter[s] = "plus"
    /\ next' = IF next = NoStop THEN next ELSE next + Day
    /\ setter' = [setter EXCEPT ![s] = "idle"]
    /\ UNCHANGED <<now, car, order, lost, seen, retry, tried, proc>>

SetHour(s) == SetToday(s) \/ ClearStop(s) \/ Compare(s) \/ PlusDay(s)

Next ==
    \/ Tick \/ Plug \/ Unplug \/ LevelPasses \/ Obey \/ Lose
    \/ Fetch \/ FetchFails
    \/ \E p \in Processors : Process(p)
    \/ \E s \in Setters : SetHour(s)

Spec == Init /\ [][Next]_vars

\* The refresh fetches the status, and runs process, again and again; an order
\* that isn't lost is obeyed.
FairSpec ==
    /\ Spec
    /\ WF_vars(Fetch)
    /\ WF_vars(Obey)
    /\ \A p \in Processors : WF_vars(Process(p))

-----------------------------------------------------------------------------

\* The threads that have seen that the stop has passed, and add a day to it.
AddingProcessors == {p \in Processors : proc[p].at = "advance"}

AddingSetters == {s \in Setters : setter[s] = "plus"}

\* The inductive invariant of NextStopIsBounded: it counts the days to come.
IInv ==
    /\ TypeOK
    /\ next # NoStop =>
          next + Day * (Cardinality(AddingProcessors) + Cardinality(AddingSetters))
              <= now + Day * (Cardinality(Processors) + Cardinality(Setters))

\* The next stop is as many days ahead as there are threads, at most: each that
\* adds a day to a stop another has moved on puts it off by one more day.
NextStopIsBounded ==
    next # NoStop => next <= now + Day * (Cardinality(Processors) + Cardinality(Setters))

\* A car that doesn't obey at the threshold is sent two orders, and at most one
\* before and two more for each thread that was trying already, whatever the
\* stop hour adds to the same count.
OrdersAreBounded == tried <= 1 + 2 * Cardinality(Processors)

\* The threads that try the threshold, and those of them that will send two orders.
Trying == {p \in Processors : proc[p].threshold /\ proc[p].at \in {"send", "wait", "resend"}}

Beginning == {p \in Processors : proc[p].threshold /\ proc[p].at = "send"}

\* The inductive invariant of OrdersAreBounded: it counts the orders to come, and
\* an order for the threshold never escapes the count that stops the tries.
OrdersInv ==
    /\ IInv
    /\ tried <= retry
    /\ \A p \in Processors : proc[p].at = "advance" => ~proc[p].threshold
    /\ tried + Cardinality(Trying) + Cardinality(Beginning) <= 1 + 2 * Cardinality(Processors)

\* If at most one order or status is lost, a charge past the threshold stops,
\* when each charge starts after the control has seen the last one stop.
ThresholdStops == (car.charging /\ car.reached) ~> ~car.charging
=============================================================================
