------------------------------ MODULE Refresh ------------------------------
(***************************************************************************)
(* The loop that refreshes the cars (psacc/application/psa_client.py) and   *)
(* the threads that start it (psacc/application/car_controller.py).         *)
(*                                                                         *)
(* __refresh_vehicle_info runs in the thread of a threading.Timer, or in    *)
(* the first thread that asks for it.  It makes the timer of the next       *)
(* refresh before it works: an actor is in its beginning until that timer is     *)
(* started, then gets the cars and calls the callbacks, one by one.  A      *)
(* refresh may last longer than the delay, so that several run at once; the *)
(* attribute refresh_thread is read again by each statement that uses it.   *)
(*                                                                         *)
(* A callback is the process of a charge control; each connection of the    *)
(* remote control loads the controls again and adds theirs.                 *)
(***************************************************************************)
EXTENDS Integers, FiniteSets, Sequences

CONSTANTS Callers,  \* the threads that start the remote control
          Timers,   \* bound: the timers there are at once
          NoTimer,  \* refresh_thread is None
          NumCars,  \* the cars of vehicles_list
          MaxLoads  \* bound: the times the controls are loaded

ASSUME RefreshAssumption ==
    /\ IsFiniteSet(Callers)
    /\ IsFiniteSet(Timers)
    /\ Callers \cap Timers = {}
    /\ NoTimer \notin Timers
    /\ NumCars \in Nat
    /\ MaxLoads \in Nat

VARIABLES
    refresh_thread, \* the last timer made
    timerState,          \* the state of each Timer
    step,             \* where each caller, and the thread of each timer, is
    pos,            \* the car, or the callback, it works on
    info_callback,  \* the callbacks: the load of the controls each comes from
    chc,            \* the last load of the controls, 0 for none
    served          \* history: whether the controls of the last load have run

loopVars == <<refresh_thread, timerState, step, pos, info_callback, chc, served>>

Actors == Callers \cup Timers
Cars == 1..NumCars
Loads == 1..MaxLoads

\* The steps from the start of a refresh to the start of the next timer.
Beginning == {"check", "cancel", "create", "start"}

LoopTypeOK ==
    /\ refresh_thread \in Timers \cup {NoTimer}
    /\ timerState \in [Timers -> {"new", "cut", "waiting", "running", "dead"}]
    /\ step \in [Actors -> Beginning \cup {"idle", "init", "ask", "cars", "calls"}]
    /\ pos \in [Actors -> Nat]
    /\ info_callback \in Seq(Loads)
    /\ chc \in 0..MaxLoads
    /\ served \in BOOLEAN

LoopInit ==
    /\ refresh_thread = NoTimer
    /\ timerState = [t \in Timers |-> "dead"]
    /\ step = [a \in Actors |-> "idle"]
    /\ pos = [a \in Actors |-> 0]
    /\ info_callback = <<>>
    /\ chc = 0
    /\ served = FALSE

MoveTo(a, place) == step' = [step EXCEPT ![a] = place]

\* An actor ends: a caller goes back to what it did, the thread of a timer ends.
Leave(a) ==
    /\ MoveTo(a, "idle")
    /\ pos' = [pos EXCEPT ![a] = 0]
    /\ timerState' = IF a \in Timers THEN [timerState EXCEPT ![a] = "dead"] ELSE timerState

-----------------------------------------------------------------------------
(* The callers *)

\* load_app with a refresh rate: start_refresh_thread alone.
LoadApp(c) ==
    /\ step[c] = "idle"
    /\ refresh_thread = NoTimer
    /\ MoveTo(c, "ask")
    /\ UNCHANGED <<refresh_thread, timerState, pos, info_callback, chc, served>>

\* start_remote_control connects and loads the controls.
LoadControls(c) ==
    /\ step[c] = "idle"
    /\ chc < MaxLoads
    /\ chc' = chc + 1
    /\ served' = FALSE
    /\ MoveTo(c, "init")
    /\ UNCHANGED <<refresh_thread, timerState, pos, info_callback>>

\* Variant: the callbacks are added only where the loop is started.
InitUnlessStarted(c) ==
    /\ step[c] = "init"
    /\ info_callback' = IF refresh_thread = NoTimer THEN Append(info_callback, chc) ELSE info_callback
    /\ MoveTo(c, "ask")
    /\ UNCHANGED <<refresh_thread, timerState, pos, chc, served>>

\* init, called on what chc is now: its controls are added to the callbacks.
InitControls(c) ==
    /\ step[c] = "init"
    /\ info_callback' = Append(info_callback, chc)
    /\ MoveTo(c, "ask")
    /\ UNCHANGED <<refresh_thread, timerState, pos, chc, served>>

\* Variant: a refresh that is started already is started once more.
StartRefreshAlways(c) ==
    /\ step[c] = "ask"
    /\ MoveTo(c, "check")
    /\ UNCHANGED <<refresh_thread, timerState, pos, info_callback, chc, served>>

\* start_refresh_thread: the first refresh runs in the thread that asks.
StartRefreshThread(c) ==
    /\ step[c] = "ask"
    /\ MoveTo(c, IF refresh_thread = NoTimer THEN "check" ELSE "idle")
    /\ UNCHANGED <<refresh_thread, timerState, pos, info_callback, chc, served>>

-----------------------------------------------------------------------------
(* The beginning of __refresh_vehicle_info *)

\* The delay of a timer has passed.
Fire(t) ==
    /\ timerState[t] = "waiting"
    /\ timerState' = [timerState EXCEPT ![t] = "running"]
    /\ MoveTo(t, "check")
    /\ UNCHANGED <<refresh_thread, pos, info_callback, chc, served>>

\* Variant: a timer still alive is left to do the work.
CheckReturns(a) ==
    /\ step[a] = "check"
    /\ IF refresh_thread # NoTimer /\ timerState[refresh_thread] \in {"waiting", "running"}
       THEN Leave(a)
       ELSE MoveTo(a, "create") /\ UNCHANGED <<timerState, pos>>
    /\ UNCHANGED <<refresh_thread, info_callback, chc, served>>

\* Is there a timer, alive?
Check(a) ==
    /\ step[a] = "check"
    /\ MoveTo(a, IF refresh_thread # NoTimer /\ timerState[refresh_thread] \in {"waiting", "running"}
               THEN "cancel" ELSE "create")
    /\ UNCHANGED <<refresh_thread, timerState, pos, info_callback, chc, served>>

Cancelled(state) ==
    CASE state = "waiting" -> "dead"
      [] state = "new" -> "cut"
      [] OTHER -> state

\* Whatever timer is there now is cancelled: one that waits never fires, one that
\* isn't started yet ends when it is, and one that runs goes on.
Cancel(a) ==
    /\ step[a] = "cancel"
    /\ timerState' = [timerState EXCEPT ![refresh_thread] = Cancelled(@)]
    /\ MoveTo(a, "create")
    /\ UNCHANGED <<refresh_thread, pos, info_callback, chc, served>>

\* The timers that have ended, or were replaced before they were started.
Spare == {t \in Timers : t # refresh_thread /\ timerState[t] = "dead"}

Create(a) ==
    /\ step[a] = "create"
    /\ Spare # {}
    /\ refresh_thread' = CHOOSE t \in Spare : TRUE
    /\ timerState' = [t \in Timers |-> CASE t = refresh_thread' -> "new"
                                     [] timerState[t] \in {"new", "cut"} -> "dead"
                                     [] OTHER -> timerState[t]]
    /\ MoveTo(a, "start")
    /\ UNCHANGED <<pos, info_callback, chc, served>>

Unstarted == timerState[refresh_thread] \in {"new", "cut"}

\* daemon is set, then start is called, on the timer that is there now.
StartTimer(a) ==
    /\ step[a] = "start"
    /\ Unstarted
    /\ timerState' = [timerState EXCEPT ![refresh_thread] = IF @ = "new" THEN "waiting" ELSE "dead"]
    /\ step' = [step EXCEPT ![a] = "cars"]
    /\ pos' = [pos EXCEPT ![a] = 1]
    /\ UNCHANGED <<refresh_thread, info_callback, chc, served>>

\* Another actor has made one since, and started it: both raise a RuntimeError,
\* and nothing catches it.
StartRaises(a) ==
    /\ step[a] = "start"
    /\ ~Unstarted
    /\ Leave(a)
    /\ UNCHANGED <<refresh_thread, info_callback, chc, served>>

-----------------------------------------------------------------------------
(* The work *)

\* The last car is done: the callbacks come next.
NextCar(a) ==
    /\ step' = [step EXCEPT ![a] = IF pos[a] < NumCars THEN "cars" ELSE "calls"]
    /\ pos' = [pos EXCEPT ![a] = IF @ < NumCars THEN @ + 1 ELSE 1]

\* get_vehicle_info: a status, or none after an ApiException for each of its two
\* attempts.
GetCar(a) ==
    /\ step[a] = "cars"
    /\ pos[a] \in Cars
    /\ NextCar(a)
    /\ UNCHANGED <<refresh_thread, timerState, info_callback, chc, served>>

\* Variant: the exception stops the loop.
GetCarStops(a) ==
    /\ step[a] = "cars"
    /\ pos[a] \in Cars
    /\ MoveTo(a, "idle")
    /\ pos' = [pos EXCEPT ![a] = 0]
    /\ timerState' = [t \in Timers |-> IF t \in {a, refresh_thread} THEN "dead" ELSE timerState[t]]
    /\ UNCHANGED <<refresh_thread, info_callback, chc, served>>

\* Any other exception, of the request or of record_info, ends this refresh: the
\* cars and callbacks that are left are skipped.
GetCarRaises(a) ==
    /\ step[a] = "cars"
    /\ pos[a] \in Cars
    /\ Leave(a)
    /\ UNCHANGED <<refresh_thread, info_callback, chc, served>>

\* The controls catch what they raise.  The list is read as it is now: the
\* callbacks added meanwhile are called too.
Call(a) ==
    /\ step[a] = "calls"
    /\ pos[a] <= Len(info_callback)
    /\ served' = (served \/ info_callback[pos[a]] = chc)
    /\ pos' = [pos EXCEPT ![a] = @ + 1]
    /\ UNCHANGED <<refresh_thread, timerState, step, info_callback, chc>>

EndWork(a) ==
    /\ step[a] = "calls"
    /\ pos[a] > Len(info_callback)
    /\ Leave(a)
    /\ UNCHANGED <<refresh_thread, info_callback, chc, served>>

-----------------------------------------------------------------------------

\* What a caller decides; the connections are not asked for for ever.
Decide(c) == LoadApp(c) \/ LoadControls(c)

\* What a thread that runs does next.
GoOn(a) ==
    \/ a \in Callers /\ (InitControls(a) \/ StartRefreshThread(a))
    \/ a \in Timers /\ Fire(a)
    \/ Check(a) \/ Cancel(a) \/ Create(a) \/ StartTimer(a) \/ StartRaises(a)
    \/ GetCar(a) \/ GetCarRaises(a) \/ Call(a) \/ EndWork(a)

LoopNext ==
    \/ \E c \in Callers : Decide(c)
    \/ \E a \in Actors : GoOn(a)

LoopSpec == LoopInit /\ [][LoopNext]_loopVars

\* A timer fires, late or not, and a thread goes on.  A car raises as often as it
\* likes, but not each time it is asked for.
LoopFairSpec ==
    /\ LoopSpec
    /\ \A a \in Actors : WF_loopVars(GoOn(a))
    /\ \A c \in Cars : SF_loopVars(\E a \in Actors : pos[a] = c /\ GetCar(a))

-----------------------------------------------------------------------------

Waiting == {t \in Timers : timerState[t] = "waiting"}
Starting == {a \in Actors : step[a] \in Beginning}

\* Once started the refresh never dies: a timer that will fire, or a thread about
\* to start one, is always there, whoever cancels whose timer, however many
\* threads start the loop at once and whatever the work raises.
ChainAlive == refresh_thread # NoTimer => Waiting # {} \/ Starting # {}

\* Each thread that found no timer adds one refresh, and no refresh that runs
\* late or overlaps another adds any.
RefreshesAreBounded == Cardinality(Waiting) + Cardinality(Starting) <= Cardinality(Callers)

\* Who keeps the loop alive: the last timer made, the thread that starts it or
\* makes another, or its own thread, about to make the next one.
Pledged ==
    \/ timerState[refresh_thread] = "waiting"
    \/ \E a \in Actors : step[a] = "create"
    \/ timerState[refresh_thread] = "new" /\ \E a \in Actors : step[a] = "start"
    \/ timerState[refresh_thread] = "running" /\ step[refresh_thread] \in {"check", "cancel"}

\* The thread of a timer runs while the timer does, and asks for nothing.
ThreadsMatch ==
    /\ \A t \in Timers : /\ timerState[t] = "running" <=> step[t] # "idle"
                         /\ step[t] \notin {"init", "ask"}
    /\ \A a \in Actors : /\ step[a] \in {"cancel", "start"} => refresh_thread # NoTimer
                         /\ step[a] = "init" => chc # 0

\* Before the first timer only callers start the loop.
LoopIsPledged ==
    IF refresh_thread = NoTimer THEN Waiting = {} /\ Starting \subseteq Callers ELSE Pledged

\* The inductive invariant of both.
LoopInv == LoopTypeOK /\ ThreadsMatch /\ LoopIsPledged /\ RefreshesAreBounded

\* Every car is asked for again and again, whatever raises, as long as none does
\* each time.
CarsAreRefreshed ==
    \A c \in Cars : refresh_thread # NoTimer ~> \E a \in Actors : step[a] = "cars" /\ pos[a] = c

\* The controls loaded last are run.
ControlsRun == chc # 0 ~> served
=============================================================================
