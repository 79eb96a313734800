----------------------------- MODULE Dashboard -----------------------------
(***************************************************************************)
(* The dashboard and the connection every thread shares: close calls        *)
(* update_trips when something was written (psacc/repository/db.py), which  *)
(* reads the trips and charges again and drops the cached page              *)
(* (web/view/views.py).                                                     *)
(*                                                                         *)
(* The writers are the threads that record; the view is the thread that     *)
(* imports views.py, reads the trips and subscribes; the visitors ask for   *)
(* the page.  What the page shows is the set of the charges that were read. *)
(* A step is a stretch of a thread between two accesses to what they share. *)
(***************************************************************************)
EXTENDS Database

CONSTANTS Writers, Visitors, View, NoThread, NoLayout

Threads == Writers \cup Visitors \cup {View}

ASSUME DashboardAssumption == View \notin Writers \cup Visitors /\ Writers \cap Visitors = {}

VARIABLES
    at,           \* where each thread is
    got,          \* the callback it has read and will set
    built,        \* the charges of the page a visitor builds
    callback_fct, \* Database.callback_fct: "nothing" or "update_trips"
    callbacks,    \* the callbacks of the connection
    changes,      \* total_changes of the connection
    noted,        \* change_since_last_close
    updating,     \* the thread that holds no_concurrent_update_trip
    data,         \* the charges update_trips has read
    data_ready,   \* DATA_READY is set
    cached_layout,\* the charges the cached page shows
    alone,        \* history: the threads beside which none has run
    watched,      \* history: the view subscribed beside no other thread
    calm          \* history: the last change was closed alone, and nothing overlapped since

connVars == <<callback_fct, callbacks, changes, noted>>
tripVars == <<updating, data, data_ready>>
histVars == <<alone, watched, calm>>
viewVars == <<at, got, built, connVars, tripVars, cached_layout, histVars>>

ThreadPlaces == {"idle", "clear", "add", "write", "close", "lock", "reclear", "readd", "read",
                 "reset", "release", "raise", "after", "note", "subclear", "subadd", "served",
                 "look", "wait", "build", "cache", "return"}

ViewTypeOK ==
    /\ at \in [Threads -> ThreadPlaces]
    /\ got \in [Threads -> {"", "nothing", "update_trips"}]
    /\ built \in [Visitors -> SUBSET Charges]
    /\ callback_fct \in {"nothing", "update_trips"}
    /\ callbacks \in SUBSET {"nothing", "update_trips"}
    /\ changes \in Nat /\ noted \in Nat
    /\ updating \in Threads \cup {NoThread}
    /\ data \in SUBSET Charges
    /\ data_ready \in BOOLEAN
    /\ cached_layout \in {NoLayout} \cup SUBSET Charges
    /\ alone \in SUBSET Threads
    /\ watched \in BOOLEAN /\ calm \in BOOLEAN

\* The memory of a process that starts.
Fresh ==
    [at    |-> [t \in Threads |-> "idle"],
     got   |-> [t \in Threads |-> ""],
     built |-> [v \in Visitors |-> {}]]

ViewInit ==
    /\ DbInit
    /\ at = Fresh.at /\ got = Fresh.got /\ built = Fresh.built
    /\ callback_fct = "nothing" /\ callbacks = {"nothing"}
    /\ changes = 0 /\ noted = 0
    /\ updating = NoThread
    /\ data = {} /\ data_ready = FALSE /\ cached_layout = NoLayout
    /\ alone = {} /\ watched = FALSE /\ calm = TRUE

Busy == {t \in Threads : at[t] \notin {"idle", "served"}}

MoveOn(t, place) == at' = [at EXCEPT ![t] = place]

\* A thread begins, beside those that are busy.
Enter(t, place) ==
    /\ phase = "ready"
    /\ at[t] = "idle"
    /\ MoveOn(t, place)
    /\ alone' = IF Busy = {} THEN {t} ELSE {}
    /\ calm' = (calm /\ Busy = {})
    /\ UNCHANGED <<dbVars, built, tripVars, connVars, cached_layout, watched>>

-----------------------------------------------------------------------------
(* get_db and set_db_callback *)

\* get_db has read the callback: its caller sets it again.  The lock of the
\* database is held from the clear to the add.
ClearCallbacks(t) ==
    /\ at[t] \in {"clear", "reclear", "subclear"}
    /\ \A u \in Threads : at[u] \notin {"add", "readd", "subadd"}
    /\ callbacks' = {}
    /\ MoveOn(t, CASE at[t] = "clear" -> "add" [] at[t] = "reclear" -> "readd" [] OTHER -> "subadd")
    /\ UNCHANGED <<dbVars, got, built, callback_fct, changes, noted, tripVars, cached_layout, histVars>>

AddCallback(t) ==
    /\ at[t] \in {"add", "readd", "subadd"}
    /\ callbacks' = {got[t]}
    /\ callback_fct' = got[t]
    /\ got' = [got EXCEPT ![t] = ""]
    /\ MoveOn(t, CASE at[t] = "add" -> "write" [] at[t] = "readd" -> "read" [] OTHER -> "served")
    /\ watched' = (watched \/ (at[t] = "subadd" /\ t \in alone))
    /\ UNCHANGED <<dbVars, built, changes, noted, tripVars, cached_layout, alone, calm>>

-----------------------------------------------------------------------------
(* update_trips *)

\* Where its callers go on.
Caller(t) ==
    CASE t \in Writers -> "after" [] t \in Visitors -> "wait" [] t = View -> "subclear"

\* What the thread reads before it goes there.
Carry(t) == got' = [got EXCEPT ![t] = IF t = View THEN "update_trips" ELSE ""]

TryLock(t) ==
    /\ at[t] = "lock"
    /\ updating = NoThread
    /\ updating' = t
    /\ got' = [got EXCEPT ![t] = callback_fct]
    /\ MoveOn(t, "reclear")
    /\ UNCHANGED <<dbVars, built, connVars, data, data_ready, cached_layout, histVars>>

\* Another thread is at it: nothing is read, now or later.
Locked(t) ==
    /\ at[t] = "lock"
    /\ updating # NoThread
    /\ Carry(t)
    /\ MoveOn(t, Caller(t))
    /\ UNCHANGED <<dbVars, built, connVars, tripVars, cached_layout, histVars>>

\* The trips, then the charges; it returns early when there are none.
ReadData(t) ==
    /\ at[t] = "read"
    /\ data' = conn.battery.rows
    /\ MoveOn(t, IF data' = {} THEN "release" ELSE "reset")
    /\ UNCHANGED <<dbVars, got, built, connVars, updating, data_ready, cached_layout, histVars>>

\* The trips of PSA can't be had, or anything else raises.
ReadRaises(t) ==
    /\ at[t] = "read"
    /\ MoveOn(t, "raise")
    /\ calm' = FALSE
    /\ UNCHANGED <<dbVars, got, built, connVars, tripVars, cached_layout, alone, watched>>

\* Variant: the cached page is kept.
ResetNothing(t) ==
    /\ at[t] = "reset"
    /\ MoveOn(t, "release")
    /\ UNCHANGED <<dbVars, got, built, connVars, tripVars, cached_layout, histVars>>

ResetLayout(t) ==
    /\ at[t] = "reset"
    /\ cached_layout' = NoLayout
    /\ MoveOn(t, "release")
    /\ UNCHANGED <<dbVars, got, built, connVars, tripVars, histVars>>

Release(t) ==
    /\ at[t] = "release"
    /\ data_ready' = TRUE
    /\ updating' = NoThread
    /\ Carry(t)
    /\ MoveOn(t, Caller(t))
    /\ UNCHANGED <<dbVars, built, connVars, data, cached_layout, histVars>>

\* Variant: DATA_READY is set when the data were read only.
RaiseUnready(t) ==
    /\ at[t] = "raise"
    /\ updating' = NoThread
    /\ MoveOn(t, IF t = View THEN "served" ELSE "idle")
    /\ UNCHANGED <<dbVars, got, built, connVars, data, data_ready, cached_layout, histVars>>

\* The exception leaves update_trips and its caller; the view is served without
\* having subscribed (or, after an exception it doesn't catch, not at all).
Raise(t) ==
    /\ at[t] = "raise"
    /\ data_ready' = TRUE
    /\ updating' = NoThread
    /\ MoveOn(t, IF t = View THEN "served" ELSE "idle")
    /\ UNCHANGED <<dbVars, got, built, connVars, data, cached_layout, histVars>>

Update(t) ==
    \/ TryLock(t) \/ Locked(t) \/ ReadData(t) \/ ReadRaises(t) \/ ResetLayout(t) \/ Release(t) \/ Raise(t)

-----------------------------------------------------------------------------
(* A thread that records *)

\* It asks for the connection, which reads the callback first.
BeginWrite(w) == Enter(w, "clear") /\ got' = [got EXCEPT ![w] = callback_fct]

\* A charge is written and committed.
Write(w) ==
    /\ at[w] = "write"
    /\ \E c \in Charges : RecordCharge(c)
    /\ changes' = changes + 1
    /\ MoveOn(w, "close")
    /\ UNCHANGED <<got, built, callback_fct, callbacks, noted, tripVars, cached_layout, histVars>>

\* Nothing is new.
WriteNothing(w) ==
    /\ at[w] = "write"
    /\ MoveOn(w, "close")
    /\ UNCHANGED <<dbVars, got, built, connVars, tripVars, cached_layout, histVars>>

\* close: nothing has changed since the last one, or the callbacks are gone for
\* the moment, or they are called.
Close(w) ==
    /\ at[w] = "close"
    /\ MoveOn(w, CASE changes = noted -> "idle"
                   [] changes # noted /\ callbacks = {} -> "note"
                   [] changes # noted /\ "nothing" \in callbacks -> "after"
                   [] OTHER -> "lock")
    /\ UNCHANGED <<dbVars, got, built, connVars, tripVars, cached_layout, histVars>>

\* The set has changed its size while it was iterated: a RuntimeError.
EndCallbacks(w) ==
    /\ at[w] = "after"
    /\ MoveOn(w, IF callbacks = {} THEN "idle" ELSE "note")
    /\ calm' = (calm /\ callbacks # {})
    /\ UNCHANGED <<dbVars, got, built, connVars, tripVars, cached_layout, alone, watched>>

\* What was changed during the callbacks is noted too.
Note(w) ==
    /\ at[w] = "note"
    /\ noted' = changes
    /\ MoveOn(w, "idle")
    /\ calm' = (calm \/ w \in alone)
    /\ UNCHANGED <<dbVars, got, built, callback_fct, callbacks, changes, tripVars, cached_layout, alone, watched>>

-----------------------------------------------------------------------------
(* The views *)

\* The trips are read, if the account is connected, then update_trips subscribed.
ImportView ==
    \/ Enter(View, "lock") /\ UNCHANGED got
    \/ Enter(View, "subclear") /\ got' = [got EXCEPT ![View] = "update_trips"]

\* serve_layout
Request(v) ==
    /\ at[View] = "served"
    /\ Enter(v, "look")
    /\ UNCHANGED got

Look(v) ==
    /\ at[v] = "look"
    /\ MoveOn(v, CASE cached_layout # NoLayout -> "return"
                   [] cached_layout = NoLayout /\ data_ready -> "build"
                   [] OTHER -> "lock")
    /\ UNCHANGED <<dbVars, got, built, connVars, tripVars, cached_layout, histVars>>

\* The data are waited for; after MAX_DATA_WAIT a message is shown instead.
Wait(v) ==
    /\ at[v] = "wait"
    /\ MoveOn(v, IF data_ready THEN "build" ELSE "idle")
    /\ UNCHANGED <<dbVars, got, built, connVars, tripVars, cached_layout, histVars>>

Build(v) ==
    /\ at[v] = "build"
    /\ built' = [built EXCEPT ![v] = data]
    /\ MoveOn(v, "cache")
    /\ UNCHANGED <<dbVars, got, connVars, tripVars, cached_layout, histVars>>

CacheLayout(v) ==
    /\ at[v] = "cache"
    /\ cached_layout' = built[v]
    /\ built' = [built EXCEPT ![v] = {}]
    /\ MoveOn(v, "return")
    /\ UNCHANGED <<dbVars, got, connVars, tripVars, histVars>>

Return(v) ==
    /\ at[v] = "return"
    /\ MoveOn(v, "idle")
    /\ UNCHANGED <<dbVars, got, built, connVars, tripVars, cached_layout, histVars>>

-----------------------------------------------------------------------------

Begin ==
    \/ \E w \in Writers : BeginWrite(w)
    \/ at[View] = "idle" /\ ImportView
    \/ \E v \in Visitors : Request(v)

Continue(t) ==
    \/ ClearCallbacks(t) \/ AddCallback(t) \/ Update(t)
    \/ Write(t) \/ WriteNothing(t) \/ Close(t) \/ EndCallbacks(t) \/ Note(t)
    \/ Look(t) \/ Wait(t) \/ Build(t) \/ CacheLayout(t) \/ Return(t)

\* The process starts over with nothing in its memory.
Restart ==
    /\ Crash
    /\ at' = Fresh.at /\ got' = Fresh.got /\ built' = Fresh.built
    /\ callback_fct' = "nothing" /\ callbacks' = {"nothing"}
    /\ changes' = 0 /\ noted' = 0
    /\ updating' = NoThread
    /\ data' = {} /\ data_ready' = FALSE /\ cached_layout' = NoLayout
    /\ alone' = {} /\ watched' = FALSE /\ calm' = TRUE

ViewNext ==
    \/ StartUp /\ UNCHANGED viewVars
    \/ Begin
    \/ \E t \in Threads : Continue(t)
    \/ Restart

allVars == <<dbVars, viewVars>>

ViewSpec == ViewInit /\ [][ViewNext]_allVars

\* init_db and the threads go on, and the lock of the database is got by each.
ViewFairSpec ==
    /\ ViewSpec
    /\ WF_allVars(StartUp /\ UNCHANGED viewVars)
    /\ \A t \in Threads : WF_allVars(Continue(t)) /\ SF_allVars(ClearCallbacks(t))

-----------------------------------------------------------------------------

\* A page shows the charges as they are, as long as the last change was closed with
\* no other thread running, nothing has overlapped since, and the view subscribed
\* likewise.
PageIsCurrent ==
    \A v \in Visitors : at[v] = "return" /\ calm /\ watched => cached_layout = conn.battery.rows

\* Once a page was asked for, the data get ready, whichever thread reads them and
\* whatever raises; only a crash starts over.
DataGetsReady == \A v \in Visitors : at[v] = "look" ~> data_ready \/ phase = "down"

-----------------------------------------------------------------------------
(* The inductive invariant of PageIsCurrent *)

Updates == {"lock", "reclear", "readd", "read", "reset", "release", "raise"}

\* A thread is in update_trips or in what is its own.
InItsPlace(t) ==
    \/ at[t] \in Updates \cup {"idle"}
    \/ t = View /\ at[t] \in {"subclear", "subadd", "served"}
    \/ t \in Visitors /\ at[t] \in {"look", "wait", "build", "cache", "return"}
    \/ t \in Writers /\ at[t] \in {"clear", "add", "write", "close", "after", "note"}

\* A thread holds a callback from where it reads it until it sets it.
HoldsCallback(t) ==
    /\ at[t] \in {"clear", "add", "reclear", "readd", "subclear", "subadd"} => got[t] # ""
    /\ at[t] \notin {"clear", "add", "reclear", "readd", "subclear", "subadd"} => got[t] = ""
    /\ at[t] \in {"subclear", "subadd"} => got[t] = "update_trips"

IsBusy(t) == at[t] \notin {"idle", "served"}

\* What alone and calm say of the threads.
NoneBeside ==
    /\ \A t \in alone, u \in Threads : IsBusy(u) => u = t
    /\ calm => \A u \in Threads : IsBusy(u) => u \in alone

\* The callbacks are gone only while a thread holds the lock of the database, and
\* the updating thread is at it.
LocksAreHeld ==
    /\ callbacks = {} => \E t \in Threads : at[t] \in {"add", "readd", "subadd"}
    /\ updating # NoThread => at[updating] \in Updates \ {"lock"}

\* No charge is shown that isn't there.
NoneIsInvented ==
    /\ data \subseteq Rows(conn.battery)
    /\ \A v \in Visitors : built[v] \subseteq Rows(conn.battery)
    /\ cached_layout = NoLayout \/ cached_layout \subseteq Rows(conn.battery)

\* Nothing has run before the database is ready.
StartsFresh ==
    phase # "ready" =>
        /\ \A t \in Threads : at[t] = "idle"
        /\ data = {} /\ cached_layout = NoLayout /\ \A v \in Visitors : built[v] = {}
        /\ ~watched

\* Without the view nothing is read and nobody asks.
NothingUnviewed ==
    at[View] = "idle" =>
        /\ callback_fct = "nothing" /\ callbacks \subseteq {"nothing"}
        /\ cached_layout = NoLayout /\ ~data_ready
        /\ \A t \in Threads : at[t] \in {"idle", "clear", "add", "write", "close", "after", "note"}
        /\ \A t \in Threads : got[t] # "update_trips"

\* A view that subscribed beside no other thread stays subscribed.
StaysSubscribed ==
    watched =>
        /\ at[View] = "served"
        /\ callback_fct = "update_trips" /\ callbacks \subseteq {"update_trips"}
        /\ \A t \in Threads : got[t] # "nothing"

\* The cached page, if there is one, and the data show the charges as they are.
NoneIsOld == cached_layout \in {NoLayout, conn.battery.rows}
Current == NoneIsOld /\ (data_ready => data = conn.battery.rows)

\* What a thread beside which none has run can rely on.
SeesCurrent(t) ==
    /\ at[t] = "reset" => data = conn.battery.rows
    /\ at[t] = "release" => data = conn.battery.rows /\ NoneIsOld
    /\ at[t] = "raise" => ~calm
    /\ at[t] \in {"subclear", "subadd"} => Current
    /\ watched /\ at[t] \in {"after", "note"} => Current
    /\ watched /\ calm =>
          /\ at[t] \in {"clear", "add", "write", "look", "wait", "build", "cache", "return"} => Current
          /\ at[t] = "close" /\ changes = noted => Current
          /\ at[t] = "build" => data_ready
          /\ at[t] = "cache" => built[t] = conn.battery.rows
          /\ at[t] = "return" => cached_layout = conn.battery.rows

\* The memory, whatever the threads do.
MemoryInv ==
    /\ ViewTypeOK
    /\ \A t \in Threads : InItsPlace(t) /\ HoldsCallback(t)
    /\ NoneBeside
    /\ LocksAreHeld
    /\ noted <= changes
    /\ StartsFresh
    /\ NoneIsInvented

PageInv ==
    /\ MemoryInv
    /\ NothingUnviewed
    /\ StaysSubscribed
    /\ \A t \in alone : SeesCurrent(t)
    /\ watched /\ calm /\ (\A t \in Threads : ~IsBusy(t)) => Current
=============================================================================
