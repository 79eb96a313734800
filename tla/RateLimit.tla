------------------------------ MODULE RateLimit ------------------------------
(***************************************************************************)
(* The decorator rate_limit(limit, every) of common/utils.py.  It guards    *)
(* wakeup (6 in 20 minutes), the OTP codes (6 a day) and the refresh of the *)
(* access token (6 in 30 minutes), each with a semaphore made once for the  *)
(* function, whatever object or thread calls it.  A permit taken by a call  *)
(* comes back through a timer started when the call ends.                   *)
(*                                                                         *)
(* There is no clock: a call carries the time since it started, which stops *)
(* counting at `every`, and its timer the time it still has to run.         *)
(***************************************************************************)
EXTENDS Integers, FiniteSets

CONSTANTS Calls,    \* the calls of the decorated function
          Limit,    \* limit, the permits of the semaphore
          Every     \* every, the delay of the timer

ASSUME RateAssumption == /\ IsFiniteSet(Calls)
                         /\ Limit \in Nat
                         /\ Every \in Nat \ {0}

VARIABLES
    permits,  \* the counter of the semaphore
    state,    \* the state of each call
    age,      \* the time since the call started, up to Every
    timer     \* the time its timer still has to run

vars == <<permits, state, age, timer>>

TypeOK ==
    /\ permits \in Nat
    /\ state \in [Calls -> {"new", "refused", "running", "cooling", "over"}]
    /\ age \in [Calls -> Nat]
    /\ timer \in [Calls -> Nat]

Init ==
    /\ permits = Limit
    /\ state = [c \in Calls |-> "new"]
    /\ age = [c \in Calls |-> 0]
    /\ timer = [c \in Calls |-> 0]

\* semaphore.acquire(blocking=False) answers True, the function runs.
Start(c) ==
    /\ state[c] = "new"
    /\ permits > 0
    /\ permits' = permits - 1
    /\ state' = [state EXCEPT ![c] = "running"]
    /\ UNCHANGED <<age, timer>>

\* It answers False: RateLimitException.
Refuse(c) ==
    /\ state[c] = "new"
    /\ permits = 0
    /\ state' = [state EXCEPT ![c] = "refused"]
    /\ UNCHANGED <<permits, age, timer>>

\* Variant: the permit is due at the end of the call instead of `every` later.
FinishReleasing(c) ==
    /\ state[c] = "running"
    /\ state' = [state EXCEPT ![c] = "cooling"]
    /\ UNCHANGED <<permits, age, timer>>

\* Variant: without `finally`, a function that raises starts no timer.
FinishUnlessRaised(c) ==
    /\ state[c] = "running"
    /\ \E end \in {"cooling", "refused"} : state' = [state EXCEPT ![c] = end]
    /\ timer' = [timer EXCEPT ![c] = Every]
    /\ UNCHANGED <<permits, age>>

\* The function returns or raises: `finally` starts the timer.
Finish(c) ==
    /\ state[c] = "running"
    /\ state' = [state EXCEPT ![c] = "cooling"]
    /\ timer' = [timer EXCEPT ![c] = Every]
    /\ UNCHANGED <<permits, age>>

\* The timer calls semaphore.release, on time or late.
Release(c) ==
    /\ state[c] = "cooling"
    /\ timer[c] = 0
    /\ state' = [state EXCEPT ![c] = "over"]
    /\ permits' = permits + 1
    /\ UNCHANGED <<age, timer>>

Started == {c \in Calls : state[c] \in {"running", "cooling", "over"}}
Holding == {c \in Calls : state[c] \in {"running", "cooling"}}

Tick ==
    /\ age' = [c \in Calls |-> IF c \in Started /\ age[c] < Every THEN age[c] + 1 ELSE age[c]]
    /\ timer' = [c \in Calls |-> IF timer[c] > 0 THEN timer[c] - 1 ELSE 0]
    /\ UNCHANGED <<permits, state>>

Next ==
    \/ \E c \in Calls : Start(c) \/ Refuse(c) \/ Finish(c) \/ Release(c)
    \/ Tick

Spec == Init /\ [][Next]_vars

\* Time goes on, the decorated functions end (their requests have a timeout)
\* and the timers fire.
FairSpec ==
    /\ Spec
    /\ WF_vars(Tick)
    /\ \A c \in Calls : WF_vars(Finish(c)) /\ WF_vars(Release(c))

-----------------------------------------------------------------------------

Recent == {c \in Started : age[c] < Every}

\* What rate_limit is for: over any window of `every`, at most `limit` calls were
\* let through, however long they ran and however they ended.
WindowBound == Cardinality(Recent) <= Limit

\* The inductive invariant of rate_limit: the permits left and the calls that
\* hold one add up to the limit, and no timer lets a call go before its window
\* has passed.
IInv ==
    /\ TypeOK
    /\ permits + Cardinality(Holding) = Limit
    /\ \A c \in Calls : state[c] = "cooling" => age[c] + timer[c] >= Every
    /\ Recent \subseteq Holding

\* A call of a rate limited function is refused only while `limit` others hold
\* the permits.
RefusedOnlyWhenBusy ==
    [][\A c \in Calls :
          state[c] = "new" /\ state'[c] = "refused" => Cardinality(Holding) = Limit]_vars

\* A permit taken comes back, even when the function raises: rate_limit never
\* locks its function out for good.
PermitsComeBack == \A c \in Calls : state[c] = "running" ~> state[c] = "over"
=============================================================================
