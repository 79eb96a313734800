--------------------------- MODULE CommandTracking ---------------------------
(***************************************************************************)
(* What the asynchronous commands promise to the caller of the API, as      *)
(* docs/psacc_api.md tells it: a command is sent or not; the result of a    *)
(* command sent is pending, then becomes success or failed, once.           *)
(***************************************************************************)
CONSTANT Commands

VARIABLE state

TrackingTypeOK == state \in [Commands -> {"new", "unsent", "pending", "success", "failed"}]

TrackingInit == state = [c \in Commands |-> "new"]

\* The command is registered, or the token refresh fails and nothing is sent.
Issue(c) ==
    /\ state[c] = "new"
    /\ \E s \in {"pending", "unsent"} : state' = [state EXCEPT ![c] = s]

\* The answer of the car reaches the result.
Finish(c) ==
    /\ state[c] = "pending"
    /\ \E s \in {"success", "failed"} : state' = [state EXCEPT ![c] = s]

TrackingNext == \E c \in Commands : Issue(c) \/ Finish(c)

TrackingSpec == TrackingInit /\ [][TrackingNext]_state
=============================================================================
