---------------------------- MODULE MCEventBroker ----------------------------
(* EventBroker with the mqtt thread and a webhook thread, for TLC. *)
EXTENDS EventBroker, TLC

CONSTANTS mqtt, webhook

\* The mqtt thread publishes what the car says, each webhook a monitor event.
MCCarries ==
    [p \in Publishers |-> IF p = mqtt THEN Types \ {"psa_monitor"} ELSE {"psa_monitor"}]

\* More events from the car than monitor events.
MCMaxEvents == [p \in Publishers |-> IF p = mqtt THEN 2 ELSE 1]

=============================================================================
