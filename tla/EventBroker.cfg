\* The mqtt thread and a webhook publish to two streams, whose queues may be full.
SPECIFICATION FairSpec
CONSTANTS
    Publishers = {mqtt, webhook}
    mqtt = mqtt
    webhook = webhook
    Types = {"vehicle", "psa_monitor"}
    Carries <- MCCarries
    MaxEvents <- MCMaxEvents
    Streams = {s1, s2}
    QueueSize = 1
    NoEvent = NoEvent
INVARIANTS NoGap StreamIsCurrent
PROPERTY StreamCatchesUp
CHECK_DEADLOCK FALSE
