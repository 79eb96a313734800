----------------------------- MODULE EventBroker -----------------------------
(***************************************************************************)
(* The event broker behind /events (class EventBroker of                    *)
(* psa/remote_events.py).  The mqtt thread publishes the events of the car  *)
(* and the answers to the commands, a thread per webhook the monitor events *)
(* of PSA; each open /events request is a stream, run by a thread of its    *)
(* own.                                                                    *)
(*                                                                         *)
(* The lock of the broker covers one access to its fields, so publish is a  *)
(* locked step (Announce) followed by one put per subscriber of the copy it *)
(* took, and a stream subscribes, then reads the last events, then takes    *)
(* its queue.  The listeners publish calls before the puts change nothing   *)
(* of the broker, whatever they raise.                                     *)
(***************************************************************************)
EXTENDS Integers, Sequences

CONSTANTS Publishers,  \* the threads that publish
          Types,       \* the types of events
          Carries,     \* the types each thread publishes
          MaxEvents,   \* bound: the events each thread publishes
          Streams,     \* the requests for /events
          QueueSize,   \* MAX_QUEUED_EVENTS
          NoEvent      \* no event is being published

Event == [type: Types, by: Publishers, n: Nat]

ASSUME BrokerAssumption ==
    /\ Carries \in [Publishers -> SUBSET Types]
    /\ MaxEvents \in [Publishers -> Nat]
    /\ QueueSize \in Nat \ {0}
    /\ NoEvent \notin Event

VARIABLES
    lastEvents,   \* the OrderedDict _last_events: the last event of each type
    subscribers,  \* _subscribers, named by their streams
    published,    \* how many events each thread has published
    current,      \* the event each thread is publishing
    left,         \* the subscribers it still has to put that event to
    at,           \* where each stream is
    toReplay,     \* the last events it has read and not yielded yet
    queue,        \* its queue
    shown,        \* the events it has yielded
    dropped       \* the events its full queue refused (history)

broker    == <<lastEvents, subscribers>>
publisher == <<published, current, left>>
stream    == <<at, toReplay, queue, shown, dropped>>
vars      == <<broker, publisher, stream>>

Items(s) == {s[i] : i \in DOMAIN s}

TypeOK ==
    /\ lastEvents \in Seq(Event)
    /\ subscribers \in SUBSET Streams
    /\ published \in [Publishers -> Nat]
    /\ current \in [Publishers -> Event \cup {NoEvent}]
    /\ left \in [Publishers -> SUBSET Streams]
    /\ at \in [Streams -> {"new", "subscribed", "streaming", "closed"}]
    /\ toReplay \in [Streams -> Seq(Event)]
    /\ queue \in [Streams -> Seq(Event)]
    /\ shown \in [Streams -> Seq(Event)]
    /\ dropped \in [Streams -> SUBSET Event]

Init ==
    /\ lastEvents = <<>>
    /\ subscribers = {}
    /\ published = [p \in Publishers |-> 0]
    /\ current = [p \in Publishers |-> NoEvent]
    /\ left = [p \in Publishers |-> {}]
    /\ at = [s \in Streams |-> "new"]
    /\ toReplay = [s \in Streams |-> <<>>]
    /\ queue = [s \in Streams |-> <<>>]
    /\ shown = [s \in Streams |-> <<>>]
    /\ dropped = [s \in Streams |-> {}]

-----------------------------------------------------------------------------
(* publish *)

\* An OrderedDict keeps the place of a key that is set again.
Remember(events, e) ==
    IF \E i \in DOMAIN events : events[i].type = e.type
    THEN [i \in DOMAIN events |-> IF events[i].type = e.type THEN e ELSE events[i]]
    ELSE Append(events, e)

\* Under the lock: the event becomes the last of its type, the subscribers are copied.
Announce(p, t) ==
    /\ current[p] = NoEvent
    /\ published[p] < MaxEvents[p]
    /\ LET e == [type |-> t, by |-> p, n |-> published[p]] IN
       /\ lastEvents' = Remember(lastEvents, e)
       /\ current' = [current EXCEPT ![p] = e]
    /\ published' = [published EXCEPT ![p] = @ + 1]
    /\ left' = [left EXCEPT ![p] = subscribers]
    /\ UNCHANGED <<subscribers, stream>>

\* put_nowait; the subscribers are served in any order.
Put(p, s) ==
    /\ s \in left[p]
    /\ Len(queue[s]) < QueueSize
    /\ queue' = [queue EXCEPT ![s] = Append(@, current[p])]
    /\ left' = [left EXCEPT ![p] = @ \ {s}]
    /\ UNCHANGED <<broker, published, current, at, toReplay, shown, dropped>>

\* Variant: Full isn't caught, which ends publish.
DropAll(p, s) ==
    /\ s \in left[p]
    /\ Len(queue[s]) >= QueueSize
    /\ dropped' = [dropped EXCEPT ![s] = @ \cup {current[p]}]
    /\ left' = [left EXCEPT ![p] = {}]
    /\ UNCHANGED <<broker, published, current, at, toReplay, queue, shown>>

\* Full: this subscriber misses the event, the others get it.
Drop(p, s) ==
    /\ s \in left[p]
    /\ Len(queue[s]) >= QueueSize
    /\ dropped' = [dropped EXCEPT ![s] = @ \cup {current[p]}]
    /\ left' = [left EXCEPT ![p] = @ \ {s}]
    /\ UNCHANGED <<broker, published, current, at, toReplay, queue, shown>>

Return(p) ==
    /\ current[p] # NoEvent
    /\ left[p] = {}
    /\ current' = [current EXCEPT ![p] = NoEvent]
    /\ UNCHANGED <<broker, published, left, stream>>

Publish(p) ==
    \/ \E t \in Carries[p] : Announce(p, t)
    \/ \E s \in Streams : Put(p, s) \/ Drop(p, s)
    \/ Return(p)

-----------------------------------------------------------------------------
(* stream *)

Subscribe(s) ==
    /\ at[s] = "new"
    /\ subscribers' = subscribers \cup {s}
    /\ at' = [at EXCEPT ![s] = "subscribed"]
    /\ UNCHANGED <<lastEvents, publisher, toReplay, queue, shown, dropped>>

ReadLastEvents(s) ==
    /\ at[s] = "subscribed"
    /\ toReplay' = [toReplay EXCEPT ![s] = lastEvents]
    /\ at' = [at EXCEPT ![s] = "streaming"]
    /\ UNCHANGED <<broker, publisher, queue, shown, dropped>>

\* A last event is yielded.
Replay(s) ==
    /\ at[s] = "streaming"
    /\ toReplay[s] # <<>>
    /\ shown' = [shown EXCEPT ![s] = Append(@, Head(toReplay[s]))]
    /\ toReplay' = [toReplay EXCEPT ![s] = Tail(@)]
    /\ UNCHANGED <<broker, publisher, at, queue, dropped>>

\* Variant: the queue is taken while last events remain to be replayed.
TakeAnyTime(s) ==
    /\ at[s] = "streaming"
    /\ queue[s] # <<>>
    /\ shown' = [shown EXCEPT ![s] = Append(@, Head(queue[s]))]
    /\ queue' = [queue EXCEPT ![s] = Tail(@)]
    /\ UNCHANGED <<broker, publisher, at, toReplay, dropped>>

\* Once they all are, the events of the queue.
Take(s) ==
    /\ at[s] = "streaming"
    /\ toReplay[s] = <<>>
    /\ queue[s] # <<>>
    /\ shown' = [shown EXCEPT ![s] = Append(@, Head(queue[s]))]
    /\ queue' = [queue EXCEPT ![s] = Tail(@)]
    /\ UNCHANGED <<broker, publisher, at, toReplay, dropped>>

\* The client leaves: the generator is closed at one of its yields, a keepalive
\* included, and unsubscribes.
Disconnect(s) ==
    /\ at[s] = "streaming"
    /\ at' = [at EXCEPT ![s] = "closed"]
    /\ subscribers' = subscribers \ {s}
    /\ toReplay' = [toReplay EXCEPT ![s] = <<>>]
    /\ queue' = [queue EXCEPT ![s] = <<>>]
    /\ shown' = [shown EXCEPT ![s] = <<>>]
    /\ dropped' = [dropped EXCEPT ![s] = {}]
    /\ UNCHANGED <<lastEvents, publisher>>

\* Variant: the last events are read before the stream is subscribed.
StreamReadingFirst(s) ==
    \/ /\ at[s] = "new"
       /\ toReplay' = [toReplay EXCEPT ![s] = lastEvents]
       /\ at' = [at EXCEPT ![s] = "subscribed"]
       /\ UNCHANGED <<broker, publisher, queue, shown, dropped>>
    \/ /\ at[s] = "subscribed"
       /\ subscribers' = subscribers \cup {s}
       /\ at' = [at EXCEPT ![s] = "streaming"]
       /\ UNCHANGED <<lastEvents, publisher, toReplay, queue, shown, dropped>>
    \/ Replay(s)
    \/ Take(s)
    \/ Disconnect(s)

Stream(s) ==
    \/ Subscribe(s)
    \/ ReadLastEvents(s)
    \/ Replay(s)
    \/ Take(s)
    \/ Disconnect(s)

Next ==
    \/ \E p \in Publishers : Publish(p)
    \/ \E s \in Streams : Stream(s)

Spec == Init /\ [][Next]_vars

\* Threads run: publish never blocks, and a stream whose client reads goes on.
FairSpec ==
    /\ Spec
    /\ \A p \in Publishers : WF_vars(Return(p) \/ \E s \in Streams : Put(p, s) \/ Drop(p, s))
    /\ \A s \in Streams : WF_vars(ReadLastEvents(s) \/ Replay(s) \/ Take(s))

-----------------------------------------------------------------------------

\* The event is on its way to the stream, or got there, or its queue was full.
Reaches(e, s) ==
    \/ e \in Items(toReplay[s]) \cup Items(queue[s]) \cup Items(shown[s]) \cup dropped[s]
    \/ \E p \in Publishers : current[p] = e /\ s \in left[p]

\* stream subscribes before it reads the last events, so that no event falls
\* between them: the last event of every type reaches every stream open, also
\* when it is published while the stream starts.
NoGap ==
    \A s \in Streams : at[s] = "streaming" =>
        \A i \in DOMAIN lastEvents : Reaches(lastEvents[i], s)

\* The inductive invariant behind NoGap: the streams that publish serves are the
\* ones that will read the last events or have read them.
IInv ==
    /\ TypeOK
    /\ \A s \in Streams : s \in subscribers <=> at[s] \in {"subscribed", "streaming"}
    /\ \A p \in Publishers : left[p] # {} => current[p] # NoEvent
    /\ NoGap

\* The types only one thread publishes: those of the mqtt thread.
Serial == {t \in Types : \A p, q \in Publishers : t \in Carries[p] \cap Carries[q] => p = q}

\* What a stream has yielded and is about to yield.
All(s) == shown[s] \o toReplay[s] \o queue[s]

HasType(t, events) == \E k \in DOMAIN events : events[k].type = t

IsLastOfItsType(e, events) ==
    \E k \in DOMAIN events :
        events[k] = e /\ \A j \in DOMAIN events : j > k => events[j].type # e.type

InFlight(e, s) == \E p \in Publishers : s \in left[p] /\ current[p] = e

TypeInFlight(t, s) == \E p \in Publishers : s \in left[p] /\ current[p].type = t

Settled(e, s) == ~TypeInFlight(e.type, s) /\ IsLastOfItsType(e, All(s))

\* A stream that lost nothing ends on the last event of the car and of the
\* commands, though an older one may be shown after a newer one while it
\* starts: an event both replayed and queued.
StreamIsCurrent ==
    \A s \in Streams : at[s] = "streaming" /\ dropped[s] = {} =>
        \A i \in DOMAIN lastEvents : lastEvents[i].type \in Serial =>
            InFlight(lastEvents[i], s) \/ Settled(lastEvents[i], s)

\* Before it reads the last events, a stream may have got none of a type yet.
Unheard(e, s) ==
    /\ at[s] = "subscribed"
    /\ ~TypeInFlight(e.type, s)
    /\ ~HasType(e.type, All(s))

Caught(e, s) == InFlight(e, s) \/ Settled(e, s) \/ Unheard(e, s)

TypesAreCarried == \A p \in Publishers : current[p] # NoEvent => current[p].type \in Carries[p]

TypesAreRememberedOnce ==
    \A i, j \in DOMAIN lastEvents : lastEvents[i].type = lastEvents[j].type => i = j

StreamsStartEmpty ==
    \A s \in Streams :
        /\ at[s] = "new" => queue[s] = <<>> /\ \A p \in Publishers : s \notin left[p]
        /\ at[s] \in {"new", "subscribed"} => toReplay[s] = <<>> /\ shown[s] = <<>>

LostNothing(s) == at[s] \in {"subscribed", "streaming"} /\ dropped[s] = {}

SerialIsCaught ==
    \A s \in Streams : LostNothing(s) =>
        \A i \in DOMAIN lastEvents : lastEvents[i].type \in Serial => Caught(lastEvents[i], s)

\* The inductive invariant behind StreamIsCurrent: of each type there is one last
\* event and, of a serial one, one in flight at most, since the thread that
\* publishes it puts an event to all the streams before it announces the next.
StreamsInv ==
    /\ IInv
    /\ TypesAreCarried
    /\ TypesAreRememberedOnce
    /\ StreamsStartEmpty
    /\ SerialIsCaught

\* A slow client delays nobody: whatever the other queues, an event reaches the
\* client of each stream that stays open and has room in its queue.
StreamCatchesUp ==
    \A s \in Streams :
        at[s] = "streaming" ~>
            \/ at[s] = "closed"
            \/ dropped[s] # {}
            \/ \A i \in DOMAIN lastEvents : lastEvents[i] \in Items(shown[s])
=============================================================================
