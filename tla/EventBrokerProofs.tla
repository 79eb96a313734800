-------------------------- MODULE EventBrokerProofs --------------------------
(***************************************************************************)
(* No event is lost between a stream and the broker: for any threads, any   *)
(* types of events, any number of streams and any size of their queues, the *)
(* last event of every type reaches every open stream, and a stream whose   *)
(* queue refused nothing ends on the last event of each type that a single  *)
(* thread publishes.                                                        *)
(***************************************************************************)
EXTENDS EventBroker, SequenceTheorems, TLAPS

LEMMA ItemsAppend ==
    ASSUME NEW S, NEW q \in Seq(S), NEW e \in S
    PROVE  /\ Append(q, e) \in Seq(S)
           /\ Items(Append(q, e)) = Items(q) \cup {e}
  <1>1. Append(q, e) \in Seq(S) /\ Len(q) \in Nat
    OBVIOUS
  <1>2. \A x \in Items(q) : x \in Items(Append(q, e))
    BY DEF Items
  <1>3. e \in Items(Append(q, e))
    <2>1. Len(q) + 1 \in DOMAIN Append(q, e) /\ Append(q, e)[Len(q) + 1] = e
      OBVIOUS
    <2> QED BY <2>1 DEF Items
  <1>4. \A i \in DOMAIN Append(q, e) : Append(q, e)[i] \in Items(q) \cup {e}
    <2> SUFFICES ASSUME NEW i \in DOMAIN Append(q, e), i # Len(q) + 1
                 PROVE  Append(q, e)[i] \in Items(q)
      OBVIOUS
    <2>1. i \in DOMAIN q /\ Append(q, e)[i] = q[i]
      OBVIOUS
    <2> QED BY <2>1 DEF Items
  <1>5. Items(Append(q, e)) \subseteq Items(q) \cup {e}
    BY <1>4 DEF Items
  <1> QED BY <1>1, <1>2, <1>3, <1>5

LEMMA ItemsHeadTail ==
    ASSUME NEW S, NEW q \in Seq(S), q # <<>>
    PROVE  /\ Head(q) \in S
           /\ Tail(q) \in Seq(S)
           /\ Items(q) \subseteq {Head(q)} \cup Items(Tail(q))
  <1>1. Head(q) \in S /\ Tail(q) \in Seq(S)
    OBVIOUS
  <1>2. ASSUME NEW i \in DOMAIN q PROVE q[i] \in {Head(q)} \cup Items(Tail(q))
    <2>1. CASE i = 1
      BY <2>1
    <2>2. CASE i # 1
      <3>1. i \in 1..Len(q)
        BY <1>2
      <3>2. i - 1 \in DOMAIN Tail(q) /\ Tail(q)[i - 1] = q[i]
        BY <2>2, <3>1
      <3> QED BY <3>2 DEF Items
    <2> QED BY <2>1, <2>2
  <1> QED BY <1>1, <1>2 DEF Items

\* What the broker remembers after an event is that event or was remembered before.
LEMMA RememberItems ==
    ASSUME NEW q \in Seq(Event), NEW e \in Event
    PROVE  /\ Remember(q, e) \in Seq(Event)
           /\ Items(Remember(q, e)) \subseteq Items(q) \cup {e}
  <1>1. CASE \E i \in DOMAIN q : q[i].type = e.type
    <2>1. Remember(q, e) = [i \in DOMAIN q |-> IF q[i].type = e.type THEN e ELSE q[i]]
      BY <1>1 DEF Remember
    <2>2. DOMAIN q = 1..Len(q) /\ Len(q) \in Nat /\ \A i \in DOMAIN q : q[i] \in Event
      OBVIOUS
    <2>3. Remember(q, e) \in [1..Len(q) -> Event]
      BY <2>1, <2>2
    <2>4. Remember(q, e) \in Seq(Event)
      BY <2>2, <2>3
    <2>5. Items(Remember(q, e)) \subseteq Items(q) \cup {e}
      BY <2>1 DEF Items
    <2> QED BY <2>4, <2>5
  <1>2. CASE ~ \E i \in DOMAIN q : q[i].type = e.type
    <2>1. Remember(q, e) = Append(q, e)
      BY <1>2 DEF Remember
    <2> QED BY <2>1, ItemsAppend
  <1> QED BY <1>1, <1>2

LEMMA IInvInit == Init => IInv
  BY BrokerAssumption DEF Init, IInv, TypeOK, NoGap

\* Nothing an event has reached is taken back: it moves on towards the client.
ReachesKept ==
    \A s \in Streams : \A e \in Event : at'[s] = "streaming" /\ at[s] = "streaming" /\ Reaches(e, s) => Reaches(e, s)'

\* A step that changes neither the last events nor who is streaming keeps NoGap.
LEMMA NoGapKept ==
    ASSUME IInv, ReachesKept, lastEvents' = lastEvents,
           \A s \in Streams : at'[s] = "streaming" => at[s] = "streaming"
    PROVE  NoGap'
  <1>1. \A i \in DOMAIN lastEvents : lastEvents[i] \in Event
    BY DEF IInv, TypeOK
  <1> QED BY <1>1 DEF IInv, NoGap, ReachesKept

LEMMA AnnounceStep ==
    ASSUME IInv, NEW p \in Publishers, NEW t \in Carries[p], Announce(p, t)
    PROVE  IInv'
  <1> DEFINE e == [type |-> t, by |-> p, n |-> published[p]]
  <1>1. e \in Event
    BY BrokerAssumption DEF IInv, TypeOK, Event
  <1>2. TypeOK'
    <2>1. lastEvents' \in Seq(Event)
      BY <1>1, RememberItems DEF Announce, IInv, TypeOK
    <2> QED BY <1>1, <2>1 DEF Announce, IInv, TypeOK, stream
  <1>3. current' = [current EXCEPT ![p] = e] /\ left' = [left EXCEPT ![p] = subscribers]
    BY DEF Announce
  <1>4. Items(lastEvents') \subseteq Items(lastEvents) \cup {e}
    BY <1>1, RememberItems DEF Announce, IInv, TypeOK
  <1>5. \A q \in Publishers : left'[q] # {} => current'[q] # NoEvent
    BY <1>1, <1>3, BrokerAssumption DEF IInv, TypeOK
  <1>6. NoGap'
    <2>1. ASSUME NEW s \in Streams, at'[s] = "streaming", NEW f \in Event, f \in Items(lastEvents')
          PROVE  Reaches(f, s)'
      <3>1. at[s] = "streaming" /\ s \in subscribers
        BY <2>1 DEF Announce, stream, IInv
      <3>2. CASE f = e
        <4>1. current'[p] = f /\ s \in left'[p]
          BY <1>3, <3>1, <3>2 DEF IInv, TypeOK
        <4> QED BY <4>1 DEF Reaches
      <3>3. CASE f \in Items(lastEvents)
        <4>1. Reaches(f, s)
          BY <3>1, <3>3 DEF IInv, NoGap, Items
        <4>2. left[p] = {}
          BY DEF Announce, IInv
        <4>3. toReplay' = toReplay /\ queue' = queue /\ shown' = shown /\ dropped' = dropped
          BY DEF Announce, stream
        <4>4. CASE \E q \in Publishers : current[q] = f /\ s \in left[q]
          <5>1. PICK q \in Publishers : current[q] = f /\ s \in left[q]
            BY <4>4
          <5>2. q # p /\ current'[q] = current[q] /\ left'[q] = left[q]
            BY <1>3, <4>2, <5>1 DEF IInv, TypeOK
          <5> QED BY <5>1, <5>2 DEF Reaches
        <4>5. CASE f \in Items(toReplay[s]) \cup Items(queue[s]) \cup Items(shown[s]) \cup dropped[s]
          BY <4>3, <4>5 DEF Reaches, Items
        <4> QED BY <4>1, <4>4, <4>5 DEF Reaches
      <3> QED BY <1>4, <2>1, <3>2, <3>3
    <2>2. \A i \in DOMAIN lastEvents' : lastEvents'[i] \in Event /\ lastEvents'[i] \in Items(lastEvents')
      BY <1>2 DEF TypeOK, Items
    <2> QED BY <2>1, <2>2 DEF NoGap
  <1> QED BY <1>2, <1>5, <1>6 DEF IInv, Announce, stream

LEMMA PutStep ==
    ASSUME IInv, NEW p \in Publishers, NEW s \in Streams, Put(p, s)
    PROVE  IInv'
  <1>1. current[p] \in Event
    BY DEF Put, IInv, TypeOK
  <1>2. queue[s] \in Seq(Event)
    BY DEF IInv, TypeOK
  <1>3. /\ Append(queue[s], current[p]) \in Seq(Event)
        /\ Items(Append(queue[s], current[p])) = Items(queue[s]) \cup {current[p]}
    BY <1>1, <1>2, ItemsAppend
  <1>4. /\ queue' = [queue EXCEPT ![s] = Append(queue[s], current[p])]
        /\ left' = [left EXCEPT ![p] = left[p] \ {s}]
        /\ UNCHANGED <<lastEvents, subscribers, published, current, at, toReplay, shown, dropped>>
    BY DEF Put, broker
  <1>5. TypeOK'
    BY <1>3, <1>4 DEF IInv, TypeOK
  <1>6. ReachesKept
    <2> SUFFICES ASSUME NEW r \in Streams, NEW e \in Event, Reaches(e, r)
                 PROVE  Reaches(e, r)'
      BY DEF ReachesKept
    <2>1. Items(queue[r]) \subseteq Items(queue'[r])
      BY <1>3, <1>4 DEF IInv, TypeOK
    <2>2. CASE e \in Items(toReplay[r]) \cup Items(queue[r]) \cup Items(shown[r]) \cup dropped[r]
      <3>1. e \in Items(toReplay'[r]) \cup Items(queue'[r]) \cup Items(shown'[r]) \cup dropped'[r]
        BY <1>4, <2>1, <2>2
      <3> QED BY <3>1 DEF Reaches, Items
    <2>3. CASE \E q \in Publishers : current[q] = e /\ r \in left[q]
      <3>1. PICK q \in Publishers : current[q] = e /\ r \in left[q]
        BY <2>3
      <3>2. CASE q = p /\ r = s
        <4>1. e \in Items(queue'[r])
          BY <1>3, <1>4, <3>1, <3>2 DEF IInv, TypeOK
        <4> QED BY <4>1 DEF Reaches, Items
      <3>3. CASE ~(q = p /\ r = s)
        <4>1. r \in left'[q] /\ current'[q] = e
          BY <1>4, <3>1, <3>3 DEF IInv, TypeOK
        <4> QED BY <4>1 DEF Reaches
      <3> QED BY <3>2, <3>3
    <2> QED BY <2>2, <2>3 DEF Reaches
  <1>7. NoGap'
    BY <1>4, <1>6, NoGapKept
  <1>8. \A q \in Publishers : left'[q] # {} => current'[q] # NoEvent
    BY <1>4 DEF IInv, TypeOK
  <1> QED BY <1>4, <1>5, <1>7, <1>8 DEF IInv

LEMMA DropStep ==
    ASSUME IInv, NEW p \in Publishers, NEW s \in Streams, Drop(p, s)
    PROVE  IInv'
  <1>1. current[p] \in Event
    BY DEF Drop, IInv, TypeOK
  <1>2. /\ dropped' = [dropped EXCEPT ![s] = dropped[s] \cup {current[p]}]
        /\ left' = [left EXCEPT ![p] = left[p] \ {s}]
        /\ UNCHANGED <<lastEvents, subscribers, published, current, at, toReplay, queue, shown>>
    BY DEF Drop, broker
  <1>3. TypeOK'
    BY <1>1, <1>2 DEF IInv, TypeOK
  <1>4. ReachesKept
    <2> SUFFICES ASSUME NEW r \in Streams, NEW e \in Event, Reaches(e, r)
                 PROVE  Reaches(e, r)'
      BY DEF ReachesKept
    <2>1. CASE e \in Items(toReplay[r]) \cup Items(queue[r]) \cup Items(shown[r]) \cup dropped[r]
      <3>1. e \in Items(toReplay'[r]) \cup Items(queue'[r]) \cup Items(shown'[r]) \cup dropped'[r]
        BY <1>2, <2>1 DEF IInv, TypeOK
      <3> QED BY <3>1 DEF Reaches, Items
    <2>2. CASE \E q \in Publishers : current[q] = e /\ r \in left[q]
      <3>1. PICK q \in Publishers : current[q] = e /\ r \in left[q]
        BY <2>2
      <3>2. CASE q = p /\ r = s
        <4>1. e \in dropped'[r]
          BY <1>2, <3>1, <3>2 DEF IInv, TypeOK
        <4> QED BY <4>1 DEF Reaches, Items
      <3>3. CASE ~(q = p /\ r = s)
        <4>1. r \in left'[q] /\ current'[q] = e
          BY <1>2, <3>1, <3>3 DEF IInv, TypeOK
        <4> QED BY <4>1 DEF Reaches
      <3> QED BY <3>2, <3>3
    <2> QED BY <2>1, <2>2 DEF Reaches
  <1>5. NoGap'
    BY <1>2, <1>4, NoGapKept
  <1>6. \A q \in Publishers : left'[q] # {} => current'[q] # NoEvent
    BY <1>2 DEF IInv, TypeOK
  <1> QED BY <1>2, <1>3, <1>5, <1>6 DEF IInv

LEMMA ReturnStep ==
    ASSUME IInv, NEW p \in Publishers, Return(p)
    PROVE  IInv'
  <1>1. /\ current' = [current EXCEPT ![p] = NoEvent]
        /\ left[p] = {}
        /\ UNCHANGED <<broker, published, left, stream>>
    BY DEF Return
  <1>2. TypeOK'
    BY <1>1 DEF IInv, TypeOK, broker, stream
  <1>3. ReachesKept
    <2> SUFFICES ASSUME NEW r \in Streams, NEW e \in Event, Reaches(e, r)
                 PROVE  Reaches(e, r)'
      BY DEF ReachesKept
    <2>1. CASE e \in Items(toReplay[r]) \cup Items(queue[r]) \cup Items(shown[r]) \cup dropped[r]
      BY <1>1, <2>1 DEF Reaches, Items, stream
    <2>2. CASE \E q \in Publishers : current[q] = e /\ r \in left[q]
      <3>1. PICK q \in Publishers : current[q] = e /\ r \in left[q]
        BY <2>2
      <3>2. r \in left'[q] /\ current'[q] = e
        BY <1>1, <3>1 DEF IInv, TypeOK
      <3> QED BY <3>2 DEF Reaches
    <2> QED BY <2>1, <2>2 DEF Reaches
  <1>4. NoGap'
    BY <1>1, <1>3, NoGapKept DEF broker, stream
  <1>5. \A q \in Publishers : left'[q] # {} => current'[q] # NoEvent
    BY <1>1 DEF IInv, TypeOK
  <1> QED BY <1>1, <1>2, <1>4, <1>5 DEF IInv, broker, stream

LEMMA SubscribeStep ==
    ASSUME IInv, NEW s \in Streams, Subscribe(s)
    PROVE  IInv'
  <1>1. /\ subscribers' = subscribers \cup {s}
        /\ at' = [at EXCEPT ![s] = "subscribed"]
        /\ UNCHANGED <<lastEvents, published, current, left, toReplay, queue, shown, dropped>>
    BY DEF Subscribe, publisher
  <1>2. TypeOK'
    BY <1>1 DEF IInv, TypeOK
  <1>3. \A r \in Streams : at'[r] = "streaming" => at[r] = "streaming"
    BY <1>1 DEF IInv, TypeOK
  <1>4. ReachesKept
    BY <1>1 DEF ReachesKept, Reaches, Items
  <1>5. NoGap'
    BY <1>1, <1>3, <1>4, NoGapKept
  <1>6. \A r \in Streams : r \in subscribers' <=> at'[r] \in {"subscribed", "streaming"}
    BY <1>1 DEF IInv, TypeOK
  <1> QED BY <1>1, <1>2, <1>5, <1>6 DEF IInv

\* The last events read are on their way: NoGap begins to hold for the stream.
LEMMA ReadLastEventsStep ==
    ASSUME IInv, NEW s \in Streams, ReadLastEvents(s)
    PROVE  IInv'
  <1>1. /\ at[s] = "subscribed"
        /\ toReplay' = [toReplay EXCEPT ![s] = lastEvents]
        /\ at' = [at EXCEPT ![s] = "streaming"]
        /\ UNCHANGED <<lastEvents, subscribers, published, current, left, queue, shown, dropped>>
    BY DEF ReadLastEvents, broker, publisher
  <1>2. TypeOK'
    BY <1>1 DEF IInv, TypeOK
  <1>3. ASSUME NEW r \in Streams, at'[r] = "streaming", NEW e \in Event, e \in Items(lastEvents)
        PROVE  Reaches(e, r)'
    <2>1. CASE r = s
      <3>1. e \in Items(toReplay'[r])
        BY <1>1, <1>3, <2>1 DEF IInv, TypeOK
      <3> QED BY <3>1 DEF Reaches, Items
    <2>2. CASE r # s
      <3>1. at[r] = "streaming" /\ toReplay'[r] = toReplay[r]
        BY <1>1, <1>3, <2>2 DEF IInv, TypeOK
      <3>2. Reaches(e, r)
        BY <1>3, <3>1 DEF IInv, NoGap, Items
      <3> QED BY <1>1, <3>1, <3>2 DEF Reaches, Items
    <2> QED BY <2>1, <2>2
  <1>4. \A i \in DOMAIN lastEvents : lastEvents[i] \in Event /\ lastEvents[i] \in Items(lastEvents)
    BY DEF IInv, TypeOK, Items
  <1>5. NoGap'
    BY <1>1, <1>3, <1>4 DEF NoGap
  <1>6. \A r \in Streams : r \in subscribers' <=> at'[r] \in {"subscribed", "streaming"}
    BY <1>1 DEF IInv, TypeOK
  <1> QED BY <1>1, <1>2, <1>5, <1>6 DEF IInv

LEMMA ReplayStep ==
    ASSUME IInv, NEW s \in Streams, Replay(s)
    PROVE  IInv'
  <1>1. /\ toReplay[s] # <<>>
        /\ shown' = [shown EXCEPT ![s] = Append(shown[s], Head(toReplay[s]))]
        /\ toReplay' = [toReplay EXCEPT ![s] = Tail(toReplay[s])]
        /\ UNCHANGED <<lastEvents, subscribers, published, current, left, at, queue, dropped>>
    BY DEF Replay, broker, publisher
  <1>2. toReplay[s] \in Seq(Event) /\ shown[s] \in Seq(Event)
    BY DEF IInv, TypeOK
  <1>3. /\ Head(toReplay[s]) \in Event
        /\ Tail(toReplay[s]) \in Seq(Event)
        /\ Items(toReplay[s]) \subseteq {Head(toReplay[s])} \cup Items(Tail(toReplay[s]))
    BY <1>1, <1>2, ItemsHeadTail
  <1>4. /\ Append(shown[s], Head(toReplay[s])) \in Seq(Event)
        /\ Items(Append(shown[s], Head(toReplay[s]))) = Items(shown[s]) \cup {Head(toReplay[s])}
    BY <1>2, <1>3, ItemsAppend
  <1>5. TypeOK'
    BY <1>1, <1>3, <1>4 DEF IInv, TypeOK
  <1>6. ReachesKept
    <2> SUFFICES ASSUME NEW r \in Streams, NEW e \in Event, Reaches(e, r)
                 PROVE  Reaches(e, r)'
      BY DEF ReachesKept
    <2>1. Items(toReplay[r]) \cup Items(shown[r]) \subseteq Items(toReplay'[r]) \cup Items(shown'[r])
      BY <1>1, <1>3, <1>4 DEF IInv, TypeOK
    <2>2. CASE e \in Items(toReplay[r]) \cup Items(queue[r]) \cup Items(shown[r]) \cup dropped[r]
      <3>1. e \in Items(toReplay'[r]) \cup Items(queue'[r]) \cup Items(shown'[r]) \cup dropped'[r]
        BY <1>1, <2>1, <2>2
      <3> QED BY <3>1 DEF Reaches, Items
    <2>3. CASE \E q \in Publishers : current[q] = e /\ r \in left[q]
      BY <1>1, <2>3 DEF Reaches
    <2> QED BY <2>2, <2>3 DEF Reaches
  <1>7. NoGap'
    BY <1>1, <1>6, NoGapKept
  <1> QED BY <1>1, <1>5, <1>7 DEF IInv

LEMMA TakeStep ==
    ASSUME IInv, NEW s \in Streams, Take(s)
    PROVE  IInv'
  <1>1. /\ queue[s] # <<>>
        /\ shown' = [shown EXCEPT ![s] = Append(shown[s], Head(queue[s]))]
        /\ queue' = [queue EXCEPT ![s] = Tail(queue[s])]
        /\ UNCHANGED <<lastEvents, subscribers, published, current, left, at, toReplay, dropped>>
    BY DEF Take, broker, publisher
  <1>2. queue[s] \in Seq(Event) /\ shown[s] \in Seq(Event)
    BY DEF IInv, TypeOK
  <1>3. /\ Head(queue[s]) \in Event
        /\ Tail(queue[s]) \in Seq(Event)
        /\ Items(queue[s]) \subseteq {Head(queue[s])} \cup Items(Tail(queue[s]))
    BY <1>1, <1>2, ItemsHeadTail
  <1>4. /\ Append(shown[s], Head(queue[s])) \in Seq(Event)
        /\ Items(Append(shown[s], Head(queue[s]))) = Items(shown[s]) \cup {Head(queue[s])}
    BY <1>2, <1>3, ItemsAppend
  <1>5. TypeOK'
    BY <1>1, <1>3, <1>4 DEF IInv, TypeOK
  <1>6. ReachesKept
    <2> SUFFICES ASSUME NEW r \in Streams, NEW e \in Event, Reaches(e, r)
                 PROVE  Reaches(e, r)'
      BY DEF ReachesKept
    <2>1. Items(queue[r]) \cup Items(shown[r]) \subseteq Items(queue'[r]) \cup Items(shown'[r])
      BY <1>1, <1>3, <1>4 DEF IInv, TypeOK
    <2>2. CASE e \in Items(toReplay[r]) \cup Items(queue[r]) \cup Items(shown[r]) \cup dropped[r]
      <3>1. e \in Items(toReplay'[r]) \cup Items(queue'[r]) \cup Items(shown'[r]) \cup dropped'[r]
        BY <1>1, <2>1, <2>2
      <3> QED BY <3>1 DEF Reaches, Items
    <2>3. CASE \E q \in Publishers : current[q] = e /\ r \in left[q]
      BY <1>1, <2>3 DEF Reaches
    <2> QED BY <2>2, <2>3 DEF Reaches
  <1>7. NoGap'
    BY <1>1, <1>6, NoGapKept
  <1> QED BY <1>1, <1>5, <1>7 DEF IInv

LEMMA DisconnectStep ==
    ASSUME IInv, NEW s \in Streams, Disconnect(s)
    PROVE  IInv'
  <1>1. /\ subscribers' = subscribers \ {s}
        /\ at' = [at EXCEPT ![s] = "closed"]
        /\ UNCHANGED <<lastEvents, published, current, left>>
    BY DEF Disconnect, publisher
  <1>2. /\ toReplay' = [toReplay EXCEPT ![s] = <<>>]
        /\ queue' = [queue EXCEPT ![s] = <<>>]
        /\ shown' = [shown EXCEPT ![s] = <<>>]
        /\ dropped' = [dropped EXCEPT ![s] = {}]
    BY DEF Disconnect
  <1>3. TypeOK'
    BY <1>2, <1>1 DEF IInv, TypeOK
  <1>4. \A r \in Streams : at'[r] = "streaming" => at[r] = "streaming"
    BY <1>1 DEF IInv, TypeOK
  <1>5. ReachesKept
    <2> SUFFICES ASSUME NEW r \in Streams, NEW e \in Event, at'[r] = "streaming", Reaches(e, r)
                 PROVE  Reaches(e, r)'
      BY DEF ReachesKept
    <2>1. r # s
      BY <1>1 DEF IInv, TypeOK
    <2>2. /\ toReplay'[r] = toReplay[r] /\ queue'[r] = queue[r]
          /\ shown'[r] = shown[r] /\ dropped'[r] = dropped[r]
      BY <1>2, <2>1 DEF IInv, TypeOK
    <2> QED BY <1>1, <2>2 DEF Reaches, Items
  <1>6. NoGap'
    BY <1>1, <1>4, <1>5, NoGapKept
  <1>7. \A r \in Streams : r \in subscribers' <=> at'[r] \in {"subscribed", "streaming"}
    BY <1>1 DEF IInv, TypeOK
  <1> QED BY <1>1, <1>3, <1>6, <1>7 DEF IInv

LEMMA IInvStep == IInv /\ [Next]_vars => IInv'
  <1> SUFFICES ASSUME IInv, [Next]_vars
               PROVE  IInv'
    OBVIOUS
  <1>1. CASE UNCHANGED vars
    <2>1. UNCHANGED <<lastEvents, subscribers, published, current, left, at, toReplay, queue, shown, dropped>>
      BY <1>1 DEF vars, broker, publisher, stream
    <2>2. ReachesKept
      BY <2>1 DEF ReachesKept, Reaches, Items
    <2>3. NoGap'
      BY <2>1, <2>2, NoGapKept
    <2> QED BY <2>1, <2>3 DEF IInv, TypeOK
  <1>2. CASE \E p \in Publishers : Publish(p)
    BY <1>2, AnnounceStep, PutStep, DropStep, ReturnStep DEF Publish
  <1>3. CASE \E s \in Streams : Stream(s)
    BY <1>3, SubscribeStep, ReadLastEventsStep, ReplayStep, TakeStep, DisconnectStep DEF Stream
  <1> QED BY <1>1, <1>2, <1>3 DEF Next

\* The inductive invariant of the broker holds in every run of it.
THEOREM IInvAlways == Spec => []IInv
  BY IInvInit, IInvStep, PTL DEF Spec

\* Whatever is published while a stream opens, the last event of every type
\* reaches it: through the last events it replays, or through its queue.
THEOREM NoGapAlways == Spec => []NoGap
  <1>1. IInv => NoGap
    BY DEF IInv
  <1> QED BY <1>1, IInvAlways, PTL

-----------------------------------------------------------------------------
(* A stream that lost nothing ends on the last event of each serial type. *)

LEMMA AllIsASequence ==
    ASSUME TypeOK, NEW s \in Streams
    PROVE  All(s) \in Seq(Event)
  <1>1. shown[s] \in Seq(Event) /\ toReplay[s] \in Seq(Event) /\ queue[s] \in Seq(Event)
    BY DEF TypeOK
  <1>2. shown[s] \o toReplay[s] \in Seq(Event)
    BY <1>1, ConcatProperties
  <1> QED BY <1>1, <1>2, ConcatProperties DEF All

\* The head of what comes next is moved behind what came before.
LEMMA MoveHead ==
    ASSUME NEW S, NEW q \in Seq(S), NEW r \in Seq(S), r # <<>>
    PROVE  Append(q, Head(r)) \o Tail(r) = q \o r
  <1>1. Head(r) \in S /\ Tail(r) \in Seq(S) /\ Len(Tail(r)) = Len(r) - 1
    BY HeadTailProperties
  <1>2. \A i \in 1 .. Len(Tail(r)) : Tail(r)[i] = r[i + 1]
    BY HeadTailProperties
  <1>3. Len(q) \in Nat /\ Len(r) \in Nat \ {0}
    BY EmptySeq, LenProperties
  <1> DEFINE a == Append(q, Head(r))
  <1>4. a \in Seq(S) /\ Len(a) = Len(q) + 1
    BY <1>1
  <1>5. \A i \in 1 .. Len(q) : a[i] = q[i]
    BY <1>1
  <1>6. a[Len(q) + 1] = r[1]
    BY <1>1, <1>3
  <1> HIDE DEF a
  <1> DEFINE x == a \o Tail(r)
             y == q \o r
  <1>7. x \in Seq(S) /\ Len(x) = Len(q) + Len(r)
    <2>1. x \in Seq(S) /\ Len(x) = Len(a) + Len(Tail(r))
      BY <1>1, <1>4, ConcatProperties
    <2> HIDE DEF x
    <2> QED BY <1>1, <1>3, <1>4, <2>1
  <1>8. y \in Seq(S) /\ Len(y) = Len(q) + Len(r)
    BY ConcatProperties
  <1>9. ASSUME NEW i \in 1 .. Len(x) PROVE x[i] = y[i]
    <2>1. i \in 1 .. Len(q) + Len(r) /\ i \in 1 .. Len(a) + Len(Tail(r))
      BY <1>1, <1>3, <1>4, <1>7
    <2>2. y[i] = IF i <= Len(q) THEN q[i] ELSE r[i - Len(q)]
      BY <2>1, ConcatProperties
    <2>3. x[i] = IF i <= Len(a) THEN a[i] ELSE Tail(r)[i - Len(a)]
      BY <1>1, <1>4, <2>1, ConcatProperties
    <2> HIDE DEF x, y
    <2>4. CASE i <= Len(q)
      BY <1>3, <1>4, <1>5, <2>1, <2>2, <2>3, <2>4
    <2>5. CASE i = Len(q) + 1
      BY <1>3, <1>4, <1>6, <2>1, <2>2, <2>3, <2>5
    <2>6. CASE i > Len(q) + 1
      <3>1. PICK j \in 1 .. Len(Tail(r)) : i - Len(a) = j /\ i - Len(q) = j + 1
        <4>1. i - Len(a) \in 1 .. Len(Tail(r)) /\ i - Len(q) = (i - Len(a)) + 1
          BY <1>1, <1>3, <1>4, <2>1, <2>6
        <4> QED BY <4>1
      <3>2. ~(i <= Len(q)) /\ ~(i <= Len(a))
        BY <1>3, <1>4, <2>1, <2>6
      <3>3. y[i] = r[j + 1]
        BY <2>2, <3>1, <3>2, Zenon
      <3>4. x[i] = Tail(r)[j]
        BY <2>3, <3>1, <3>2, Zenon
      <3>5. Tail(r)[j] = r[j + 1]
        BY <1>2
      <3> QED BY <3>3, <3>4, <3>5, Zenon
    <2> QED BY <1>3, <2>1, <2>4, <2>5, <2>6
  <1> HIDE DEF x, y
  <1>10. x = y
    BY <1>7, <1>8, <1>9, SeqEqual
  <1> QED BY <1>10 DEF x, y, a

LEMMA AppendToConcat ==
    ASSUME NEW S, NEW q \in Seq(S), NEW r \in Seq(S), NEW e \in S
    PROVE  q \o Append(r, e) = Append(q \o r, e) /\ q \o r \in Seq(S)
  <1>0. <<e>> \in Seq(S)
    OBVIOUS
  <1>1. PICK u : u = <<e>> /\ u \in Seq(S)
    BY <1>0
  <1>2. Append(r, e) = r \o u
    BY <1>1, AppendIsConcat
  <1>3. q \o r \in Seq(S)
    BY ConcatProperties
  <1>4. Append(q \o r, e) = (q \o r) \o u
    BY <1>1, <1>3, AppendIsConcat
  <1>5. (q \o r) \o u = q \o (r \o u)
    BY ConcatAssociative
  <1> QED BY <1>2, <1>3, <1>4, <1>5

LEMMA LastOfAppend ==
    ASSUME NEW q \in Seq(Event), NEW e \in Event
    PROVE  /\ IsLastOfItsType(e, Append(q, e))
           /\ \A f \in Event : f.type # e.type /\ IsLastOfItsType(f, q) => IsLastOfItsType(f, Append(q, e))
           /\ \A t : t # e.type /\ ~HasType(t, q) => ~HasType(t, Append(q, e))
  <1> DEFINE a == Append(q, e)
  <1>1. /\ Len(q) \in Nat /\ DOMAIN q = 1 .. Len(q)
        /\ DOMAIN a = 1 .. Len(q) + 1 /\ a[Len(q) + 1] = e
        /\ \A i \in 1 .. Len(q) : a[i] = q[i]
    OBVIOUS
  <1> HIDE DEF a
  <1>2. IsLastOfItsType(e, a)
    <2>1. Len(q) + 1 \in DOMAIN a /\ \A j \in DOMAIN a : ~(j > Len(q) + 1)
      BY <1>1
    <2> QED BY <1>1, <2>1 DEF IsLastOfItsType
  <1>3. ASSUME NEW f \in Event, f.type # e.type, IsLastOfItsType(f, q)
        PROVE  IsLastOfItsType(f, a)
    <2>1. PICK k \in DOMAIN q : q[k] = f /\ \A j \in DOMAIN q : j > k => q[j].type # f.type
      BY <1>3 DEF IsLastOfItsType
    <2>2. k \in DOMAIN a /\ a[k] = f
      BY <1>1, <2>1
    <2>3. ASSUME NEW j \in DOMAIN a, j > k PROVE a[j].type # f.type
      <3>1. CASE j = Len(q) + 1
        BY <1>1, <1>3, <3>1
      <3>2. CASE j # Len(q) + 1
        <4>1. j \in 1 .. Len(q)
          BY <1>1, <2>3, <3>2
        <4> QED BY <1>1, <2>1, <2>3, <4>1
      <3> QED BY <3>1, <3>2
    <2> QED BY <2>2, <2>3 DEF IsLastOfItsType
  <1>4. ASSUME NEW t, t # e.type, ~HasType(t, q)
        PROVE  ~HasType(t, a)
    <2>1. ASSUME NEW k \in DOMAIN a PROVE a[k].type # t
      <3>1. CASE k = Len(q) + 1
        BY <1>1, <1>4, <3>1
      <3>2. CASE k # Len(q) + 1
        <4>1. k \in 1 .. Len(q)
          BY <1>1, <2>1, <3>2
        <4> QED BY <1>1, <1>4, <4>1 DEF HasType
      <3> QED BY <3>1, <3>2
    <2> QED BY <2>1 DEF HasType
  <1> QED BY <1>2, <1>3, <1>4 DEF a

LEMMA LastOfConcat ==
    ASSUME NEW q \in Seq(Event), NEW r \in Seq(Event), NEW e \in Event,
           IsLastOfItsType(e, r) \/ (IsLastOfItsType(e, q) /\ ~HasType(e.type, r))
    PROVE  IsLastOfItsType(e, q \o r)
  <1> DEFINE c == q \o r
  <1>1. Len(c) = Len(q) + Len(r) /\ c \in Seq(Event)
    BY ConcatProperties
  <1>2. \A i \in 1 .. Len(q) + Len(r) : c[i] = IF i <= Len(q) THEN q[i] ELSE r[i - Len(q)]
    BY ConcatProperties
  <1> HIDE DEF c
  <1>3. /\ Len(q) \in Nat /\ Len(r) \in Nat
        /\ DOMAIN q = 1 .. Len(q) /\ DOMAIN r = 1 .. Len(r) /\ DOMAIN c = 1 .. Len(q) + Len(r)
    BY <1>1
  <1>4. CASE IsLastOfItsType(e, r)
    <2>1. PICK k \in DOMAIN r : r[k] = e /\ \A j \in DOMAIN r : j > k => r[j].type # e.type
      BY <1>4 DEF IsLastOfItsType
    <2>2. Len(q) + k \in DOMAIN c /\ c[Len(q) + k] = e
      <3>1. Len(q) + k \in 1 .. Len(q) + Len(r) /\ ~(Len(q) + k <= Len(q)) /\ (Len(q) + k) - Len(q) = k
        BY <1>3, <2>1
      <3> QED BY <1>2, <1>3, <2>1, <3>1
    <2>3. ASSUME NEW j \in DOMAIN c, j > Len(q) + k PROVE c[j].type # e.type
      <3>1. j \in 1 .. Len(q) + Len(r) /\ ~(j <= Len(q)) /\ j - Len(q) \in DOMAIN r /\ j - Len(q) > k
        BY <1>3, <2>1, <2>3
      <3> QED BY <1>2, <2>1, <3>1
    <2> QED BY <2>2, <2>3 DEF IsLastOfItsType, c
  <1>5. CASE IsLastOfItsType(e, q) /\ ~HasType(e.type, r)
    <2>1. PICK k \in DOMAIN q : q[k] = e /\ \A j \in DOMAIN q : j > k => q[j].type # e.type
      BY <1>5 DEF IsLastOfItsType
    <2>2. k \in DOMAIN c /\ c[k] = e
      BY <1>2, <1>3, <2>1
    <2>3. ASSUME NEW j \in DOMAIN c, j > k PROVE c[j].type # e.type
      <3>1. CASE j <= Len(q)
        BY <1>2, <1>3, <2>1, <2>3, <3>1
      <3>2. CASE ~(j <= Len(q))
        <4>1. j - Len(q) \in DOMAIN r /\ c[j] = r[j - Len(q)]
          BY <1>2, <1>3, <2>3, <3>2
        <4> QED BY <1>5, <4>1 DEF HasType
      <3> QED BY <3>1, <3>2
    <2> QED BY <2>2, <2>3 DEF IsLastOfItsType, c
  <1> QED BY <1>4, <1>5

\* What is still to reach a stream is left alone by a step that changes nothing of it.
LEMMA CaughtKept ==
    ASSUME NEW s \in Streams, NEW e \in Event,
           at'[s] = at[s], All(s)' = All(s),
           \A p \in Publishers : s \in left'[p] <=> s \in left[p],
           \A p \in Publishers : s \in left[p] => current'[p] = current[p],
           Caught(e, s)
    PROVE  Caught(e, s)'
  <1>1. InFlight(e, s) => InFlight(e, s)'
    BY DEF InFlight
  <1>2. TypeInFlight(e.type, s)' => TypeInFlight(e.type, s)
    BY DEF TypeInFlight
  <1>3. Settled(e, s) => Settled(e, s)'
    BY <1>2 DEF Settled, IsLastOfItsType
  <1>4. Unheard(e, s) => Unheard(e, s)'
    BY <1>2 DEF Unheard, HasType
  <1> QED BY <1>1, <1>3, <1>4 DEF Caught

\* A step that leaves the last events alone and takes nothing back.
LEMMA SerialIsCaughtKept ==
    ASSUME TypeOK, SerialIsCaught, lastEvents' = lastEvents,
           \A s \in Streams : LostNothing(s)' =>
               /\ LostNothing(s)
               /\ \A e \in Event : e.type \in Serial /\ e \in Items(lastEvents) /\ Caught(e, s) => Caught(e, s)'
    PROVE  SerialIsCaught'
  <1> SUFFICES ASSUME NEW s \in Streams, LostNothing(s)',
                      NEW i \in DOMAIN lastEvents, lastEvents[i].type \in Serial
               PROVE  Caught(lastEvents[i], s)'
    BY DEF SerialIsCaught
  <1>1. PICK e \in Event : e = lastEvents[i]
    BY DEF TypeOK
  <1>2. e \in Items(lastEvents) /\ Caught(e, s)
    BY <1>1 DEF SerialIsCaught, Items
  <1>3. Caught(e, s)'
    BY <1>1, <1>2
  <1> QED BY <1>1, <1>3

\* All of a stream is the same sequence when its three parts are.
LEMMA AllKept ==
    ASSUME NEW s \in Streams,
           shown'[s] = shown[s], toReplay'[s] = toReplay[s], queue'[s] = queue[s]
    PROVE  All(s)' = All(s)
  BY DEF All

LEMMA StreamsInvInit == Init => StreamsInv
  <1> SUFFICES ASSUME Init PROVE StreamsInv
    OBVIOUS
  <1>1. IInv
    BY IInvInit
  <1>2. TypesAreCarried /\ TypesAreRememberedOnce /\ StreamsStartEmpty
    BY DEF Init, TypesAreCarried, TypesAreRememberedOnce, StreamsStartEmpty
  <1>3. SerialIsCaught
    BY DEF Init, SerialIsCaught, LostNothing
  <1> QED BY <1>1, <1>2, <1>3 DEF StreamsInv

\* Only one thread publishes an event of a serial type.
LEMMA SerialPublisher ==
    ASSUME TypesAreCarried, TypeOK,
           NEW p \in Publishers, NEW q \in Publishers,
           current[p] \in Event, current[q] \in Event,
           current[p].type = current[q].type, current[p].type \in Serial
    PROVE  p = q
  <1>1. current[p].type \in Carries[p] \cap Carries[q]
    BY BrokerAssumption DEF TypesAreCarried
  <1> QED BY <1>1 DEF Serial

\* Where an event was remembered of its type, it is the event now.
LEMMA RememberOnce ==
    ASSUME NEW q \in Seq(Event), NEW e \in Event,
           \A i, j \in DOMAIN q : q[i].type = q[j].type => i = j
    PROVE  /\ \A i, j \in DOMAIN Remember(q, e) :
                  Remember(q, e)[i].type = Remember(q, e)[j].type => i = j
           /\ \A i \in DOMAIN Remember(q, e) :
                  Remember(q, e)[i].type = e.type => Remember(q, e)[i] = e
  <1>1. CASE \E i \in DOMAIN q : q[i].type = e.type
    <2>1. Remember(q, e) = [i \in DOMAIN q |-> IF q[i].type = e.type THEN e ELSE q[i]]
      BY <1>1 DEF Remember
    <2> QED BY <2>1
  <1>2. CASE ~ \E i \in DOMAIN q : q[i].type = e.type
    <2> DEFINE a == Append(q, e)
    <2>1. Remember(q, e) = a
      BY <1>2 DEF Remember
    <2>2. /\ Len(q) \in Nat /\ DOMAIN q = 1 .. Len(q)
          /\ DOMAIN a = 1 .. Len(q) + 1 /\ a[Len(q) + 1] = e
          /\ \A i \in 1 .. Len(q) : a[i] = q[i]
      OBVIOUS
    <2> HIDE DEF a
    <2>3. \A i \in DOMAIN a : i \in DOMAIN q \/ i = Len(q) + 1
      BY <2>2
    <2> QED BY <1>2, <2>1, <2>2, <2>3
  <1> QED BY <1>1, <1>2

LEMMA AnnounceStreams ==
    ASSUME StreamsInv, NEW p \in Publishers, NEW t \in Carries[p], Announce(p, t)
    PROVE  StreamsInv'
  <1> DEFINE e == [type |-> t, by |-> p, n |-> published[p]]
  <1>0. IInv /\ TypeOK
    BY DEF StreamsInv, IInv
  <1>1. e \in Event /\ e.type = t
    BY <1>0, BrokerAssumption DEF TypeOK, Event
  <1>2. /\ current[p] = NoEvent
        /\ lastEvents' = Remember(lastEvents, e)
        /\ current' = [current EXCEPT ![p] = e]
        /\ left' = [left EXCEPT ![p] = subscribers]
        /\ UNCHANGED <<subscribers, at, toReplay, queue, shown, dropped>>
    BY DEF Announce, stream
  <1> HIDE DEF e
  <1>3. left[p] = {} /\ lastEvents \in Seq(Event)
    BY <1>0, <1>2 DEF IInv, TypeOK
  <1>4. /\ \A i, j \in DOMAIN lastEvents' : lastEvents'[i].type = lastEvents'[j].type => i = j
        /\ \A i \in DOMAIN lastEvents' : lastEvents'[i].type = t => lastEvents'[i] = e
        /\ lastEvents' \in Seq(Event)
        /\ Items(lastEvents') \subseteq Items(lastEvents) \cup {e}
    <2>1. \A i, j \in DOMAIN lastEvents : lastEvents[i].type = lastEvents[j].type => i = j
      BY DEF StreamsInv, TypesAreRememberedOnce
    <2> QED BY <1>1, <1>2, <1>3, <2>1, RememberOnce, RememberItems
  <1>5. current'[p] = e /\ left'[p] = subscribers
    BY <1>0, <1>2 DEF TypeOK
  <1>6. \A q \in Publishers : q # p => current'[q] = current[q] /\ left'[q] = left[q]
    BY <1>0, <1>2 DEF TypeOK
  <1>7. TypesAreCarried'
    BY <1>1, <1>5, <1>6 DEF StreamsInv, TypesAreCarried
  <1>8. TypesAreRememberedOnce'
    BY <1>4 DEF TypesAreRememberedOnce
  <1>9. StreamsStartEmpty'
    BY <1>0, <1>2, <1>5, <1>6 DEF StreamsInv, StreamsStartEmpty, IInv
  <1>10. ASSUME NEW s \in Streams, LostNothing(s)', NEW f \in Event, f \in Items(lastEvents'),
                NEW i \in DOMAIN lastEvents', f = lastEvents'[i], f.type \in Serial
         PROVE  Caught(f, s)'
    <2>1. LostNothing(s) /\ s \in subscribers
      BY <1>0, <1>2, <1>10 DEF LostNothing, IInv
    <2>2. CASE f = e
      BY <1>5, <2>1, <2>2 DEF Caught, InFlight
    <2>3. CASE f # e
      <3>1. f.type # t /\ f \in Items(lastEvents)
        BY <1>4, <1>10, <2>3
      <3>2. Caught(f, s)
        BY <1>10, <2>1, <3>1 DEF StreamsInv, SerialIsCaught, Items
      <3>3. InFlight(f, s) => InFlight(f, s)'
        <4> SUFFICES ASSUME NEW q \in Publishers, s \in left[q], current[q] = f
                     PROVE  InFlight(f, s)'
          BY DEF InFlight
        <4>1. q # p
          BY <1>3
        <4> QED BY <1>6, <4>1 DEF InFlight
      <3>4. TypeInFlight(f.type, s)' => TypeInFlight(f.type, s)
        <4> SUFFICES ASSUME NEW q \in Publishers, s \in left'[q], current'[q].type = f.type
                     PROVE  TypeInFlight(f.type, s)
          BY DEF TypeInFlight
        <4>1. q # p
          BY <1>1, <1>5, <3>1
        <4> QED BY <1>6, <4>1 DEF TypeInFlight
      <3>5. All(s)' = All(s) /\ at'[s] = at[s]
        BY <1>2 DEF All
      <3>6. Settled(f, s) => Settled(f, s)'
        BY <3>4, <3>5 DEF Settled, IsLastOfItsType
      <3>7. Unheard(f, s) => Unheard(f, s)'
        BY <3>4, <3>5 DEF Unheard, HasType
      <3> QED BY <3>2, <3>3, <3>6, <3>7 DEF Caught
    <2> QED BY <2>2, <2>3
  <1>11. SerialIsCaught'
    <2> SUFFICES ASSUME NEW s \in Streams, LostNothing(s)',
                        NEW i \in DOMAIN lastEvents', lastEvents'[i].type \in Serial
                 PROVE  Caught(lastEvents[i], s)'
      BY DEF SerialIsCaught
    <2>1. PICK f \in Event : f = lastEvents'[i]
      BY <1>4
    <2>2. f \in Items(lastEvents')
      BY <2>1 DEF Items
    <2>3. Caught(f, s)'
      BY <1>10, <2>1, <2>2
    <2> QED BY <2>1, <2>3
  <1>12. IInv'
    BY <1>0, AnnounceStep
  <1> QED BY <1>7, <1>8, <1>9, <1>11, <1>12 DEF StreamsInv

LEMMA PutStreams ==
    ASSUME StreamsInv, NEW p \in Publishers, NEW s \in Streams, Put(p, s)
    PROVE  StreamsInv'
  <1>0. IInv /\ TypeOK
    BY DEF StreamsInv, IInv
  <1>1. /\ s \in left[p]
        /\ queue' = [queue EXCEPT ![s] = Append(queue[s], current[p])]
        /\ left' = [left EXCEPT ![p] = left[p] \ {s}]
        /\ UNCHANGED <<lastEvents, subscribers, published, current, at, toReplay, shown, dropped>>
    BY DEF Put, broker
  <1>2. PICK e \in Event : e = current[p]
    BY <1>0, <1>1 DEF TypeOK, IInv
  <1>3. All(s)' = Append(All(s), e) /\ All(s) \in Seq(Event)
    <2>1. queue'[s] = Append(queue[s], e) /\ shown'[s] = shown[s] /\ toReplay'[s] = toReplay[s]
      BY <1>0, <1>1, <1>2 DEF TypeOK
    <2> DEFINE q == shown[s] \o toReplay[s]
    <2>2. q \in Seq(Event) /\ queue[s] \in Seq(Event)
      BY <1>0, ConcatProperties DEF TypeOK
    <2>3. All(s)' = q \o Append(queue[s], e)
      BY <2>1 DEF All
    <2>4. All(s) = q \o queue[s]
      BY DEF All
    <2> HIDE DEF q
    <2>5. q \o Append(queue[s], e) = Append(q \o queue[s], e) /\ q \o queue[s] \in Seq(Event)
      BY <2>2, AppendToConcat
    <2> QED BY <2>3, <2>4, <2>5
  <1>4. /\ IsLastOfItsType(e, All(s))'
        /\ \A f \in Event : f.type # e.type /\ IsLastOfItsType(f, All(s)) => IsLastOfItsType(f, All(s))'
        /\ \A t : t # e.type /\ ~HasType(t, All(s)) => ~HasType(t, All(s))'
    <2> DEFINE a == All(s)
    <2>1. a \in Seq(Event) /\ All(s)' = Append(a, e)
      BY <1>3
    <2>2. /\ IsLastOfItsType(e, Append(a, e))
          /\ \A f \in Event : f.type # e.type /\ IsLastOfItsType(f, a) => IsLastOfItsType(f, Append(a, e))
          /\ \A t : t # e.type /\ ~HasType(t, a) => ~HasType(t, Append(a, e))
      <3> HIDE DEF a
      <3> QED BY <2>1, LastOfAppend
    <2> QED BY <2>1, <2>2 DEF IsLastOfItsType, HasType
  <1>5. \A q \in Publishers, r \in Streams : r \in left'[q] <=> r \in left[q] /\ ~(q = p /\ r = s)
    BY <1>0, <1>1 DEF TypeOK
  <1>6. ASSUME NEW f \in Event, f.type \in Serial, f \in Items(lastEvents), LostNothing(s), Caught(f, s)
        PROVE  Caught(f, s)'
    <2>1. CASE f.type = e.type
      <3>1. TypeInFlight(f.type, s)
        BY <1>1, <1>2, <2>1 DEF TypeInFlight
      <3>2. InFlight(f, s)
        BY <1>6, <3>1 DEF Caught, Settled, Unheard
      <3>3. PICK q \in Publishers : s \in left[q] /\ current[q] = f
        BY <3>2 DEF InFlight
      <3>4. q = p
        BY <1>0, <1>2, <1>6, <2>1, <3>3, SerialPublisher DEF StreamsInv
      <3>5. f = e
        BY <1>2, <3>3, <3>4
      <3>6. ASSUME NEW r \in Publishers, s \in left'[r], current'[r].type = f.type
            PROVE  FALSE
        <4>1. r # p /\ s \in left[r] /\ current[r].type = e.type
          BY <1>1, <1>5, <2>1, <3>6
        <4>2. current[r] \in Event
          BY <1>0, <4>1 DEF IInv, TypeOK
        <4>3. r = p
          BY <1>0, <1>2, <1>6, <2>1, <4>1, <4>2, SerialPublisher DEF StreamsInv
        <4> QED BY <4>1, <4>3
      <3>7. ~TypeInFlight(f.type, s)'
        BY <3>6 DEF TypeInFlight
      <3> QED BY <1>4, <3>5, <3>7 DEF Caught, Settled
    <2>2. CASE f.type # e.type
      <3>1. InFlight(f, s) => InFlight(f, s)'
        <4> SUFFICES ASSUME NEW q \in Publishers, s \in left[q], current[q] = f
                     PROVE  InFlight(f, s)'
          BY DEF InFlight
        <4>1. q # p
          BY <1>2, <2>2
        <4> QED BY <1>1, <1>5, <4>1 DEF InFlight
      <3>2. TypeInFlight(f.type, s)' => TypeInFlight(f.type, s)
        BY <1>1, <1>5 DEF TypeInFlight
      <3>3. Settled(f, s) => Settled(f, s)'
        BY <1>4, <2>2, <3>2 DEF Settled
      <3>4. Unheard(f, s) => Unheard(f, s)'
        BY <1>1, <1>4, <2>2, <3>2 DEF Unheard
      <3> QED BY <1>6, <3>1, <3>3, <3>4 DEF Caught
    <2> QED BY <2>1, <2>2
  <1>7. ASSUME NEW r \in Streams, LostNothing(r)'
        PROVE  /\ LostNothing(r)
               /\ \A f \in Event : f.type \in Serial /\ f \in Items(lastEvents) /\ Caught(f, r) => Caught(f, r)'
    <2>1. LostNothing(r)
      BY <1>1, <1>7 DEF LostNothing
    <2>2. CASE r = s
      BY <1>6, <2>1, <2>2
    <2>3. CASE r # s
      <3>1. All(r)' = All(r) /\ at'[r] = at[r]
        BY <1>0, <1>1, <2>3 DEF All, TypeOK
      <3>2. \A q \in Publishers : (r \in left'[q] <=> r \in left[q]) /\ current'[q] = current[q]
        BY <1>1, <1>5, <2>3
      <3> QED BY <2>1, <3>1, <3>2, CaughtKept
    <2> QED BY <2>1, <2>2, <2>3
  <1>8. SerialIsCaught'
    BY <1>0, <1>1, <1>7, SerialIsCaughtKept DEF StreamsInv
  <1>9. TypesAreCarried' /\ TypesAreRememberedOnce'
    BY <1>1 DEF StreamsInv, TypesAreCarried, TypesAreRememberedOnce
  <1>10. at[s] # "new"
    BY <1>1 DEF StreamsInv, StreamsStartEmpty
  <1>11. \A r \in Streams : r # s => queue'[r] = queue[r]
    BY <1>0, <1>1 DEF TypeOK
  <1>12. StreamsStartEmpty'
    BY <1>1, <1>5, <1>10, <1>11 DEF StreamsInv, StreamsStartEmpty
  <1>13. IInv'
    BY <1>0, PutStep
  <1> QED BY <1>8, <1>9, <1>12, <1>13 DEF StreamsInv

\* A stream whose full queue refuses the event has lost it.
LEMMA DropStreams ==
    ASSUME StreamsInv, NEW p \in Publishers, NEW s \in Streams, Drop(p, s)
    PROVE  StreamsInv'
  <1>0. IInv /\ TypeOK
    BY DEF StreamsInv, IInv
  <1>1. /\ dropped' = [dropped EXCEPT ![s] = dropped[s] \cup {current[p]}]
        /\ left' = [left EXCEPT ![p] = left[p] \ {s}]
        /\ UNCHANGED <<lastEvents, subscribers, published, current, at, toReplay, queue, shown>>
    BY DEF Drop, broker
  <1>2. \A q \in Publishers, r \in Streams : r \in left'[q] <=> r \in left[q] /\ ~(q = p /\ r = s)
    BY <1>0, <1>1 DEF TypeOK
  <1>3. ASSUME NEW r \in Streams, LostNothing(r)'
        PROVE  /\ LostNothing(r)
               /\ \A f \in Event : f.type \in Serial /\ f \in Items(lastEvents) /\ Caught(f, r) => Caught(f, r)'
    <2>1. r # s /\ LostNothing(r)
      BY <1>0, <1>1, <1>3 DEF LostNothing, TypeOK
    <2>2. All(r)' = All(r) /\ at'[r] = at[r]
      BY <1>1 DEF All
    <2>3. \A q \in Publishers : (r \in left'[q] <=> r \in left[q]) /\ current'[q] = current[q]
      BY <1>1, <1>2, <2>1
    <2> QED BY <2>1, <2>2, <2>3, CaughtKept
  <1>4. SerialIsCaught'
    BY <1>0, <1>1, <1>3, SerialIsCaughtKept DEF StreamsInv
  <1>5. TypesAreCarried' /\ TypesAreRememberedOnce'
    BY <1>1 DEF StreamsInv, TypesAreCarried, TypesAreRememberedOnce
  <1>6. StreamsStartEmpty'
    BY <1>1, <1>2 DEF StreamsInv, StreamsStartEmpty
  <1>7. IInv'
    BY <1>0, DropStep
  <1> QED BY <1>4, <1>5, <1>6, <1>7 DEF StreamsInv

LEMMA ReturnStreams ==
    ASSUME StreamsInv, NEW p \in Publishers, Return(p)
    PROVE  StreamsInv'
  <1>0. IInv /\ TypeOK
    BY DEF StreamsInv, IInv
  <1>1. /\ left[p] = {}
        /\ current' = [current EXCEPT ![p] = NoEvent]
        /\ UNCHANGED <<lastEvents, subscribers, published, left, at, toReplay, queue, shown, dropped>>
    BY DEF Return, broker, stream
  <1>2. \A q \in Publishers : q # p => current'[q] = current[q]
    BY <1>0, <1>1 DEF TypeOK
  <1>3. ASSUME NEW r \in Streams, LostNothing(r)'
        PROVE  /\ LostNothing(r)
               /\ \A f \in Event : f.type \in Serial /\ f \in Items(lastEvents) /\ Caught(f, r) => Caught(f, r)'
    <2>1. LostNothing(r)
      BY <1>1, <1>3 DEF LostNothing
    <2>2. All(r)' = All(r) /\ at'[r] = at[r]
      BY <1>1 DEF All
    <2>3. \A q \in Publishers : (r \in left'[q] <=> r \in left[q]) /\ (r \in left[q] => current'[q] = current[q])
      BY <1>1, <1>2
    <2> QED BY <2>1, <2>2, <2>3, CaughtKept
  <1>4. SerialIsCaught'
    BY <1>0, <1>1, <1>3, SerialIsCaughtKept DEF StreamsInv
  <1>5. current'[p] = NoEvent
    BY <1>0, <1>1 DEF TypeOK
  <1>6. TypesAreCarried' /\ TypesAreRememberedOnce'
    BY <1>1, <1>2, <1>5 DEF StreamsInv, TypesAreCarried, TypesAreRememberedOnce
  <1>7. StreamsStartEmpty'
    BY <1>1 DEF StreamsInv, StreamsStartEmpty
  <1>8. IInv'
    BY <1>0, ReturnStep
  <1> QED BY <1>4, <1>6, <1>7, <1>8 DEF StreamsInv

\* A stream begins with nothing: no event has come and none is on its way.
LEMMA SubscribeStreams ==
    ASSUME StreamsInv, NEW s \in Streams, Subscribe(s)
    PROVE  StreamsInv'
  <1>0. IInv /\ TypeOK
    BY DEF StreamsInv, IInv
  <1>1. /\ at[s] = "new"
        /\ at' = [at EXCEPT ![s] = "subscribed"]
        /\ UNCHANGED <<lastEvents, published, current, left, toReplay, queue, shown, dropped>>
    BY DEF Subscribe, publisher
  <1>2. at'[s] = "subscribed" /\ \A r \in Streams : r # s => at'[r] = at[r]
    BY <1>0, <1>1 DEF TypeOK
  <1>3. /\ queue[s] = <<>> /\ toReplay[s] = <<>> /\ shown[s] = <<>>
        /\ \A p \in Publishers : s \notin left[p]
    BY <1>1 DEF StreamsInv, StreamsStartEmpty
  <1>4. All(s)' = <<>>
    BY <1>1, <1>3, ConcatEmptySeq, EmptySeq DEF All
  <1>5. \A f \in Event : Caught(f, s)'
    BY <1>1, <1>2, <1>3, <1>4 DEF Caught, Unheard, TypeInFlight, HasType
  <1>6. ASSUME NEW r \in Streams, LostNothing(r)',
               NEW i \in DOMAIN lastEvents', lastEvents'[i].type \in Serial
        PROVE  Caught(lastEvents[i], r)'
    <2>1. PICK f \in Event : f = lastEvents[i]
      BY <1>0, <1>1 DEF TypeOK
    <2>2. Caught(f, r)'
      <3>1. CASE r = s
        BY <1>5, <3>1
      <3>2. CASE r # s
        <4>1. LostNothing(r) /\ at'[r] = at[r]
          BY <1>1, <1>2, <1>6, <3>2 DEF LostNothing
        <4>2. Caught(f, r)
          BY <1>1, <1>6, <2>1, <4>1 DEF StreamsInv, SerialIsCaught
        <4>3. All(r)' = All(r)
          BY <1>1 DEF All
        <4> QED BY <1>1, <4>1, <4>2, <4>3, CaughtKept
      <3> QED BY <3>1, <3>2
    <2>3. f = lastEvents'[i]
      BY <1>1, <2>1
    <2> QED BY <2>2, <2>3
  <1>7. SerialIsCaught'
    BY <1>6 DEF SerialIsCaught
  <1>8. TypesAreCarried' /\ TypesAreRememberedOnce'
    BY <1>1 DEF StreamsInv, TypesAreCarried, TypesAreRememberedOnce
  <1>9. StreamsStartEmpty'
    BY <1>1, <1>2 DEF StreamsInv, StreamsStartEmpty
  <1>10. IInv'
    BY <1>0, SubscribeStep
  <1> QED BY <1>7, <1>8, <1>9, <1>10 DEF StreamsInv

\* The last events, each the only one of its type, come before what was queued.
LEMMA ReadStreams ==
    ASSUME StreamsInv, NEW s \in Streams, ReadLastEvents(s)
    PROVE  StreamsInv'
  <1>0. IInv /\ TypeOK
    BY DEF StreamsInv, IInv
  <1>1. /\ at[s] = "subscribed"
        /\ toReplay' = [toReplay EXCEPT ![s] = lastEvents]
        /\ at' = [at EXCEPT ![s] = "streaming"]
        /\ UNCHANGED <<lastEvents, subscribers, published, current, left, queue, shown, dropped>>
    BY DEF ReadLastEvents, broker, publisher
  <1>2. /\ at'[s] = "streaming" /\ toReplay'[s] = lastEvents
        /\ \A r \in Streams : r # s => at'[r] = at[r] /\ toReplay'[r] = toReplay[r]
    BY <1>0, <1>1 DEF TypeOK
  <1>3. /\ toReplay[s] = <<>> /\ shown[s] = <<>> /\ queue[s] \in Seq(Event) /\ lastEvents \in Seq(Event)
    BY <1>0, <1>1 DEF StreamsInv, StreamsStartEmpty, TypeOK
  <1>4. All(s) = queue[s]
    BY <1>3, ConcatEmptySeq, EmptySeq DEF All
  <1>5. All(s)' = lastEvents \o queue[s]
    BY <1>1, <1>2, <1>3, ConcatEmptySeq DEF All
  <1>6. \A i \in DOMAIN lastEvents : IsLastOfItsType(lastEvents[i], lastEvents)
    BY <1>3 DEF StreamsInv, TypesAreRememberedOnce, IsLastOfItsType
  <1>7. ASSUME NEW f \in Event, f \in Items(lastEvents), Caught(f, s)
        PROVE  Caught(f, s)'
    <2>1. InFlight(f, s) => InFlight(f, s)'
      BY <1>1 DEF InFlight
    <2>2. TypeInFlight(f.type, s)' => TypeInFlight(f.type, s)
      BY <1>1 DEF TypeInFlight
    <2>3. IsLastOfItsType(f, lastEvents)
      BY <1>6, <1>7 DEF Items
    <2>4. CASE Settled(f, s)
      <3>1. IsLastOfItsType(f, queue[s])
        BY <1>4, <2>4 DEF Settled
      <3>2. IsLastOfItsType(f, lastEvents \o queue[s])
        BY <1>3, <3>1, LastOfConcat
      <3>3. IsLastOfItsType(f, All(s))'
        BY <1>5, <3>2 DEF IsLastOfItsType
      <3> QED BY <2>2, <2>4, <3>3 DEF Caught, Settled
    <2>5. CASE Unheard(f, s)
      <3>1. ~HasType(f.type, queue[s])
        BY <1>4, <2>5 DEF Unheard
      <3>2. IsLastOfItsType(f, lastEvents \o queue[s])
        BY <1>3, <2>3, <3>1, LastOfConcat
      <3>3. IsLastOfItsType(f, All(s))'
        BY <1>5, <3>2 DEF IsLastOfItsType
      <3> QED BY <2>2, <2>5, <3>3 DEF Caught, Settled, Unheard
    <2> QED BY <1>7, <2>1, <2>4, <2>5 DEF Caught
  <1>8. ASSUME NEW r \in Streams, LostNothing(r)'
        PROVE  /\ LostNothing(r)
               /\ \A f \in Event : f.type \in Serial /\ f \in Items(lastEvents) /\ Caught(f, r) => Caught(f, r)'
    <2>1. LostNothing(r)
      BY <1>1, <1>2, <1>8 DEF LostNothing
    <2>2. CASE r = s
      BY <1>7, <2>1, <2>2
    <2>3. CASE r # s
      <3>1. All(r)' = All(r) /\ at'[r] = at[r]
        BY <1>1, <1>2, <2>3 DEF All
      <3> QED BY <1>1, <2>1, <3>1, CaughtKept
    <2> QED BY <2>2, <2>3
  <1>9. SerialIsCaught'
    BY <1>0, <1>1, <1>8, SerialIsCaughtKept DEF StreamsInv
  <1>10. TypesAreCarried' /\ TypesAreRememberedOnce'
    BY <1>1 DEF StreamsInv, TypesAreCarried, TypesAreRememberedOnce
  <1>11. StreamsStartEmpty'
    BY <1>1, <1>2 DEF StreamsInv, StreamsStartEmpty
  <1>12. IInv'
    BY <1>0, ReadLastEventsStep
  <1> QED BY <1>9, <1>10, <1>11, <1>12 DEF StreamsInv

\* A step of a stream that is streaming, in which nothing of it but its own parts changes.
LEMMA StreamingKept ==
    ASSUME StreamsInv, NEW s \in Streams, at[s] = "streaming", All(s)' = All(s), IInv',
           \A r \in Streams : r # s =>
               shown'[r] = shown[r] /\ toReplay'[r] = toReplay[r] /\ queue'[r] = queue[r],
           UNCHANGED <<lastEvents, current, left, at, dropped>>
    PROVE  StreamsInv'
  <1>1. TypeOK
    BY DEF StreamsInv, IInv
  <1>2. \A r \in Streams : All(r)' = All(r)
    BY DEF All
  <1>3. ASSUME NEW r \in Streams, LostNothing(r)'
        PROVE  /\ LostNothing(r)
               /\ \A f \in Event : f.type \in Serial /\ f \in Items(lastEvents) /\ Caught(f, r) => Caught(f, r)'
    <2>1. LostNothing(r)
      BY <1>3 DEF LostNothing
    <2> QED BY <1>2, <2>1, CaughtKept
  <1>4. SerialIsCaught'
    BY <1>1, <1>3, SerialIsCaughtKept DEF StreamsInv
  <1>5. TypesAreCarried' /\ TypesAreRememberedOnce'
    BY DEF StreamsInv, TypesAreCarried, TypesAreRememberedOnce
  <1>6. StreamsStartEmpty'
    BY DEF StreamsInv, StreamsStartEmpty
  <1> QED BY <1>4, <1>5, <1>6 DEF StreamsInv

LEMMA ReplayStreams ==
    ASSUME StreamsInv, NEW s \in Streams, Replay(s)
    PROVE  StreamsInv'
  <1>0. IInv /\ TypeOK
    BY DEF StreamsInv, IInv
  <1>1. /\ at[s] = "streaming" /\ toReplay[s] # <<>>
        /\ shown' = [shown EXCEPT ![s] = Append(shown[s], Head(toReplay[s]))]
        /\ toReplay' = [toReplay EXCEPT ![s] = Tail(toReplay[s])]
        /\ UNCHANGED <<lastEvents, subscribers, published, current, left, at, queue, dropped>>
    BY DEF Replay, broker, publisher
  <1>2. shown[s] \in Seq(Event) /\ toReplay[s] \in Seq(Event)
    BY <1>0 DEF TypeOK
  <1>3. Append(shown[s], Head(toReplay[s])) \o Tail(toReplay[s]) = shown[s] \o toReplay[s]
    BY <1>1, <1>2, MoveHead
  <1>4. shown'[s] = Append(shown[s], Head(toReplay[s])) /\ toReplay'[s] = Tail(toReplay[s])
    BY <1>0, <1>1 DEF TypeOK
  <1>5. All(s)' = All(s)
    BY <1>1, <1>3, <1>4 DEF All
  <1>6. \A r \in Streams : r # s => shown'[r] = shown[r] /\ toReplay'[r] = toReplay[r] /\ queue'[r] = queue[r]
    BY <1>0, <1>1 DEF TypeOK
  <1>7. IInv'
    BY <1>0, ReplayStep
  <1> QED BY <1>1, <1>5, <1>6, <1>7, StreamingKept

\* Here it matters that the queue waits for the replay: with last events left
\* to show, the event taken would overtake them.
LEMMA TakeStreams ==
    ASSUME StreamsInv, NEW s \in Streams, Take(s)
    PROVE  StreamsInv'
  <1>0. IInv /\ TypeOK
    BY DEF StreamsInv, IInv
  <1>1. /\ at[s] = "streaming" /\ toReplay[s] = <<>> /\ queue[s] # <<>>
        /\ shown' = [shown EXCEPT ![s] = Append(shown[s], Head(queue[s]))]
        /\ queue' = [queue EXCEPT ![s] = Tail(queue[s])]
        /\ UNCHANGED <<lastEvents, subscribers, published, current, left, at, toReplay, dropped>>
    BY DEF Take, broker, publisher
  <1>2. shown[s] \in Seq(Event) /\ queue[s] \in Seq(Event)
    BY <1>0 DEF TypeOK
  <1>3. Append(shown[s], Head(queue[s])) \o Tail(queue[s]) = shown[s] \o queue[s]
    BY <1>1, <1>2, MoveHead
  <1>4. shown'[s] = Append(shown[s], Head(queue[s])) /\ queue'[s] = Tail(queue[s])
    BY <1>0, <1>1 DEF TypeOK
  <1>5. shown'[s] \in Seq(Event)
    BY <1>1, <1>2, <1>4, HeadTailProperties
  <1>6. shown[s] \o toReplay[s] = shown[s] /\ shown'[s] \o toReplay[s] = shown'[s]
    BY <1>1, <1>2, <1>5, ConcatEmptySeq
  <1>7. All(s)' = All(s)
    BY <1>1, <1>3, <1>4, <1>6 DEF All
  <1>8. \A r \in Streams : r # s => shown'[r] = shown[r] /\ toReplay'[r] = toReplay[r] /\ queue'[r] = queue[r]
    BY <1>0, <1>1 DEF TypeOK
  <1>9. IInv'
    BY <1>0, TakeStep
  <1> QED BY <1>1, <1>7, <1>8, <1>9, StreamingKept

LEMMA DisconnectStreams ==
    ASSUME StreamsInv, NEW s \in Streams, Disconnect(s)
    PROVE  StreamsInv'
  <1>0. IInv /\ TypeOK
    BY DEF StreamsInv, IInv
  <1>1. /\ at' = [at EXCEPT ![s] = "closed"]
        /\ toReplay' = [toReplay EXCEPT ![s] = <<>>]
        /\ queue' = [queue EXCEPT ![s] = <<>>]
        /\ shown' = [shown EXCEPT ![s] = <<>>]
        /\ dropped' = [dropped EXCEPT ![s] = {}]
        /\ UNCHANGED <<lastEvents, published, current, left>>
    BY DEF Disconnect, publisher
  <1>2. /\ at'[s] = "closed"
        /\ \A r \in Streams : r # s =>
              /\ at'[r] = at[r] /\ dropped'[r] = dropped[r]
              /\ shown'[r] = shown[r] /\ toReplay'[r] = toReplay[r] /\ queue'[r] = queue[r]
    BY <1>0, <1>1 DEF TypeOK
  <1>3. ASSUME NEW r \in Streams, LostNothing(r)'
        PROVE  /\ LostNothing(r)
               /\ \A f \in Event : f.type \in Serial /\ f \in Items(lastEvents) /\ Caught(f, r) => Caught(f, r)'
    <2>1. r # s
      BY <1>2, <1>3 DEF LostNothing
    <2>2. LostNothing(r) /\ All(r)' = All(r) /\ at'[r] = at[r]
      BY <1>2, <1>3, <2>1 DEF LostNothing, All
    <2> QED BY <1>1, <2>2, CaughtKept
  <1>4. SerialIsCaught'
    BY <1>0, <1>1, <1>3, SerialIsCaughtKept DEF StreamsInv
  <1>5. TypesAreCarried' /\ TypesAreRememberedOnce'
    BY <1>1 DEF StreamsInv, TypesAreCarried, TypesAreRememberedOnce
  <1>6. StreamsStartEmpty'
    BY <1>1, <1>2 DEF StreamsInv, StreamsStartEmpty
  <1>7. IInv'
    BY <1>0, DisconnectStep
  <1> QED BY <1>4, <1>5, <1>6, <1>7 DEF StreamsInv

LEMMA StreamsInvStep == StreamsInv /\ [Next]_vars => StreamsInv'
  <1> SUFFICES ASSUME StreamsInv, [Next]_vars
               PROVE  StreamsInv'
    OBVIOUS
  <1>1. CASE UNCHANGED vars
    <2>1. UNCHANGED <<lastEvents, subscribers, published, current, left, at, toReplay, queue, shown, dropped>>
      BY <1>1 DEF vars, broker, publisher, stream
    <2>2. IInv'
      BY <1>1, IInvStep DEF StreamsInv
    <2>3. TypeOK
      BY DEF StreamsInv, IInv
    <2>4. \A r \in Streams : (LostNothing(r)' => LostNothing(r)) /\ \A f \in Event : Caught(f, r) => Caught(f, r)'
      BY <2>1, CaughtKept DEF LostNothing, All
    <2>5. SerialIsCaught'
      BY <2>1, <2>3, <2>4, SerialIsCaughtKept DEF StreamsInv
    <2>6. TypesAreCarried' /\ TypesAreRememberedOnce'
      BY <2>1 DEF StreamsInv, TypesAreCarried, TypesAreRememberedOnce
    <2>7. StreamsStartEmpty'
      BY <2>1 DEF StreamsInv, StreamsStartEmpty
    <2> QED BY <2>2, <2>5, <2>6, <2>7 DEF StreamsInv
  <1>2. CASE \E p \in Publishers : Publish(p)
    BY <1>2, AnnounceStreams, PutStreams, DropStreams, ReturnStreams DEF Publish
  <1>3. CASE \E s \in Streams : Stream(s)
    BY <1>3, SubscribeStreams, ReadStreams, ReplayStreams, TakeStreams, DisconnectStreams DEF Stream
  <1> QED BY <1>1, <1>2, <1>3 DEF Next

\* The invariant of the streams holds in every run.
THEOREM StreamsInvAlways == Spec => []StreamsInv
  BY StreamsInvInit, StreamsInvStep, PTL DEF Spec

\* However the threads that publish and the stream that opens interleave, a
\* stream whose queue refused nothing ends on the last event of the car and of
\* the commands: it never shows an older one last.
THEOREM StreamIsCurrentAlways == Spec => []StreamIsCurrent
  <1>1. StreamsInv => StreamIsCurrent
    <2> SUFFICES ASSUME StreamsInv, NEW s \in Streams, at[s] = "streaming", dropped[s] = {},
                        NEW i \in DOMAIN lastEvents, lastEvents[i].type \in Serial
                 PROVE  InFlight(lastEvents[i], s) \/ Settled(lastEvents[i], s)
      BY DEF StreamIsCurrent
    <2>1. Caught(lastEvents[i], s)
      BY DEF StreamsInv, SerialIsCaught, LostNothing
    <2> QED BY <2>1 DEF Caught, Unheard
  <1> QED BY <1>1, StreamsInvAlways, PTL
=============================================================================
