------------------------- MODULE ChargeControlProofs -------------------------
(***************************************************************************)
(* How far the next stop of a charge control can be put off, and how many   *)
(* orders a car that does not obey is sent.                                 *)
(***************************************************************************)
EXTENDS ChargeControl, FiniteSetTheorems, TLAPS

USE ControlAssumption

\* The days that the threads that add one have still to add, and the most they can.
Adding == Cardinality(AddingProcessors) + Cardinality(AddingSetters)

Threads == Cardinality(Processors) + Cardinality(Setters)

LEMMA Times ==
    ASSUME NEW n \in Nat
    PROVE  Day * n \in Nat /\ Day * (n + 1) = Day * n + Day
OBVIOUS

LEMMA TimesMonotone ==
    ASSUME NEW m \in Nat, NEW n \in Nat, m <= n
    PROVE  Day * m <= Day * n
OBVIOUS

\* The threads that add are some of the threads.
LEMMA AddingFinite ==
    /\ IsFiniteSet(AddingProcessors) /\ IsFiniteSet(AddingSetters)
    /\ Cardinality(AddingProcessors) \in Nat /\ Cardinality(AddingSetters) \in Nat
    /\ Cardinality(Processors) \in Nat /\ Cardinality(Setters) \in Nat
    /\ Cardinality(AddingProcessors) <= Cardinality(Processors)
    /\ Cardinality(AddingSetters) <= Cardinality(Setters)
<1>1. AddingProcessors \subseteq Processors /\ AddingSetters \subseteq Setters
  BY DEF AddingProcessors, AddingSetters
<1> QED
  BY <1>1, FS_Subset, FS_CardinalityType

\* Less are adding than there are, when one of them is not.
LEMMA AddingFewer ==
    /\ \A p \in Processors : p \notin AddingProcessors => Cardinality(AddingProcessors) + 1 <= Cardinality(Processors)
    /\ \A s \in Setters : s \notin AddingSetters => Cardinality(AddingSetters) + 1 <= Cardinality(Setters)
<1>1. ASSUME NEW p \in Processors, p \notin AddingProcessors
      PROVE  Cardinality(AddingProcessors) + 1 <= Cardinality(Processors)
  <2>1. AddingProcessors \cup {p} \subseteq Processors
    BY DEF AddingProcessors
  <2>2. Cardinality(AddingProcessors \cup {p}) = Cardinality(AddingProcessors) + 1
    BY <1>1, AddingFinite, FS_AddElement
  <2> QED
    BY <2>1, <2>2, FS_Subset
<1>2. ASSUME NEW s \in Setters, s \notin AddingSetters
      PROVE  Cardinality(AddingSetters) + 1 <= Cardinality(Setters)
  <2>1. AddingSetters \cup {s} \subseteq Setters
    BY DEF AddingSetters
  <2>2. Cardinality(AddingSetters \cup {s}) = Cardinality(AddingSetters) + 1
    BY <1>2, AddingFinite, FS_AddElement
  <2> QED
    BY <2>1, <2>2, FS_Subset
<1> QED
  BY <1>1, <1>2

LEMMA AddingBound == Adding \in Nat /\ Threads \in Nat /\ Adding <= Threads
BY AddingFinite DEF Adding, Threads

\* What the invariant says of the next stop.
Bounded == next # NoStop => next + Day * Adding <= now + Day * Threads

LEMMA IInvBounded == IInv <=> TypeOK /\ Bounded
BY DEF IInv, Bounded, Adding, Threads

LEMMA InitIInv == Init => IInv
<1> SUFFICES ASSUME Init
             PROVE  IInv
  OBVIOUS
<1>1. TypeOK
  <2>1. next \in Nat \cup {NoStop}
    BY DEF Init
  <2>2. car \in Status /\ seen \in Status \cup {NoStatus} /\ proc \in [Processors -> ProcState]
    BY DEF Init, Status, ProcState
  <2>3. now \in Nat /\ order \in 0..2 /\ lost \in Nat /\ retry \in Nat
    <3>1. now = 0 /\ order = 0 /\ lost = 0 /\ retry = 0
      BY DEF Init
    <3> QED
      BY <3>1
  <2>5. tried \in Nat
    BY DEF Init
  <2>4. setter \in [Setters -> {"idle", "compare", "plus"}]
    BY DEF Init
  <2> QED
    BY <2>1, <2>2, <2>3, <2>4, <2>5 DEF TypeOK
<1>2. AddingProcessors = {} /\ AddingSetters = {}
  BY DEF Init, AddingProcessors, AddingSetters
<1>3. Adding = 0
  BY <1>2, FS_EmptySet DEF Adding
<1>4. ASSUME next # NoStop
      PROVE  next <= now + Day * Threads
  <2>1. next \in 1..(Day - 1) /\ now = 0
    BY <1>4 DEF Init
  <2>2. PICK p \in Processors : TRUE
    OBVIOUS
  <2>3. Threads >= 1
    BY <1>2, <2>2, AddingFewer, AddingFinite DEF Threads
  <2>4. Day * 1 <= Day * Threads
    BY <2>3, AddingBound, TimesMonotone
  <2> QED
    BY <2>1, <2>4, AddingBound, Times
<1>5. Day * Adding = 0
  BY <1>3
<1>6. Bounded
  BY <1>1, <1>4, <1>5 DEF Bounded, TypeOK
<1> QED
  BY <1>1, <1>6, IInvBounded

\* The clock goes on and no thread starts or ends adding.
LEMMA NoneAdds ==
    ASSUME IInv, TypeOK', now' >= now, next' = next, AddingProcessors' = AddingProcessors,
           AddingSetters' = AddingSetters
    PROVE  IInv'
<1>1. now \in Nat /\ now' \in Nat /\ next \in Nat \cup {NoStop}
  BY IInvBounded DEF TypeOK
<1>2. Adding' = Adding /\ Threads' = Threads
  BY DEF Adding, Threads
<1>3. Day * Adding \in Nat /\ Day * Threads \in Nat
  BY AddingBound, Times
<1>4. Bounded
  BY IInvBounded
<1>5. Bounded'
  BY <1>1, <1>2, <1>3, <1>4 DEF Bounded
<1> QED
  BY <1>5 DEF IInv, Bounded, Adding, Threads

\* A thread sees the stop has passed, and one more is adding.
LEMMA OneMoreAdds ==
    ASSUME IInv, TypeOK', Due, now' = now, next' = next, Adding' = Adding + 1, Adding + 1 <= Threads,
           Threads' = Threads
    PROVE  IInv'
<1>1. next \in Nat /\ now \in Nat /\ next < now
  BY DEF IInv, TypeOK, Due
<1>2. Day * (Adding + 1) <= Day * Threads
  BY AddingBound, TimesMonotone
<1>3. Day * (Adding + 1) \in Nat /\ Day * Threads \in Nat
  BY AddingBound, Times
<1>4. Bounded'
  BY <1>1, <1>2, <1>3 DEF Bounded
<1> QED
  BY <1>4 DEF IInv, Bounded, Adding, Threads

\* A thread adds its day.
LEMMA OneLessAdds ==
    ASSUME IInv, TypeOK', now' = now, next' = IF next = NoStop THEN next ELSE next + Day,
           Adding' + 1 = Adding, Adding' \in Nat, Threads' = Threads
    PROVE  IInv'
<1>1. now \in Nat /\ next \in Nat \cup {NoStop}
  BY DEF IInv, TypeOK
<1>2. PICK n \in Nat : n = Adding'
  OBVIOUS
<1>3. Day * n \in Nat /\ Day * Adding = Day * n + Day
  BY <1>2, Times
<1>4. Day * Threads \in Nat
  BY AddingBound, Times
<1>5. Bounded
  BY IInvBounded
<1>6. CASE next = NoStop
  BY <1>6 DEF IInv
<1>7. CASE next # NoStop
  <2>1. next + (Day * n + Day) <= now + Day * Threads
    BY <1>3, <1>5, <1>7 DEF Bounded
  <2>2. next' = next + Day /\ next \in Nat
    BY <1>1, <1>7
  <2>3. next' + Day * n <= now + Day * Threads
    BY <1>1, <1>3, <1>4, <2>1, <2>2
  <2>4. next' + Day * Adding' <= now' + Day * Threads'
    BY <1>2, <2>3
  <2> QED
    BY <2>4 DEF IInv, Adding, Threads
<1> QED
  BY <1>6, <1>7

LEMMA EnvironmentIInv ==
    ASSUME IInv, Tick \/ Plug \/ Unplug \/ LevelPasses \/ Obey \/ Lose \/ Fetch \/ FetchFails
    PROVE  IInv'
<1>1. TypeOK
  BY DEF IInv
<1>2. TypeOK'
  <2>1. CASE Tick \/ Fetch \/ FetchFails
    BY <1>1, <2>1 DEF Tick, Fetch, FetchFails, TypeOK
  <2>2. CASE Plug \/ Unplug \/ LevelPasses
    BY <1>1, <2>2 DEF Plug, Unplug, LevelPasses, TypeOK, Status
  <2>3. CASE Obey \/ Lose
    <3>1. order' \in 0..2 /\ lost' \in Nat
      BY <1>1, <2>3 DEF Obey, Lose, TypeOK
    <3>2. car' \in Status
      BY <1>1, <2>3 DEF Obey, Lose, TypeOK, Status
    <3>3. UNCHANGED <<now, seen, next, retry, tried, proc, setter>>
      BY <2>3 DEF Obey, Lose
    <3> QED
      BY <1>1, <3>1, <3>2, <3>3 DEF TypeOK
  <2> QED
    BY <2>1, <2>2, <2>3
<1>3. UNCHANGED <<next, proc, setter>> /\ now' >= now
  BY <1>1 DEF Tick, Plug, Unplug, LevelPasses, Obey, Lose, Fetch, FetchFails, TypeOK
<1>4. AddingProcessors' = AddingProcessors /\ AddingSetters' = AddingSetters
  BY <1>3 DEF AddingProcessors, AddingSetters
<1> QED
  BY <1>2, <1>3, <1>4, NoneAdds

LEMMA PassHourIInv ==
    ASSUME IInv, NEW p \in Processors, PassHour(p)
    PROVE  IInv'
<1>1. TypeOK'
  BY DEF IInv, PassHour, TypeOK, ProcState, Status
<1>2. AddingProcessors' = AddingProcessors \cup {p} /\ p \notin AddingProcessors
  BY DEF IInv, PassHour, TypeOK, ProcState, AddingProcessors
<1>3. AddingSetters' = AddingSetters
  BY DEF PassHour, AddingSetters
<1>4. Cardinality(AddingProcessors') = Cardinality(AddingProcessors) + 1
  BY <1>2, AddingFinite, FS_AddElement
<1>5. Adding' = Adding + 1 /\ Adding + 1 <= Threads
  BY <1>2, <1>3, <1>4, AddingFinite, AddingFewer DEF Adding, Threads
<1> QED
  BY <1>1, <1>5, OneMoreAdds DEF PassHour, Threads

LEMMA AdvanceIInv ==
    ASSUME IInv, NEW p \in Processors, Advance(p)
    PROVE  IInv'
<1>1. TypeOK'
  BY DEF IInv, Advance, Goto, TypeOK, ProcState
<1>2. AddingProcessors' = AddingProcessors \ {p} /\ p \in AddingProcessors
  BY DEF IInv, Advance, Goto, TypeOK, ProcState, AddingProcessors
<1>3. AddingSetters' = AddingSetters
  BY DEF Advance, AddingSetters
<1>4. Cardinality(AddingProcessors') = Cardinality(AddingProcessors) - 1
  BY <1>2, AddingFinite, FS_RemoveElement
<1>5. Cardinality(AddingProcessors') \in Nat
  BY <1>2, AddingFinite, FS_RemoveElement, FS_CardinalityType
<1>6. Adding' + 1 = Adding /\ Adding' \in Nat
  BY <1>3, <1>4, <1>5, AddingFinite DEF Adding
<1> QED
  BY <1>1, <1>6, OneLessAdds DEF Advance, Threads

\* The other steps of a processor leave the stop alone.
LEMMA OtherProcessIInv ==
    ASSUME IInv, NEW p \in Processors,
           \/ ReachThreshold(p) \/ SeeIdle(p) \/ Reset(p) \/ Send(p) \/ SendRaises(p)
           \/ Confirm(p) \/ Insist(p) \/ Resend(p) \/ WaitRaises(p)
    PROVE  IInv'
<1>1. TypeOK
  BY DEF IInv
<1>2. proc' \in [Processors -> ProcState]
  <2>1. CASE ReachThreshold(p)
    BY <1>1, <2>1 DEF ReachThreshold, TypeOK, ProcState
  <2>2. CASE SeeIdle(p) \/ Reset(p) \/ Send(p) \/ SendRaises(p)
    BY <1>1, <2>2 DEF SeeIdle, Reset, Send, SendRaises, Goto, TypeOK, ProcState
  <2>3. CASE Confirm(p) \/ Insist(p) \/ Resend(p) \/ WaitRaises(p)
    BY <1>1, <2>3 DEF Confirm, Insist, Resend, WaitRaises, Goto, TypeOK, ProcState
  <2> QED
    BY <2>1, <2>2, <2>3
<1>3. retry' \in Nat /\ tried' \in Nat /\ order' \in 0..2 /\ lost' \in Nat
  BY <1>1 DEF ReachThreshold, SeeIdle, Reset, Send, SendRaises, Confirm, Insist, Resend, WaitRaises, UpTo,
     CountedTries, TypeOK
<1>4. seen' \in Status \cup {NoStatus} /\ UNCHANGED <<now, car, next, setter>>
  BY <1>1 DEF ReachThreshold, SeeIdle, Reset, Send, SendRaises, Confirm, Insist, Resend, WaitRaises,
     TypeOK, ProcState
<1>5. TypeOK'
  BY <1>1, <1>2, <1>3, <1>4 DEF TypeOK
<1>6. \A q \in Processors : (proc'[q].at = "advance") <=> (proc[q].at = "advance")
  BY <1>1 DEF ReachThreshold, SeeIdle, Reset, Send, SendRaises, Confirm, Insist, Resend, WaitRaises, Goto,
     TypeOK, ProcState
<1>7. AddingProcessors' = AddingProcessors /\ AddingSetters' = AddingSetters /\ now' >= now
  BY <1>1, <1>4, <1>6 DEF AddingProcessors, AddingSetters, TypeOK
<1> QED
  BY <1>4, <1>5, <1>7, NoneAdds

-----------------------------------------------------------------------------

\* An hour of today is less than a day ahead.
LEMMA TodayIsNear ==
    ASSUME NEW h \in Hours, now \in Nat
    PROVE  Today(h) \in Nat /\ Today(h) <= now + Day
<1>1. now \div Day \in Nat /\ (now \div Day) * Day <= now /\ (now \div Day) * Day \in Nat
  OBVIOUS
<1> QED
  BY <1>1 DEF Today

LEMMA SetHourIInv ==
    ASSUME IInv, NEW s \in Setters, SetHour(s)
    PROVE  IInv'
<1>1. TypeOK
  BY DEF IInv
<1>2. AddingProcessors' = AddingProcessors /\ UNCHANGED <<now, car, order, lost, seen, retry, tried, proc>>
  BY DEF SetHour, SetToday, ClearStop, Compare, PlusDay, AddingProcessors
<1>3. setter' \in [Setters -> {"idle", "compare", "plus"}]
  BY <1>1 DEF SetHour, SetToday, ClearStop, Compare, PlusDay, TypeOK
<1>4. CASE SetToday(s)
  <2>1. PICK h \in Hours : next' = Today(h)
    BY <1>4 DEF SetToday
  <2>2. next' \in Nat /\ next' <= now + Day /\ now \in Nat
    BY <1>1, <2>1, TodayIsNear DEF TypeOK
  <2>3. AddingSetters' = AddingSetters /\ s \notin AddingSetters
    BY <1>1, <1>4 DEF SetToday, TypeOK, AddingSetters
  <2>4. Adding' = Adding /\ Threads' = Threads /\ Adding + 1 <= Threads
    BY <1>2, <2>3, AddingFinite, AddingFewer DEF Adding, Threads
  <2>5. Day * Adding \in Nat /\ Day * (Adding + 1) = Day * Adding + Day /\ Day * Threads \in Nat
    BY AddingBound, Times
  <2>6. Day * (Adding + 1) <= Day * Threads
    BY <2>4, AddingBound, TimesMonotone
  <2>7. next' + Day * Adding <= now + Day * Threads
    BY <2>2, <2>5, <2>6
  <2>8. next' + Day * Adding' <= now' + Day * Threads'
    BY <1>2, <2>4, <2>7
  <2>9. TypeOK'
    BY <1>1, <1>2, <1>3, <2>2 DEF TypeOK
  <2> QED
    BY <2>8, <2>9 DEF IInv, Adding, Threads
<1>5. CASE ClearStop(s)
  <2>1. next' = NoStop
    BY <1>5 DEF ClearStop
  <2> QED
    BY <1>1, <1>2, <1>3, <2>1 DEF IInv, TypeOK
<1>6. CASE Compare(s)
  <2>1. TypeOK' /\ next' = next /\ now' = now
    BY <1>1, <1>2, <1>3, <1>6 DEF Compare, TypeOK
  <2>2. CASE ~Due
    <3>1. AddingSetters' = AddingSetters
      BY <1>1, <1>6, <2>2 DEF Compare, TypeOK, AddingSetters
    <3> QED
      BY <1>1, <1>2, <2>1, <3>1, NoneAdds DEF TypeOK
  <2>3. CASE Due
    <3>1. AddingSetters' = AddingSetters \cup {s} /\ s \notin AddingSetters
      BY <1>1, <1>6, <2>3 DEF Compare, TypeOK, AddingSetters
    <3>2. Cardinality(AddingSetters') = Cardinality(AddingSetters) + 1
      BY <3>1, AddingFinite, FS_AddElement
    <3>3. Adding' = Adding + 1 /\ Adding + 1 <= Threads
      BY <1>2, <3>1, <3>2, AddingFinite, AddingFewer DEF Adding, Threads
    <3> QED
      BY <2>1, <2>3, <3>3, OneMoreAdds DEF Threads
  <2> QED
    BY <2>2, <2>3
<1>7. CASE PlusDay(s)
  <2>1. TypeOK'
    BY <1>1, <1>2, <1>3, <1>7 DEF PlusDay, TypeOK
  <2>2. AddingSetters' = AddingSetters \ {s} /\ s \in AddingSetters
    BY <1>1, <1>7 DEF PlusDay, TypeOK, AddingSetters
  <2>3. Cardinality(AddingSetters') = Cardinality(AddingSetters) - 1
    BY <2>2, AddingFinite, FS_RemoveElement
  <2>4. Cardinality(AddingSetters') \in Nat
    BY <2>2, AddingFinite, FS_RemoveElement, FS_CardinalityType
  <2>5. Adding' + 1 = Adding /\ Adding' \in Nat
    BY <1>2, <2>3, <2>4, AddingFinite DEF Adding
  <2> QED
    BY <1>2, <1>7, <2>1, <2>5, OneLessAdds DEF PlusDay, Threads
<1> QED
  BY <1>4, <1>5, <1>6, <1>7 DEF SetHour

LEMMA NextIInv == IInv /\ [Next]_vars => IInv'
<1> SUFFICES ASSUME IInv, [Next]_vars
             PROVE  IInv'
  OBVIOUS
<1>1. CASE UNCHANGED vars
  <2>1. TypeOK'
    BY <1>1 DEF vars, IInv, TypeOK
  <2>2. AddingProcessors' = AddingProcessors /\ AddingSetters' = AddingSetters
    BY <1>1 DEF vars, AddingProcessors, AddingSetters
  <2> QED
    BY <1>1, <2>1, <2>2, NoneAdds DEF vars, IInv, TypeOK
<1> QED
  BY <1>1, EnvironmentIInv, PassHourIInv, AdvanceIInv, OtherProcessIInv, SetHourIInv DEF Next, Process

\* The inductive invariant, for any threads, any hours and any length of a day.
THEOREM IInvAlways == Spec => []IInv
BY InitIInv, NextIInv, PTL DEF Spec

LEMMA IInvBounds == IInv => NextStopIsBounded
<1> SUFFICES ASSUME IInv, next # NoStop
             PROVE  next <= now + Day * Threads
  BY DEF NextStopIsBounded, Threads
<1>1. next \in Nat /\ now \in Nat /\ Bounded
  BY IInvBounded DEF TypeOK
<1>2. Day * Adding \in Nat /\ Day * Threads \in Nat
  BY AddingBound, Times
<1> QED
  BY <1>1, <1>2 DEF Bounded

\* However process and set_stop_hour interleave, the next stop is at most as many
\* days ahead as there are threads.
THEOREM NextStopIsBoundedAlways == Spec => []NextStopIsBounded
BY IInvAlways, IInvBounds, PTL

-----------------------------------------------------------------------------
(* The orders for the threshold *)

LEMMA TryingFinite ==
    /\ IsFiniteSet(Trying) /\ Cardinality(Trying) \in Nat
    /\ IsFiniteSet(Beginning) /\ Cardinality(Beginning) \in Nat
    /\ Cardinality(Beginning) <= Cardinality(Trying)
    /\ Cardinality(Processors) \in Nat
    /\ \A p \in Processors : p \notin Trying => Cardinality(Trying) + 1 <= Cardinality(Processors)
<1>1. Trying \subseteq Processors /\ Beginning \subseteq Trying
  BY DEF Trying, Beginning
<1>2. IsFiniteSet(Trying) /\ Cardinality(Trying) \in Nat /\ Cardinality(Processors) \in Nat
  BY <1>1, FS_Subset, FS_CardinalityType
<1>3. IsFiniteSet(Beginning) /\ Cardinality(Beginning) \in Nat /\ Cardinality(Beginning) <= Cardinality(Trying)
  BY <1>1, <1>2, FS_Subset, FS_CardinalityType
<1>4. ASSUME NEW p \in Processors, p \notin Trying
      PROVE  Cardinality(Trying) + 1 <= Cardinality(Processors)
  <2>1. Trying \cup {p} \subseteq Processors
    BY <1>1
  <2>2. Cardinality(Trying \cup {p}) = Cardinality(Trying) + 1
    BY <1>2, <1>4, FS_AddElement
  <2> QED
    BY <2>1, <2>2, FS_Subset
<1> QED
  BY <1>2, <1>3, <1>4

\* What the invariant says of the count.
Counted == tried + Cardinality(Trying) + Cardinality(Beginning) <= 1 + 2 * Cardinality(Processors)

\* No order is counted and no thread starts to try.
LEMMA NoneTries ==
    ASSUME TypeOK, TypeOK', Counted, tried' <= tried, Trying' \subseteq Trying, Beginning' \subseteq Beginning
    PROVE  Counted'
<1>1. /\ Cardinality(Trying') <= Cardinality(Trying) /\ Cardinality(Trying') \in Nat
      /\ Cardinality(Beginning') <= Cardinality(Beginning) /\ Cardinality(Beginning') \in Nat
  BY TryingFinite, FS_Subset, FS_CardinalityType
<1> QED
  BY <1>1, TryingFinite DEF Counted, TypeOK

\* An order of a thread that tries is one less to come.
LEMMA OrderSent ==
    ASSUME TypeOK, TypeOK', Counted, tried' <= tried + 1, NEW p,
           \/ Trying' = Trying /\ p \in Beginning /\ Beginning' = Beginning \ {p}
           \/ Beginning' = Beginning /\ p \in Trying /\ Trying' = Trying \ {p}
    PROVE  Counted'
<1>1. CASE Trying' = Trying /\ p \in Beginning /\ Beginning' = Beginning \ {p}
  <2>1. Cardinality(Beginning') = Cardinality(Beginning) - 1
    BY <1>1, TryingFinite, FS_RemoveElement
  <2> QED
    BY <1>1, <2>1, TryingFinite DEF Counted, TypeOK
<1>2. CASE Beginning' = Beginning /\ p \in Trying /\ Trying' = Trying \ {p}
  <2>1. Cardinality(Trying') = Cardinality(Trying) - 1
    BY <1>2, TryingFinite, FS_RemoveElement
  <2> QED
    BY <1>2, <2>1, TryingFinite DEF Counted, TypeOK
<1> QED
  BY <1>1, <1>2

\* A count that stops at a bound stays under one that counts more.
LEMMA UpToMonotone ==
    ASSUME NEW bound \in Nat, NEW m \in Nat, NEW n \in Nat, m <= n
    PROVE  /\ UpTo(bound, m) <= UpTo(bound, n) /\ m <= UpTo(bound, n)
           /\ UpTo(bound, m) <= m + 1
BY DEF UpTo

LEMMA NextOrders ==
    ASSUME OrdersInv, [Next]_vars
    PROVE  OrdersInv'
<1> DEFINE Held(q) == proc[q].at = "advance" => ~proc[q].threshold
<1>1. IInv' /\ TypeOK /\ TypeOK' /\ Counted /\ tried <= retry /\ \A q \in Processors : Held(q)
  BY NextIInv DEF OrdersInv, IInv, Counted
<1>2. ASSUME UNCHANGED <<retry, tried, proc>>
      PROVE  OrdersInv'
  BY <1>1, <1>2 DEF OrdersInv, Trying, Beginning
<1>3. ASSUME NEW p \in Processors, ReachThreshold(p)
      PROVE  OrdersInv'
  <2>1. /\ proc' = [proc EXCEPT ![p] = [at |-> "send", charging |-> TRUE, threshold |-> TRUE]]
        /\ proc[p].at = "idle" /\ UNCHANGED <<retry, tried>> /\ retry < 2
    BY <1>3 DEF ReachThreshold, MayTry
  <2>2. /\ Trying' = Trying \cup {p} /\ Beginning' = Beginning \cup {p}
        /\ p \notin Trying /\ p \notin Beginning
    BY <1>1, <2>1 DEF Trying, Beginning, TypeOK
  <2>3. /\ Cardinality(Trying') = Cardinality(Trying) + 1
        /\ Cardinality(Beginning') = Cardinality(Beginning) + 1
    BY <2>2, TryingFinite, FS_AddElement
  <2>4. Cardinality(Trying) + 1 <= Cardinality(Processors)
    BY <2>2, TryingFinite
  <2>5. tried \in Nat /\ retry \in Nat /\ tried <= 1
    BY <1>1, <2>1 DEF TypeOK
  <2>6. tried' + Cardinality(Trying') + Cardinality(Beginning') <= 1 + 2 * Cardinality(Processors)
    BY <2>1, <2>3, <2>4, <2>5, TryingFinite
  <2>7. \A q \in Processors : Held(q)'
    BY <1>1, <2>1 DEF TypeOK
  <2> QED
    BY <1>1, <2>1, <2>6, <2>7 DEF OrdersInv
<1>4. ASSUME NEW p \in Processors,
             PassHour(p) \/ Advance(p) \/ SeeIdle(p) \/ SendRaises(p) \/ Insist(p) \/ WaitRaises(p)
      PROVE  OrdersInv'
  <2>1. UNCHANGED <<retry, tried>>
    BY <1>4 DEF PassHour, Advance, SeeIdle, SendRaises, Insist, WaitRaises
  <2>2. Trying' \subseteq Trying /\ Beginning' \subseteq Beginning /\ \A q \in Processors : Held(q)'
    BY <1>1, <1>4 DEF PassHour, Advance, SeeIdle, SendRaises, Insist, WaitRaises, Goto, Trying, Beginning,
       TypeOK, ProcState
  <2>3. Counted'
    BY <1>1, <2>1, <2>2, NoneTries DEF TypeOK
  <2> QED
    BY <1>1, <2>1, <2>2, <2>3 DEF OrdersInv, Counted
<1>5. ASSUME NEW p \in Processors, Reset(p) \/ Confirm(p)
      PROVE  OrdersInv'
  <2>1. retry' = 0 /\ tried' = 0
    BY <1>5 DEF Reset, Confirm
  <2>2. Trying' \subseteq Trying /\ Beginning' \subseteq Beginning /\ \A q \in Processors : Held(q)'
    BY <1>1, <1>5 DEF Reset, Confirm, Goto, Trying, Beginning, TypeOK, ProcState
  <2>3. Counted'
    BY <1>1, <2>1, <2>2, NoneTries DEF TypeOK
  <2> QED
    BY <1>1, <2>1, <2>2, <2>3 DEF OrdersInv, Counted
<1>6. ASSUME NEW p \in Processors, Send(p) \/ Resend(p)
      PROVE  OrdersInv'
  <2>1. retry' = UpTo(MaxRetry, retry) /\ tried' = CountedTries(p) /\ proc[p].at \in {"send", "resend"}
    BY <1>6 DEF Send, Resend
  <2>2. tried' <= retry' /\ tried' <= tried + 1 /\ (~proc[p].threshold => tried' = tried)
    <3>1. tried \in Nat /\ retry \in Nat /\ MaxRetry \in Nat /\ tried <= retry
      BY <1>1 DEF TypeOK
    <3>2. /\ UpTo(MaxRetry, tried) <= UpTo(MaxRetry, retry) /\ tried <= UpTo(MaxRetry, retry)
          /\ UpTo(MaxRetry, tried) <= tried + 1
      BY <3>1, UpToMonotone
    <3> QED
      BY <2>1, <3>1, <3>2 DEF CountedTries
  <2>3. \A q \in Processors : Held(q)'
    BY <1>1, <1>6 DEF Send, Resend, Goto, TypeOK, ProcState
  <2>4. CASE proc[p].threshold
    <3>1. CASE Send(p)
      <4>1. Trying' = Trying /\ p \in Beginning /\ Beginning' = Beginning \ {p}
        BY <1>1, <2>4, <3>1 DEF Send, Goto, Trying, Beginning, TypeOK, ProcState
      <4> QED
        BY <1>1, <2>2, <2>3, <4>1, OrderSent DEF OrdersInv, Counted
    <3>2. CASE Resend(p)
      <4>1. Beginning' = Beginning /\ p \in Trying /\ Trying' = Trying \ {p}
        BY <1>1, <2>4, <3>2 DEF Resend, Goto, Trying, Beginning, TypeOK, ProcState
      <4> QED
        BY <1>1, <2>2, <2>3, <4>1, OrderSent DEF OrdersInv, Counted
    <3> QED
      BY <1>6, <3>1, <3>2
  <2>5. CASE ~proc[p].threshold
    <3>1. Trying' \subseteq Trying /\ Beginning' \subseteq Beginning
      BY <1>1, <1>6, <2>5 DEF Send, Resend, Goto, Trying, Beginning, TypeOK, ProcState
    <3>2. Counted'
      BY <1>1, <2>2, <2>5, <3>1, NoneTries DEF TypeOK
    <3> QED
      BY <1>1, <2>2, <2>3, <3>2 DEF OrdersInv, Counted
  <2> QED
    BY <2>4, <2>5
<1>7. ASSUME Tick \/ Plug \/ Unplug \/ LevelPasses \/ Obey \/ Lose \/ Fetch \/ FetchFails
      PROVE  UNCHANGED <<retry, tried, proc>>
  BY <1>7 DEF Tick, Plug, Unplug, LevelPasses, Obey, Lose, Fetch, FetchFails
<1>8. ASSUME NEW s \in Setters, SetHour(s)
      PROVE  UNCHANGED <<retry, tried, proc>>
  BY <1>8 DEF SetHour, SetToday, ClearStop, Compare, PlusDay
<1>9. ASSUME UNCHANGED vars
      PROVE  UNCHANGED <<retry, tried, proc>>
  BY <1>9 DEF vars
<1> HIDE DEF Held
<1> QED
  BY <1>2, <1>3, <1>4, <1>5, <1>6, <1>7, <1>8, <1>9 DEF Next, Process

\* Whatever the stop hour adds to the count of retries and however the threads
\* that run process interleave, the orders for the threshold are bounded.
THEOREM OrdersAreBoundedAlways == Spec => []OrdersAreBounded
<1>1. Init => OrdersInv
  <2> SUFFICES ASSUME Init
               PROVE  OrdersInv
    OBVIOUS
  <2>1. Trying = {} /\ Beginning = {} /\ tried = 0 /\ retry = 0
    BY DEF Init, Trying, Beginning
  <2>2. Cardinality(Trying) = 0 /\ Cardinality(Beginning) = 0
    BY <2>1, FS_EmptySet
  <2>3. \A p \in Processors : proc[p].at # "advance"
    BY DEF Init
  <2> QED
    BY <2>1, <2>2, <2>3, InitIInv, TryingFinite DEF OrdersInv
<1>2. OrdersInv => OrdersAreBounded
  BY TryingFinite DEF OrdersInv, OrdersAreBounded, IInv, TypeOK
<1> QED
  BY <1>1, <1>2, NextOrders, PTL DEF Spec
=============================================================================
