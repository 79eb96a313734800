----------------------------- MODULE TripsProofs -----------------------------
(***************************************************************************)
(* The trips that the loop of get_trips finds, whatever the positions: in   *)
(* order and without a stop, with every kilometre, and the same again the   *)
(* next time; and the trips of PSA merged with them, whatever the lists     *)
(* that PSA gives: in order, with every kilometre, and told once.           *)
(***************************************************************************)
EXTENDS Trips, MergedTrips, TLAPS

LEMMA Elements == ASSUME NEW S, NEW s \in Seq(S), NEW k \in DOMAIN s PROVE s[k] \in S
OBVIOUS

\* What is in the sequences of the loop, and its numbers.
LEMMA TripTypes ==
    ASSUME TypeOK, NEW k \in DOMAIN trips
    PROVE  trips[k] \in Trip /\ trips[k].from \in Nat /\ trips[k].to \in Nat
<1>1. trips[k] \in Trip
  BY Elements DEF TypeOK
<1> QED
  BY <1>1 DEF Trip

LEMMA LoopNumbers ==
    ASSUME IInv
    PROVE  /\ start \in Nat /\ end \in Nat /\ Len(res) \in Nat
           /\ 1 <= start /\ start <= end /\ 2 <= end
BY DEF IInv, TypeOK

\* What is found by adding one trip to those that ended before start.
LEMMA WithTripIsSafe ==
    ASSUME IInv, InLoop,
           NEW to \in {end, end + 1},
           NEW inProgress \in BOOLEAN,
           \A i \in start..(to - 1) : ~IsStop(res[i], res[i + 1]),
           inProgress => to = Len(res),
           NEW found, found = WithTrip(start, to, inProgress)
    PROVE  /\ found \in Seq(Trip)
           /\ \A k \in DOMAIN found : found[k].to <= to
           /\ \A k \in DOMAIN found :
                 /\ 1 <= found[k].from /\ found[k].from < found[k].to /\ found[k].to <= Len(res)
                 /\ Km(res[found[k].from], res[found[k].to]) > 0
           /\ \A j, k \in DOMAIN found : j < k => found[j].to <= found[k].from
           /\ \A k \in DOMAIN found :
                 \A i \in Rows(found[k]) \ {found[k].to} : ~IsStop(res[i], res[i + 1])
           /\ \A k \in DOMAIN found :
                 found[k].inProgress => k = Len(found) /\ found[k].to = Len(res)
<1>1. /\ res \in Seq(Position) /\ trips \in Seq(Trip) /\ start \in Nat /\ end \in Nat /\ to \in Nat
      /\ 1 <= start /\ start <= end /\ end <= to /\ to <= Len(res)
      /\ end < Len(res)
  BY DEF IInv, TypeOK, InLoop
<1>2. \A k \in DOMAIN trips : trips[k] \in Trip /\ trips[k].to <= start
  BY <1>1 DEF IInv
<1>3. \A k \in DOMAIN trips : ~trips[k].inProgress
  BY <1>1, <1>2 DEF IInv, OnlyTheLastIsInProgress, Trip
<1>4. CASE found = trips
  BY <1>1, <1>2, <1>3, <1>4 DEF IInv, TripsInOrder, NoStopInside, Trip
<1>5. CASE found # trips
  <2> DEFINE new == [from |-> start, to |-> to, inProgress |-> inProgress]
  <2>1. Km(res[start], res[to]) > 0 /\ found = Append(trips, new)
    BY <1>5 DEF WithTrip
  <2>2. start < to
    <3>1. SUFFICES ASSUME start = to PROVE FALSE
      BY <1>1
    <3>2. res[start] \in Position
      BY <1>1
    <3> QED
      BY <2>1, <3>1, <3>2 DEF Km, Position
  <2>3. new \in Trip
    BY <1>1 DEF Trip
  <2> HIDE DEF new
  <2>4. /\ Len(found) = Len(trips) + 1 /\ Len(trips) \in Nat
        /\ DOMAIN found = 1..(Len(trips) + 1) /\ DOMAIN trips = 1..Len(trips)
        /\ \A k \in DOMAIN trips : found[k] = trips[k]
        /\ found[Len(trips) + 1] = new
        /\ found \in Seq(Trip)
    BY <1>1, <2>1, <2>3
  <2>5. \A k \in DOMAIN found : k \in DOMAIN trips \/ k = Len(trips) + 1
    BY <2>4
  <2>6. new.from = start /\ new.to = to /\ new.inProgress = inProgress
    BY DEF new
  <2>7. ASSUME NEW k \in DOMAIN found PROVE found[k].to <= to
    <3>1. CASE k \in DOMAIN trips
      <4>1. trips[k].to \in Nat /\ trips[k].to <= start
        BY <1>2, <3>1 DEF Trip
      <4> QED
        BY <1>1, <2>4, <3>1, <4>1
    <3>2. CASE k = Len(trips) + 1
      BY <1>1, <2>4, <2>6, <3>2
    <3> QED
      BY <2>5, <3>1, <3>2
  <2>8. \A k \in DOMAIN found :
           /\ 1 <= found[k].from /\ found[k].from < found[k].to /\ found[k].to <= Len(res)
           /\ Km(res[found[k].from], res[found[k].to]) > 0
    BY <1>1, <2>1, <2>2, <2>4, <2>5, <2>6 DEF IInv, TripsInOrder
  <2>9. ASSUME NEW j \in DOMAIN found, NEW k \in DOMAIN found, j < k
        PROVE  found[j].to <= found[k].from
    <3>1. j \in DOMAIN trips
      BY <2>4, <2>9
    <3>2. CASE k \in DOMAIN trips
      BY <2>4, <2>9, <3>1, <3>2 DEF IInv, TripsInOrder
    <3>3. CASE k = Len(trips) + 1
      BY <1>2, <2>4, <2>6, <3>1, <3>3
    <3> QED
      BY <2>5, <3>2, <3>3
  <2>10. ASSUME NEW k \in DOMAIN found, NEW i \in Rows(found[k]) \ {found[k].to}
         PROVE  ~IsStop(res[i], res[i + 1])
    <3>1. CASE k \in DOMAIN trips
      BY <2>4, <2>10, <3>1 DEF IInv, NoStopInside
    <3>2. CASE k = Len(trips) + 1
      <4>1. i \in start..(to - 1)
        BY <1>1, <2>4, <2>6, <2>10, <3>2 DEF Rows
      <4> QED
        BY <4>1
    <3> QED
      BY <2>5, <3>1, <3>2
  <2>11. \A k \in DOMAIN found :
            found[k].inProgress => k = Len(found) /\ found[k].to = Len(res)
    BY <1>3, <2>4, <2>5, <2>6
  <2> QED
    BY <2>4, <2>7, <2>8, <2>9, <2>10, <2>11
<1> QED
  BY <1>4, <1>5

\* The table is a sequence of positions, before and after its cleaning.
LEMMA CleanType == ASSUME NEW rows \in Seq(Position) PROVE Clean(rows) \in Seq(Position)
<1> DEFINE n == Len(rows)
           short == [i \in 1..(n - 1) |-> IF i = n - 1 THEN rows[n] ELSE rows[i]]
<1>1. CASE n >= 3
  <2>1. \A i \in 1..(n - 1) : short[i] \in Position
    BY <1>1
  <2>2. short \in Seq(Position)
    BY <1>1, <2>1
  <2> QED
    BY <2>2 DEF Clean
<1>2. CASE ~(n >= 3)
  BY <1>2 DEF Clean
<1> QED
  BY <1>1, <1>2

LEMMA InitIInv == Init => IInv
<1> SUFFICES ASSUME Init PROVE IInv
  OBVIOUS
<1>1. TypeOK
  BY DEF Init, TypeOK
<1> QED
  BY <1>1 DEF Init, IInv, LegsLookedAt, TripsInOrder, NoStopInside, OnlyTheLastIsInProgress

\* The loop's part of the invariant doesn't read the table.
LEMMA LoopUnchanged ==
    ASSUME IInv, TypeOK', UNCHANGED loop PROVE IInv'
BY DEF IInv, loop, LegsLookedAt, TripsInOrder, NoStopInside, OnlyTheLastIsInProgress, Rows, InLoop

LEMMA RecordIInv == IInv /\ Record => IInv'
<1> SUFFICES ASSUME IInv, Record PROVE IInv'
  OBVIOUS
<1>a. PICK leg \in Legs :
        /\ car' = [time    |-> car.time + leg.minutes,
                   mileage |-> car.mileage + leg.km,
                   level   |-> car.level - leg.used,
                   fuel    |-> car.fuel - leg.burnt]
        /\ position' = Clean(Append(position,
                          [car' EXCEPT !.level = IF "level" \in leg.told THEN @ ELSE Unknown,
                                       !.fuel = IF "fuel" \in leg.told THEN @ ELSE 0]))
  BY DEF Record
<1>1. TypeOK
  BY DEF IInv
<1>2. leg.minutes \in Nat /\ leg.km \in Nat /\ leg.used \in Int /\ leg.burnt \in Int
  BY TripsAssumption DEF Leg
<1>b. car \in [time: Nat, mileage: Nat, level: Int, fuel: Int]
  BY <1>1 DEF TypeOK
<1>c. /\ car.time + leg.minutes \in Nat /\ car.mileage + leg.km \in Nat
      /\ car.level - leg.used \in Int /\ car.fuel - leg.burnt \in Int
  BY <1>2, <1>b
<1>d. car' = [time    |-> car.time + leg.minutes,
              mileage |-> car.mileage + leg.km,
              level   |-> car.level - leg.used,
              fuel    |-> car.fuel - leg.burnt]
  BY <1>a
<1>3. car' \in [time: Nat, mileage: Nat, level: Int, fuel: Int]
  BY <1>c, <1>d
<1> DEFINE seen == [car' EXCEPT !.level = IF "level" \in leg.told THEN @ ELSE Unknown,
                               !.fuel = IF "fuel" \in leg.told THEN @ ELSE 0]
<1>4. seen \in Position
  <2> DEFINE level == IF "level" \in leg.told THEN car'.level ELSE Unknown
             fuel  == IF "fuel" \in leg.told THEN car'.fuel ELSE 0
  <2>1. seen = [car' EXCEPT !.level = level, !.fuel = fuel]
    BY <1>3
  <2>2. level \in Level /\ fuel \in Level
    BY <1>3 DEF Level
  <2> HIDE DEF level, fuel, seen
  <2> QED
    BY <1>3, <2>1, <2>2 DEF Position
<1> HIDE DEF seen
<1>e. position' = Clean(Append(position, seen))
  BY <1>a DEF seen
<1>f. Append(position, seen) \in Seq(Position)
  BY <1>1, <1>4 DEF TypeOK
<1>5. position' \in Seq(Position)
  BY <1>e, <1>f, CleanType
<1>6. TypeOK'
  BY <1>1, <1>3, <1>5 DEF TypeOK, Record, loop
<1> QED
  BY <1>6, LoopUnchanged DEF Record

LEMMA BeginIInv == IInv /\ Begin => IInv'
<1> SUFFICES ASSUME IInv, Begin PROVE IInv'
  OBVIOUS
<1>1. TypeOK'
  BY DEF IInv, TypeOK, Begin, table
<1>2. trips' = <<>> /\ start' = 1 /\ end' = 2
  BY DEF IInv, Begin
<1> QED
  BY <1>1, <1>2 DEF IInv, Begin, LegsLookedAt, TripsInOrder, NoStopInside, OnlyTheLastIsInProgress

LEMMA RestartIInv == IInv /\ Restart => IInv'
<1> SUFFICES ASSUME IInv, Restart PROVE IInv'
  OBVIOUS
<1>1. TypeOK'
  BY DEF IInv, TypeOK, Restart, InLoop, table
<1>2. ASSUME NEW k \in DOMAIN trips PROVE trips[k].to \in Nat /\ trips[k].to <= start
  BY TripTypes DEF IInv
<1>3. \A k \in DOMAIN trips' : trips'[k].to <= start'
  BY <1>2, LoopNumbers DEF Restart
<1>4. LegsLookedAt'
  BY DEF IInv, TypeOK, Restart, LegsLookedAt
<1>5. TripsInOrder' /\ NoStopInside' /\ OnlyTheLastIsInProgress'
  BY DEF IInv, Restart, TripsInOrder, NoStopInside, OnlyTheLastIsInProgress
<1>6. /\ 1 <= start' /\ start' <= end' /\ 2 <= end'
      /\ end' <= 2 \/ end' <= Len(res')
  BY DEF IInv, TypeOK, Restart, InLoop
<1>7. at' = "loop"
  BY DEF Restart, InLoop
<1> QED
  BY <1>1, <1>3, <1>4, <1>5, <1>6, <1>7 DEF IInv

\* The invariant after a step that may add the trip that ends at "to".
LEMMA AddedIInv ==
    ASSUME IInv, InLoop, TypeOK',
           NEW to \in {end, end + 1},
           NEW inProgress \in BOOLEAN,
           \A i \in start..(to - 1) : ~IsStop(res[i], res[i + 1]),
           inProgress => to = Len(res),
           trips' = WithTrip(start, to, inProgress),
           start' = end + 1, end' = end + 1, at' = at, res' = res
    PROVE  IInv'
<1> DEFINE found == WithTrip(start, to, inProgress)
<1>1. /\ \A k \in DOMAIN found : found[k].to <= to
      /\ \A k \in DOMAIN found :
            /\ 1 <= found[k].from /\ found[k].from < found[k].to /\ found[k].to <= Len(res)
            /\ Km(res[found[k].from], res[found[k].to]) > 0
      /\ \A j, k \in DOMAIN found : j < k => found[j].to <= found[k].from
      /\ \A k \in DOMAIN found :
            \A i \in Rows(found[k]) \ {found[k].to} : ~IsStop(res[i], res[i + 1])
      /\ \A k \in DOMAIN found :
            found[k].inProgress => k = Len(found) /\ found[k].to = Len(res)
  BY WithTripIsSafe
<1>2. trips' = found
  OBVIOUS
<1> HIDE DEF found
<1>3. TripsInOrder'
  BY <1>1, <1>2 DEF TripsInOrder
<1>4. NoStopInside'
  BY <1>1, <1>2 DEF NoStopInside
<1>5. OnlyTheLastIsInProgress'
  BY <1>1, <1>2 DEF OnlyTheLastIsInProgress
<1>6. LegsLookedAt'
  <2>1. end \in Nat
    BY DEF IInv, TypeOK
  <2>2. ~(end' > start' + 1)
    BY <2>1
  <2> QED
    BY <2>2 DEF LegsLookedAt
<1>7. ASSUME NEW k \in DOMAIN trips' PROVE trips'[k].to <= start'
  <2>1. trips'[k].to \in Nat
    <3>1. trips'[k] \in Trip
      BY <1>7, Elements DEF TypeOK
    <3> QED
      BY <3>1 DEF Trip
  <2>2. trips'[k].to <= to
    BY <1>1, <1>2
  <2> QED
    BY <2>1, <2>2, LoopNumbers
<1>8. /\ 1 <= start' /\ start' <= end' /\ 2 <= end'
      /\ end' <= 2 \/ end' <= Len(res')
  BY LoopNumbers DEF InLoop
<1>9. at' = "loop"
  BY DEF InLoop
<1> QED
  BY <1>3, <1>4, <1>5, <1>6, <1>7, <1>8, <1>9 DEF IInv

\* While the car drives, no leg of the trip is a stop.
LEMMA DrivenLegs ==
    ASSUME IInv, Drives PROVE \A i \in start..(end - 1) : ~IsStop(res[i], res[i + 1])
<1> SUFFICES ASSUME NEW i \in start..(end - 1) PROVE ~IsStop(res[i], res[i + 1])
  OBVIOUS
<1>1. CASE end > start + 1
  BY <1>1 DEF IInv, LegsLookedAt
<1>2. CASE ~(end > start + 1)
  <2>1. i = start /\ i + 1 = end
    BY <1>2 DEF IInv, TypeOK
  <2> QED
    BY <2>1 DEF Drives
<1> QED
  BY <1>1, <1>2

LEMMA EndTripIInv == IInv /\ EndTrip => IInv'
<1> SUFFICES ASSUME IInv, EndTrip PROVE IInv'
  OBVIOUS
<1>1. InLoop /\ \A i \in start..(end - 1) : ~IsStop(res[i], res[i + 1])
  BY DrivenLegs DEF EndTrip, Drives
<1>2. trips' \in Seq(Trip)
  <2>1. WithTrip(start, end, FALSE) \in Seq(Trip)
    BY <1>1, WithTripIsSafe
  <2> QED
    BY <2>1 DEF EndTrip
<1>3. TypeOK'
  <2>1. TypeOK /\ start' \in Nat /\ end' \in Nat
    BY LoopNumbers DEF EndTrip, IInv
  <2>2. UNCHANGED <<car, count, position, at, res, report>>
    BY DEF EndTrip, table
  <2> QED
    BY <1>2, <2>1, <2>2 DEF TypeOK
<1> QED
  BY <1>1, <1>3, AddedIInv DEF EndTrip

LEMMA EndLastIInv == IInv /\ EndLast => IInv'
<1> SUFFICES ASSUME IInv, EndLast PROVE IInv'
  OBVIOUS
<1>1. PICK recent \in BOOLEAN : trips' = WithTrip(start, end + 1, recent)
  BY DEF EndLast
<1>2. InLoop /\ end + 1 = Len(res)
  BY DEF EndLast, Drives, InLoop, IInv, TypeOK
<1>3. ASSUME NEW i \in start..end PROVE ~IsStop(res[i], res[i + 1])
  <2>1. CASE i = end
    BY <2>1 DEF EndLast, EndsAt
  <2>2. CASE i # end
    <3>1. i \in start..(end - 1)
      BY <1>3, <2>2 DEF IInv, TypeOK
    <3> QED
      BY <3>1, DrivenLegs DEF EndLast
  <2> QED
    BY <2>1, <2>2
<1>4. trips' \in Seq(Trip)
  <2>1. end + 1 \in {end, end + 1} /\ (recent => end + 1 = Len(res))
    BY <1>2
  <2>2. \A i \in start..((end + 1) - 1) : ~IsStop(res[i], res[i + 1])
    <3>1. start..((end + 1) - 1) = start..end
      BY LoopNumbers
    <3> QED
      BY <1>3, <3>1
  <2>3. WithTrip(start, end + 1, recent) \in Seq(Trip)
    BY <1>2, <2>1, <2>2, WithTripIsSafe, Zenon
  <2> QED
    BY <1>1, <2>3
<1>5. TypeOK'
  BY <1>4 DEF IInv, TypeOK, EndLast, table
<1> QED
  BY <1>1, <1>2, <1>3, <1>5, AddedIInv DEF EndLast

LEMMA ContinueIInv == IInv /\ Continue => IInv'
<1> SUFFICES ASSUME IInv, Continue PROVE IInv'
  OBVIOUS
<1>1. TypeOK'
  BY DEF IInv, TypeOK, Continue, table
<1>2. ASSUME NEW i \in start..end PROVE ~IsStop(res[i], res[i + 1])
  <2>1. CASE i = end
    BY <2>1 DEF Continue, EndsAt
  <2>2. CASE i # end
    <3>1. i \in start..(end - 1)
      BY <1>2, <2>2 DEF IInv, TypeOK
    <3> QED
      BY <3>1, DrivenLegs DEF Continue
  <2> QED
    BY <2>1, <2>2
<1>3. LegsLookedAt'
  BY <1>2 DEF LegsLookedAt, Continue, IInv, TypeOK
<1>4. TripsInOrder' /\ NoStopInside' /\ OnlyTheLastIsInProgress'
  BY DEF IInv, Continue, TripsInOrder, NoStopInside, OnlyTheLastIsInProgress
<1>5. /\ 1 <= start' /\ start' <= end' /\ 2 <= end'
      /\ end' <= 2 \/ end' <= Len(res')
  BY DEF IInv, TypeOK, Continue, Drives, InLoop
<1>6. at' = "loop" /\ \A k \in DOMAIN trips' : trips'[k].to <= start'
  BY DEF IInv, Continue, Drives, InLoop
<1> QED
  BY <1>1, <1>3, <1>4, <1>5, <1>6 DEF IInv

LEMMA ReturnIInv == IInv /\ Return => IInv'
<1> SUFFICES ASSUME IInv, Return PROVE IInv'
  OBVIOUS
<1>1. TypeOK
  BY DEF IInv
<1>2. ASSUME NEW k \in DOMAIN trips
      PROVE  /\ trips[k].from \in 1..Len(res) /\ trips[k].to \in 1..Len(res)
             /\ trips[k].inProgress \in BOOLEAN
  <2>1. trips[k] \in Trip /\ trips[k].from \in Nat /\ trips[k].to \in Nat
    BY <1>1, TripTypes
  <2>2. 1 <= trips[k].from /\ trips[k].from < trips[k].to /\ trips[k].to <= Len(res)
    BY DEF IInv, TripsInOrder
  <2>3. trips[k].inProgress \in BOOLEAN
    BY <2>1 DEF Trip
  <2> QED
    BY <2>1, <2>2, <2>3, LoopNumbers
<1>3. ASSUME NEW row \in 1..Len(res) PROVE res[row].time \in Nat
  <2>1. res[row] \in Position
    BY <1>1 DEF TypeOK
  <2> QED
    BY <2>1 DEF Position
<1>4. Timed(trips) \in Seq(Trip)
  <2>1. Len(trips) \in Nat /\ DOMAIN trips = 1..Len(trips)
    BY <1>1 DEF TypeOK
  <2>2. ASSUME NEW k \in 1..Len(trips)
        PROVE  [trips[k] EXCEPT !.from = res[@].time, !.to = res[@].time] \in Trip
    <3>1. trips[k] \in Trip
      BY <1>1, <2>1, TripTypes
    <3>2. res[trips[k].from].time \in Nat /\ res[trips[k].to].time \in Nat
      BY <1>2, <1>3, <2>1
    <3> QED
      BY <3>1, <3>2 DEF Trip
  <2> DEFINE t == [k \in 1..Len(trips) |-> [trips[k] EXCEPT !.from = res[@].time, !.to = res[@].time]]
  <2>3. \A k \in 1..Len(trips) : t[k] \in Trip
    BY <2>2
  <2>4. t \in [1..Len(trips) -> Trip]
    BY <2>3, Zenon
  <2>5. t \in Seq(Trip)
    <3> HIDE DEF t
    <3> QED
      BY <2>1, <2>4
  <2> QED
    BY <2>1, <2>5 DEF Timed
<1>5. (IF res = <<>> THEN 0 ELSE res[Len(res)].time) \in Nat
  <2>1. CASE res # <<>>
    <3>1. Len(res) \in 1..Len(res)
      BY <1>1, <2>1 DEF TypeOK
    <3> QED
      BY <1>3, <2>1, <3>1
  <2> QED
    BY <2>1
<1>6. TypeOK'
  BY <1>1, <1>4, <1>5 DEF TypeOK, Return, table
<1> QED
  BY <1>6 DEF IInv, Return, LegsLookedAt, TripsInOrder, NoStopInside, OnlyTheLastIsInProgress

\* The invariant of the loop of get_trips, for every car and every positions.
THEOREM IInvAlways == Spec => []IInv
<1>1. IInv /\ [Next]_vars => IInv'
  <2> SUFFICES ASSUME IInv, [Next]_vars PROVE IInv'
    OBVIOUS
  <2>1. CASE UNCHANGED vars
    <3>1. TypeOK' /\ UNCHANGED loop
      BY <2>1 DEF vars, table, loop, IInv, TypeOK
    <3> QED
      BY <3>1, LoopUnchanged
  <2>2. CASE Next
    BY <2>2, RecordIInv, BeginIInv, RestartIInv, EndTripIInv, EndLastIInv, ContinueIInv,
       ReturnIInv DEF Next
  <2> QED
    BY <2>1, <2>2
<1> QED
  BY <1>1, InitIInv, PTL DEF Spec

\* No kilometre is counted twice: get_trips' trips follow each other.
THEOREM TripsInOrderAlways == Spec => []TripsInOrder
<1>1. IInv => TripsInOrder
  BY DEF IInv
<1> QED
  BY <1>1, IInvAlways, PTL

\* No trip of get_trips has a stop, a charge or a refuelling inside.
THEOREM NoStopInsideAlways == Spec => []NoStopInside
<1>1. IInv => NoStopInside
  BY DEF IInv
<1> QED
  BY <1>1, IInvAlways, PTL

\* Only the last trip can be in progress, and it ends on the last position.
THEOREM OnlyTheLastIsInProgressAlways == Spec => []OnlyTheLastIsInProgress
<1>1. IInv => OnlyTheLastIsInProgress
  BY DEF IInv
<1> QED
  BY <1>1, IInvAlways, PTL

-----------------------------------------------------------------------------
(* Every kilometre has a trip. *)

LEMMA PositionAt ==
    ASSUME NEW rows \in Seq(Position), NEW i \in 1..Len(rows)
    PROVE  /\ rows[i] \in Position /\ rows[i].mileage \in Nat /\ rows[i].time \in Nat
           /\ i \in DOMAIN rows /\ Len(rows) \in Nat
<1>1. rows[i] \in Position
  OBVIOUS
<1> QED
  BY <1>1 DEF Position

\* What a status adds to the table.
LEMMA Recorded ==
    ASSUME TypeOK, Record
    PROVE  \E leg \in Legs, seen \in Position :
              /\ car' \in [time: Nat, mileage: Nat, level: Int, fuel: Int]
              /\ car'.time = car.time + leg.minutes /\ car'.mileage = car.mileage + leg.km
              /\ car'.fuel = car.fuel - leg.burnt
              /\ seen.time = car'.time /\ seen.mileage = car'.mileage
              /\ "fuel" \in leg.told => seen.fuel = car'.fuel
              /\ position' = Clean(Append(position, seen))
<1>1. PICK leg \in Legs :
        /\ car' = [time    |-> car.time + leg.minutes,
                   mileage |-> car.mileage + leg.km,
                   level   |-> car.level - leg.used,
                   fuel    |-> car.fuel - leg.burnt]
        /\ position' = Clean(Append(position,
                          [car' EXCEPT !.level = IF "level" \in leg.told THEN @ ELSE Unknown,
                                       !.fuel = IF "fuel" \in leg.told THEN @ ELSE 0]))
  BY DEF Record
<1>2. leg.minutes \in Nat /\ leg.km \in Nat /\ leg.used \in Int /\ leg.burnt \in Int
  BY TripsAssumption DEF Leg
<1>3. car \in [time: Nat, mileage: Nat, level: Int, fuel: Int]
  BY DEF TypeOK
<1>4. /\ car.time + leg.minutes \in Nat /\ car.mileage + leg.km \in Nat
      /\ car.level - leg.used \in Int /\ car.fuel - leg.burnt \in Int
  BY <1>2, <1>3
<1>5. PICK next : next = car'
  OBVIOUS
<1>6. /\ next \in [time: Nat, mileage: Nat, level: Int, fuel: Int]
      /\ next.time = car.time + leg.minutes /\ next.mileage = car.mileage + leg.km
      /\ next.fuel = car.fuel - leg.burnt
  BY <1>1, <1>4, <1>5
<1>7. PICK level : level = IF "level" \in leg.told THEN next.level ELSE Unknown
  OBVIOUS
<1>8. PICK fuel : fuel = IF "fuel" \in leg.told THEN next.fuel ELSE 0
  OBVIOUS
<1>9. PICK seen : seen = [next EXCEPT !.level = level, !.fuel = fuel]
  OBVIOUS
<1>10. level \in Level /\ fuel \in Level
  BY <1>6, <1>7, <1>8 DEF Level
<1>11. seen \in Position /\ seen.time = next.time /\ seen.mileage = next.mileage /\ seen.fuel = fuel
  BY <1>6, <1>9, <1>10 DEF Position
<1>12. position' = Clean(Append(position, seen))
  BY <1>1, <1>5, <1>7, <1>8, <1>9
<1> QED
  BY <1>5, <1>6, <1>8, <1>11, <1>12

\* One more row, or another in the place of the last when the three show no change.
IsAdded(rows, seen, after) ==
    /\ Len(after) = Len(rows) + 1 /\ after[Len(rows) + 1] = seen
    /\ \A i \in 1..Len(rows) : after[i] = rows[i]

IsPutLast(rows, seen, after) ==
    /\ Len(rows) >= 2 /\ Len(after) = Len(rows) /\ after[Len(rows)] = seen
    /\ \A i \in 1..(Len(rows) - 1) : after[i] = rows[i]
    /\ Same(rows[Len(rows) - 1], rows[Len(rows)]) /\ Same(rows[Len(rows)], seen)

\* The table after a status.
LEMMA Cleaned ==
    ASSUME NEW rows \in Seq(Position), NEW seen \in Position
    PROVE  \/ IsAdded(rows, seen, Clean(Append(rows, seen)))
           \/ IsPutLast(rows, seen, Clean(Append(rows, seen)))
<1>1. PICK long : long = Append(rows, seen)
  OBVIOUS
<1>2. PICK n : n = Len(rows)
  OBVIOUS
<1>3. /\ long \in Seq(Position) /\ Len(long) = n + 1 /\ n \in Nat /\ long[n + 1] = seen
      /\ \A i \in 1..n : long[i] = rows[i]
  BY <1>1, <1>2
<1>4. PICK after : after = Clean(long)
  OBVIOUS
<1>5. CASE n + 1 >= 3 /\ Same(long[n + 1], long[n]) /\ Same(long[n], long[n - 1])
  <2>1. after = [i \in 1..n |-> IF i = n THEN seen ELSE long[i]]
    <3>1. PICK m : m = Len(long)
      OBVIOUS
    <3>2. m - 1 = n /\ m - 2 = n - 1 /\ m = n + 1
      BY <1>3, <3>1
    <3>3. m >= 3 /\ Same(long[m], long[m - 1]) /\ Same(long[m - 1], long[m - 2])
      BY <1>5, <3>2
    <3>4. after = [i \in 1..(m - 1) |-> IF i = m - 1 THEN long[m] ELSE long[i]]
      BY <1>4, <3>1, <3>3 DEF Clean
    <3> QED
      BY <1>3, <3>2, <3>4
  <2>2. Len(after) = n /\ after[n] = seen /\ \A i \in 1..(n - 1) : after[i] = long[i]
    BY <1>3, <1>5, <2>1
  <2>3. long[n] = rows[n] /\ long[n - 1] = rows[n - 1]
    BY <1>3, <1>5
  <2>4. Same(rows[n - 1], rows[n]) /\ Same(rows[n], seen)
    BY <1>3, <1>5, <2>3 DEF Same
  <2>5. \A i \in 1..(n - 1) : after[i] = rows[i]
    BY <1>3, <2>2
  <2>6. IsPutLast(rows, seen, after)
    BY <1>2, <1>3, <1>5, <2>2, <2>4, <2>5 DEF IsPutLast
  <2> QED
    BY <1>1, <1>4, <2>6
<1>6. CASE ~(n + 1 >= 3 /\ Same(long[n + 1], long[n]) /\ Same(long[n], long[n - 1]))
  <2>1. after = long
    BY <1>3, <1>4, <1>6 DEF Clean
  <2>2. IsAdded(rows, seen, after)
    BY <1>2, <1>3, <2>1 DEF IsAdded
  <2> QED
    BY <1>1, <1>4, <2>2
<1> QED
  BY <1>5, <1>6

\* A leg that was explained stays so when trips are added.
LEMMA StaysExplained ==
    ASSUME NEW i, Explained(i), res' = res,
           \A k \in DOMAIN trips : k \in DOMAIN trips' /\ trips'[k] = trips[k]
    PROVE  Explained(i)'
<1>1. CASE \E k \in DOMAIN trips : i \in Rows(trips[k]) /\ i + 1 \in Rows(trips[k])
  <2>1. PICK k \in DOMAIN trips : i \in Rows(trips[k]) /\ i + 1 \in Rows(trips[k])
    BY <1>1
  <2>2. k \in DOMAIN trips' /\ i \in Rows(trips'[k]) /\ i + 1 \in Rows(trips'[k])
    BY <2>1
  <2> QED
    BY <2>2 DEF Explained, Rows
<1>2. CASE ~\E k \in DOMAIN trips : i \in Rows(trips[k]) /\ i + 1 \in Rows(trips[k])
  BY <1>2 DEF Explained, EndsAt
<1> QED
  BY <1>1, <1>2

\* What WithTrip makes of the trips.
LEMMA OneMore ==
    ASSUME NEW from, NEW to, NEW inProgress \in BOOLEAN, trips \in Seq(Trip), NEW found,
           found = WithTrip(from, to, inProgress)
    PROVE  /\ \A k \in DOMAIN trips : k \in DOMAIN found /\ found[k] = trips[k]
           /\ Km(res[from], res[to]) > 0 /\ IsPlausible(res[from], res[to]) =>
                 \E k \in DOMAIN found : found[k].from = from /\ found[k].to = to
<1>1. CASE found = trips /\ ~(Km(res[from], res[to]) > 0 /\ IsPlausible(res[from], res[to]))
  BY <1>1
<1>2. CASE found = Append(trips, [from |-> from, to |-> to, inProgress |-> inProgress])
  <2>1. PICK new : new = [from |-> from, to |-> to, inProgress |-> inProgress]
    OBVIOUS
  <2>2. found = Append(trips, new) /\ new.from = from /\ new.to = to
    BY <1>2, <2>1
  <2>3. Len(trips) + 1 \in DOMAIN found /\ found[Len(trips) + 1] = new
    BY <2>2
  <2>4. \A k \in DOMAIN trips : k \in DOMAIN found /\ found[k] = trips[k]
    BY <2>2
  <2> QED
    BY <2>2, <2>3, <2>4
<1> QED
  BY <1>1, <1>2 DEF WithTrip

LEMMA InitKm == Init => KmInv
<1> SUFFICES ASSUME Init PROVE KmInv
  OBVIOUS
<1>1. position = <<>> /\ res = <<>> /\ at = "idle" /\ start = 1 /\ end = 2
  BY DEF Init
<1> QED
  BY <1>1, InitIInv DEF KmInv, Climbs, Passed

LEMMA RecordKm == KmInv /\ Record => KmInv'
<1> SUFFICES ASSUME KmInv, Record PROVE KmInv'
  OBVIOUS
<1>1. IInv /\ TypeOK /\ IInv'
  BY RecordIInv DEF KmInv, IInv
<1>2. PICK leg \in Legs, seen \in Position :
          /\ car' \in [time: Nat, mileage: Nat, level: Int, fuel: Int]
          /\ car'.mileage = car.mileage + leg.km
          /\ seen.mileage = car'.mileage
          /\ position' = Clean(Append(position, seen))
  BY <1>1, Recorded
<1>3. leg.km \in Nat /\ car.mileage \in Nat
  BY <1>1, TripsAssumption DEF Leg, TypeOK
<1>a. PICK rows : rows = position
  OBVIOUS
<1>4. PICK n : n = Len(rows)
  OBVIOUS
<1>5. PICK after : after = Clean(Append(rows, seen))
  OBVIOUS
<1>6. PICK next : next = car'.mileage
  OBVIOUS
<1>7. rows \in Seq(Position) /\ position' = after
  BY <1>1, <1>2, <1>5, <1>a DEF TypeOK
<1>b. after \in Seq(Position) /\ (IsAdded(rows, seen, after) \/ IsPutLast(rows, seen, after))
  <2>1. Append(rows, seen) \in Seq(Position)
    BY <1>7
  <2>2. after \in Seq(Position)
    BY <1>5, <2>1, CleanType
  <2> QED
    BY <1>5, <1>7, <2>2, Cleaned
<1>8. /\ after \in Seq(Position) /\ n \in Nat
      /\ \/ /\ Len(after) = n + 1 /\ after[n + 1] = seen
            /\ \A i \in 1..n : after[i] = rows[i]
         \/ /\ n >= 2 /\ Len(after) = n /\ after[n] = seen
            /\ \A i \in 1..(n - 1) : after[i] = rows[i]
  BY <1>4, <1>7, <1>b DEF IsAdded, IsPutLast
<1>9. next \in Nat /\ car.mileage <= next /\ seen.mileage = next
  BY <1>2, <1>3, <1>6
<1>10. \A i \in 1..n : rows[i].mileage \in Nat /\ rows[i].mileage <= next
  <2> SUFFICES ASSUME NEW i \in 1..n PROVE rows[i].mileage \in Nat /\ rows[i].mileage <= next
    OBVIOUS
  <2>1. rows[i].mileage \in Nat /\ i \in DOMAIN rows
    BY <1>4, <1>7, PositionAt
  <2>2. rows[i].mileage <= car.mileage
    BY <1>a, <2>1 DEF KmInv, Passed
  <2> QED
    BY <1>3, <1>9, <2>1, <2>2
<1>11. \A i \in 1..Len(after) : i = Len(after) \/ (i \in 1..n /\ i < Len(after) /\ after[i] = rows[i])
  BY <1>8
<1>12. after[Len(after)] = seen /\ DOMAIN after = 1..Len(after) /\ Len(after) \in Nat
  BY <1>8
<1>13. \A i \in DOMAIN after : after[i].mileage <= next
  <2> SUFFICES ASSUME NEW i \in 1..Len(after) PROVE after[i].mileage <= next
    BY <1>12
  <2>1. CASE i = Len(after)
    BY <1>9, <1>12, <2>1
  <2>2. CASE i \in 1..n /\ after[i] = rows[i]
    BY <1>10, <2>2
  <2> QED
    BY <1>11, <2>1, <2>2
<1>14. ASSUME NEW i \in DOMAIN after, NEW j \in DOMAIN after, i <= j
       PROVE  after[i].mileage <= after[j].mileage
  <2>1. CASE j = Len(after)
    BY <1>9, <1>12, <1>13, <2>1
  <2>2. CASE j # Len(after)
    <3>1. i \in 1..n /\ j \in 1..n /\ after[i] = rows[i] /\ after[j] = rows[j]
      <4>1. i \in 1..Len(after) /\ j \in 1..Len(after)
        BY <1>12
      <4>2. i # Len(after)
        BY <1>12, <1>14, <2>2, <4>1
      <4> QED
        BY <1>11, <2>2, <4>1, <4>2
    <3>2. i \in DOMAIN rows /\ j \in DOMAIN rows
      BY <1>4, <1>7, <3>1
    <3> QED
      BY <1>a, <1>14, <3>1, <3>2 DEF KmInv, Climbs
  <2> QED
    BY <2>1, <2>2
<1>15. Climbs(position)'
  BY <1>7, <1>14 DEF Climbs
<1>16. Passed'
  BY <1>6, <1>7, <1>13 DEF Passed
<1>17. UNCHANGED <<at, res, end, start, trips>> /\ at = "idle"
  BY DEF Record, loop
<1> QED
  BY <1>1, <1>15, <1>16, <1>17 DEF KmInv, Climbs

LEMMA BeginKm == KmInv /\ Begin => KmInv'
<1> SUFFICES ASSUME KmInv, Begin PROVE KmInv'
  OBVIOUS
<1>1. IInv' /\ start = 1 /\ end = 2 /\ UNCHANGED <<car, position, start, end>> /\ res' = position
  BY BeginIInv DEF KmInv, IInv, Begin, table
<1>2. Climbs(position)' /\ Climbs(res)' /\ Passed'
  BY <1>1 DEF KmInv, Climbs, Passed
<1> QED
  BY <1>1, <1>2 DEF KmInv, IInv, TypeOK

\* What is to be shown of a turn of the loop.
LEMMA TurnKm ==
    ASSUME KmInv, IInv', UNCHANGED <<car, position, at, res>>, at = "loop",
           end' >= Len(res) => start' >= end' - 1,
           \A k \in DOMAIN trips : k \in DOMAIN trips' /\ trips'[k] = trips[k],
           \A i \in 1..(Len(res) - 1) : start <= i /\ i < start' => Explained(i)'
    PROVE  KmInv'
<1>1. ASSUME NEW i \in 1..(Len(res) - 1), i < start' PROVE Explained(i)'
  <2>1. CASE i < start
    <3>1. Explained(i)
      BY <2>1 DEF KmInv
    <3> QED
      BY <3>1, StaysExplained
  <2>2. CASE start <= i
    BY <1>1, <2>2
  <2> QED
    BY <2>1, <2>2, LoopNumbers DEF KmInv
<1>2. \A i \in 1..(Len(res') - 1) : i < start' => Explained(i)'
  BY <1>1
<1>3. Climbs(position)' /\ Climbs(res)' /\ Passed'
  BY DEF KmInv, Climbs, Passed
<1> QED
  BY <1>2, <1>3 DEF KmInv

LEMMA RestartKm == KmInv /\ Restart => KmInv'
<1> SUFFICES ASSUME KmInv, Restart PROVE KmInv'
  OBVIOUS
<1>1. IInv' /\ IInv
  BY RestartIInv DEF KmInv
<1>2. /\ UNCHANGED <<car, position, at, res, trips>> /\ at = "loop" /\ end < Len(res)
      /\ start' = end /\ end' = end + 1 /\ IsStop(res[start], res[end])
  BY DEF Restart, InLoop, table
<1>3. start \in Nat /\ end \in Nat /\ Len(res) \in Nat /\ 1 <= start
  BY <1>1, LoopNumbers
<1>4. ASSUME NEW i \in 1..(Len(res) - 1), start <= i, i < start' PROVE Explained(i)'
  <2>1. start \in 1..i /\ end \in (i + 1)..Len(res)
    BY <1>2, <1>3, <1>4
  <2>2. Explained(i)
    BY <1>2, <2>1 DEF Explained
  <2> QED
    BY <1>2, <2>2, StaysExplained
<1> QED
  BY <1>1, <1>2, <1>3, <1>4, TurnKm

\* The legs from start to the end of a trip are part of it, or it was left out.
LEMMA TripExplains ==
    ASSUME KmInv, InLoop, NEW to \in {end, end + 1}, to <= Len(res), NEW inProgress \in BOOLEAN,
           res' = res, trips' = WithTrip(start, to, inProgress), NEW i \in start..(to - 1)
    PROVE  Explained(i)'
<1>1. /\ res \in Seq(Position) /\ trips \in Seq(Trip) /\ start \in Nat /\ end \in Nat /\ to \in Nat
      /\ i \in Nat /\ Len(res) \in Nat
      /\ 1 <= start /\ start <= i /\ i + 1 <= to /\ to <= Len(res)
  BY LoopNumbers DEF KmInv, IInv, TypeOK
<1>2. /\ start \in 1..i /\ to \in (i + 1)..Len(res)
      /\ start \in 1..Len(res) /\ i \in 1..Len(res) /\ i + 1 \in 1..Len(res) /\ to \in 1..Len(res)
  BY <1>1
<1>3. CASE ~(Km(res[start], res[to]) > 0)
  <2>1. /\ res[start].mileage <= res[i].mileage /\ res[i].mileage <= res[i + 1].mileage
        /\ res[i + 1].mileage <= res[to].mileage
    <3>1. start \in DOMAIN res /\ i \in DOMAIN res /\ i + 1 \in DOMAIN res /\ to \in DOMAIN res
      BY <1>1, <1>2
    <3> QED
      BY <1>1, <3>1 DEF KmInv, Climbs
  <2>2. /\ res[start].mileage \in Nat /\ res[i].mileage \in Nat
        /\ res[i + 1].mileage \in Nat /\ res[to].mileage \in Nat
    BY <1>1, <1>2, PositionAt
  <2>3. Km(res[i], res[i + 1]) = 0
    BY <1>3, <2>1, <2>2 DEF Km
  <2> QED
    BY <2>3 DEF Explained
<1>4. CASE ~IsPlausible(res[start], res[to])
  BY <1>2, <1>4 DEF Explained
<1>5. CASE Km(res[start], res[to]) > 0 /\ IsPlausible(res[start], res[to])
  <2>1. PICK k \in DOMAIN trips' : trips'[k].from = start /\ trips'[k].to = to
    BY <1>1, <1>5, OneMore
  <2>2. i \in Rows(trips'[k]) /\ i + 1 \in Rows(trips'[k])
    BY <1>1, <2>1 DEF Rows
  <2> QED
    BY <2>1, <2>2 DEF Explained, Rows
<1> QED
  BY <1>3, <1>4, <1>5

LEMMA EndTripKm == KmInv /\ EndTrip => KmInv'
<1> SUFFICES ASSUME KmInv, EndTrip PROVE KmInv'
  OBVIOUS
<1>1. IInv' /\ IInv
  BY EndTripIInv DEF KmInv
<1>2. /\ UNCHANGED <<car, position, at, res>> /\ at = "loop" /\ end < Len(res) /\ InLoop
      /\ start' = end + 1 /\ end' = end + 1 /\ EndsAt(end) /\ trips' = WithTrip(start, end, FALSE)
  BY DEF EndTrip, Drives, InLoop, table
<1>3. start \in Nat /\ end \in Nat /\ Len(res) \in Nat /\ trips \in Seq(Trip)
  BY <1>1, LoopNumbers DEF IInv, TypeOK
<1>4. ASSUME NEW i \in 1..(Len(res) - 1), start <= i, i < start' PROVE Explained(i)'
  <2>1. CASE i = end
    BY <1>2, <2>1 DEF Explained, EndsAt
  <2>2. CASE i # end
    <3>1. i \in start..(end - 1)
      BY <1>2, <1>3, <1>4, <2>2
    <3>2. end <= Len(res) /\ FALSE \in BOOLEAN
      BY <1>2, <1>3
    <3> QED
      BY <1>2, <3>1, <3>2, TripExplains
  <2> QED
    BY <2>1, <2>2
<1>5. \A k \in DOMAIN trips : k \in DOMAIN trips' /\ trips'[k] = trips[k]
  <2>1. PICK no \in BOOLEAN : no = FALSE
    OBVIOUS
  <2>2. trips' = WithTrip(start, end, no)
    BY <1>2, <2>1
  <2> QED
    BY <1>3, <2>2, OneMore
<1>6. end' >= Len(res) => start' >= end' - 1
  BY <1>2, <1>3
<1>7. \A i \in 1..(Len(res) - 1) : start <= i /\ i < start' => Explained(i)'
  BY <1>4
<1>8. UNCHANGED <<car, position, at, res>> /\ at = "loop"
  BY <1>2
<1> QED
  BY <1>1, <1>5, <1>6, <1>7, <1>8, TurnKm

LEMMA EndLastKm == KmInv /\ EndLast => KmInv'
<1> SUFFICES ASSUME KmInv, EndLast PROVE KmInv'
  OBVIOUS
<1>1. IInv' /\ IInv
  BY EndLastIInv DEF KmInv
<1>2. PICK recent \in BOOLEAN : trips' = WithTrip(start, end + 1, recent)
  BY DEF EndLast
<1>3. /\ UNCHANGED <<car, position, at, res>> /\ at = "loop" /\ end = Len(res) - 1 /\ InLoop
      /\ start' = end + 1 /\ end' = end + 1
  BY DEF EndLast, Drives, InLoop, table
<1>4. start \in Nat /\ end \in Nat /\ Len(res) \in Nat /\ trips \in Seq(Trip)
  BY <1>1, LoopNumbers DEF IInv, TypeOK
<1>5. ASSUME NEW i \in 1..(Len(res) - 1), start <= i, i < start' PROVE Explained(i)'
  <2>1. i \in start..((end + 1) - 1) /\ end + 1 <= Len(res)
    BY <1>3, <1>4, <1>5
  <2> QED
    BY <1>2, <1>3, <2>1, TripExplains
<1>6. \A k \in DOMAIN trips : k \in DOMAIN trips' /\ trips'[k] = trips[k]
  BY <1>2, <1>4, OneMore
<1> QED
  BY <1>1, <1>3, <1>4, <1>5, <1>6, TurnKm

LEMMA ContinueKm == KmInv /\ Continue => KmInv'
<1> SUFFICES ASSUME KmInv, Continue PROVE KmInv'
  OBVIOUS
<1>1. IInv' /\ IInv
  BY ContinueIInv DEF KmInv
<1>2. /\ UNCHANGED <<car, position, at, res, start, trips>> /\ at = "loop" /\ end < Len(res) - 1
      /\ end' = end + 1
  BY DEF Continue, Drives, InLoop, table
<1>3. start \in Nat /\ end \in Nat /\ Len(res) \in Nat
  BY <1>1, LoopNumbers
<1>4. ~(end' >= Len(res))
  BY <1>2, <1>3
<1>5. ASSUME NEW i \in 1..(Len(res) - 1), start <= i, i < start' PROVE Explained(i)'
  BY <1>2, <1>3, <1>5
<1> QED
  BY <1>1, <1>2, <1>4, <1>5, TurnKm

LEMMA ReturnKm == KmInv /\ Return => KmInv'
<1> SUFFICES ASSUME KmInv, Return PROVE KmInv'
  OBVIOUS
<1>1. IInv'
  BY ReturnIInv DEF KmInv
<1>2. UNCHANGED <<car, position>> /\ at' = "idle" /\ res' = <<>> /\ start' = 1 /\ end' = 2
  BY DEF Return, table
<1> QED
  BY <1>1, <1>2 DEF KmInv, Climbs, Passed

\* Every kilometre of the positions is in a trip that get_trips returns, unless there is
\* a reason to leave it out.
THEOREM KilometresHaveATripAlways == Spec => []KilometresHaveATrip
<1>1. KmInv /\ [Next]_vars => KmInv'
  <2> SUFFICES ASSUME KmInv, [Next]_vars PROVE KmInv'
    OBVIOUS
  <2>1. CASE UNCHANGED vars
    <3>1. TypeOK' /\ UNCHANGED loop
      BY <2>1 DEF vars, table, loop, KmInv, IInv, TypeOK
    <3>2. IInv'
      BY <3>1, LoopUnchanged DEF KmInv
    <3>3. UNCHANGED <<car, position, at, res, end, start, trips>>
      BY <2>1 DEF vars, table, loop
    <3> QED
      BY <3>2, <3>3 DEF KmInv, Climbs, Passed, Explained, EndsAt, Rows
  <2>2. CASE Next
    BY <2>2, RecordKm, BeginKm, RestartKm, EndTripKm, EndLastKm, ContinueKm, ReturnKm DEF Next
  <2> QED
    BY <2>1, <2>2
<1>2. KmInv => KilometresHaveATrip
  <2> SUFFICES ASSUME KmInv, at = "loop", end >= Len(res), NEW i \in 1..(Len(res) - 1)
               PROVE  Explained(i)
    BY DEF KilometresHaveATrip
  <2>1. /\ start \in Nat /\ end \in Nat /\ Len(res) \in Nat /\ start >= end - 1 /\ 2 <= end
    BY LoopNumbers DEF KmInv
  <2>2. CASE i < start
    BY <2>2 DEF KmInv
  <2>3. CASE ~(i < start)
    <3>1. i = Len(res) - 1
      BY <2>1, <2>3
    <3> QED
      BY <3>1 DEF Explained
  <2> QED
    BY <2>2, <2>3
<1> QED
  BY <1>1, <1>2, InitKm, PTL DEF Spec

-----------------------------------------------------------------------------
(* The trips that ended stay. *)

Ends(a, b) == IsStop(a, b) \/ IsSilent(a, b)

LEMMA NumbersOf ==
    ASSUME NEW p \in Position
    PROVE  p.time \in Nat /\ p.mileage \in Nat /\ p.level \in Level /\ p.fuel \in Level
BY DEF Position

\* A row put in the place of the last doesn't take the end of a trip away.
LEMMA StillEnds ==
    ASSUME NEW a \in Position, NEW b \in Position, NEW row \in Position, Same(a, b), Same(a, row),
           b.time <= row.time,
           FuelCapacity > 0 => b.fuel \in Int /\ row.fuel \in Int /\ b.fuel <= row.fuel,
           Ends(a, b)
    PROVE  Ends(a, row)
<1>1. /\ a.time \in Nat /\ b.time \in Nat /\ row.time \in Nat
      /\ a.mileage \in Nat /\ b.mileage = a.mileage /\ row.mileage = a.mileage
      /\ a.level \in Level /\ b.level = a.level /\ a.fuel \in Level
  BY NumbersOf DEF Same
<1>2. Km(a, b) = 0 /\ Km(a, row) = 0 /\ Minutes(a, b) \in Int /\ Minutes(a, row) \in Int
      /\ Minutes(a, b) <= Minutes(a, row)
  BY <1>1 DEF Km, Minutes
<1>3. IsSilent(a, b) => IsSilent(a, row)
  BY <1>2 DEF IsSilent
<1>4. IsLowSpeed(a, b) => IsLowSpeed(a, row)
  BY <1>2 DEF IsLowSpeed
<1>5. ~IsRecharging(a, b)
  <2>1. Spent(a.level, b.level) = 0
    BY <1>1 DEF Spent, Level
  <2> QED
    BY <2>1 DEF IsRecharging
<1>6. FuelCapacity > 0 /\ Spent(a.fuel, b.fuel) < 0 => Spent(a.fuel, row.fuel) < 0
  <2> SUFFICES ASSUME FuelCapacity > 0, Spent(a.fuel, b.fuel) < 0 PROVE Spent(a.fuel, row.fuel) < 0
    OBVIOUS
  <2>1. b.fuel \in Int /\ row.fuel \in Int /\ b.fuel <= row.fuel
    OBVIOUS
  <2>2. a.fuel # Unknown
    BY DEF Spent
  <2>3. a.fuel \in Int
    BY <1>1, <2>2 DEF Level
  <2>4. b.fuel # Unknown /\ row.fuel # Unknown
    BY <2>1, TripsAssumption
  <2>5. Spent(a.fuel, b.fuel) = a.fuel - b.fuel /\ Spent(a.fuel, row.fuel) = a.fuel - row.fuel
    BY <2>2, <2>4 DEF Spent
  <2> QED
    BY <2>1, <2>3, <2>5
<1> QED
  BY <1>3, <1>4, <1>5, <1>6 DEF Ends, IsStop, IsRefuel

\* A car that stood tells its fuel, which hasn't sunk.
LEMMA StandingFuel ==
    ASSUME FuelIsSteady, TypeOK, NEW leg \in Legs, leg.km = 0, FuelCapacity > 0,
           NEW fuel, fuel = car.fuel - leg.burnt
    PROVE  "fuel" \in leg.told /\ car.fuel \in Int /\ fuel \in Int /\ car.fuel <= fuel
<1>1. leg.burnt \in Int /\ car.fuel \in Int
  BY TripsAssumption DEF Leg, TypeOK
<1>2. leg.burnt <= 0 /\ "fuel" \in leg.told
  BY TripsAssumption DEF FuelIsSteady
<1> QED
  BY <1>1, <1>2

\* What a status does to the last row and to a table that has grown.
LEMMA RecordGrows ==
    ASSUME FuelIsSteady, TypeOK, LastIsNow, Record, NEW old \in Seq(Position), GrownFrom(old)
    PROVE  LastIsNow' /\ GrownFrom(old)'
<1>1. PICK leg \in Legs, seen \in Position :
          /\ car' \in [time: Nat, mileage: Nat, level: Int, fuel: Int]
          /\ car'.time = car.time + leg.minutes /\ car'.mileage = car.mileage + leg.km
          /\ car'.fuel = car.fuel - leg.burnt
          /\ seen.time = car'.time /\ seen.mileage = car'.mileage
          /\ "fuel" \in leg.told => seen.fuel = car'.fuel
          /\ position' = Clean(Append(position, seen))
  BY Recorded
<1>2. PICK rows : rows = position
  OBVIOUS
<1>3. PICK after : after = position'
  OBVIOUS
<1>4. PICK next : next = car'
  OBVIOUS
<1>5. rows \in Seq(Position) /\ after = Clean(Append(rows, seen))
  BY <1>1, <1>2, <1>3 DEF TypeOK
<1>6. after \in Seq(Position) /\ (IsAdded(rows, seen, after) \/ IsPutLast(rows, seen, after))
  <2>1. Append(rows, seen) \in Seq(Position)
    BY <1>5
  <2> QED
    BY <1>5, <2>1, CleanType, Cleaned
<1>7. PICK n : n = Len(rows)
  OBVIOUS
<1>8. PICK m : m = Len(after)
  OBVIOUS
<1>9. /\ n \in Nat /\ m \in Nat /\ m > 0 /\ after[m] = seen
      /\ m = n + 1 \/ (m = n /\ n >= 2)
      /\ \A i \in 1..(m - 1) : after[i] = rows[i]
  BY <1>5, <1>6, <1>7, <1>8 DEF IsAdded, IsPutLast
<1>10. m = n => Same(rows[n - 1], rows[n]) /\ Same(rows[n], seen)
  BY <1>6, <1>7, <1>8, <1>9 DEF IsAdded, IsPutLast
<1>11. n > 0 => rows[n].time = car.time /\ rows[n].mileage = car.mileage
  BY <1>2, <1>7 DEF LastIsNow
<1>12. n > 1 /\ rows[n - 1].mileage = rows[n].mileage /\ FuelCapacity > 0 => rows[n].fuel = car.fuel
  <2> SUFFICES ASSUME n > 1, rows[n - 1].mileage = rows[n].mileage, FuelCapacity > 0
               PROVE  rows[n].fuel = car.fuel
    OBVIOUS
  <2>1. n \in 1..Len(rows)
    BY <1>7, <1>9
  <2>2. rows[n].mileage \in Nat
    BY <1>5, <2>1, PositionAt
  <2>3. Km(rows[n - 1], rows[n]) = 0
    BY <2>2 DEF Km
  <2> QED
    BY <1>2, <1>7, <2>3 DEF LastIsNow
<1>13. /\ leg.minutes \in Nat /\ leg.km \in Nat /\ car.time \in Nat /\ car.mileage \in Nat
       /\ next.time = car.time + leg.minutes /\ next.mileage = car.mileage + leg.km
       /\ seen.time = next.time /\ seen.mileage = next.mileage
  BY <1>1, <1>4, TripsAssumption DEF Leg, TypeOK
<1>14. ASSUME next.mileage = car.mileage, FuelCapacity > 0
       PROVE  seen.fuel = next.fuel /\ car.fuel \in Int /\ next.fuel \in Int /\ car.fuel <= next.fuel
  <2>1. leg.km = 0
    BY <1>13, <1>14
  <2>2. next.fuel = car.fuel - leg.burnt /\ ("fuel" \in leg.told => seen.fuel = next.fuel)
    BY <1>1, <1>4
  <2> QED
    BY <1>14, <2>1, <2>2, StandingFuel
<1>15. LastIsNow'
  <2>1. ASSUME m > 1, Km(after[m - 1], after[m]) = 0, FuelCapacity > 0 PROVE after[m].fuel = next.fuel
    <3>1. m - 1 \in 1..(m - 1) /\ m - 1 \in 1..Len(rows) /\ after[m - 1] = rows[m - 1]
      BY <1>7, <1>9, <2>1
    <3>2. rows[m - 1].mileage \in Nat
      BY <1>5, <3>1, PositionAt
    <3>3. rows[m - 1].mileage = next.mileage
      <4>1. seen.mileage \in Nat /\ seen.mileage = next.mileage
        BY <1>13, NumbersOf
      <4>2. Km(rows[m - 1], seen) = 0
        BY <1>9, <2>1, <3>1
      <4> QED
        BY <3>2, <4>1, <4>2 DEF Km
    <3>4. next.mileage = car.mileage
      <4>1. CASE m = n + 1
        BY <1>9, <1>11, <2>1, <3>3, <4>1
      <4>2. CASE m = n
        BY <1>9, <1>10, <1>11, <3>3, <4>2 DEF Same
      <4> QED
        BY <1>9, <4>1, <4>2
    <3> QED
      BY <1>9, <1>14, <2>1, <3>4
  <2>2. after[m].time = next.time /\ after[m].mileage = next.mileage
    BY <1>9, <1>13
  <2> QED
    BY <1>3, <1>4, <1>8, <2>1, <2>2 DEF LastIsNow
<1>16. PICK o : o = Len(old)
  OBVIOUS
<1>17. /\ o \in Nat /\ o <= n
       /\ \A i \in 1..(o - 1) : rows[i] = old[i]
       /\ o > 0 => rows[o] = old[o] \/ MayReplace(old, rows[o])
  <2>1. o \in Nat /\ (o > 0 => old # <<>>)
    BY <1>16
  <2> QED
    BY <1>2, <1>7, <1>16, <2>1 DEF GrownFrom
<1>18. o <= m /\ \A i \in 1..(o - 1) : after[i] = old[i]
  BY <1>9, <1>17
<1>19. o > 0 => after[o] = old[o] \/ MayReplace(old, after[o])
  <2>1. CASE o < m
    BY <1>9, <1>17, <2>1
  <2>2. CASE o = m /\ m = n /\ n >= 2
    <3>1. after[o] = seen /\ Same(rows[o - 1], rows[o]) /\ Same(rows[o], seen)
      BY <1>9, <1>10, <2>2
    <3>2. rows[o - 1] = old[o - 1] /\ o > 1
      BY <1>9, <1>17, <2>2
    <3>a. rows[o].time = car.time /\ rows[o].mileage = car.mileage
      BY <1>9, <1>11, <2>2
    <3>3. next.mileage = car.mileage
      BY <1>13, <3>1, <3>a DEF Same
    <3>4. rows[o].time <= seen.time /\ rows[o].time = car.time
      BY <1>13, <3>a
    <3>5. FuelCapacity > 0 => /\ rows[o].fuel \in Int /\ seen.fuel \in Int
                              /\ rows[o].fuel = car.fuel /\ rows[o].fuel <= seen.fuel
      <4>1. rows[o - 1].mileage = rows[o].mileage
        BY <3>1 DEF Same
      <4> QED
        BY <1>12, <1>14, <2>2, <3>2, <3>3, <4>1
    <3>6. CASE rows[o] = old[o]
      BY <1>16, <3>1, <3>2, <3>4, <3>5, <3>6 DEF MayReplace, Same
    <3>7. CASE MayReplace(old, rows[o])
      <4>1. old[o].time \in Nat /\ seen.time \in Nat /\ rows[o].time \in Nat
        <5>1. o \in 1..Len(old) /\ o \in 1..Len(rows)
          BY <1>7, <1>16, <2>2, <3>2
        <5> QED
          BY <1>5, <5>1, PositionAt, NumbersOf
      <4>2. old[o].time <= seen.time
        BY <1>16, <3>4, <3>7, <4>1 DEF MayReplace
      <4>3. FuelCapacity > 0 => old[o].fuel \in Int /\ seen.fuel \in Int /\ old[o].fuel <= seen.fuel
        BY <1>16, <3>5, <3>7 DEF MayReplace
      <4>4. Same(old[o - 1], old[o]) /\ Same(old[o - 1], seen)
        BY <1>16, <3>1, <3>2, <3>7 DEF MayReplace, Same
      <4> QED
        BY <1>16, <3>1, <3>2, <4>2, <4>3, <4>4 DEF MayReplace
    <3> QED
      BY <1>17, <3>2, <3>6, <3>7
  <2>3. CASE o = m /\ m = n + 1
    BY <1>9, <1>17, <2>3
  <2> QED
    BY <1>9, <1>17, <1>18, <2>1, <2>2, <2>3
<1>20. GrownFrom(old)'
  <2>1. old # <<>> => o > 0
    BY <1>16
  <2> QED
    BY <1>3, <1>8, <1>16, <1>18, <1>19, <2>1 DEF GrownFrom
<1> QED
  BY <1>15, <1>20

\* A run goes on with one turn.
LEMMA NextRun ==
    ASSUME NEW rows, NEW n \in Nat, n >= 2, NEW run, IsRun(rows, n, run), NEW t, t = TurnOf(rows, n, run[n])
    PROVE  \E more : IsRun(rows, n + 1, more) /\ more[n + 1] = t
<1>1. PICK more : more = [x \in 2..(n + 1) |-> IF x = n + 1 THEN t ELSE run[x]]
  OBVIOUS
<1>2. more[n + 1] = t /\ \A x \in 2..n : more[x] = run[x]
  BY <1>1
<1>3. more[2] = [start |-> 1, trips |-> <<>>]
  BY <1>2 DEF IsRun
<1>4. ASSUME NEW x \in 2..((n + 1) - 1) PROVE more[x + 1] = TurnOf(rows, x, more[x])
  <2>1. CASE x = n
    BY <1>2, <2>1
  <2>2. CASE x # n
    <3>1. x \in 2..(n - 1) /\ x \in 2..n /\ x + 1 \in 2..n
      BY <2>2
    <3> QED
      BY <1>2, <3>1 DEF IsRun
  <2> QED
    BY <2>1, <2>2
<1> QED
  BY <1>2, <1>3, <1>4 DEF IsRun

\* Two tables with the same rows take the same turn; what follows the end matters
\* only for whether a trip ends there.
LEMMA SameTurn ==
    ASSUME NEW rows, NEW old, NEW x, NEW s, rows[s.start] = old[s.start], rows[x] = old[x],
           rows[x + 1] = old[x + 1] \/ (Ends(old[x], old[x + 1]) /\ Ends(rows[x], rows[x + 1]))
    PROVE  TurnOf(rows, x, s) = TurnOf(old, x, s)
<1>1. Ends(rows[x], rows[x + 1]) <=> Ends(old[x], old[x + 1])
  OBVIOUS
<1> QED
  BY <1>1 DEF Ends, TurnOf

\* Where no trip ends none is found.
LEMMA NoTripFound ==
    ASSUME NEW rows, NEW x, NEW s, ~Ends(rows[x], rows[x + 1]),
           NEW begin, NEW found, s = [start |-> begin, trips |-> found]
    PROVE  TurnOf(rows, x, s).trips = found
BY DEF Ends, TurnOf

\* What is to be shown of a turn of the loop.
LEMMA Turns ==
    ASSUME StayInv, InLoop, IInv', UNCHANGED <<car, position, at, res, report>>, end' = end + 1,
           \A k \in DOMAIN trips : k \in DOMAIN trips' /\ trips'[k] = trips[k],
           NEW t, t = TurnOf(res, end, [start |-> start, trips |-> trips]),
           t.trips \in Seq(Trip),
           \A k \in DOMAIN t.trips : t.trips[k].from \in 1..end /\ t.trips[k].to \in 1..end,
           end + 1 < Len(res) => t = [start |-> start', trips |-> trips'],
           \A k \in DOMAIN trips' : trips'[k].to < Len(res) => k \in DOMAIN t.trips /\ trips'[k] = t.trips[k],
           \A k \in DOMAIN t.trips : k \in DOMAIN trips' /\ trips'[k] = t.trips[k]
    PROVE  StayInv'
<1>1. IInv /\ at = "loop" /\ end < Len(res) /\ res \in Seq(Position) /\ res = position
  BY DEF StayInv, InLoop, IInv, TypeOK
<1>2. start \in Nat /\ end \in Nat /\ Len(res) \in Nat /\ 1 <= start /\ start <= end /\ 2 <= end
  BY <1>1, LoopNumbers
<1>3. PICK rows : rows = res
  OBVIOUS
<1>4. PICK e : e = end
  OBVIOUS
<1>5. PICK s : s = [start |-> start, trips |-> trips]
  OBVIOUS
<1>6. t = TurnOf(rows, e, s) /\ s.start = start /\ s.trips = trips /\ end' = e + 1 /\ res' = rows
  BY <1>3, <1>4, <1>5
<1>7. \E run : HasRun(run)'
  <2>1. PICK run : HasRun(run)
    BY <1>1 DEF StayInv
  <2>2. IsRun(rows, e, run) /\ run[e] = s
    BY <1>1, <1>3, <1>4, <1>5, <2>1 DEF HasRun, HasReached
  <2>3. PICK more : IsRun(rows, e + 1, more) /\ more[e + 1] = t
    BY <1>2, <1>4, <1>6, <2>2, NextRun
  <2>4. HasReached(t)'
    <3>0. end' - 1 = end
      BY <1>2
    <3>1. Early(t.trips)'
      BY <3>0 DEF Early
    <3> QED
      BY <1>6, <3>1 DEF HasReached
  <2>5. IsRun(res, end, more)'
    BY <1>6, <2>3 DEF IsRun
  <2>6. HasReached(more[end])'
    BY <1>6, <2>3, <2>4 DEF HasReached, Early
  <2>7. HasRun(more)'
    BY <2>5, <2>6 DEF HasRun
  <2> QED
    BY <2>7
<1>8. PICK old, z, run : IsReport(old, z, run) /\ GrownFrom(old) /\ Repeats(z, run)
  BY <1>1 DEF StayInv
<1>9. old \in Seq(Position) /\ z \in Nat /\ (z = Len(old) \/ (z = 2 /\ Len(old) < 2)) /\ IsRun(old, z, run)
  BY <1>8 DEF IsReport
<1>10. Repeats(z, run)'
  <2>1. CASE e >= z
    <3>1. \A k \in DOMAIN run[z].trips : k \in DOMAIN trips' /\ trips'[k] = run[z].trips[k]
      BY <1>4, <1>8, <2>1 DEF Repeats
    <3>2. ~(e + 1 < z)
      BY <1>2, <1>4, <1>9, <2>1
    <3> QED
      BY <1>6, <3>1, <3>2 DEF Repeats
  <2>2. CASE e < z
    <3>1. z = Len(old) /\ run[e] = s /\ e \in 2..(z - 1)
      BY <1>2, <1>4, <1>5, <1>8, <1>9, <2>2 DEF Repeats
    <3>2. run[e + 1] = TurnOf(old, e, s)
      BY <1>9, <3>1 DEF IsRun
    <3>3. Len(old) <= Len(rows) /\ \A i \in 1..(z - 1) : rows[i] = old[i]
      BY <1>1, <1>3, <1>8, <3>1 DEF GrownFrom
    <3>4. rows[s.start] = old[s.start] /\ rows[e] = old[e]
      BY <1>2, <1>4, <1>6, <3>1, <3>3
    <3>5. CASE e + 1 < z
      <4>1. rows[e + 1] = old[e + 1]
        <5>1. e + 1 \in 1..(z - 1)
          BY <1>2, <1>4, <1>9, <3>5
        <5> QED
          BY <3>3, <5>1
      <4>2. t = run[e + 1]
        BY <1>6, <3>2, <3>4, <4>1, SameTurn
      <4>3. e + 1 < Len(res)
        BY <1>2, <1>3, <1>4, <1>9, <3>1, <3>3, <3>5
      <4>4. run[e + 1] = [start |-> start', trips |-> trips']
        BY <1>4, <4>2, <4>3
      <4> QED
        BY <1>6, <3>5, <4>4, <1>2, <1>4, <1>9 DEF Repeats
    <3>6. CASE e + 1 = z
      <4>1. CASE Ends(old[e], old[e + 1])
        <5>1. rows[e + 1] = old[e + 1] \/ Ends(rows[e], rows[e + 1])
          <6>1. CASE rows[z] = old[z]
            BY <3>6, <6>1
          <6>2. CASE MayReplace(old, rows[z])
            <7>1. e \in 1..Len(old) /\ z \in 1..Len(old) /\ z \in 1..Len(rows)
              BY <1>1, <1>2, <1>3, <1>9, <3>1, <3>3
            <7>2. old[e] \in Position /\ old[z] \in Position /\ rows[z] \in Position
              BY <1>1, <1>3, <1>9, <7>1, PositionAt
            <7>3. z - 1 = e
              BY <1>2, <1>4, <3>6
            <7>4. /\ Same(old[e], old[z]) /\ Same(old[e], rows[z]) /\ old[z].time <= rows[z].time
                  /\ FuelCapacity > 0 => old[z].fuel \in Int /\ rows[z].fuel \in Int /\ old[z].fuel <= rows[z].fuel
              BY <3>1, <6>2, <7>3 DEF MayReplace
            <7>5. Ends(old[e], rows[z])
              BY <3>6, <4>1, <7>2, <7>4, StillEnds
            <7> QED
              BY <3>4, <3>6, <7>5
          <6>3. old # <<>>
            BY <1>2, <1>4, <1>9, <3>1
          <6> QED
            BY <1>1, <1>3, <1>8, <3>1, <6>1, <6>2, <6>3 DEF GrownFrom
        <5>2. t = run[z]
          BY <1>6, <3>2, <3>4, <3>6, <4>1, <5>1, SameTurn
        <5>3. \A k \in DOMAIN run[z].trips : k \in DOMAIN trips' /\ trips'[k] = run[z].trips[k]
          BY <5>2
        <5> QED
          BY <1>2, <1>4, <1>6, <3>6, <5>3 DEF Repeats
      <4>2. CASE ~Ends(old[e], old[e + 1])
        <5>1. run[z].trips = trips
          BY <1>5, <3>2, <3>6, <4>2, NoTripFound
        <5> QED
          BY <1>2, <1>4, <1>6, <3>6, <5>1 DEF Repeats
      <4> QED
        BY <4>1, <4>2
    <3> QED
      BY <1>2, <1>4, <1>9, <2>2, <3>5, <3>6
  <2> QED
    BY <1>2, <1>4, <1>9, <2>1, <2>2
<1>11. IsReport(old, z, run)' /\ GrownFrom(old)' /\ LastIsNow'
  BY <1>8 DEF StayInv, IsReport, GrownFrom, LastIsNow
<1> QED
  BY <1>1, <1>7, <1>10, <1>11 DEF StayInv

\* The trips found so far end with start.
LEMMA EarlyTrips ==
    ASSUME IInv, NEW k \in DOMAIN trips
    PROVE  trips[k].from \in 1..end /\ trips[k].to \in 1..end /\ trips[k].to <= start
<1>1. trips[k].from \in Nat /\ trips[k].to \in Nat
  BY TripTypes DEF IInv
<1>2. 1 <= trips[k].from /\ trips[k].from < trips[k].to /\ trips[k].to <= start
  BY DEF IInv, TripsInOrder
<1> QED
  BY <1>1, <1>2, LoopNumbers

LEMMA RestartStay == StayInv /\ Restart => StayInv'
<1> SUFFICES ASSUME StayInv, Restart PROVE StayInv'
  OBVIOUS
<1>1. IInv' /\ IInv /\ trips \in Seq(Trip)
  BY RestartIInv DEF StayInv, IInv, TypeOK
<1>2. /\ UNCHANGED <<car, position, at, res, report, trips>> /\ InLoop
      /\ start' = end /\ end' = end + 1 /\ IsStop(res[start], res[end])
  BY DEF Restart, table
<1>3. PICK s : s = [start |-> start, trips |-> trips]
  OBVIOUS
<1>4. PICK t : t = TurnOf(res, end, s)
  OBVIOUS
<1>5. t = [start |-> end, trips |-> trips]
  BY <1>2, <1>3, <1>4 DEF TurnOf
<1>6. t.trips = trips /\ t = [start |-> start', trips |-> trips']
  BY <1>2, <1>5
<1>7. \A k \in DOMAIN t.trips : t.trips[k].from \in 1..end /\ t.trips[k].to \in 1..end
  BY <1>1, <1>6, EarlyTrips
<1> QED
  BY <1>1, <1>2, <1>3, <1>4, <1>6, <1>7, Turns

LEMMA ContinueStay == StayInv /\ Continue => StayInv'
<1> SUFFICES ASSUME StayInv, Continue PROVE StayInv'
  OBVIOUS
<1>1. IInv' /\ IInv /\ trips \in Seq(Trip)
  BY ContinueIInv DEF StayInv, IInv, TypeOK
<1>2. /\ UNCHANGED <<car, position, at, res, report, start, trips>> /\ InLoop
      /\ end' = end + 1 /\ ~IsStop(res[start], res[end]) /\ ~EndsAt(end)
  BY DEF Continue, Drives, table
<1>3. PICK s : s = [start |-> start, trips |-> trips]
  OBVIOUS
<1>4. PICK t : t = TurnOf(res, end, s)
  OBVIOUS
<1>5. t = s
  BY <1>2, <1>3, <1>4 DEF TurnOf, EndsAt
<1>6. t.trips = trips /\ t = [start |-> start', trips |-> trips']
  BY <1>2, <1>3, <1>5
<1>7. \A k \in DOMAIN t.trips : t.trips[k].from \in 1..end /\ t.trips[k].to \in 1..end
  BY <1>1, <1>6, EarlyTrips
<1> QED
  BY <1>1, <1>2, <1>3, <1>4, <1>6, <1>7, Turns

LEMMA EndTripStay == StayInv /\ EndTrip => StayInv'
<1> SUFFICES ASSUME StayInv, EndTrip PROVE StayInv'
  OBVIOUS
<1>1. IInv' /\ IInv /\ trips \in Seq(Trip) /\ trips' \in Seq(Trip)
  BY EndTripIInv DEF StayInv, IInv, TypeOK
<1>2. /\ UNCHANGED <<car, position, at, res, report>> /\ InLoop
      /\ end' = end + 1 /\ start' = end + 1 /\ ~IsStop(res[start], res[end]) /\ EndsAt(end)
      /\ trips' = WithTrip(start, end, FALSE)
  BY DEF EndTrip, Drives, table
<1>3. PICK s : s = [start |-> start, trips |-> trips]
  OBVIOUS
<1>4. PICK t : t = TurnOf(res, end, s)
  OBVIOUS
<1>5. t = [start |-> end + 1, trips |-> WithTrip(start, end, FALSE)]
  BY <1>2, <1>3, <1>4 DEF TurnOf, EndsAt, WithTrip
<1>6. t.trips = trips' /\ t = [start |-> start', trips |-> trips']
  BY <1>2, <1>5
<1>7. PICK no \in BOOLEAN : no = FALSE /\ trips' = WithTrip(start, end, no)
  BY <1>2
<1>8. \A k \in DOMAIN trips : k \in DOMAIN trips' /\ trips'[k] = trips[k]
  BY <1>1, <1>7, OneMore
<1>9. ASSUME NEW k \in DOMAIN trips' PROVE trips'[k].from \in 1..end /\ trips'[k].to \in 1..end
  <2>1. CASE trips' = trips
    BY <1>1, <1>9, <2>1, EarlyTrips
  <2>2. CASE trips' # trips
    <3>1. PICK new : new = [from |-> start, to |-> end, inProgress |-> no]
      OBVIOUS
    <3>2. trips' = Append(trips, new) /\ new.from = start /\ new.to = end
      BY <1>7, <2>2, <3>1 DEF WithTrip
    <3>3. k \in DOMAIN trips \/ trips'[k] = new
      BY <1>1, <1>9, <3>2
    <3>4. start \in 1..end /\ end \in 1..end
      BY <1>1, LoopNumbers
    <3>5. CASE k \in DOMAIN trips
      BY <1>1, <1>8, <3>5, EarlyTrips
    <3> QED
      BY <3>2, <3>3, <3>4, <3>5
  <2> QED
    BY <2>1, <2>2
<1> QED
  BY <1>1, <1>2, <1>3, <1>4, <1>6, <1>8, <1>9, Turns

LEMMA EndLastStay == StayInv /\ EndLast => StayInv'
<1> SUFFICES ASSUME StayInv, EndLast PROVE StayInv'
  OBVIOUS
<1>1. IInv' /\ IInv /\ trips \in Seq(Trip)
  BY EndLastIInv DEF StayInv, IInv, TypeOK
<1>2. PICK recent \in BOOLEAN : trips' = WithTrip(start, end + 1, recent)
  BY DEF EndLast
<1>3. /\ UNCHANGED <<car, position, at, res, report>> /\ InLoop /\ end = Len(res) - 1
      /\ end' = end + 1 /\ ~IsStop(res[start], res[end]) /\ ~EndsAt(end)
  BY DEF EndLast, Drives, table
<1>4. PICK s : s = [start |-> start, trips |-> trips]
  OBVIOUS
<1>5. PICK t : t = TurnOf(res, end, s)
  OBVIOUS
<1>6. t = s
  BY <1>3, <1>4, <1>5 DEF TurnOf, EndsAt
<1>7. t.trips = trips
  BY <1>4, <1>6
<1>8. \A k \in DOMAIN trips : k \in DOMAIN trips' /\ trips'[k] = trips[k]
  BY <1>1, <1>2, OneMore
<1>9. ASSUME NEW k \in DOMAIN trips', trips'[k].to < Len(res)
      PROVE  k \in DOMAIN t.trips /\ trips'[k] = t.trips[k]
  <2>1. CASE trips' = trips
    BY <1>7, <1>9, <2>1
  <2>2. CASE trips' # trips
    <3>1. PICK new : new = [from |-> start, to |-> end + 1, inProgress |-> recent]
      OBVIOUS
    <3>2. trips' = Append(trips, new) /\ new.to = end + 1
      BY <1>2, <2>2, <3>1 DEF WithTrip
    <3>3. k \in DOMAIN trips \/ trips'[k] = new
      BY <1>1, <1>9, <3>2
    <3>4. end \in Nat /\ Len(res) \in Nat
      BY <1>1, LoopNumbers
    <3>5. k \in DOMAIN trips
      BY <1>3, <1>9, <3>2, <3>3, <3>4
    <3> QED
      BY <1>7, <1>8, <3>5
  <2> QED
    BY <2>1, <2>2
<1>10. \A k \in DOMAIN t.trips : t.trips[k].from \in 1..end /\ t.trips[k].to \in 1..end
  BY <1>1, <1>7, EarlyTrips
<1>11. ~(end + 1 < Len(res))
  BY <1>1, <1>3, LoopNumbers
<1>12. \A k \in DOMAIN t.trips : k \in DOMAIN trips' /\ trips'[k] = t.trips[k]
  BY <1>7, <1>8
<1>13. t.trips \in Seq(Trip) /\ t = TurnOf(res, end, [start |-> start, trips |-> trips])
  BY <1>1, <1>4, <1>5, <1>7
<1> QED
  BY <1>1, <1>3, <1>8, <1>9, <1>10, <1>11, <1>12, <1>13, Turns

LEMMA FirstRun == ASSUME NEW rows PROVE \E run : IsRun(rows, 2, run)
<1>1. PICK run : run = [x \in {2} |-> [start |-> 1, trips |-> <<>>]]
  OBVIOUS
<1>2. run[2] = [start |-> 1, trips |-> <<>>]
  BY <1>1
<1>3. 2..(2 - 1) = {}
  OBVIOUS
<1> QED
  BY <1>2, <1>3 DEF IsRun

LEMMA InitStay == Init => StayInv
<1> SUFFICES ASSUME Init PROVE StayInv
  OBVIOUS
<1>1. position = <<>> /\ at = "idle" /\ report = [trips |-> <<>>, last |-> 0]
  BY DEF Init
<1>2. PICK run : IsRun(<<>>, 2, run)
  BY FirstRun
<1>3. run[2].trips = <<>>
  BY <1>2 DEF IsRun
<1>4. IsReport(<<>>, 2, run) /\ GrownFrom(<<>>)
  BY <1>1, <1>2, <1>3 DEF IsReport, GrownFrom
<1>5. LastIsNow
  BY <1>1 DEF LastIsNow
<1> QED
  BY <1>1, <1>4, <1>5, InitIInv DEF StayInv

LEMMA RecordStay == FuelIsSteady /\ StayInv /\ Record => StayInv'
<1> SUFFICES ASSUME FuelIsSteady, StayInv, Record PROVE StayInv'
  OBVIOUS
<1>1. IInv' /\ TypeOK
  BY RecordIInv DEF StayInv, IInv
<1>2. at' = "idle" /\ UNCHANGED report
  BY DEF Record, loop
<1>3. PICK old, z, run : IsReport(old, z, run) /\ GrownFrom(old)
  BY DEF StayInv
<1>4. old \in Seq(Position)
  BY <1>3 DEF IsReport
<1>5. LastIsNow' /\ GrownFrom(old)'
  BY <1>1, <1>3, <1>4, RecordGrows DEF StayInv
<1>6. IsReport(old, z, run)'
  BY <1>2, <1>3 DEF IsReport
<1> QED
  BY <1>1, <1>2, <1>5, <1>6 DEF StayInv

LEMMA BeginStay == StayInv /\ Begin => StayInv'
<1> SUFFICES ASSUME StayInv, Begin PROVE StayInv'
  OBVIOUS
<1>1. IInv' /\ IInv /\ position \in Seq(Position)
  BY BeginIInv DEF StayInv, IInv, TypeOK
<1>2. /\ UNCHANGED <<car, position, report>> /\ res' = position
      /\ start' = 1 /\ end' = 2 /\ trips' = <<>>
  BY <1>1 DEF Begin, table, IInv
<1>3. \E run : HasRun(run)'
  <2>1. PICK rows : rows = position
    OBVIOUS
  <2>2. PICK run : IsRun(rows, 2, run)
    BY FirstRun
  <2>3. run[2] = [start |-> 1, trips |-> <<>>]
    BY <2>2 DEF IsRun
  <2>4. PICK s : s = run[2]
    OBVIOUS
  <2>5. s.trips = <<>> /\ s = [start |-> start', trips |-> trips']
    BY <1>2, <2>3, <2>4
  <2>6. HasReached(s)'
    BY <1>2, <2>5 DEF HasReached, Early
  <2>7. HasReached(run[end])'
    BY <1>2, <2>4, <2>6 DEF HasReached, Early
  <2>8. IsRun(res, end, run)'
    BY <1>2, <2>1, <2>2 DEF IsRun
  <2>9. HasRun(run)'
    BY <2>7, <2>8 DEF HasRun
  <2> QED
    BY <2>9
<1>4. PICK old, z, run : IsReport(old, z, run) /\ GrownFrom(old)
  BY DEF StayInv
<1>5. z \in Nat /\ z >= 2 /\ run[2] = [start |-> 1, trips |-> <<>>]
  BY <1>4 DEF IsReport, IsRun
<1>6. Repeats(z, run)'
  <2>1. CASE z = 2
    <3>1. run[z].trips = <<>>
      BY <1>5, <2>1
    <3> QED
      BY <1>2, <2>1, <3>1 DEF Repeats
  <2>2. CASE z > 2
    BY <1>2, <1>5, <2>2 DEF Repeats
  <2> QED
    BY <1>5, <2>1, <2>2
<1>7. IsReport(old, z, run)' /\ GrownFrom(old)' /\ LastIsNow'
  BY <1>2, <1>4 DEF StayInv, IsReport, GrownFrom, LastIsNow
<1>8. at' = "loop" /\ res' = position'
  BY <1>2 DEF Begin
<1> QED
  BY <1>1, <1>3, <1>6, <1>7, <1>8 DEF StayInv

\* A trip of the report by its times.
LEMMA TimedTrips ==
    ASSUME Return, NEW k \in DOMAIN trips
    PROVE  /\ k \in DOMAIN report'.trips
           /\ report'.trips[k] = [trips[k] EXCEPT !.from = res[@].time, !.to = res[@].time]
BY DEF Return, Timed

LEMMA ReturnStay == StayInv /\ Return => StayInv'
<1> SUFFICES ASSUME StayInv, Return PROVE StayInv'
  OBVIOUS
<1>1. IInv' /\ IInv /\ res \in Seq(Position) /\ trips \in Seq(Trip)
  BY ReturnIInv DEF StayInv, IInv, TypeOK
<1>2. /\ UNCHANGED <<car, position>> /\ at = "loop" /\ at' = "idle" /\ end >= Len(res)
      /\ report' = [trips |-> Timed(trips), last |-> IF res = <<>> THEN 0 ELSE res[Len(res)].time]
  BY DEF Return, table
<1>3. end \in Nat /\ 2 <= end /\ Len(res) \in Nat
  BY <1>1, LoopNumbers
<1>4. PICK rows : rows = res
  OBVIOUS
<1>5. PICK z : z = end
  OBVIOUS
<1>6. PICK run : HasRun(run)
  BY <1>2 DEF StayInv
<1>7. IsRun(rows, z, run) /\ HasReached(run[z])
  BY <1>4, <1>5, <1>6 DEF HasRun
<1>8. PICK found : found = run[z].trips
  OBVIOUS
<1>9. /\ \A k \in DOMAIN found : found[k].from \in 1..(z - 1) /\ found[k].to \in 1..(z - 1)
      /\ \A k \in DOMAIN trips : trips[k].to < Len(rows) => k \in DOMAIN found /\ trips[k] = found[k]
  BY <1>4, <1>5, <1>7, <1>8 DEF HasReached, Early
<1>10. rows \in Seq(Position) /\ z \in Nat /\ z >= 2 /\ (z = Len(rows) \/ (z = 2 /\ Len(rows) < 2))
  BY <1>1, <1>2, <1>3, <1>4, <1>5 DEF IInv
<1>11. PICK given : given = report'.trips
  OBVIOUS
<1>12. PICK last : last = report'.last
  OBVIOUS
<1>13. ASSUME NEW k \in DOMAIN given, given[k].to < last
       PROVE  /\ k \in DOMAIN found
              /\ given[k] = [found[k] EXCEPT !.from = rows[@].time, !.to = rows[@].time]
  <2>1. k \in DOMAIN trips
    BY <1>2, <1>11, <1>13 DEF Timed
  <2>2. given[k] = [trips[k] EXCEPT !.from = rows[@].time, !.to = rows[@].time]
    BY <1>4, <1>11, <2>1, TimedTrips
  <2>3. trips[k] \in Trip /\ trips[k].to \in Nat
    BY <1>1, <2>1, TripTypes DEF IInv
  <2>4. 1 <= trips[k].from /\ trips[k].from < trips[k].to /\ trips[k].to <= Len(rows) /\ trips[k].from \in Nat
    BY <1>1, <1>4, <2>1, TripTypes DEF IInv, TripsInOrder
  <2>5. given[k].to = rows[trips[k].to].time
    BY <2>2, <2>3 DEF Trip
  <2>6. last = rows[Len(rows)].time
    <3>1. rows # <<>>
      BY <2>3, <2>4
    <3> QED
      BY <1>2, <1>4, <1>12, <3>1
  <2>7. Len(rows) \in 1..Len(rows)
    BY <1>3, <1>4, <2>3, <2>4
  <2>8. rows[Len(rows)].time \in Nat
    BY <1>10, <2>7, PositionAt
  <2>9. trips[k].to # Len(rows)
    BY <1>13, <2>5, <2>6, <2>8
  <2>10. trips[k].to < Len(rows)
    BY <1>3, <1>4, <2>3, <2>4, <2>9
  <2> QED
    BY <1>9, <2>1, <2>2, <2>10
<1>14. IsReport(rows, z, run)'
  BY <1>7, <1>8, <1>9, <1>10, <1>11, <1>12, <1>13 DEF IsReport
<1>15. GrownFrom(rows)'
  <2>1. position' = rows
    BY <1>2, <1>4 DEF StayInv
  <2> QED
    BY <1>3, <1>4, <2>1 DEF GrownFrom
<1>16. LastIsNow'
  BY <1>2 DEF StayInv, LastIsNow
<1> QED
  BY <1>1, <1>2, <1>14, <1>15, <1>16 DEF StayInv

LEMMA StayInvAlways == FuelIsSteady => (Spec => []StayInv)
<1> SUFFICES ASSUME FuelIsSteady PROVE Spec => []StayInv
  OBVIOUS
<1>1. StayInv /\ [Next]_vars => StayInv'
  <2> SUFFICES ASSUME StayInv, [Next]_vars PROVE StayInv'
    OBVIOUS
  <2>1. CASE UNCHANGED vars
    <3>1. UNCHANGED <<car, position, at, res, end, start, trips, report>> /\ TypeOK' /\ UNCHANGED loop
      BY <2>1 DEF vars, table, loop, StayInv, IInv, TypeOK
    <3>2. IInv'
      BY <3>1, LoopUnchanged DEF StayInv
    <3>3. LastIsNow' /\ (at' = "loop" => res' = position')
      BY <3>1 DEF StayInv, LastIsNow
    <3>4. at' = "loop" => \E run : HasRun(run)'
      BY <3>1 DEF StayInv, HasRun, HasReached, Early, IsRun
    <3>5. PICK old, z, run :
             /\ IsReport(old, z, run) /\ GrownFrom(old)
             /\ at = "loop" => Repeats(z, run)
      BY DEF StayInv
    <3>6. IsReport(old, z, run)' /\ GrownFrom(old)' /\ (at' = "loop" => Repeats(z, run)')
      BY <3>1, <3>5 DEF IsReport, GrownFrom, Repeats
    <3> QED
      BY <3>2, <3>3, <3>4, <3>6 DEF StayInv
  <2>2. CASE Next
    BY <2>2, RecordStay, BeginStay, RestartStay, EndTripStay, EndLastStay, ContinueStay,
       ReturnStay DEF Next
  <2> QED
    BY <2>1, <2>2
<1> QED
  BY <1>1, InitStay, PTL DEF Spec

\* What Return returns begins with the ended trips of the last report.
LEMMA ReturnKeepsTrips ==
    ASSUME StayInv, Return, NEW k \in DOMAIN report.trips, report.trips[k].to < report.last
    PROVE  k \in DOMAIN report'.trips /\ report'.trips[k] = report.trips[k]
<1>1. IInv /\ at = "loop" /\ end >= Len(res) /\ res = position
  BY DEF StayInv, Return
<1>2. PICK old, z, run : IsReport(old, z, run) /\ GrownFrom(old) /\ Repeats(z, run)
  BY <1>1 DEF StayInv
<1>3. PICK found : found = run[z].trips
  OBVIOUS
<1>4. /\ k \in DOMAIN found
      /\ report.trips[k] = [found[k] EXCEPT !.from = old[@].time, !.to = old[@].time]
      /\ found[k].from \in 1..(z - 1) /\ found[k].to \in 1..(z - 1)
      /\ old \in Seq(Position) /\ z \in Nat /\ z >= 2 /\ (z = Len(old) \/ (z = 2 /\ Len(old) < 2))
  BY <1>2, <1>3 DEF IsReport
<1>5. z = Len(old)
  <2> SUFFICES ASSUME z = 2 PROVE FALSE
    BY <1>4
  <2>0. IsRun(old, z, run)
    BY <1>2 DEF IsReport
  <2>1. run[2].trips = <<>>
    BY <2>0 DEF IsRun
  <2> QED
    BY <1>3, <1>4, <2>1
<1>6. Len(old) <= Len(res) /\ \A i \in 1..(z - 1) : res[i] = old[i]
  BY <1>1, <1>2, <1>5 DEF GrownFrom
<1>7. end >= z
  BY <1>1, <1>4, <1>5, <1>6, LoopNumbers
<1>8. k \in DOMAIN trips /\ trips[k] = found[k]
  BY <1>2, <1>3, <1>4, <1>7 DEF Repeats
<1>9. /\ k \in DOMAIN report'.trips
      /\ report'.trips[k] = [trips[k] EXCEPT !.from = res[@].time, !.to = res[@].time]
  BY <1>8, TimedTrips
<1>10. trips[k] \in Trip
  BY <1>1, <1>8, TripTypes DEF IInv
<1>11. res[found[k].from] = old[found[k].from] /\ res[found[k].to] = old[found[k].to]
  BY <1>4, <1>6
<1> QED
  BY <1>4, <1>8, <1>9, <1>10, <1>11 DEF Trip

\* A trip that ended before the last position is returned again, the same and in the same
\* place, however many positions are added or cleaned: as long as the fuel is steady.
THEOREM EndedTripsStayAlways == FuelIsSteady => (Spec => EndedTripsStay)
<1> SUFFICES ASSUME FuelIsSteady PROVE Spec => EndedTripsStay
  OBVIOUS
<1>1. StayInv /\ [Next]_vars =>
         [\A k \in DOMAIN report.trips :
             report.trips[k].to < report.last =>
                 k \in DOMAIN report'.trips /\ report'.trips[k] = report.trips[k]]_report
  <2> SUFFICES ASSUME StayInv, [Next]_vars, report' # report,
                      NEW k \in DOMAIN report.trips, report.trips[k].to < report.last
               PROVE  k \in DOMAIN report'.trips /\ report'.trips[k] = report.trips[k]
    OBVIOUS
  <2>1. Return
    BY DEF Next, vars, Record, Begin, Restart, EndTrip, EndLast, Continue, table, loop
  <2> QED
    BY <2>1, ReturnKeepsTrips
<1> QED
  BY <1>1, StayInvAlways, PTL DEF Spec, EndedTripsStay

-----------------------------------------------------------------------------
(* The loop of clean_psa_trips *)

\* The lists after each trip of a list, as a function that the loop determines.
IsLoop(cleaned, list) ==
    cleaned = [n \in 0..Len(list) |-> IF n = 0 THEN <<>> ELSE WithPsaTrip(cleaned[n - 1], list[n])]

\* The lists that clean_psa_trips builds are its loop, if there is such a function.
LEMMA CleaningIsLoop ==
    ASSUME NEW list, NEW cleaned, IsLoop(cleaned, list)
    PROVE  IsLoop(Cleaning(list), list)
BY DEF IsLoop, Cleaning

\* The loop has one outcome.
Determined(list) ==
    /\ IsLoop(Cleaning(list), list)
    /\ \A cleaned : IsLoop(cleaned, list) => cleaned = Cleaning(list)

\* The loop over no trip has built the empty list.
LEMMA LoopFirst ==
    ASSUME NEW list, list \in Seq(PsaTrip), Len(list) = 0
    PROVE  Determined(list) /\ Cleaning(list)[0] = <<>>
<1> DEFINE c == [n \in 0..0 |-> <<>>]
<1>1. 0..Len(list) = 0..0
  OBVIOUS
<1>2. ASSUME NEW cleaned, IsLoop(cleaned, list)
      PROVE  cleaned = c
  BY <1>1, <1>2 DEF IsLoop
<1>3. IsLoop(c, list)
  BY <1>1 DEF IsLoop
<1> QED
  BY <1>1, <1>2, <1>3, CleaningIsLoop DEF Determined

\* Two lists that agree on their first m trips, and have at most one more.
LEMMA LoopAgrees ==
    ASSUME NEW m \in Nat, NEW list \in Seq(PsaTrip), NEW next \in Seq(PsaTrip),
           Len(list) \in {m, m + 1}, Len(next) = m + 1,
           \A i \in 1..m : next[i] = list[i],
           Determined(list)
    PROVE  /\ Determined(next)
           /\ \A n \in 0..m : Cleaning(next)[n] = Cleaning(list)[n]
           /\ Cleaning(next)[m + 1] = WithPsaTrip(Cleaning(list)[m], next[m + 1])
<1> DEFINE f == Cleaning(list)
           g == [n \in 0..(m + 1) |-> IF n <= m THEN f[n] ELSE WithPsaTrip(f[m], next[m + 1])]
<1>1. /\ f[0] = <<>>
      /\ \A n \in 1..Len(list) : f[n] = WithPsaTrip(f[n - 1], list[n])
      /\ f = [n \in 0..Len(list) |-> f[n]]
  BY DEF Determined, IsLoop
<1>2. IsLoop(g, next)
  <2>1. ASSUME NEW n \in 0..(m + 1)
        PROVE  g[n] = IF n = 0 THEN <<>> ELSE WithPsaTrip(g[n - 1], next[n])
    <3>1. CASE n = 0
      BY <1>1, <3>1
    <3>2. CASE n \in 1..m
      <4>1. n - 1 \in 0..(m + 1) /\ n - 1 <= m /\ n <= m /\ n \in 1..Len(list) /\ n # 0
        BY <3>2
      <4>2. g[n] = f[n] /\ g[n - 1] = f[n - 1]
        BY <4>1
      <4>3. next[n] = list[n]
        BY <3>2
      <4> HIDE DEF f, g
      <4> QED
        BY <1>1, <4>1, <4>2, <4>3
    <3>3. CASE n = m + 1
      BY <3>3
    <3> QED
      BY <3>1, <3>2, <3>3
  <2> QED
    BY <2>1 DEF IsLoop
<1>3. ASSUME NEW h, IsLoop(h, next)
      PROVE  h = g
  <2> DEFINE k == [n \in 0..Len(list) |-> IF n <= m THEN h[n] ELSE WithPsaTrip(h[m], list[m + 1])]
  <2>1. /\ h[0] = <<>>
        /\ \A n \in 1..(m + 1) : h[n] = WithPsaTrip(h[n - 1], next[n])
        /\ h = [n \in 0..(m + 1) |-> h[n]]
    BY <1>3 DEF IsLoop
  <2>2. IsLoop(k, list)
    <3>1. ASSUME NEW n \in 0..Len(list)
          PROVE  k[n] = IF n = 0 THEN <<>> ELSE WithPsaTrip(k[n - 1], list[n])
      <4>1. CASE n = 0
        BY <2>1, <4>1
      <4>2. CASE n \in 1..m
        <5>1. n - 1 \in 0..Len(list) /\ n - 1 <= m /\ n <= m /\ n \in 1..(m + 1) /\ next[n] = list[n] /\ n # 0
          BY <4>2
        <5>2. k[n] = h[n] /\ k[n - 1] = h[n - 1]
          BY <5>1
        <5> HIDE DEF k
        <5> QED
          BY <2>1, <5>1, <5>2
      <4>3. CASE n = m + 1
        BY <4>3
      <4> QED
        BY <4>1, <4>2, <4>3
    <3> QED
      BY <3>1 DEF IsLoop
  <2>3. k = f
    BY <2>2 DEF Determined
  <2>4. \A n \in 0..m : h[n] = f[n]
    <3>1. \A n \in 0..m : n \in 0..Len(list) /\ k[n] = h[n]
      OBVIOUS
    <3> HIDE DEF k, f
    <3> QED
      BY <2>3, <3>1
  <2>5. h[m + 1] = WithPsaTrip(f[m], next[m + 1])
    <3>1. m + 1 \in 1..(m + 1) /\ (m + 1) - 1 = m /\ m \in 0..m
      OBVIOUS
    <3>2. h[m + 1] = WithPsaTrip(h[m], next[m + 1])
      BY <2>1, <3>1
    <3> QED
      BY <2>4, <3>1, <3>2
  <2>6. \A n \in 0..(m + 1) : h[n] = g[n]
    BY <2>4, <2>5
  <2> HIDE DEF f
  <2> QED
    BY <2>1, <2>6
<1>4. Determined(next) /\ Cleaning(next) = g
  <2> HIDE DEF g
  <2> QED
    BY <1>2, <1>3, CleaningIsLoop DEF Determined
<1> QED
  <2>1. g[m + 1] = WithPsaTrip(f[m], next[m + 1])
    OBVIOUS
  <2>2. \A n \in 0..m : g[n] = f[n]
    OBVIOUS
  <2> QED
    BY <1>4, <2>1, <2>2

-----------------------------------------------------------------------------
(* What the loop joins *)

\* A list whose last trip is replaced.
LEMMA FrontAndOne ==
    ASSUME NEW c \in Seq(PsaTrip), c # <<>>, NEW x \in PsaTrip
    PROVE  /\ Append(Front(c), x) \in Seq(PsaTrip)
           /\ DOMAIN Append(Front(c), x) = DOMAIN c
           /\ Len(Append(Front(c), x)) = Len(c)
           /\ Append(Front(c), x)[Len(c)] = x
           /\ \A k \in DOMAIN c : k # Len(c) => Append(Front(c), x)[k] = c[k]
           /\ Len(c) \in DOMAIN c /\ Last(c) = c[Len(c)] /\ DOMAIN c = 1..Len(c)
<1>1. Len(c) \in Nat \ {0} /\ DOMAIN c = 1..Len(c)
  OBVIOUS
<1>2. Front(c) \in Seq(PsaTrip) /\ Len(Front(c)) = Len(c) - 1
      /\ \A k \in 1..(Len(c) - 1) : Front(c)[k] = c[k]
  BY <1>1 DEF Front
<1> DEFINE f == Front(c)
<1> HIDE DEF f
<1>3. f \in Seq(PsaTrip) /\ Len(f) = Len(c) - 1 /\ \A k \in 1..(Len(c) - 1) : f[k] = c[k]
  BY <1>2 DEF f
<1>4. /\ Append(f, x) \in Seq(PsaTrip) /\ Len(Append(f, x)) = Len(f) + 1
      /\ Append(f, x)[Len(f) + 1] = x /\ \A k \in 1..Len(f) : Append(f, x)[k] = f[k]
  BY <1>3
<1>5. Len(f) + 1 = Len(c)
  BY <1>1, <1>3
<1>6. \A k \in DOMAIN c : k # Len(c) => k \in 1..(Len(c) - 1)
  BY <1>1
<1>7. DOMAIN Append(f, x) = 1..Len(c)
  BY <1>4, <1>5
<1> QED
  <2>1. Append(f, x)[Len(c)] = x /\ Len(Append(f, x)) = Len(c)
    BY <1>4, <1>5
  <2>2. \A k \in DOMAIN c : k # Len(c) => Append(f, x)[k] = c[k]
    BY <1>3, <1>4, <1>6
  <2>3. Len(c) \in DOMAIN c /\ Last(c) = c[Len(c)]
    BY <1>1 DEF Last
  <2> QED
    BY <1>1, <1>4, <1>7, <2>1, <2>2, <2>3 DEF f

\* A list with one more trip.
LEMMA OneMoreTrip ==
    ASSUME NEW c \in Seq(PsaTrip), NEW x \in PsaTrip
    PROVE  /\ Append(c, x) \in Seq(PsaTrip)
           /\ DOMAIN Append(c, x) = DOMAIN c \cup {Len(c) + 1}
           /\ Append(c, x)[Len(c) + 1] = x
           /\ \A k \in DOMAIN c : Append(c, x)[k] = c[k]
           /\ DOMAIN c = 1..Len(c) /\ Len(c) \in Nat /\ Len(Append(c, x)) = Len(c) + 1
OBVIOUS

\* A trip and its restart joined.
LEMMA JoinedTrip ==
    ASSUME NEW first \in PsaTrip, NEW second \in PsaTrip
    PROVE  /\ Join(first, second) \in PsaTrip
           /\ Join(first, second).start = first.start
           /\ Join(first, second).mileage = first.mileage
           /\ Join(first, second).stop = second.stop
           /\ Join(first, second).done = second.done
           /\ Join(first, second).km = first.km + second.km
<1>1. first.start \in Nat /\ first.mileage \in Nat /\ first.km + second.km \in Nat /\ first.startMadeUp \in BOOLEAN
  BY DEF PsaTrip
<1>2. PICK made \in BOOLEAN : first.startMadeUp = made
  BY <1>1
<1>3. Join(first, second) =
         [[[[second EXCEPT !.start = first.start] EXCEPT !.mileage = first.mileage]
              EXCEPT !.startMadeUp = made] EXCEPT !.km = first.km + second.km]
  BY <1>2 DEF Join, PsaTrip
<1> QED
  BY <1>1, <1>2, <1>3 DEF PsaTrip

\* What one more trip does to the trips so far.
LEMMA JoinOne ==
    ASSUME NEW list \in Seq(PsaTrip), FollowEachOther(list), NEW n \in 1..Len(list),
           NEW c, JoinedUpTo(n - 1, c, list)
    PROVE  JoinedUpTo(n, WithPsaTrip(c, list[n]), list)
<1> DEFINE x == list[n]
<1>1. /\ c \in Seq(PsaTrip)
      /\ \A k \in DOMAIN c : c[k].start <= c[k].stop
      /\ \A k, l \in DOMAIN c : k < l => c[k].stop < c[l].start
      /\ \A k \in DOMAIN c : \E a, b \in 1..(n - 1) : Spans(c[k], list, a, b)
      /\ \A i \in 1..(n - 1) : Moved(list[i]) =>
            \E k \in DOMAIN c : c[k].start <= list[i].start /\ list[i].stop <= c[k].stop
  BY DEF JoinedUpTo
<1>2. /\ x \in PsaTrip /\ x.start <= x.stop /\ x.start \in Nat /\ x.stop \in Nat /\ x.km \in Nat /\ x.mileage \in Nat
      /\ n \in DOMAIN list
      /\ \A i \in 1..(n - 1) : i \in 1..n /\ list[i] \in PsaTrip /\ list[i].stop \in Nat /\ list[i].stop < x.start
      /\ \A k \in DOMAIN c : /\ c[k] \in PsaTrip /\ c[k].start \in Nat /\ c[k].stop \in Nat
                             /\ c[k].mileage \in Nat /\ c[k].km \in Nat
      /\ \A i \in 1..n : i \in 1..(n - 1) \/ i = n
  <2>1. n \in DOMAIN list /\ \A i \in 1..(n - 1) : i \in DOMAIN list /\ i \in 1..n /\ i < n
    OBVIOUS
  <2>2. \A i \in DOMAIN list : list[i] \in PsaTrip
    OBVIOUS
  <2>3. \A k \in DOMAIN c : c[k] \in PsaTrip
    BY <1>1
  <2>4. \A t \in PsaTrip : t.start \in Nat /\ t.stop \in Nat /\ t.km \in Nat /\ t.mileage \in Nat
    BY DEF PsaTrip
  <2>5. x.start <= x.stop /\ \A i \in 1..(n - 1) : list[i].stop < x.start
    BY <2>1 DEF FollowEachOther
  <2> QED
    BY <2>1, <2>2, <2>3, <2>4, <2>5
<1>3. \A k \in DOMAIN c : c[k].stop < x.start
  <2> SUFFICES ASSUME NEW k \in DOMAIN c PROVE c[k].stop < x.start
    OBVIOUS
  <2>1. PICK a \in 1..(n - 1), b \in 1..(n - 1) : Spans(c[k], list, a, b)
    BY <1>1
  <2> QED
    BY <1>2, <2>1 DEF Spans
<1>4. CASE ~Moved(x)
  <2>1. WithPsaTrip(c, x) = c
    BY <1>4 DEF WithPsaTrip
  <2>2. \A k \in DOMAIN c : \E a, b \in 1..n : Spans(c[k], list, a, b)
    BY <1>1, <1>2
  <2>3. \A i \in 1..n : Moved(list[i]) =>
            \E k \in DOMAIN c : c[k].start <= list[i].start /\ list[i].stop <= c[k].stop
    BY <1>1, <1>2, <1>4
  <2> QED
    BY <1>1, <2>1, <2>2, <2>3 DEF JoinedUpTo
<1>5. CASE Moved(x) /\ c # <<>> /\ Continues(Last(c), x)
  <2> DEFINE z == Len(c)
             y == Join(Last(c), x)
             d == Append(Front(c), y)
  <2>1. WithPsaTrip(c, x) = d
    BY <1>5 DEF WithPsaTrip
  <2>2. z \in DOMAIN c /\ Last(c) = c[z] /\ DOMAIN c = 1..z
    BY <1>1, <1>5, FrontAndOne, <1>2
  <2>3. /\ y \in PsaTrip
        /\ y.start = c[z].start /\ y.mileage = c[z].mileage
        /\ y.stop = x.stop /\ y.done = x.done /\ y.km = c[z].km + x.km
    BY <1>2, <2>2, JoinedTrip
  <2>4. /\ d \in Seq(PsaTrip) /\ DOMAIN d = DOMAIN c
        /\ d[z] = y /\ \A k \in DOMAIN c : k # z => d[k] = c[k]
    BY <1>1, <1>5, <2>3, FrontAndOne
  <2>5. x.mileage = c[z].mileage + c[z].km
    BY <1>5, <2>2 DEF Continues
  <2> HIDE DEF d, y, z, x
  <2>10. d[z].start = c[z].start /\ d[z].stop = x.stop /\ c[z].start <= c[z].stop /\ c[z].stop < x.start
    BY <1>1, <1>3, <2>2, <2>3, <2>4
  <2>11. /\ {c[z].start, c[z].stop, x.start, x.stop} \subseteq Nat /\ x.start <= x.stop
         /\ c[z].mileage \in Nat /\ c[z].km \in Nat /\ x.mileage \in Nat /\ x.km \in Nat
    BY <1>2, <2>2 DEF x
  <2>12. d[z].start <= d[z].stop /\ d[z].start <= x.start /\ x.stop <= d[z].stop /\ c[z].stop <= d[z].stop
    BY <2>10, <2>11
  <2>6. \A k \in DOMAIN d : d[k].start <= d[k].stop
    BY <1>1, <2>4, <2>12
  <2>7. \A k, l \in DOMAIN d : k < l => d[k].stop < d[l].start
    <3> SUFFICES ASSUME NEW k \in DOMAIN d, NEW l \in DOMAIN d, k < l
                 PROVE  d[k].stop < d[l].start
      OBVIOUS
    <3>1. k # z /\ k \in DOMAIN c /\ l \in DOMAIN c
      BY <2>2, <2>4
    <3>2. d[l].start = c[l].start
      BY <2>3, <2>4, <3>1
    <3> QED
      BY <1>1, <2>4, <3>1, <3>2
  <2>8. \A k \in DOMAIN d : \E a, b \in 1..n : Spans(d[k], list, a, b)
    <3> SUFFICES ASSUME NEW k \in DOMAIN d PROVE \E a, b \in 1..n : Spans(d[k], list, a, b)
      OBVIOUS
    <3>1. PICK a \in 1..(n - 1), b \in 1..(n - 1) : Spans(c[k], list, a, b)
      BY <1>1, <2>4
    <3>2. CASE k # z
      BY <1>2, <2>4, <3>1, <3>2
    <3>3. CASE k = z
      <4>1. y.mileage + y.km = x.mileage + x.km
        BY <1>2, <2>2, <2>3, <2>5
      <4>2. Spans(y, list, a, n)
        BY <1>5, <2>3, <3>1, <3>3, <4>1 DEF Spans, x
      <4>3. a \in 1..n /\ n \in 1..n
        BY <1>2
      <4> QED
        BY <2>4, <3>3, <4>2, <4>3
    <3> QED
      BY <3>2, <3>3
  <2>9. ASSUME NEW i \in 1..n, Moved(list[i])
        PROVE  \E k \in DOMAIN d : d[k].start <= list[i].start /\ list[i].stop <= d[k].stop
    <3>1. CASE i = n
      <4> QED
        BY <2>2, <2>4, <2>12, <3>1 DEF x
    <3>2. CASE i \in 1..(n - 1)
      <4>1. PICK k \in DOMAIN c : c[k].start <= list[i].start /\ list[i].stop <= c[k].stop
        BY <1>1, <2>9, <3>2
      <4>2. d[k].start = c[k].start /\ c[k].stop <= d[k].stop
        <5>1. CASE k = z
          BY <2>10, <2>12, <5>1
        <5>2. CASE k # z
          <6>1. c[k].stop \in Nat /\ d[k] = c[k]
            BY <1>2, <2>4, <5>2
          <6> QED
            BY <6>1
        <5> QED
          BY <5>1, <5>2
      <4>3. list[i].stop \in Nat /\ d[k].stop \in Nat
        <5>1. k \in DOMAIN d
          BY <2>4
        <5>2. d[k] \in PsaTrip
          BY <2>4, <5>1
        <5> QED
          BY <1>2, <3>2, <5>2 DEF PsaTrip
      <4>4. c[k].stop \in Nat /\ k \in DOMAIN d
        BY <1>2, <2>4
      <4>5. list[i].stop <= d[k].stop
        BY <4>1, <4>2, <4>3, <4>4
      <4> QED
        BY <4>1, <4>2, <4>4, <4>5
    <3> QED
      BY <1>2, <3>1, <3>2
  <2> QED
    BY <2>1, <2>4, <2>6, <2>7, <2>8, <2>9 DEF JoinedUpTo, x
<1>6. CASE Moved(x) /\ ~(c # <<>> /\ Continues(Last(c), x))
  <2> DEFINE d == Append(c, x)
             z == Len(c) + 1
  <2>1. WithPsaTrip(c, x) = d
    BY <1>6 DEF WithPsaTrip
  <2>2. /\ d \in Seq(PsaTrip) /\ DOMAIN d = DOMAIN c \cup {z} /\ d[z] = x
        /\ \A k \in DOMAIN c : d[k] = c[k] /\ k < z
    BY <1>1, <1>2, OneMoreTrip
  <2> HIDE DEF d, z, x
  <2>3. \A k \in DOMAIN d : d[k].start <= d[k].stop
    BY <1>1, <1>2, <2>2
  <2>4. \A k, l \in DOMAIN d : k < l => d[k].stop < d[l].start
    BY <1>1, <1>3, <2>2
  <2>5. \A k \in DOMAIN d : \E a, b \in 1..n : Spans(d[k], list, a, b)
    <3>1. Spans(x, list, n, n)
      BY <1>6 DEF Spans, x
    <3> QED
      BY <1>1, <1>2, <2>2, <3>1
  <2>6. \A i \in 1..n : Moved(list[i]) =>
            \E k \in DOMAIN d : d[k].start <= list[i].start /\ list[i].stop <= d[k].stop
    <3>1. x.start <= x.start /\ x.stop <= x.stop
      BY <1>2
    <3> QED
      BY <1>1, <1>2, <2>2, <3>1 DEF x
  <2> QED
    BY <2>1, <2>2, <2>3, <2>4, <2>5, <2>6 DEF JoinedUpTo, x
<1> QED
  BY <1>4, <1>5, <1>6

\* The first trips of a list say what is joined of them.
LEMMA JoinedOfFirst ==
    ASSUME NEW m \in Nat, NEW list, NEW next, NEW c, JoinedUpTo(m, c, list),
           \A i \in 1..m : next[i] = list[i]
    PROVE  JoinedUpTo(m, c, next)
<1>1. \A k \in DOMAIN c : \E a, b \in 1..m : Spans(c[k], next, a, b)
  <2> SUFFICES ASSUME NEW k \in DOMAIN c PROVE \E a, b \in 1..m : Spans(c[k], next, a, b)
    OBVIOUS
  <2>1. PICK a \in 1..m, b \in 1..m : Spans(c[k], list, a, b)
    BY DEF JoinedUpTo
  <2>2. next[a] = list[a] /\ next[b] = list[b]
    OBVIOUS
  <2>3. Spans(c[k], next, a, b)
    BY <2>1, <2>2 DEF Spans
  <2> QED
    BY <2>3
<1>2. ASSUME NEW i \in 1..m, Moved(next[i])
      PROVE  \E k \in DOMAIN c : c[k].start <= next[i].start /\ next[i].stop <= c[k].stop
  <2>1. next[i] = list[i]
    OBVIOUS
  <2> QED
    BY <1>2, <2>1 DEF JoinedUpTo
<1> QED
  BY <1>1, <1>2 DEF JoinedUpTo

\* A list whose last trip changes, or that has one more, is joined as the loop
\* goes on from the trips before.
LEMMA ListGrows ==
    ASSUME NEW m \in Nat, NEW list, ListOK(list), Determined(list), NEW next \in Seq(PsaTrip),
           Len(list) \in {m, m + 1}, Len(next) = m + 1, \A i \in 1..m : next[i] = list[i],
           FollowEachOther(next)
    PROVE  /\ ListOK(next) /\ Determined(next)
           /\ JoinedUpTo(m, Cleaning(list)[m], next)
           /\ Joined(next) = WithPsaTrip(Cleaning(list)[m], next[m + 1])
<1>1. list \in Seq(PsaTrip) /\ \A n \in 0..Len(list) : JoinedUpTo(n, Cleaning(list)[n], list)
  BY DEF ListOK
<1>2. /\ Determined(next)
      /\ \A n \in 0..m : Cleaning(next)[n] = Cleaning(list)[n]
      /\ Cleaning(next)[m + 1] = WithPsaTrip(Cleaning(list)[m], next[m + 1])
  BY <1>1, LoopAgrees
<1>3. \A n \in 0..m : JoinedUpTo(n, Cleaning(next)[n], next)
  <2> SUFFICES ASSUME NEW n \in 0..m PROVE JoinedUpTo(n, Cleaning(next)[n], next)
    OBVIOUS
  <2>1. n \in Nat /\ n \in 0..Len(list) /\ \A i \in 1..n : next[i] = list[i]
    OBVIOUS
  <2> QED
    BY <1>1, <1>2, <2>1, JoinedOfFirst
<1>4. m \in 0..m /\ m + 1 \in 1..Len(next) /\ (m + 1) - 1 = m
  OBVIOUS
<1>5. JoinedUpTo(m + 1, Cleaning(next)[m + 1], next)
  BY <1>2, <1>3, <1>4, JoinOne
<1>6. \A n \in 0..Len(next) : n \in 0..m \/ n = m + 1
  OBVIOUS
<1>7. ListOK(next)
  BY <1>3, <1>5, <1>6 DEF ListOK
<1> QED
  BY <1>2, <1>3, <1>4, <1>7 DEF Joined

\* Of no trips none are joined.
LEMMA NoList ==
    ASSUME NEW list, list = <<>>
    PROVE  ListOK(list) /\ Determined(list) /\ Joined(list) = <<>>
<1>1. list \in Seq(PsaTrip) /\ Len(list) = 0 /\ DOMAIN list = {}
  OBVIOUS
<1>2. Determined(list) /\ Cleaning(list)[0] = <<>>
  BY <1>1, LoopFirst
<1>3. JoinedUpTo(0, <<>>, list)
  BY DEF JoinedUpTo
<1>4. \A n \in 0..Len(list) : n = 0
  BY <1>1
<1>5. FollowEachOther(list)
  BY <1>1 DEF FollowEachOther
<1> QED
  BY <1>1, <1>2, <1>3, <1>4, <1>5 DEF ListOK, Joined

-----------------------------------------------------------------------------
(* The inductive invariant *)

MergedIInv ==
    /\ MergedInv
    /\ Determined(psa)
    /\ cache # None => Determined(cache.trips)

\* The invariant holds when nothing has been driven, read or asked.
LEMMA MergedInitInv == MergedInit => MergedIInv
<1> SUFFICES ASSUME MergedInit
             PROVE  MergedIInv
  OBVIOUS
<1>1. /\ now = 0 /\ odometer = 0 /\ psa = <<>> /\ own = <<>> /\ readings = {} /\ cache = None
      /\ told = {} /\ ended = {}
  BY DEF MergedInit
<1>2. ListOK(psa) /\ Determined(psa)
  BY <1>1, NoList
<1>3. MergedTypeOK
  BY <1>1 DEF MergedTypeOK
<1>4. DOMAIN psa = {} /\ DOMAIN own = {}
  BY <1>1
<1>5. ReadingsAreFinite
  <2>1. \A some \in SUBSET readings : some = {}
    BY <1>1
  <2> QED
    BY <2>1 DEF ReadingsAreFinite
<1>6. OwnFollow
  BY <1>4 DEF OwnFollow
<1>7. ToldIsClosed /\ ToldIsCached
  BY <1>1 DEF ToldIsClosed, ToldIsCached
<1> QED
  BY <1>1, <1>2, <1>3, <1>4, <1>5, <1>6, <1>7 DEF MergedIInv, MergedInv

\* The trips of PSA go on or change at their end.
LEMMA PsaChanges ==
    ASSUME MergedIInv, NEW m \in Nat, psa' \in Seq(PsaTrip),
           Len(psa) \in {m, m + 1}, Len(psa') = m + 1, \A i \in 1..m : psa'[i] = psa[i],
           FollowEachOther(psa'), UNCHANGED <<now, own, readings, cache, told, ended>>,
           odometer' \in Nat,
           \A i \in DOMAIN psa' : psa'[i].stop <= now /\ psa'[i].mileage + psa'[i].km <= odometer',
           ToldIsClosed'
    PROVE  MergedIInv'
<1>1. /\ MergedTypeOK /\ ListOK(psa) /\ Determined(psa) /\ OwnFollow /\ ReadingsAreFinite /\ ToldIsCached
      /\ cache # None => ListOK(cache.trips) /\ Determined(cache.trips)
  BY DEF MergedIInv, MergedInv
<1>0. now' = now /\ own' = own /\ readings' = readings /\ cache' = cache /\ told' = told /\ ended' = ended
  OBVIOUS
<1>2. ListOK(psa') /\ Determined(psa')
  <2>1. PICK list \in Seq(PsaTrip) : list = psa
    BY <1>1 DEF ListOK
  <2>2. PICK next \in Seq(PsaTrip) : next = psa'
    OBVIOUS
  <2>3. ListOK(list) /\ Determined(list) /\ Len(list) \in {m, m + 1}
    BY <1>1, <2>1
  <2>4. Len(next) = m + 1 /\ FollowEachOther(next) /\ \A i \in 1..m : next[i] = list[i]
    BY <2>1, <2>2
  <2>5. ListOK(next) /\ Determined(next)
    BY <2>3, <2>4, ListGrows
  <2> QED
    BY <2>2, <2>5
<1>3. MergedTypeOK'
  BY <1>0, <1>1 DEF MergedTypeOK
<1>4. OwnFollow' /\ ReadingsAreFinite' /\ ToldIsCached'
  BY <1>0, <1>1 DEF OwnFollow, ReadingsAreFinite, ToldIsCached
<1>5. \A i \in DOMAIN psa' : psa'[i].stop <= now' /\ psa'[i].mileage + psa'[i].km <= odometer'
  BY <1>0
<1>6. cache' # None => ListOK(cache'.trips) /\ Determined(cache'.trips)
  BY <1>0, <1>1
<1> QED
  BY <1>2, <1>3, <1>4, <1>5, <1>6 DEF MergedIInv, MergedInv

\* The numbers of a trip.
LEMMA TripNumbers ==
    ASSUME NEW t \in PsaTrip
    PROVE  t.start \in Nat /\ t.stop \in Nat /\ t.km \in Nat /\ t.mileage \in Nat /\ t.done \in BOOLEAN
BY DEF PsaTrip

\* A trip of PSA begins: what was told as the last is closed, so that it isn't
\* joined to the new one.
LEMMA IgnitionOnMerged == MergedIInv /\ IgnitionOn => MergedIInv'
<1> SUFFICES ASSUME MergedIInv, IgnitionOn
             PROVE  MergedIInv'
  OBVIOUS
<1> DEFINE m == Len(psa)
           x == [start |-> now, stop |-> now, km |-> 0, mileage |-> odometer, done |-> FALSE,
                 startMadeUp |-> Len(psa) + 1 \in MadeUp, endMadeUp |-> Len(psa) + 1 \in MadeUp]
           c == Joined(psa)
<1>1. /\ psa \in Seq(PsaTrip) /\ now \in Nat /\ odometer \in Nat
      /\ ListOK(psa) /\ Determined(psa) /\ FollowEachOther(psa) /\ ToldIsClosed
      /\ \A i \in DOMAIN psa : psa[i].stop <= now /\ psa[i].mileage + psa[i].km <= odometer
  BY DEF MergedIInv, MergedInv, MergedTypeOK, ListOK
<1>2. /\ \A i \in DOMAIN psa : psa[i].done /\ psa[i].stop < now
      /\ psa' = Append(psa, x)
      /\ UNCHANGED <<now, odometer, own, readings, cache, told, ended>>
  <2>1. \A i \in DOMAIN psa : psa[i].stop < now
    BY DEF IgnitionOn
  <2>2. ~Driven
    BY DEF IgnitionOn
  <2> QED
    BY <2>1, <2>2 DEF IgnitionOn, Driven
<1>3. x \in PsaTrip
  <2>1. PICK made \in BOOLEAN : (Len(psa) + 1 \in MadeUp) = made
    <3>1. (Len(psa) + 1 \in MadeUp) \in BOOLEAN
      OBVIOUS
    <3> QED
      BY <3>1, Zenon
  <2> QED
    BY <1>1, <2>1 DEF PsaTrip
<1>4. x.start = now /\ x.stop = now /\ x.km = 0 /\ x.mileage = odometer /\ x.done = FALSE
  OBVIOUS
<1> HIDE DEF x
<1>5. /\ psa' \in Seq(PsaTrip) /\ DOMAIN psa' = DOMAIN psa \cup {m + 1} /\ psa'[m + 1] = x
      /\ \A k \in DOMAIN psa : psa'[k] = psa[k]
      /\ DOMAIN psa = 1..m /\ m \in Nat /\ Len(psa') = m + 1
  BY <1>1, <1>2, <1>3, OneMoreTrip
<1>6. \A i \in DOMAIN psa : psa[i] \in PsaTrip /\ psa[i].start \in Nat /\ psa[i].stop \in Nat
  BY <1>1, TripNumbers
<1>7. FollowEachOther(psa')
  <2>1. \A i \in DOMAIN psa' : psa'[i].start <= psa'[i].stop
    BY <1>1, <1>4, <1>5 DEF FollowEachOther
  <2>2. ASSUME NEW i \in DOMAIN psa', NEW j \in DOMAIN psa', i < j
        PROVE  /\ psa'[i].done
               /\ psa'[i].stop < psa'[j].start
               /\ psa'[i].mileage + psa'[i].km <= psa'[j].mileage
    <3>1. i \in DOMAIN psa /\ (j \in DOMAIN psa \/ j = m + 1)
      BY <1>5, <2>2
    <3> QED
      BY <1>1, <1>2, <1>4, <1>5, <2>2, <3>1 DEF FollowEachOther
  <2> QED
    BY <2>1, <2>2 DEF FollowEachOther
<1>8. Joined(psa') = WithPsaTrip(c, x) /\ JoinedUpTo(m, c, psa')
  BY <1>1, <1>5, <1>7, ListGrows DEF Joined
<1>9. c \in Seq(PsaTrip)
  BY <1>8 DEF JoinedUpTo
<1> HIDE DEF c
<1>10. ToldIsClosed'
  <2> SUFFICES ASSUME NEW t \in told
               PROVE  \E k \in DOMAIN Joined(psa') : t = Summary(Joined(psa')[k]) /\ k < Len(Joined(psa'))
    BY <1>2 DEF ToldIsClosed
  <2>1. PICK k \in DOMAIN c : t = Summary(c[k]) /\ (k < Len(c) \/ (~Driven /\ Closed(c[k])))
    BY <1>1 DEF ToldIsClosed, c
  <2>2. Moved(x)
    BY <1>4 DEF Moved
  <2>3. CASE c # <<>> /\ Continues(Last(c), x)
    <3> DEFINE y == Join(Last(c), x)
               d == Append(Front(c), y)
    <3>1. WithPsaTrip(c, x) = d
      BY <2>2, <2>3 DEF WithPsaTrip
    <3>2. Len(c) \in DOMAIN c /\ Last(c) = c[Len(c)] /\ DOMAIN c = 1..Len(c)
      BY <1>3, <1>9, <2>3, FrontAndOne
    <3>3. y \in PsaTrip
      BY <1>3, <1>9, <3>2, JoinedTrip
    <3>4. DOMAIN d = DOMAIN c /\ Len(d) = Len(c) /\ \A l \in DOMAIN c : l # Len(c) => d[l] = c[l]
      BY <1>9, <2>3, <3>3, FrontAndOne
    <3>5. k # Len(c)
      <4>1. ASSUME k = Len(c), Closed(c[k]) PROVE FALSE
        <5>1. now - c[k].stop <= JoinGap /\ odometer = c[k].mileage + c[k].km
          BY <1>4, <2>3, <3>2, <4>1 DEF Continues
        <5>2. c[k].stop \in Nat /\ JoinGap \in Nat
          BY <1>9, TripNumbers, MergedAssumption
        <5>3. CASE now - c[k].stop > JoinGap
          BY <1>1, <5>1, <5>2, <5>3
        <5>4. CASE odometer > c[k].mileage + c[k].km
          BY <1>1, <5>1, <5>4
        <5> QED
          BY <4>1, <5>3, <5>4 DEF Closed
      <4> QED
        BY <2>1, <4>1, <3>2
    <3>6. k < Len(c)
      BY <3>2, <3>5
    <3> HIDE DEF d
    <3> QED
      BY <1>8, <2>1, <3>1, <3>4, <3>5, <3>6
  <2>4. CASE ~(c # <<>> /\ Continues(Last(c), x))
    <3>1. WithPsaTrip(c, x) = Append(c, x)
      BY <2>2, <2>4 DEF WithPsaTrip
    <3>2. /\ Append(c, x)[k] = c[k] /\ k \in DOMAIN Append(c, x) /\ k < Len(Append(c, x))
      <4>1. DOMAIN c = 1..Len(c) /\ Len(c) \in Nat /\ Len(Append(c, x)) = Len(c) + 1
        BY <1>3, <1>9, OneMoreTrip
      <4> QED
        BY <1>3, <1>9, <4>1, OneMoreTrip
    <3> QED
      BY <1>8, <2>1, <3>1, <3>2
  <2> QED
    BY <2>3, <2>4
<1>11. \A i \in DOMAIN psa' : psa'[i].stop <= now /\ psa'[i].mileage + psa'[i].km <= odometer'
  BY <1>1, <1>2, <1>4, <1>5
<1> QED
  BY <1>1, <1>2, <1>5, <1>7, <1>10, <1>11, PsaChanges

\* A list with another last trip.
LEMMA EndChanges ==
    ASSUME NEW list \in Seq(PsaTrip), list # <<>>, NEW y \in PsaTrip,
           NEW next, next = [list EXCEPT ![Len(list)] = y]
    PROVE  /\ next \in Seq(PsaTrip) /\ Len(next) = Len(list) /\ DOMAIN next = DOMAIN list
           /\ DOMAIN list = 1..Len(list) /\ Len(list) \in DOMAIN list /\ Len(list) \in Nat \ {0}
           /\ next[Len(list)] = y
           /\ \A i \in DOMAIN list : i # Len(list) => next[i] = list[i]
OBVIOUS

\* The last trip changes, and starts as before.
LEMMA LastJoined ==
    ASSUME NEW f \in Seq(PsaTrip), NEW x \in PsaTrip, NEW y \in PsaTrip, Moved(x), Moved(y),
           y.start = x.start, y.mileage = x.mileage,
           NEW c, c = WithPsaTrip(f, x), NEW d, d = WithPsaTrip(f, y)
    PROVE  /\ DOMAIN d = DOMAIN c /\ Len(d) = Len(c)
           /\ \A k \in DOMAIN c : k < Len(c) => d[k] = c[k]
<1>1. CASE f # <<>> /\ Continues(Last(f), x)
  <2>1. Continues(Last(f), y)
    BY <1>1 DEF Continues
  <2>2. c = Append(Front(f), Join(Last(f), x)) /\ d = Append(Front(f), Join(Last(f), y))
    BY <1>1, <2>1 DEF WithPsaTrip
  <2>3. Last(f) \in PsaTrip
    <3>1. Len(f) \in DOMAIN f /\ Last(f) = f[Len(f)]
      BY <1>1, FrontAndOne
    <3> QED
      BY <3>1
  <2>4. Join(Last(f), x) \in PsaTrip /\ Join(Last(f), y) \in PsaTrip
    BY <2>3, JoinedTrip
  <2>5. DOMAIN c = DOMAIN f /\ Len(c) = Len(f) /\ \A k \in DOMAIN f : k # Len(f) => c[k] = f[k]
    BY <1>1, <2>2, <2>4, FrontAndOne
  <2>6. DOMAIN d = DOMAIN f /\ Len(d) = Len(f) /\ \A k \in DOMAIN f : k # Len(f) => d[k] = f[k]
    BY <1>1, <2>2, <2>4, FrontAndOne
  <2>7. \A k \in DOMAIN f : k < Len(f) => k # Len(f)
    OBVIOUS
  <2> QED
    BY <2>5, <2>6, <2>7
<1>2. CASE ~(f # <<>> /\ Continues(Last(f), x))
  <2>1. ~(f # <<>> /\ Continues(Last(f), y))
    BY <1>2 DEF Continues
  <2>2. c = Append(f, x) /\ d = Append(f, y)
    BY <1>2, <2>1 DEF WithPsaTrip
  <2>3. /\ DOMAIN c = DOMAIN f \cup {Len(f) + 1} /\ Len(c) = Len(f) + 1
        /\ \A k \in DOMAIN f : c[k] = f[k]
    BY <2>2, OneMoreTrip
  <2>4. /\ DOMAIN d = DOMAIN f \cup {Len(f) + 1} /\ Len(d) = Len(f) + 1
        /\ \A k \in DOMAIN f : d[k] = f[k]
    BY <2>2, OneMoreTrip
  <2>5. \A k \in DOMAIN c : k < Len(c) => k \in DOMAIN f
    BY <2>3
  <2> QED
    BY <2>3, <2>4, <2>5
<1> QED
  BY <1>1, <1>2

\* The trip that is driven is the last.
LEMMA LastIsOpen ==
    ASSUME NEW list \in Seq(PsaTrip), FollowEachOther(list), \E i \in DOMAIN list : ~list[i].done
    PROVE  /\ list # <<>> /\ ~list[Len(list)].done
           /\ \A i \in DOMAIN list : i # Len(list) => list[i].done
<1>1. PICK i \in DOMAIN list : ~list[i].done
  OBVIOUS
<1>2. DOMAIN list = 1..Len(list) /\ Len(list) \in Nat
  OBVIOUS
<1>3. Len(list) \in DOMAIN list /\ \A j \in DOMAIN list : j # Len(list) => j < Len(list)
  BY <1>1, <1>2
<1> QED
  BY <1>1, <1>3 DEF FollowEachOther

\* The trip that is driven goes on, or ends: what was told stays as it is.
LEMMA LastTripChanges ==
    ASSUME MergedIInv, Driven, NEW x, x = psa[Len(psa)], NEW y \in PsaTrip,
           psa' = [psa EXCEPT ![Len(psa)] = y],
           y.start = x.start, y.mileage = x.mileage, y.stop = now, x.km <= y.km,
           UNCHANGED <<now, own, readings, cache, told, ended>>,
           odometer' \in Nat, y.mileage + y.km <= odometer', odometer <= odometer'
    PROVE  MergedIInv'
<1>0. now' = now /\ own' = own /\ readings' = readings /\ cache' = cache /\ told' = told /\ ended' = ended
  OBVIOUS
<1>1. /\ psa \in Seq(PsaTrip) /\ now \in Nat /\ odometer \in Nat /\ odometer' \in Nat
      /\ ListOK(psa) /\ Determined(psa) /\ FollowEachOther(psa) /\ ToldIsClosed
      /\ \A i \in DOMAIN psa : psa[i].stop <= now /\ psa[i].mileage + psa[i].km <= odometer
      /\ JoinGap \in Nat
  BY MergedAssumption DEF MergedIInv, MergedInv, MergedTypeOK, ListOK
<1>2. /\ psa # <<>> /\ ~x.done
      /\ \A i \in DOMAIN psa : i # Len(psa) => psa[i].done
  BY <1>1, LastIsOpen DEF Driven
<1>3. PICK list \in Seq(PsaTrip) : list = psa
  BY <1>1
<1>4. PICK next : next = psa'
  OBVIOUS
<1>5. PICK m \in Nat : Len(list) = m + 1
  <2>1. Len(list) \in Nat \ {0}
    BY <1>2, <1>3
  <2>2. Len(list) - 1 \in Nat /\ Len(list) = (Len(list) - 1) + 1
    BY <2>1
  <2> QED
    BY <2>2
<1>6. /\ next \in Seq(PsaTrip) /\ Len(next) = m + 1 /\ DOMAIN next = DOMAIN list
      /\ DOMAIN list = 1..(m + 1) /\ m + 1 \in DOMAIN list
      /\ next[m + 1] = y
      /\ \A i \in DOMAIN list : i # m + 1 => next[i] = list[i]
  BY <1>2, <1>3, <1>4, <1>5, EndChanges
<1>7. x \in PsaTrip /\ x = list[m + 1] /\ Moved(x)
  BY <1>2, <1>3, <1>5, <1>6 DEF Moved
<1>8. /\ {x.start, x.stop, x.km, x.mileage, y.start, y.stop, y.km, y.mileage} \subseteq Nat
      /\ x.start <= x.stop /\ x.stop <= now /\ x.mileage + x.km <= odometer
      /\ \A i \in 1..m : list[i].done /\ list[i].stop < x.start /\ list[i].mileage + list[i].km <= x.mileage
  <2>1. \A i \in 1..m : i \in DOMAIN list /\ i < m + 1
    BY <1>6
  <2> QED
    BY <1>1, <1>3, <1>6, <1>7, <2>1, TripNumbers DEF FollowEachOther
<1>9. FollowEachOther(next)
  <2>1. \A i \in DOMAIN next : next[i].start <= next[i].stop
    <3>1. y.start <= y.stop
      BY <1>1, <1>8
    <3> QED
      BY <1>1, <1>3, <1>6, <3>1 DEF FollowEachOther
  <2>2. ASSUME NEW i \in DOMAIN next, NEW j \in DOMAIN next, i < j
        PROVE  /\ next[i].done
               /\ next[i].stop < next[j].start
               /\ next[i].mileage + next[i].km <= next[j].mileage
    <3>1. i # m + 1 /\ i \in DOMAIN list /\ j \in DOMAIN list
      BY <1>6, <2>2
    <3>2. next[i] = list[i] /\ next[j].start = list[j].start /\ next[j].mileage = list[j].mileage
      BY <1>6, <1>7, <3>1
    <3>3. /\ list[i].done /\ list[i].stop < list[j].start
          /\ list[i].mileage + list[i].km <= list[j].mileage
      BY <1>1, <1>3, <2>2, <3>1 DEF FollowEachOther
    <3> QED
      BY <3>2, <3>3
  <2> QED
    BY <2>1, <2>2 DEF FollowEachOther
<1>10. \A i \in DOMAIN next : next[i].stop <= now /\ next[i].mileage + next[i].km <= odometer'
  <2> SUFFICES ASSUME NEW i \in DOMAIN next
               PROVE  next[i].stop <= now /\ next[i].mileage + next[i].km <= odometer'
    OBVIOUS
  <2>1. CASE i = m + 1
    <3>1. y.stop <= now
      BY <1>1, <1>8
    <3> QED
      BY <1>6, <2>1, <3>1
  <2>2. CASE i # m + 1
    <3>1. /\ i \in DOMAIN list /\ next[i] = list[i] /\ list[i] \in PsaTrip
          /\ list[i].stop <= now /\ list[i].mileage + list[i].km <= odometer
      BY <1>1, <1>3, <1>6, <2>2
    <3>2. list[i].mileage \in Nat /\ list[i].km \in Nat
      BY <3>1, TripNumbers
    <3>3. list[i].mileage + list[i].km <= odometer'
      BY <1>1, <3>1, <3>2
    <3> QED
      BY <3>1, <3>3
  <2> QED
    BY <2>1, <2>2
<1>11. PICK f : f = Cleaning(list)[m]
  OBVIOUS
<1>12. PICK c : c = Joined(list)
  OBVIOUS
<1>13. PICK d : d = Joined(next)
  OBVIOUS
<1>14. JoinedUpTo(m, f, list) /\ f \in Seq(PsaTrip) /\ c = WithPsaTrip(f, x)
  <2>1. ListOK(list) /\ Determined(list) /\ FollowEachOther(list)
    BY <1>1, <1>3
  <2>2. \A i \in 1..m : list[i] = list[i]
    OBVIOUS
  <2>3. /\ JoinedUpTo(m, Cleaning(list)[m], list)
        /\ Joined(list) = WithPsaTrip(Cleaning(list)[m], list[m + 1])
    BY <1>5, <2>1, <2>2, ListGrows
  <2> QED
    BY <1>7, <1>11, <1>12, <2>3 DEF JoinedUpTo
<1>15. d = WithPsaTrip(f, y)
  <2>1. ListOK(list) /\ Determined(list) /\ Len(list) \in {m, m + 1}
    BY <1>1, <1>3, <1>5
  <2>2. \A i \in 1..m : next[i] = list[i]
    BY <1>6
  <2>3. Joined(next) = WithPsaTrip(Cleaning(list)[m], next[m + 1])
    BY <1>6, <1>9, <2>1, <2>2, ListGrows
  <2> QED
    BY <1>6, <1>11, <1>13, <2>3
<1>16. \A k \in DOMAIN f : /\ f[k] \in PsaTrip
                           /\ {f[k].stop, f[k].mileage, f[k].km} \subseteq Nat
                           /\ f[k].mileage + f[k].km <= x.mileage
  <2> SUFFICES ASSUME NEW k \in DOMAIN f
               PROVE  /\ f[k] \in PsaTrip
                      /\ {f[k].stop, f[k].mileage, f[k].km} \subseteq Nat
                      /\ f[k].mileage + f[k].km <= x.mileage
    OBVIOUS
  <2>1. PICK a \in 1..m, b \in 1..m : Spans(f[k], list, a, b)
    BY <1>14 DEF JoinedUpTo
  <2>2. f[k] \in PsaTrip
    BY <1>14
  <2>3. f[k].mileage + f[k].km <= x.mileage
    BY <1>8, <2>1 DEF Spans
  <2> QED
    BY <2>2, <2>3, TripNumbers
<1>17. ToldIsClosed'
  <2> SUFFICES ASSUME NEW t \in told
               PROVE  \E k \in DOMAIN d : /\ t = Summary(d[k])
                                          /\ k < Len(d) \/ (~Driven' /\ Closed(d[k])')
    BY <1>0, <1>4, <1>13 DEF ToldIsClosed
  <2>1. PICK k \in DOMAIN c : t = Summary(c[k]) /\ k < Len(c)
    BY <1>1, <1>3, <1>12 DEF ToldIsClosed
  <2>2. CASE Moved(y)
    <3>1. DOMAIN d = DOMAIN c /\ Len(d) = Len(c) /\ d[k] = c[k]
      BY <1>7, <1>14, <1>15, <2>1, <2>2, LastJoined
    <3> QED
      BY <2>1, <3>1
  <2>3. CASE ~Moved(y)
    <3>1. d = f /\ y.done /\ y.km = 0
      BY <1>8, <1>15, <2>3 DEF WithPsaTrip, Moved
    <3>2. CASE f # <<>> /\ Continues(Last(f), x)
      <4>1. c = Append(Front(f), Join(Last(f), x))
        BY <1>7, <1>14, <3>2 DEF WithPsaTrip
      <4>2. Len(f) \in DOMAIN f /\ Last(f) = f[Len(f)]
        BY <1>7, <1>14, <3>2, FrontAndOne
      <4>3. Join(Last(f), x) \in PsaTrip
        BY <1>7, <1>16, <4>2, JoinedTrip
      <4>4. DOMAIN c = DOMAIN f /\ Len(c) = Len(f) /\ \A l \in DOMAIN f : l # Len(f) => c[l] = f[l]
        BY <1>14, <3>2, <4>1, <4>3, FrontAndOne
      <4>5. k # Len(f) /\ k < Len(f)
        BY <2>1, <4>4
      <4> QED
        BY <2>1, <3>1, <4>4, <4>5
    <3>3. CASE ~(f # <<>> /\ Continues(Last(f), x))
      <4>1. c = Append(f, x)
        BY <1>7, <1>14, <3>3 DEF WithPsaTrip
      <4>2. /\ DOMAIN c = DOMAIN f \cup {Len(f) + 1} /\ Len(c) = Len(f) + 1 /\ DOMAIN f = 1..Len(f)
            /\ \A l \in DOMAIN f : c[l] = f[l]
        BY <1>7, <1>14, <4>1, OneMoreTrip
      <4>3. k \in DOMAIN f /\ c[k] = f[k]
        BY <2>1, <4>2
      <4>4. CASE k < Len(f)
        BY <2>1, <3>1, <4>3, <4>4
      <4>5. CASE k = Len(f)
        <5>1. f # <<>> /\ Last(f) = f[k]
          BY <1>7, <1>14, <4>3, <4>5, FrontAndOne
        <5>2. ~Continues(f[k], x)
          BY <3>3, <5>1
        <5>3. ~(x.start - f[k].stop <= JoinGap) \/ x.mileage # f[k].mileage + f[k].km
          BY <5>2 DEF Continues
        <5>4. now - f[k].stop > JoinGap \/ odometer' > f[k].mileage + f[k].km
          <6>1. /\ {f[k].stop, f[k].mileage, f[k].km} \subseteq Nat
                /\ f[k].mileage + f[k].km <= x.mileage
            BY <1>16, <4>3
          <6>2. x.start <= now /\ x.mileage <= odometer' /\ x.start \in Nat /\ x.mileage \in Nat
            <7>1. x.start \in Nat /\ x.stop \in Nat /\ x.mileage \in Nat /\ y.km \in Nat
              BY <1>8
            <7>2. x.start <= x.stop /\ x.stop <= now
              BY <1>8
            <7>3. x.start <= now
              BY <1>1, <7>1, <7>2
            <7>4. x.mileage + y.km <= odometer'
              OBVIOUS
            <7>5. x.mileage <= odometer'
              BY <1>1, <7>1, <7>4
            <7> QED
              BY <7>1, <7>3, <7>5
          <6>5. now \in Nat /\ odometer' \in Nat /\ JoinGap \in Nat
            BY <1>1
          <6>6. f[k].stop \in Nat /\ f[k].mileage \in Nat /\ f[k].km \in Nat
            BY <6>1
          <6>3. CASE ~(x.start - f[k].stop <= JoinGap)
            BY <6>2, <6>3, <6>5, <6>6
          <6>4. CASE x.mileage # f[k].mileage + f[k].km
            <7>1. PICK sum \in Nat : sum = f[k].mileage + f[k].km
              <8>1. f[k].mileage + f[k].km \in Nat
                BY <6>6
              <8> QED
                BY <8>1
            <7>2. PICK from \in Nat : from = x.mileage
              BY <6>2
            <7>3. PICK to \in Nat : to = odometer'
              BY <6>5
            <7>4. sum <= from /\ from # sum /\ from <= to
              BY <6>1, <6>2, <6>4, <7>1, <7>2, <7>3
            <7>5. to > sum
              BY <7>4
            <7> QED
              BY <7>1, <7>3, <7>5
          <6> QED
            BY <5>3, <6>3, <6>4
        <5>5. Closed(f[k])'
          BY <1>0, <5>4 DEF Closed
        <5>6. ~Driven'
          <6>1. \A i \in DOMAIN next : next[i].done
            BY <1>2, <1>3, <1>6, <1>8, <3>1
          <6> QED
            BY <1>4, <6>1 DEF Driven
        <5> QED
          BY <2>1, <3>1, <4>3, <5>5, <5>6
      <4> QED
        BY <1>14, <4>2, <4>3, <4>4, <4>5
    <3> QED
      BY <3>2, <3>3
  <2> QED
    BY <2>2, <2>3
<1> QED
  <2>1. /\ psa' \in Seq(PsaTrip) /\ Len(psa) \in {m, m + 1} /\ Len(psa') = m + 1
        /\ \A i \in 1..m : psa'[i] = psa[i]
        /\ FollowEachOther(psa')
        /\ \A i \in DOMAIN psa' : psa'[i].stop <= now /\ psa'[i].mileage + psa'[i].km <= odometer'
    BY <1>3, <1>4, <1>5, <1>6, <1>9, <1>10
  <2> QED
    BY <1>17, <2>1, PsaChanges

\* The last trip goes on, or the car drives unseen by PSA.
LEMMA DriveMerged == MergedIInv /\ Drive => MergedIInv'
<1> SUFFICES ASSUME MergedIInv, Drive
             PROVE  MergedIInv'
  OBVIOUS
<1>1. /\ psa \in Seq(PsaTrip) /\ now \in Nat /\ odometer \in Nat
      /\ FollowEachOther(psa)
      /\ \A i \in DOMAIN psa : psa[i].stop <= now /\ psa[i].mileage + psa[i].km <= odometer
  BY DEF MergedIInv, MergedInv, MergedTypeOK, ListOK
<1>2. odometer' = odometer + 1 /\ UNCHANGED <<now, own, readings, cache, told, ended>>
  BY DEF Drive
<1>3. CASE Driven
  <2> DEFINE x == psa[Len(psa)]
             y == [x EXCEPT !.km = @ + 1, !.stop = now]
  <2>1. psa # <<>>
    BY <1>1, <1>3, LastIsOpen DEF Driven
  <2>2. Len(psa) \in DOMAIN psa /\ x \in PsaTrip
    BY <1>1, <2>1
  <2>3. x.start \in Nat /\ x.stop \in Nat /\ x.km \in Nat /\ x.mileage \in Nat
    BY <2>2, TripNumbers
  <2>4. y \in PsaTrip /\ y.start = x.start /\ y.mileage = x.mileage /\ y.stop = now /\ y.km = x.km + 1
    <3>1. y = [[x EXCEPT !.km = x.km + 1] EXCEPT !.stop = now]
      BY <2>2 DEF PsaTrip
    <3>2. PICK z \in PsaTrip : z = [x EXCEPT !.km = x.km + 1]
      <4>1. x.km + 1 \in Nat
        BY <2>3
      <4> QED
        BY <2>2, <4>1 DEF PsaTrip
    <3>3. z.start = x.start /\ z.mileage = x.mileage /\ z.km = x.km + 1
      BY <2>2, <3>2 DEF PsaTrip
    <3>4. y = [z EXCEPT !.stop = now]
      BY <3>1, <3>2
    <3> HIDE DEF y
    <3> QED
      BY <1>1, <3>3, <3>4 DEF PsaTrip
  <2>5. psa' = [psa EXCEPT ![Len(psa)] = y]
    <3>1. psa' = [psa EXCEPT ![Len(psa)].km = @ + 1, ![Len(psa)].stop = now]
      BY <1>3 DEF Drive
    <3> QED
      BY <1>1, <2>2, <3>1
  <2> HIDE DEF y
  <2>6. x.mileage + x.km <= odometer
    BY <1>1, <2>2
  <2>7. x.km <= y.km /\ y.mileage + y.km <= odometer' /\ odometer <= odometer' /\ odometer' \in Nat
    BY <1>1, <1>2, <2>3, <2>4, <2>6
  <2> HIDE DEF x
  <2> QED
    BY <1>2, <1>3, <2>4, <2>5, <2>7, LastTripChanges DEF x
<1>4. CASE ~Driven
  <2>1. /\ psa' = psa /\ now' = now /\ own' = own /\ readings' = readings /\ cache' = cache
        /\ told' = told /\ ended' = ended
    BY <1>2, <1>4 DEF Drive
  <2>2. odometer' \in Nat /\ odometer < odometer'
    BY <1>1, <1>2
  <2>3. \A i \in DOMAIN psa : psa[i].stop <= now /\ psa[i].mileage + psa[i].km <= odometer'
    <3> SUFFICES ASSUME NEW i \in DOMAIN psa PROVE psa[i].mileage + psa[i].km <= odometer'
      BY <1>1
    <3>1. psa[i].mileage + psa[i].km <= odometer /\ psa[i].mileage \in Nat /\ psa[i].km \in Nat
      BY <1>1, TripNumbers
    <3> QED
      BY <1>1, <2>2, <3>1
  <2>4. ToldIsClosed'
    <3>1. ListOK(psa) /\ ToldIsClosed
      BY DEF MergedIInv, MergedInv
    <3>2. PICK c \in Seq(PsaTrip) : c = Joined(psa)
      <4>1. Len(psa) \in 0..Len(psa)
        BY <1>1
      <4> QED
        BY <3>1, <4>1 DEF ListOK, JoinedUpTo, Joined
    <3> SUFFICES ASSUME NEW t \in told
                 PROVE  \E k \in DOMAIN c : /\ t = Summary(c[k])
                                            /\ k < Len(c) \/ (~Driven' /\ Closed(c[k])')
      BY <2>1, <3>2 DEF ToldIsClosed, Closed
    <3>3. PICK k \in DOMAIN c : t = Summary(c[k]) /\ (k < Len(c) \/ (~Driven /\ Closed(c[k])))
      BY <3>1, <3>2 DEF ToldIsClosed
    <3>4. c[k].mileage \in Nat /\ c[k].km \in Nat
      BY TripNumbers
    <3>5. Closed(c[k]) => Closed(c[k])'
      BY <1>1, <2>1, <2>2, <3>4 DEF Closed
    <3>6. ~Driven'
      BY <1>4, <2>1 DEF Driven
    <3> QED
      BY <3>2, <3>3, <3>5, <3>6
  <2>5. MergedTypeOK' /\ OwnFollow' /\ ReadingsAreFinite' /\ ToldIsCached'
    BY <2>1, <2>2 DEF MergedIInv, MergedInv, MergedTypeOK, OwnFollow, ReadingsAreFinite, ToldIsCached
  <2> QED
    BY <2>1, <2>3, <2>4, <2>5 DEF MergedIInv, MergedInv
<1> QED
  BY <1>3, <1>4

\* The last trip ends; it is dropped when it went nowhere.
LEMMA IgnitionOffMerged == MergedIInv /\ IgnitionOff => MergedIInv'
<1> SUFFICES ASSUME MergedIInv, IgnitionOff
             PROVE  MergedIInv'
  OBVIOUS
<1>1. /\ psa \in Seq(PsaTrip) /\ now \in Nat /\ odometer \in Nat
      /\ FollowEachOther(psa)
      /\ \A i \in DOMAIN psa : psa[i].stop <= now /\ psa[i].mileage + psa[i].km <= odometer
  BY DEF MergedIInv, MergedInv, MergedTypeOK, ListOK
<1>2. Driven /\ odometer' = odometer /\ UNCHANGED <<now, own, readings, cache, told, ended>>
  BY DEF IgnitionOff
<1> DEFINE x == psa[Len(psa)]
           y == [x EXCEPT !.done = TRUE, !.stop = now]
<1>3. psa # <<>>
  BY <1>1, <1>2, LastIsOpen DEF Driven
<1>4. Len(psa) \in DOMAIN psa /\ x \in PsaTrip
  BY <1>1, <1>3
<1>5. x.start \in Nat /\ x.stop \in Nat /\ x.km \in Nat /\ x.mileage \in Nat
  BY <1>4, TripNumbers
<1>6. y \in PsaTrip /\ y.start = x.start /\ y.mileage = x.mileage /\ y.stop = now /\ y.km = x.km
  BY <1>1, <1>4, <1>5 DEF PsaTrip
<1>7. psa' = [psa EXCEPT ![Len(psa)] = y]
  <2>1. psa' = [psa EXCEPT ![Len(psa)].done = TRUE, ![Len(psa)].stop = now]
    BY DEF IgnitionOff
  <2> QED
    BY <1>1, <1>4, <2>1
<1> HIDE DEF y
<1>8. x.mileage + x.km <= odometer
  BY <1>1, <1>4
<1>9. x.km <= y.km /\ y.mileage + y.km <= odometer' /\ odometer <= odometer' /\ odometer' \in Nat
  BY <1>1, <1>2, <1>5, <1>6, <1>8
<1> HIDE DEF x
<1> QED
  BY <1>2, <1>6, <1>7, <1>9, LastTripChanges DEF x

\* Time only closes trips, and forgets a list.
LEMMA TickMerged == MergedIInv /\ Tick => MergedIInv'
<1> SUFFICES ASSUME MergedIInv, Tick
             PROVE  MergedIInv'
  OBVIOUS
<1>1. MergedInv /\ Determined(psa) /\ (cache # None => Determined(cache.trips))
  BY DEF MergedIInv
<1>2. MergedTypeOK /\ ListOK(psa) /\ OwnFollow /\ ReadingsAreFinite /\ ToldIsClosed /\ ToldIsCached
  BY <1>1 DEF MergedInv
<1>3. /\ now' = now + 1 /\ (cache' = cache \/ cache' = None)
      /\ odometer' = odometer /\ psa' = psa /\ own' = own /\ readings' = readings
      /\ told' = told /\ ended' = ended
  BY DEF Tick
<1>4. now \in Nat /\ psa \in Seq(PsaTrip) /\ own \in Seq(OwnTrip)
  BY <1>2 DEF MergedTypeOK
<1>5. MergedTypeOK'
  BY <1>2, <1>3, <1>4 DEF MergedTypeOK
<1>6. \A i \in DOMAIN psa : psa[i].stop <= now' /\ psa[i].mileage + psa[i].km <= odometer
  <2> SUFFICES ASSUME NEW i \in DOMAIN psa PROVE psa[i].stop <= now' /\ psa[i].mileage + psa[i].km <= odometer
    OBVIOUS
  <2>1. psa[i].stop <= now /\ psa[i].stop \in Nat /\ psa[i].mileage + psa[i].km <= odometer
    BY <1>1, <1>4, TripNumbers DEF MergedInv
  <2> QED
    BY <1>3, <1>4, <2>1
<1>7. OwnFollow'
  <2> SUFFICES ASSUME NEW i \in DOMAIN own PROVE own[i].stop <= now + 1
    BY <1>2, <1>3 DEF OwnFollow
  <2>1. own[i].stop <= now
    BY <1>2 DEF OwnFollow
  <2>2. own[i] \in OwnTrip
    BY <1>4
  <2>3. own[i].stop \in Nat
    BY <2>2 DEF OwnTrip
  <2> QED
    BY <1>4, <2>1, <2>3
<1>8. ReadingsAreFinite' /\ ToldIsCached'
  BY <1>2, <1>3 DEF ReadingsAreFinite, ToldIsCached
<1>9. ToldIsClosed'
  <2>1. PICK c \in Seq(PsaTrip) : c = Joined(psa)
    <3>1. Len(psa) \in 0..Len(psa)
      BY <1>4
    <3> QED
      BY <1>2, <3>1 DEF ListOK, JoinedUpTo, Joined
  <2> SUFFICES ASSUME NEW t \in told
               PROVE  \E k \in DOMAIN c : /\ t = Summary(c[k])
                                          /\ k < Len(c) \/ (~Driven' /\ Closed(c[k])')
    BY <1>3, <2>1 DEF ToldIsClosed, Closed
  <2>2. PICK k \in DOMAIN c : t = Summary(c[k]) /\ (k < Len(c) \/ (~Driven /\ Closed(c[k])))
    BY <1>2, <2>1 DEF ToldIsClosed
  <2>3. Closed(c[k]) => Closed(c[k])'
    <3>1. c[k].stop \in Nat /\ JoinGap \in Nat
      BY TripNumbers, MergedAssumption
    <3> QED
      BY <1>3, <1>4, <3>1 DEF Closed
  <2>4. Driven' = Driven
    BY <1>3 DEF Driven
  <2> QED
    BY <2>1, <2>2, <2>3, <2>4
<1> QED
  <2>1. cache' # None => ListOK(cache'.trips) /\ Determined(cache'.trips)
    BY <1>1, <1>3 DEF MergedInv
  <2> QED
    BY <1>1, <1>2, <1>3, <1>5, <1>6, <1>7, <1>8, <1>9, <2>1 DEF MergedIInv, MergedInv

\* A trip of psacc begins after the one before.
LEMMA FindOwnMerged == MergedIInv /\ FindOwn => MergedIInv'
<1> SUFFICES ASSUME MergedIInv, FindOwn
             PROVE  MergedIInv'
  OBVIOUS
<1>1. MergedInv /\ Determined(psa) /\ (cache # None => Determined(cache.trips))
  BY DEF MergedIInv
<1>2. MergedTypeOK /\ OwnFollow /\ ReadingsAreFinite /\ ToldIsClosed /\ ToldIsCached
  BY <1>1 DEF MergedInv
<1>3. PICK from \in (IF own = <<>> THEN 0 ELSE Last(own).stop)..(now - 1) :
          own' = Append(own, [start |-> from, stop |-> now])
  BY DEF FindOwn
<1>4. /\ now' = now /\ odometer' = odometer /\ psa' = psa /\ readings' = readings /\ cache' = cache
      /\ told' = told /\ ended' = ended
  BY DEF FindOwn
<1>5. now \in Nat /\ own \in Seq(OwnTrip) /\ \A i \in DOMAIN own : own[i] \in OwnTrip
  BY <1>2 DEF MergedTypeOK
<1>6. \A i \in DOMAIN own : own[i].start \in Nat /\ own[i].stop \in Nat
  BY <1>5 DEF OwnTrip
<1>7. from \in Nat /\ from <= now /\ \A i \in DOMAIN own : own[i].stop <= from
  <2>1. CASE own = <<>>
    <3>1. from \in 0..(now - 1)
      BY <1>3, <2>1
    <3> QED
      BY <1>5, <2>1, <3>1
  <2>2. CASE own # <<>>
    <3>1. Len(own) \in DOMAIN own /\ Last(own) = own[Len(own)]
      BY <1>5, <2>2 DEF Last
    <3>2. from \in own[Len(own)].stop..(now - 1)
      BY <1>3, <2>2, <3>1
    <3>3. from \in Nat /\ from <= now /\ own[Len(own)].stop <= from
      BY <1>5, <1>6, <3>1, <3>2
    <3>4. \A i \in DOMAIN own : i < Len(own) \/ i = Len(own)
      BY <1>5
    <3>5. ASSUME NEW i \in DOMAIN own PROVE own[i].stop <= from
      <4>1. CASE i = Len(own)
        BY <3>3, <4>1
      <4>2. CASE i < Len(own)
        <5>1. own[i].stop <= own[Len(own)].start /\ own[Len(own)].start <= own[Len(own)].stop
          BY <1>2, <3>1, <4>2 DEF OwnFollow
        <5> QED
          BY <1>6, <3>1, <3>3, <5>1
      <4> QED
        BY <3>4, <4>1, <4>2
    <3> QED
      BY <3>3, <3>5
  <2> QED
    BY <2>1, <2>2
<1> DEFINE x == [start |-> from, stop |-> now]
<1>8. x \in OwnTrip /\ x.start = from /\ x.stop = now
  BY <1>5, <1>7 DEF OwnTrip
<1>9. own' = Append(own, x)
  BY <1>3
<1> HIDE DEF x
<1>10. /\ own' \in Seq(OwnTrip) /\ DOMAIN own' = DOMAIN own \cup {Len(own) + 1}
       /\ own'[Len(own) + 1] = x /\ \A i \in DOMAIN own : own'[i] = own[i] /\ i < Len(own) + 1
  BY <1>5, <1>8, <1>9
<1>11. OwnFollow'
  <2>1. \A i \in DOMAIN own' : own'[i].start <= own'[i].stop /\ own'[i].stop <= now
    BY <1>2, <1>5, <1>7, <1>8, <1>10 DEF OwnFollow
  <2>2. \A i, j \in DOMAIN own' : i < j => own'[i].stop <= own'[j].start
    <3> SUFFICES ASSUME NEW i \in DOMAIN own', NEW j \in DOMAIN own', i < j
                 PROVE  own'[i].stop <= own'[j].start
      OBVIOUS
    <3>1. DOMAIN own = 1..Len(own) /\ Len(own) \in Nat
      BY <1>5
    <3>2. i \in DOMAIN own /\ (j \in DOMAIN own \/ j = Len(own) + 1)
      BY <1>10, <3>1
    <3>3. CASE j \in DOMAIN own
      BY <1>2, <1>10, <3>2, <3>3 DEF OwnFollow
    <3>4. CASE j = Len(own) + 1
      BY <1>7, <1>8, <1>10, <3>2, <3>4
    <3> QED
      BY <3>2, <3>3, <3>4
  <2> QED
    BY <1>4, <2>1, <2>2 DEF OwnFollow
<1>12. MergedTypeOK' /\ ReadingsAreFinite' /\ ToldIsClosed' /\ ToldIsCached'
  BY <1>2, <1>4, <1>10 DEF MergedTypeOK, ReadingsAreFinite, ToldIsClosed, ToldIsCached, Closed, Driven
<1> QED
  BY <1>1, <1>4, <1>11, <1>12 DEF MergedIInv, MergedInv

\* One reading more: it is the latest, or the latest was there before.
LEMMA ReadMerged == MergedIInv /\ Read => MergedIInv'
<1> SUFFICES ASSUME MergedIInv, Read
             PROVE  MergedIInv'
  OBVIOUS
<1>1. MergedInv /\ Determined(psa) /\ (cache # None => Determined(cache.trips))
  BY DEF MergedIInv
<1>2. MergedTypeOK /\ OwnFollow /\ ReadingsAreFinite /\ ToldIsClosed /\ ToldIsCached
  BY <1>1 DEF MergedInv
<1>3. /\ now' = now /\ odometer' = odometer /\ psa' = psa /\ own' = own /\ cache' = cache
      /\ told' = told /\ ended' = ended
  BY DEF Read
<1>4. PICK r \in Reading : readings' = readings \cup {r}
  <2>1. PICK source \in Source : readings' = readings \cup {[date |-> now, source |-> source]}
    BY DEF Read
  <2>2. [date |-> now, source |-> source] \in Reading
    BY <1>2 DEF MergedTypeOK, Reading
  <2> QED
    BY <2>1, <2>2
<1>5. readings' \subseteq Reading /\ \A q \in Reading : q.date \in Nat
  BY <1>2, <1>4 DEF MergedTypeOK, Reading
<1>6. ReadingsAreFinite'
  <2> SUFFICES ASSUME NEW some \in SUBSET readings', some # {}
               PROVE  /\ \E e \in some : \A q \in some : q.date <= e.date
                      /\ \E e \in some : \A q \in some : e.date <= q.date
    BY DEF ReadingsAreFinite
  <2> DEFINE rest == some \ {r}
  <2>1. rest \in SUBSET readings /\ \A q \in some : q \in rest \/ q = r
    BY <1>4
  <2>2. \A q \in some : q.date \in Nat
    BY <1>5
  <2>3. CASE rest = {}
    <3>1. \A q \in some : q = r
      BY <2>1, <2>3
    <3>2. r \in some /\ r.date <= r.date
      BY <2>2, <3>1
    <3> QED
      BY <3>1, <3>2
  <2>4. CASE rest # {}
    <3>1. /\ \E e \in rest : \A q \in rest : q.date <= e.date
          /\ \E e \in rest : \A q \in rest : e.date <= q.date
      BY <1>2, <2>1, <2>4 DEF ReadingsAreFinite
    <3>2. PICK e \in rest : \A q \in rest : q.date <= e.date
      BY <3>1
    <3>3. PICK f \in rest : \A q \in rest : f.date <= q.date
      BY <3>1
    <3>4. e \in some /\ f \in some
      OBVIOUS
    <3> HIDE DEF rest
    <3>5. \E l \in some : \A q \in some : q.date <= l.date
      <4>1. CASE r \notin some
        BY <2>1, <3>2, <3>4, <4>1
      <4>2. CASE r \in some /\ r.date <= e.date
        BY <2>1, <3>2, <3>4, <4>2
      <4>3. CASE r \in some /\ ~(r.date <= e.date)
        <5>1. \A q \in some : q.date <= r.date
          BY <2>1, <2>2, <3>2, <3>4, <4>3
        <5> QED
          BY <4>3, <5>1
      <4> QED
        BY <4>1, <4>2, <4>3
    <3>6. \E l \in some : \A q \in some : l.date <= q.date
      <4>1. CASE r \notin some
        BY <2>1, <3>3, <3>4, <4>1
      <4>2. CASE r \in some /\ f.date <= r.date
        BY <2>1, <3>3, <3>4, <4>2
      <4>3. CASE r \in some /\ ~(f.date <= r.date)
        <5>1. \A q \in some : r.date <= q.date
          BY <2>1, <2>2, <3>3, <3>4, <4>3
        <5> QED
          BY <4>3, <5>1
      <4> QED
        BY <4>1, <4>2, <4>3
    <3> QED
      BY <3>5, <3>6
  <2> QED
    BY <2>3, <2>4
<1>7. MergedTypeOK' /\ OwnFollow' /\ ToldIsClosed' /\ ToldIsCached'
  BY <1>2, <1>3, <1>5 DEF MergedTypeOK, OwnFollow, ToldIsClosed, ToldIsCached, Closed, Driven
<1> QED
  BY <1>1, <1>3, <1>6, <1>7 DEF MergedIInv, MergedInv

\* The last trip that is held open differs in this alone.
LEMMA HeldOpenKeeps ==
    ASSUME NEW c \in Seq(PsaTrip), NEW d, d = HeldOpen(c), now \in Nat
    PROVE  /\ d \in Seq(PsaTrip) /\ DOMAIN d = DOMAIN c /\ Len(d) = Len(c) /\ DOMAIN c = 1..Len(c)
           /\ \A k \in DOMAIN c : /\ d[k].start = c[k].start /\ d[k].stop = c[k].stop
                                  /\ d[k].km = c[k].km /\ d[k].mileage = c[k].mileage
                                  /\ d[k].done => c[k].done
           /\ \A k \in DOMAIN c : k = Len(c) /\ d[k].done => now - c[k].stop >= JoinGap
<1>1. CASE c = <<>>
  BY <1>1 DEF HeldOpen
<1>2. CASE c # <<>>
  <2>1. Len(c) \in DOMAIN c /\ Last(c) = c[Len(c)] /\ DOMAIN c = 1..Len(c) /\ c[Len(c)] \in PsaTrip
    BY <1>2 DEF Last
  <2>2. CASE now - Last(c).stop < JoinGap
    <3> DEFINE y == [c[Len(c)] EXCEPT !.done = FALSE]
    <3>1. d = [c EXCEPT ![Len(c)] = y]
      BY <1>2, <2>1, <2>2 DEF HeldOpen
    <3>2. /\ y \in PsaTrip /\ y.start = c[Len(c)].start /\ y.stop = c[Len(c)].stop
          /\ y.km = c[Len(c)].km /\ y.mileage = c[Len(c)].mileage /\ ~y.done
      BY <2>1 DEF PsaTrip
    <3> HIDE DEF y
    <3>3. /\ d \in Seq(PsaTrip) /\ Len(d) = Len(c) /\ DOMAIN d = DOMAIN c
          /\ d[Len(c)] = y /\ \A k \in DOMAIN c : k # Len(c) => d[k] = c[k]
      BY <1>2, <3>1, <3>2, EndChanges
    <3> QED
      BY <2>1, <3>2, <3>3
  <2>3. CASE ~(now - Last(c).stop < JoinGap)
    <3>1. d = c
      BY <2>3 DEF HeldOpen
    <3>2. c[Len(c)].stop \in Nat /\ JoinGap \in Nat
      BY <2>1, TripNumbers, MergedAssumption
    <3>3. now - c[Len(c)].stop >= JoinGap
      BY <2>1, <2>3, <3>2
    <3> QED
      BY <2>1, <3>1, <3>3
  <2> QED
    BY <2>2, <2>3
<1> QED
  BY <1>1, <1>2

\* The trip that is driven is the last of those joined.
LEMMA OpenIsJoinedLast ==
    ASSUME NEW list \in Seq(PsaTrip), FollowEachOther(list), \E i \in DOMAIN list : ~list[i].done,
           NEW c, JoinedUpTo(Len(list), c, list),
           NEW i \in DOMAIN c, i = Len(c)
    PROVE  ~c[i].done
<1>1. /\ list # <<>> /\ ~list[Len(list)].done
  BY LastIsOpen
<1>0. PICK z : z = Len(list)
  OBVIOUS
<1>2. z \in DOMAIN list /\ DOMAIN list = 1..z /\ z \in Nat
  BY <1>0, <1>1
<1>3. list[z] \in PsaTrip /\ list[z].start \in Nat /\ list[z].stop \in Nat /\ list[z].start <= list[z].stop
  BY <1>2, TripNumbers DEF FollowEachOther
<1>4. c \in Seq(PsaTrip) /\ \A k \in DOMAIN c : c[k].start \in Nat /\ c[k].stop \in Nat
  <2>1. c \in Seq(PsaTrip)
    BY DEF JoinedUpTo
  <2> QED
    BY <2>1, TripNumbers
<1>5. PICK k \in DOMAIN c : c[k].start <= list[z].start /\ list[z].stop <= c[k].stop
  BY <1>0, <1>1, <1>2 DEF JoinedUpTo, Moved
<1>6. PICK a \in 1..z, b \in 1..z : Spans(c[k], list, a, b)
  BY <1>0 DEF JoinedUpTo
<1>7. b = z
  <2>1. ASSUME b # z PROVE FALSE
    <3>1. b < z /\ b \in DOMAIN list
      BY <1>2, <2>1
    <3>2. list[b].stop < list[z].start /\ list[b].stop \in Nat
      BY <1>2, <3>1, TripNumbers DEF FollowEachOther
    <3>3. list[z].stop <= list[b].stop
      BY <1>5, <1>6 DEF Spans
    <3> QED
      BY <1>3, <3>2, <3>3
  <2> QED
    BY <2>1
<1>8. ~c[k].done
  BY <1>0, <1>1, <1>6, <1>7 DEF Spans
<1>9. k = i
  <2>1. ASSUME k # i PROVE FALSE
    <3>1. k < i
      BY <1>4, <2>1
    <3>2. c[k].stop < c[i].start
      BY <3>1 DEF JoinedUpTo
    <3>3. PICK p \in 1..z, q \in 1..z : Spans(c[i], list, p, q)
      BY <1>0 DEF JoinedUpTo
    <3>4. c[i].start = list[p].start /\ p \in DOMAIN list
      BY <1>2, <3>3 DEF Spans
    <3>5. list[p].start <= list[z].start
      <4>1. CASE p = z
        BY <1>3, <4>1
      <4>2. CASE p # z
        <5>1. p < z
          BY <1>2, <4>2
        <5>2. list[p].start <= list[p].stop /\ list[p].stop < list[z].start
          BY <1>2, <3>4, <5>1 DEF FollowEachOther
        <5>3. list[p].start \in Nat /\ list[p].stop \in Nat
          BY <3>4, TripNumbers
        <5>4. PICK from \in Nat, to \in Nat, begin \in Nat :
                  from = list[p].start /\ to = list[p].stop /\ begin = list[z].start
          BY <1>3, <5>3
        <5>5. from <= to /\ to < begin
          BY <5>2, <5>4
        <5>6. from <= begin
          BY <5>5
        <5> QED
          BY <5>4, <5>6
      <4> QED
        BY <4>1, <4>2
    <3> QED
      BY <1>3, <1>4, <1>5, <3>2, <3>4, <3>5
  <2> QED
    BY <2>1
<1> QED
  BY <1>8, <1>9

\* The trips joined of a list.
LEMMA JoinedIsList ==
    ASSUME NEW list, ListOK(list)
    PROVE  list \in Seq(PsaTrip) /\ FollowEachOther(list) /\ JoinedUpTo(Len(list), Joined(list), list)
<1>1. list \in Seq(PsaTrip)
  BY DEF ListOK
<1>2. Len(list) \in 0..Len(list)
  BY <1>1
<1> QED
  BY <1>2 DEF ListOK, Joined

\* A trip of PSA in an answer is one of those joined.
LEMMA FromPsaIsJoined ==
    ASSUME NEW list, ListOK(list), now \in Nat, NEW u \in MergedWith(list), u.source = "psa",
           NEW c, c = Joined(list), NEW d, d = HeldOpen(c)
    PROVE  \E k \in DOMAIN c : u = FromPsa(d, k) /\ Summary(u) = Summary(c[k])
                               /\ (u.inProgress = ~d[k].done) /\ u.stop = c[k].stop
<1>1. c \in Seq(PsaTrip)
  BY JoinedIsList DEF JoinedUpTo
<1>2. d = CleanPsaTrips(list)
  BY DEF CleanPsaTrips
<1>3. \A t : FromOwn(t).source = "psacc"
  BY DEF FromOwn
<1>4. PICK k \in DOMAIN d : u = FromPsa(d, k)
  BY <1>2, <1>3 DEF MergedWith
<1>5. /\ DOMAIN d = DOMAIN c
      /\ d[k].start = c[k].start /\ d[k].stop = c[k].stop /\ d[k].km = c[k].km
  BY <1>1, <1>4, HeldOpenKeeps
<1>6. u.start = d[k].start /\ u.stop = d[k].stop /\ u.km = d[k].km /\ u.inProgress = ~d[k].done
  BY <1>4 DEF FromPsa
<1> QED
  BY <1>4, <1>5, <1>6 DEF Summary

\* A trip that an answer tells to have ended is done, as it is joined.
LEMMA EndedIsJoined ==
    ASSUME NEW list, ListOK(list), now \in Nat, NEW u \in Ended(MergedWith(list)),
           NEW c, c = Joined(list)
    PROVE  \E k \in DOMAIN c : Summary(u) = Summary(c[k]) /\ c[k].done
<1>1. c \in Seq(PsaTrip)
  BY JoinedIsList DEF JoinedUpTo
<1>2. PICK d : d = HeldOpen(c)
  OBVIOUS
<1>3. u \in MergedWith(list) /\ u.source = "psa" /\ ~u.inProgress
  BY DEF Ended
<1>4. PICK k \in DOMAIN c : Summary(u) = Summary(c[k]) /\ (u.inProgress = ~d[k].done)
  BY <1>2, <1>3, FromPsaIsJoined
<1>5. d[k].done => c[k].done
  BY <1>1, <1>2, <1>4, HeldOpenKeeps
<1> QED
  BY <1>3, <1>4, <1>5

\* What a request tells to have ended is a trip.
LEMMA TellType ==
    ASSUME MergedIInv, NEW list, ListOK(list), Tell(list)
    PROVE  ended' \subseteq [start: Nat, stop: Nat, km: Nat]
<1>1. ended \subseteq [start: Nat, stop: Nat, km: Nat] /\ now \in Nat
  BY DEF MergedIInv, MergedInv, MergedTypeOK
<1>2. PICK c : c = Joined(list)
  OBVIOUS
<1>3. c \in Seq(PsaTrip)
  BY <1>2, JoinedIsList DEF JoinedUpTo
<1>4. ASSUME NEW u \in Ended(MergedWith(list))
      PROVE  Summary(u) \in [start: Nat, stop: Nat, km: Nat]
  <2>1. PICK k \in DOMAIN c : Summary(u) = Summary(c[k])
    BY <1>1, <1>2, EndedIsJoined
  <2>2. c[k].start \in Nat /\ c[k].stop \in Nat /\ c[k].km \in Nat
    BY <1>3, TripNumbers
  <2> QED
    BY <2>1, <2>2 DEF Summary
<1> QED
  BY <1>1, <1>4 DEF Tell

\* The list is in the cache, or there is none: only what was told to have ended grows.
LEMMA GetOtherMerged == MergedIInv /\ (GetCached \/ GetUnanswered) => MergedIInv'
<1> SUFFICES ASSUME MergedIInv, GetCached \/ GetUnanswered
             PROVE  MergedIInv'
  OBVIOUS
<1>1. MergedInv /\ Determined(psa) /\ (cache # None => Determined(cache.trips))
  BY DEF MergedIInv
<1>2. /\ MergedTypeOK /\ OwnFollow /\ ReadingsAreFinite /\ ToldIsClosed /\ ToldIsCached
      /\ cache # None => ListOK(cache.trips)
  BY <1>1 DEF MergedInv
<1>3. /\ now' = now /\ odometer' = odometer /\ psa' = psa /\ own' = own /\ readings' = readings
      /\ cache' = cache /\ told' = told
  BY DEF GetCached, GetUnanswered
<1>4. ended' \subseteq [start: Nat, stop: Nat, km: Nat]
  <2>1. CASE GetCached
    BY <1>2, <2>1, TellType DEF GetCached
  <2>2. CASE GetUnanswered
    <3>1. ListOK(NoTrips)
      BY NoList DEF NoTrips
    <3> QED
      BY <2>2, <3>1, TellType DEF GetUnanswered
  <2> QED
    BY <2>1, <2>2
<1>5. MergedTypeOK' /\ OwnFollow' /\ ReadingsAreFinite' /\ ToldIsClosed' /\ ToldIsCached'
  BY <1>2, <1>3, <1>4
     DEF MergedTypeOK, OwnFollow, ReadingsAreFinite, ToldIsClosed, ToldIsCached, Closed, Driven
<1> QED
  BY <1>1, <1>3, <1>5 DEF MergedIInv, MergedInv

\* PSA is asked: what is told for good has ended in its list, so it is followed by
\* another trip or can't be restarted any more.
LEMMA GetAskedMerged == MergedIInv /\ GetAsked => MergedIInv'
<1> SUFFICES ASSUME MergedIInv, GetAsked
             PROVE  MergedIInv'
  OBVIOUS
<1>1. MergedInv /\ Determined(psa)
  BY DEF MergedIInv
<1>2. /\ MergedTypeOK /\ OwnFollow /\ ReadingsAreFinite /\ ToldIsClosed /\ ListOK(psa)
  BY <1>1 DEF MergedInv
<1>3. now' = now /\ odometer' = odometer /\ psa' = psa /\ own' = own /\ readings' = readings
  BY DEF GetAsked
<1> DEFINE more == {Summary(u) : u \in ToldForGood(MergedWith(psa))}
<1>4. cache' = [at |-> now, trips |-> psa] /\ told' = told \cup more
  BY DEF GetAsked
<1>5. now \in Nat /\ psa \in Seq(PsaTrip) /\ told \subseteq [start: Nat, stop: Nat, km: Nat]
  BY <1>2 DEF MergedTypeOK
<1>6. PICK c : c = Joined(psa)
  OBVIOUS
<1>7. PICK d : d = HeldOpen(c)
  OBVIOUS
<1>8. c \in Seq(PsaTrip) /\ FollowEachOther(psa) /\ JoinedUpTo(Len(psa), c, psa)
  BY <1>2, <1>6, JoinedIsList DEF JoinedUpTo
<1>9. ASSUME NEW t \in more
      PROVE  \E k \in DOMAIN c : t = Summary(c[k]) /\ (k < Len(c) \/ (~Driven /\ Closed(c[k])))
  <2>1. PICK u \in MergedWith(psa) : /\ u.source = "psa" /\ ~u.inProgress /\ now # u.stop + JoinGap
                                     /\ t = Summary(u)
    BY <1>9 DEF ToldForGood, Ended
  <2>2. PICK k \in DOMAIN c : /\ Summary(u) = Summary(c[k])
                              /\ (u.inProgress = ~d[k].done) /\ u.stop = c[k].stop
    BY <1>2, <1>5, <1>6, <1>7, <2>1, FromPsaIsJoined
  <2>3. /\ DOMAIN c = 1..Len(c) /\ (d[k].done => c[k].done)
        /\ k = Len(c) /\ d[k].done => now - c[k].stop >= JoinGap
    BY <1>5, <1>7, <1>8, HeldOpenKeeps
  <2>4. d[k].done
    BY <2>1, <2>2
  <2>5. CASE k < Len(c)
    BY <2>1, <2>2, <2>5
  <2>6. CASE k = Len(c)
    <3>1. c[k].stop \in Nat /\ JoinGap \in Nat
      BY <1>8, TripNumbers, MergedAssumption
    <3>2. now - c[k].stop >= JoinGap /\ now # c[k].stop + JoinGap
      BY <2>1, <2>2, <2>3, <2>4, <2>6
    <3>3. now - c[k].stop > JoinGap
      <4>1. now \in Nat
        BY <1>5
      <4>2. PICK n \in Nat, e \in Nat, j \in Nat : n = now /\ e = c[k].stop /\ j = JoinGap
        BY <3>1, <4>1
      <4>3. n - e >= j /\ n # e + j
        BY <3>2, <4>2
      <4>4. n - e > j
        BY <4>3
      <4> QED
        BY <4>2, <4>4
    <3>4. ~Driven
      BY <1>5, <1>8, <2>3, <2>4, <2>6, OpenIsJoinedLast DEF Driven
    <3> QED
      BY <2>1, <2>2, <3>3, <3>4 DEF Closed
  <2> QED
    BY <1>8, <2>3, <2>5, <2>6
<1>10. \A t \in told \cup more :
          \E k \in DOMAIN c : t = Summary(c[k]) /\ (k < Len(c) \/ (~Driven /\ Closed(c[k])))
  <2>1. \A t \in told :
            \E k \in DOMAIN c : t = Summary(c[k]) /\ (k < Len(c) \/ (~Driven /\ Closed(c[k])))
    BY <1>2, <1>6 DEF ToldIsClosed
  <2> HIDE DEF more
  <2> QED
    BY <1>9, <2>1
<1> HIDE DEF more
<1>11. ToldIsClosed'
  BY <1>3, <1>4, <1>6, <1>10 DEF ToldIsClosed, Closed, Driven
<1>12. ToldIsCached'
  BY <1>4, <1>6, <1>10 DEF ToldIsCached
<1>16. ended' \subseteq [start: Nat, stop: Nat, km: Nat]
  BY <1>2, TellType DEF GetAsked
<1>13. told' \subseteq [start: Nat, stop: Nat, km: Nat]
  <2> SUFFICES ASSUME NEW t \in told \cup more PROVE t \in [start: Nat, stop: Nat, km: Nat]
    BY <1>4
  <2>1. PICK k \in DOMAIN c : t = Summary(c[k])
    BY <1>10
  <2>2. c[k].start \in Nat /\ c[k].stop \in Nat /\ c[k].km \in Nat
    BY <1>8, TripNumbers
  <2> QED
    BY <2>1, <2>2 DEF Summary
<1>14. MergedTypeOK'
  BY <1>2, <1>3, <1>4, <1>5, <1>13, <1>16 DEF MergedTypeOK
<1>15. OwnFollow' /\ ReadingsAreFinite'
  BY <1>2, <1>3 DEF OwnFollow, ReadingsAreFinite
<1> QED
  BY <1>1, <1>2, <1>3, <1>4, <1>11, <1>12, <1>14, <1>15 DEF MergedIInv, MergedInv

\* Nothing changes.
LEMMA StutterMerged == MergedIInv /\ UNCHANGED mergedVars => MergedIInv'
BY DEF MergedIInv, MergedInv, mergedVars, MergedTypeOK, OwnFollow, ReadingsAreFinite, ToldIsClosed,
       ToldIsCached, Closed, Driven

\* PSA's trips follow each other, the trips joined of each list cover them in
\* order and on the odometer, and what was told is closed: the inductive
\* invariant of merged_trips.py.
THEOREM MergedInvAlways == MergedSpec => []MergedIInv
<1>1. MergedInit => MergedIInv
  BY MergedInitInv
<1>2. MergedIInv /\ [MergedNext]_mergedVars => MergedIInv'
  BY TickMerged, IgnitionOnMerged, DriveMerged, IgnitionOffMerged, FindOwnMerged, ReadMerged,
     GetOtherMerged, GetAskedMerged, StutterMerged DEF MergedNext
<1> QED
  BY <1>1, <1>2, PTL DEF MergedSpec

-----------------------------------------------------------------------------
(* What was told to have ended *)

HasNumbers(t) == t.start \in Nat /\ t.stop \in Nat /\ t.km \in Nat

\* One more trip doesn't take away what begins a trip.
LEMMA BegunByMore ==
    ASSUME NEW c \in Seq(PsaTrip), NEW x \in PsaTrip, \A k \in DOMAIN c : c[k].stop <= x.stop,
           NEW t, HasNumbers(t), BegunBy(t, c)
    PROVE  BegunBy(t, WithPsaTrip(c, x))
<1>1. PICK k \in DOMAIN c : t.start = c[k].start /\ t.stop <= c[k].stop /\ t.km <= c[k].km
  BY DEF BegunBy, Begins
<1>2. c[k] \in PsaTrip /\ c # <<>>
  OBVIOUS
<1>3. c[k].stop \in Nat /\ c[k].km \in Nat /\ x.stop \in Nat /\ x.km \in Nat /\ c[k].stop <= x.stop
  BY <1>2, TripNumbers
<1>4. CASE ~Moved(x)
  BY <1>4 DEF WithPsaTrip
<1>5. CASE Moved(x) /\ Continues(Last(c), x)
  <2> DEFINE y == Join(Last(c), x)
             d == Append(Front(c), y)
  <2>1. WithPsaTrip(c, x) = d
    BY <1>2, <1>5 DEF WithPsaTrip
  <2>2. Len(c) \in DOMAIN c /\ Last(c) = c[Len(c)]
    BY <1>2, FrontAndOne
  <2>3. y \in PsaTrip /\ y.start = c[Len(c)].start /\ y.stop = x.stop /\ y.km = c[Len(c)].km + x.km
    BY <2>2, JoinedTrip
  <2>4. DOMAIN d = DOMAIN c /\ d[Len(c)] = y /\ (k # Len(c) => d[k] = c[k])
    BY <1>2, <2>3, FrontAndOne
  <2> HIDE DEF d, y
  <2>5. t.start = d[k].start /\ t.stop <= d[k].stop /\ t.km <= d[k].km
    <3>1. CASE k = Len(c)
      <4>1. d[k].start = c[k].start /\ d[k].stop = x.stop /\ d[k].km = c[k].km + x.km
        BY <2>3, <2>4, <3>1
      <4>2. t.stop <= x.stop /\ t.km <= c[k].km + x.km
        BY <1>1, <1>3 DEF HasNumbers
      <4> QED
        BY <1>1, <4>1, <4>2
    <3>2. CASE k # Len(c)
      BY <1>1, <2>4, <3>2
    <3> QED
      BY <3>1, <3>2
  <2> QED
    BY <2>1, <2>4, <2>5 DEF BegunBy, Begins
<1>6. CASE Moved(x) /\ ~Continues(Last(c), x)
  <2>1. WithPsaTrip(c, x) = Append(c, x)
    BY <1>6 DEF WithPsaTrip
  <2>2. k \in DOMAIN Append(c, x) /\ Append(c, x)[k] = c[k]
    BY OneMoreTrip
  <2> QED
    BY <1>1, <2>1, <2>2 DEF BegunBy, Begins
<1> QED
  BY <1>4, <1>5, <1>6

\* While the car is driven, the trips joined are those of the done parts and the open one.
LEMMA FirmIs ==
    ASSUME ListOK(psa), Determined(psa)
    PROVE  /\ ~Driven => Firm = Joined(psa) /\ JoinedUpTo(Len(psa), Firm, psa)
           /\ Driven => \E m \in Nat : /\ Len(psa) = m + 1 /\ ~psa[m + 1].done
                                       /\ Firm = Cleaning(psa)[m] /\ JoinedUpTo(m, Firm, psa)
                                       /\ Joined(psa) = WithPsaTrip(Firm, psa[m + 1])
<1>1. psa \in Seq(PsaTrip) /\ FollowEachOther(psa) /\ JoinedUpTo(Len(psa), Joined(psa), psa)
  BY JoinedIsList
<1>2. CASE ~Driven
  BY <1>1, <1>2 DEF Firm, Joined
<1>3. CASE Driven
  <2>1. psa # <<>> /\ ~psa[Len(psa)].done
    BY <1>1, <1>3, LastIsOpen DEF Driven
  <2>2. PICK m \in Nat : m = Len(psa) - 1
    BY <1>1, <2>1
  <2>3. Len(psa) = m + 1
    BY <1>1, <2>2
  <2>4. Firm = Cleaning(psa)[m]
    BY <1>3, <2>2 DEF Firm
  <2>5. PICK list : list = psa
    OBVIOUS
  <2>6. /\ JoinedUpTo(m, Cleaning(list)[m], list)
        /\ Joined(list) = WithPsaTrip(Cleaning(list)[m], list[m + 1])
    <3>1. ListOK(list) /\ Determined(list) /\ list \in Seq(PsaTrip) /\ FollowEachOther(list)
      BY <1>1, <2>5
    <3>2. Len(list) = m + 1 /\ \A i \in 1..m : list[i] = list[i]
      BY <2>3, <2>5
    <3> QED
      BY <3>1, <3>2, ListGrows
  <2> QED
    BY <1>3, <2>1, <2>3, <2>4, <2>5, <2>6
<1> QED
  BY <1>2, <1>3

\* The open trip doesn't take away what begins a trip.
LEMMA FirmIsJoined ==
    ASSUME ListOK(psa), Determined(psa), NEW t, HasNumbers(t), BegunBy(t, Firm)
    PROVE  BegunBy(t, Joined(psa))
<1>1. CASE ~Driven
  BY <1>1, FirmIs
<1>2. CASE Driven
  <2>1. PICK m \in Nat : /\ Len(psa) = m + 1 /\ JoinedUpTo(m, Firm, psa)
                         /\ Joined(psa) = WithPsaTrip(Firm, psa[m + 1])
    BY <1>2, FirmIs
  <2>2. psa \in Seq(PsaTrip) /\ FollowEachOther(psa)
    BY JoinedIsList
  <2>3. m + 1 \in DOMAIN psa /\ psa[m + 1] \in PsaTrip
    BY <2>1, <2>2
  <2>4. Firm \in Seq(PsaTrip)
    BY <2>1 DEF JoinedUpTo
  <2>5. ASSUME NEW k \in DOMAIN Firm PROVE Firm[k].stop <= psa[m + 1].stop
    <3>1. PICK a \in 1..m, b \in 1..m : Spans(Firm[k], psa, a, b)
      BY <2>1 DEF JoinedUpTo
    <3>2. b \in DOMAIN psa /\ b < m + 1 /\ psa[b] \in PsaTrip
      BY <2>1, <2>2
    <3>3. psa[b].stop < psa[m + 1].start /\ psa[m + 1].start <= psa[m + 1].stop
      BY <2>2, <2>3, <3>2 DEF FollowEachOther
    <3>4. psa[b].stop \in Nat /\ psa[m + 1].start \in Nat /\ psa[m + 1].stop \in Nat
      BY <2>3, <3>2, TripNumbers
    <3>5. Firm[k].stop = psa[b].stop
      BY <3>1 DEF Spans
    <3> QED
      BY <3>3, <3>4, <3>5
  <2>6. PICK f \in Seq(PsaTrip) : f = Firm
    BY <2>4
  <2>7. PICK x \in PsaTrip : x = psa[m + 1]
    BY <2>3
  <2>8. (\A k \in DOMAIN f : f[k].stop <= x.stop) /\ BegunBy(t, f)
    BY <2>5, <2>6, <2>7
  <2>9. BegunBy(t, WithPsaTrip(f, x))
    BY <2>8, BegunByMore
  <2> QED
    BY <2>1, <2>6, <2>7, <2>9
<1> QED
  BY <1>1, <1>2

\* A trip that is done, as it is joined, is one of the done parts.
LEMMA DoneIsFirm ==
    ASSUME ListOK(psa), Determined(psa), NEW c, c = Joined(psa), NEW k \in DOMAIN c, c[k].done
    PROVE  BegunBy(c[k], Firm)
<1>1. psa \in Seq(PsaTrip) /\ FollowEachOther(psa) /\ JoinedUpTo(Len(psa), c, psa)
  BY JoinedIsList
<1>2. c \in Seq(PsaTrip)
  BY <1>1 DEF JoinedUpTo
<1>3. c[k].stop <= c[k].stop /\ c[k].km <= c[k].km
  BY <1>2, TripNumbers
<1>4. CASE ~Driven
  BY <1>3, <1>4, FirmIs DEF BegunBy, Begins
<1>5. CASE Driven
  <2>1. PICK m \in Nat : /\ Len(psa) = m + 1 /\ ~psa[m + 1].done /\ JoinedUpTo(m, Firm, psa)
                         /\ c = WithPsaTrip(Firm, psa[m + 1])
    BY <1>5, FirmIs
  <2>2. PICK x \in PsaTrip : x = psa[m + 1]
    BY <1>1, <2>1
  <2>3. PICK f \in Seq(PsaTrip) : f = Firm
    BY <2>1 DEF JoinedUpTo
  <2>4. c = WithPsaTrip(f, x) /\ ~x.done /\ Moved(x)
    BY <2>1, <2>2, <2>3 DEF Moved
  <2>5. k # Len(c)
    BY <1>1, <1>5, OpenIsJoinedLast DEF Driven
  <2>6. CASE f # <<>> /\ Continues(Last(f), x)
    <3>1. c = Append(Front(f), Join(Last(f), x))
      BY <2>4, <2>6 DEF WithPsaTrip
    <3>2. Len(f) \in DOMAIN f /\ Last(f) = f[Len(f)]
      BY <2>2, <2>6, FrontAndOne
    <3>3. Join(Last(f), x) \in PsaTrip
      BY <3>2, JoinedTrip
    <3>4. DOMAIN c = DOMAIN f /\ Len(c) = Len(f) /\ \A l \in DOMAIN f : l # Len(f) => c[l] = f[l]
      BY <2>6, <3>1, <3>3, FrontAndOne
    <3> QED
      BY <1>3, <2>3, <2>5, <3>4 DEF BegunBy, Begins
  <2>7. CASE ~(f # <<>> /\ Continues(Last(f), x))
    <3>1. c = Append(f, x)
      BY <2>4, <2>7 DEF WithPsaTrip
    <3>2. /\ DOMAIN c = DOMAIN f \cup {Len(f) + 1} /\ Len(c) = Len(f) + 1
          /\ \A l \in DOMAIN f : c[l] = f[l]
      BY <3>1, OneMoreTrip
    <3> QED
      BY <1>3, <2>3, <2>5, <3>2 DEF BegunBy, Begins
  <2> QED
    BY <2>6, <2>7
<1> QED
  BY <1>4, <1>5

\* The trip that is driven goes on, or ends.
LEMMA LastGrows ==
    ASSUME ListOK(psa), Determined(psa), ListOK(psa'), Driven, now \in Nat,
           Len(psa') = Len(psa), \A i \in DOMAIN psa : i # Len(psa) => psa'[i] = psa[i],
           psa'[Len(psa)].stop = now, \A i \in DOMAIN psa : psa[i].stop <= now,
           NEW t, HasNumbers(t), BegunBy(t, Firm)
    PROVE  BegunBy(t, Firm')
<1>1. PICK m \in Nat : Len(psa) = m + 1 /\ Firm = Cleaning(psa)[m] /\ JoinedUpTo(m, Firm, psa)
  BY FirmIs
<1>2. psa \in Seq(PsaTrip) /\ FollowEachOther(psa) /\ psa' \in Seq(PsaTrip) /\ FollowEachOther(psa')
  BY DEF ListOK
<1>3. PICK list \in Seq(PsaTrip) : list = psa
  BY <1>2
<1>4. PICK next \in Seq(PsaTrip) : next = psa'
  BY <1>2
<1>5. PICK f \in Seq(PsaTrip) : f = Cleaning(list)[m] /\ f = Firm
  BY <1>1, <1>3 DEF JoinedUpTo
<1>6. \A i \in DOMAIN psa : i # Len(psa) => psa[i].done
  BY <1>2, LastIsOpen DEF Driven
<1>7. /\ Len(list) = m + 1 /\ Len(next) = m + 1 /\ DOMAIN next = 1..(m + 1)
      /\ \A i \in 1..m : next[i] = list[i] /\ next[i].done
  <2>1. Len(list) = m + 1 /\ Len(next) = m + 1
    BY <1>1, <1>3, <1>4
  <2>2. \A i \in DOMAIN list : i # m + 1 => next[i] = list[i] /\ list[i].done
    BY <1>1, <1>3, <1>4, <1>6
  <2>3. ASSUME NEW i \in 1..m PROVE next[i] = list[i] /\ list[i].done
    <3>1. i \in DOMAIN list /\ i # m + 1
      BY <2>1
    <3> QED
      BY <2>2, <3>1
  <2>4. DOMAIN next = 1..(m + 1)
    BY <2>1
  <2>5. \A i \in 1..m : next[i] = list[i] /\ next[i].done
    BY <2>3
  <2> QED
    BY <2>1, <2>4, <2>5
<1>8. PICK y \in PsaTrip : y = next[m + 1] /\ y.stop = now
  <2>1. m + 1 \in DOMAIN next
    BY <1>7
  <2> QED
    BY <1>1, <1>4, <2>1
<1>9. \A n \in 0..m : Cleaning(next)[n] = Cleaning(list)[n]
  BY <1>3, <1>7, LoopAgrees
<1>10. CASE ~y.done
  <2>1. Driven'
    BY <1>4, <1>7, <1>8, <1>10 DEF Driven
  <2>2. Len(psa') - 1 = m
    BY <1>4, <1>7
  <2>3. Firm' = Cleaning(next)[m]
    BY <1>4, <2>1, <2>2 DEF Firm
  <2>4. m \in 0..m
    OBVIOUS
  <2>5. Firm' = f
    BY <1>5, <1>9, <2>3, <2>4
  <2>6. BegunBy(t, f)
    BY <1>5
  <2> QED
    BY <2>5, <2>6
<1>11. CASE y.done
  <2>1. ~Driven'
    BY <1>4, <1>7, <1>8, <1>11 DEF Driven
  <2>2. Firm' = Joined(next)
    BY <1>4, <2>1 DEF Firm, Joined
  <2>3. Joined(next) = WithPsaTrip(f, y)
    <3>1. FollowEachOther(next) /\ ListOK(list) /\ Determined(list)
      BY <1>2, <1>3, <1>4
    <3>2. /\ Len(list) \in {m, m + 1} /\ Len(next) = m + 1
          /\ \A i \in 1..m : next[i] = list[i]
      BY <1>7
    <3>3. Joined(next) = WithPsaTrip(Cleaning(list)[m], next[m + 1])
      BY <3>1, <3>2, ListGrows
    <3> QED
      BY <1>5, <1>8, <3>3
  <2>4. ASSUME NEW k \in DOMAIN f PROVE f[k].stop <= y.stop
    <3>1. PICK a \in 1..m, b \in 1..m : Spans(f[k], psa, a, b)
      BY <1>1, <1>5 DEF JoinedUpTo
    <3>2. f[k].stop = psa[b].stop /\ b \in DOMAIN psa
      BY <1>1, <1>2, <3>1 DEF Spans
    <3> QED
      BY <1>8, <3>2
  <2>5. BegunBy(t, f)
    BY <1>5
  <2> QED
    BY <2>2, <2>3, <2>4, <2>5, BegunByMore
<1> QED
  BY <1>10, <1>11

\* What begins a trip of the done parts does so after each step.
LEMMA FirmGrows ==
    ASSUME MergedIInv, MergedIInv', MergedNext \/ UNCHANGED mergedVars,
           NEW t, HasNumbers(t), BegunBy(t, Firm)
    PROVE  BegunBy(t, Firm')
<1>1. /\ ListOK(psa) /\ Determined(psa) /\ psa \in Seq(PsaTrip) /\ FollowEachOther(psa)
      /\ \A i \in DOMAIN psa : psa[i].stop <= now
      /\ now \in Nat
  BY DEF MergedIInv, MergedInv, MergedTypeOK, ListOK
<1>2. ListOK(psa') /\ psa' \in Seq(PsaTrip) /\ FollowEachOther(psa')
  BY DEF MergedIInv, MergedInv, ListOK
<1>3. PICK list \in Seq(PsaTrip) : list = psa
  BY <1>1
<1>4. PICK next \in Seq(PsaTrip) : next = psa'
  BY <1>2
<1>5. CASE UNCHANGED psa
  BY <1>5 DEF Firm, Driven
<1>6. CASE IgnitionOn
  <2>1. ~Driven /\ Firm = Cleaning(list)[Len(list)]
    BY <1>3, <1>6 DEF IgnitionOn, Firm
  <2>2. PICK x : x = [start |-> now, stop |-> now, km |-> 0, mileage |-> odometer, done |-> FALSE,
                      startMadeUp |-> Len(psa) + 1 \in MadeUp, endMadeUp |-> Len(psa) + 1 \in MadeUp]
    OBVIOUS
  <2>3. next = Append(list, x) /\ ~x.done
    BY <1>3, <1>4, <1>6, <2>2 DEF IgnitionOn
  <2>4. PICK m \in Nat : m = Len(list)
    OBVIOUS
  <2>5. /\ Len(next) = m + 1 /\ next[m + 1] = x /\ m + 1 \in DOMAIN next
        /\ \A i \in 1..m : next[i] = list[i]
    BY <2>3, <2>4
  <2>6. Driven' /\ Firm' = Cleaning(next)[m]
    <3>1. Driven'
      BY <1>4, <2>3, <2>5 DEF Driven
    <3>2. Len(psa') - 1 = m
      BY <1>4, <2>5
    <3> QED
      BY <1>4, <3>1, <3>2 DEF Firm
  <2>7. Cleaning(next)[m] = Cleaning(list)[m]
    <3>1. Determined(list) /\ m \in 0..m
      BY <1>1, <1>3
    <3> QED
      BY <2>4, <2>5, <3>1, LoopAgrees
  <2> QED
    BY <2>1, <2>4, <2>6, <2>7
<1>7. CASE Driven /\ (Drive \/ IgnitionOff)
  <2>1. psa # <<>>
    BY <1>1, <1>7, LastIsOpen DEF Driven
  <2>2. Len(psa) \in DOMAIN psa /\ psa[Len(psa)] \in PsaTrip
    BY <1>1, <2>1
  <2>3. /\ Len(psa') = Len(psa) /\ \A i \in DOMAIN psa : i # Len(psa) => psa'[i] = psa[i]
        /\ psa'[Len(psa)].stop = now
    <3>1. CASE Drive
      <4>1. psa' = [psa EXCEPT ![Len(psa)].km = @ + 1, ![Len(psa)].stop = now]
        BY <1>7, <3>1 DEF Drive
      <4>2. PICK y : y = [psa[Len(psa)] EXCEPT !.km = @ + 1, !.stop = now]
        OBVIOUS
      <4>3. psa' = [psa EXCEPT ![Len(psa)] = y]
        BY <1>1, <2>2, <4>1, <4>2
      <4>4. psa[Len(psa)].km \in Nat
        BY <2>2, TripNumbers
      <4>5. y \in PsaTrip /\ y.stop = now
        <5>1. PICK n \in Nat : n = psa[Len(psa)].km + 1
          BY <4>4
        <5>2. y = [psa[Len(psa)] EXCEPT !.km = n, !.stop = now]
          BY <4>2, <5>1
        <5> QED
          BY <1>1, <2>2, <5>2 DEF PsaTrip
      <4> QED
        BY <1>1, <2>1, <2>2, <4>3, <4>5
    <3>2. CASE IgnitionOff
      <4>1. psa' = [psa EXCEPT ![Len(psa)].done = TRUE, ![Len(psa)].stop = now]
        BY <3>2 DEF IgnitionOff
      <4>2. PICK y : y = [psa[Len(psa)] EXCEPT !.done = TRUE, !.stop = now]
        OBVIOUS
      <4>3. psa' = [psa EXCEPT ![Len(psa)] = y]
        BY <1>1, <2>2, <4>1, <4>2
      <4>4. y \in PsaTrip /\ y.stop = now
        BY <1>1, <2>2, <4>2 DEF PsaTrip
      <4> QED
        BY <1>1, <2>1, <2>2, <4>3, <4>4
    <3> QED
      BY <1>7, <3>1, <3>2
  <2> QED
    BY <1>1, <1>2, <1>7, <2>3, LastGrows
<1>8. \/ UNCHANGED psa \/ IgnitionOn \/ (Driven /\ (Drive \/ IgnitionOff))
  BY DEF MergedNext, mergedVars, Tick, FindOwn, Read, Drive, IgnitionOff, GetCached, GetAsked, GetUnanswered
<1> QED
  BY <1>5, <1>6, <1>7, <1>8

LEMMA SummaryOf ==
    ASSUME NEW t \in PsaTrip
    PROVE  /\ HasNumbers(t) /\ HasNumbers(Summary(t)) /\ Begins(Summary(t), t)
           /\ \A those : BegunBy(t, those) <=> BegunBy(Summary(t), those)
BY TripNumbers DEF Summary, HasNumbers, Begins, BegunBy

LEMMA EndedStep ==
    ASSUME MergedIInv, MergedIInv', EndedIsBegun, MergedNext \/ UNCHANGED mergedVars
    PROVE  EndedIsBegun'
<1>1. /\ ListOK(psa) /\ Determined(psa) /\ now \in Nat
      /\ cache # None => ListOK(cache.trips)
      /\ \A t \in ended : HasNumbers(t)
  BY DEF MergedIInv, MergedInv, MergedTypeOK, HasNumbers
<1>2. \A t : HasNumbers(t) /\ BegunBy(t, Firm) => BegunBy(t, Firm')
  BY FirmGrows
<1>3. \A t \in ended : BegunBy(t, Firm')
  BY <1>1, <1>2 DEF EndedIsBegun
<1>4. ASSUME cache # None, NEW k \in DOMAIN Joined(cache.trips), Joined(cache.trips)[k].done
      PROVE  BegunBy(Joined(cache.trips)[k], Firm')
  <2>1. Joined(cache.trips) \in Seq(PsaTrip)
    BY <1>1, <1>4, JoinedIsList DEF JoinedUpTo
  <2>2. HasNumbers(Joined(cache.trips)[k])
    BY <2>1, SummaryOf
  <2>3. BegunBy(Joined(cache.trips)[k], Firm)
    BY <1>4 DEF EndedIsBegun
  <2> QED
    BY <1>2, <2>2, <2>3
<1>5. CASE ended' = ended /\ cache' \in {cache, None}
  BY <1>3, <1>4, <1>5 DEF EndedIsBegun
<1>6. CASE GetCached
  <2>1. PICK c : c = Joined(cache.trips)
    OBVIOUS
  <2>2. cache # None /\ cache' = cache /\ c \in Seq(PsaTrip)
    BY <1>1, <1>6, <2>1, JoinedIsList DEF GetCached, JoinedUpTo
  <2>3. ASSUME NEW t \in ended' PROVE BegunBy(t, Firm') /\ BegunBy(t, c)
    <3>1. CASE t \in ended
      BY <1>3, <2>1, <2>2, <3>1 DEF EndedIsBegun
    <3>2. CASE t \notin ended
      <4>1. PICK u \in Ended(MergedWith(cache.trips)) : t = Summary(u)
        BY <1>6, <2>3, <3>2 DEF GetCached, Tell
      <4>2. PICK k \in DOMAIN c : t = Summary(c[k]) /\ c[k].done
        BY <1>1, <2>1, <2>2, <4>1, EndedIsJoined
      <4>3. c[k] \in PsaTrip
        BY <2>2
      <4>4. BegunBy(c[k], Firm')
        BY <1>4, <2>1, <2>2, <4>2
      <4> QED
        BY <4>2, <4>3, <4>4, SummaryOf DEF BegunBy
    <3> QED
      BY <3>1, <3>2
  <2> QED
    BY <1>4, <2>1, <2>2, <2>3 DEF EndedIsBegun
<1>7. CASE GetAsked
  <2>1. PICK c : c = Joined(psa)
    OBVIOUS
  <2>2. cache'.trips = psa /\ psa' = psa /\ Firm' = Firm /\ c \in Seq(PsaTrip)
    BY <1>1, <1>7, <2>1, JoinedIsList DEF GetAsked, Firm, Driven, JoinedUpTo
  <2>3. \A k \in DOMAIN c : c[k].done => BegunBy(c[k], Firm)
    BY <1>1, <2>1, DoneIsFirm
  <2>4. ASSUME NEW t \in ended' PROVE BegunBy(t, Firm) /\ BegunBy(t, c)
    <3>1. CASE t \in ended
      <4>1. HasNumbers(t) /\ BegunBy(t, Firm)
        BY <1>1, <3>1 DEF EndedIsBegun
      <4> QED
        BY <1>1, <2>1, <4>1, FirmIsJoined
    <3>2. CASE t \notin ended
      <4>1. PICK u \in Ended(MergedWith(psa)) : t = Summary(u)
        BY <1>7, <2>4, <3>2 DEF GetAsked, Tell
      <4>2. PICK k \in DOMAIN c : t = Summary(c[k]) /\ c[k].done
        BY <1>1, <2>1, <4>1, EndedIsJoined
      <4>3. c[k] \in PsaTrip
        BY <2>2
      <4> QED
        BY <2>3, <4>2, <4>3, SummaryOf DEF BegunBy
    <3> QED
      BY <3>1, <3>2
  <2> QED
    BY <2>1, <2>2, <2>3, <2>4 DEF EndedIsBegun
<1>8. CASE GetUnanswered
  <2>1. ListOK(NoTrips) /\ Joined(NoTrips) = <<>>
    BY NoList DEF NoTrips
  <2>2. ASSUME NEW u \in Ended(MergedWith(NoTrips)) PROVE FALSE
    BY <1>1, <2>1, EndedIsJoined
  <2>3. ended' = ended
    BY <1>8, <2>2 DEF GetUnanswered, Tell
  <2> QED
    BY <1>5, <1>8, <2>3 DEF GetUnanswered
<1>9. \/ ended' = ended /\ cache' \in {cache, None}
      \/ GetCached \/ GetAsked \/ GetUnanswered
  BY DEF MergedNext, mergedVars, Tick, IgnitionOn, Drive, IgnitionOff, FindOwn, Read
<1> QED
  BY <1>5, <1>6, <1>7, <1>8, <1>9

\* What was told to have ended begins a trip of each list to come.
LEMMA EndedIsBegunAlways == MergedSpec => []EndedIsBegun
<1>1. MergedInit => EndedIsBegun
  BY DEF MergedInit, EndedIsBegun
<1>2. MergedIInv /\ MergedIInv' /\ EndedIsBegun /\ [MergedNext]_mergedVars => EndedIsBegun'
  BY EndedStep
<1> QED
  BY <1>1, <1>2, MergedInvAlways, PTL DEF MergedSpec

-----------------------------------------------------------------------------
(* What the invariant says of an answer *)

\* The lists that a request works on.
LEMMA ListedIsOK ==
    ASSUME MergedIInv
    PROVE  ListOK(Listed) /\ (\A list \in Lists : ListOK(list)) /\ now \in Nat
<1>1. ListOK(psa) /\ (cache # None => ListOK(cache.trips)) /\ now \in Nat
  BY DEF MergedIInv, MergedInv, MergedTypeOK
<1>2. ListOK(NoTrips)
  BY NoList DEF NoTrips
<1> QED
  BY <1>1, <1>2 DEF Listed, Lists

\* Each trip joined is in the answer.
LEMMA JoinedIsInAnswer ==
    ASSUME NEW list, ListOK(list), now \in Nat, NEW c, c = Joined(list), NEW k \in DOMAIN c
    PROVE  \E u \in PsaPart(list) : /\ u = FromPsa(HeldOpen(c), k) /\ Summary(u) = Summary(c[k])
                              /\ u.start = c[k].start /\ u.stop = c[k].stop /\ u.km = c[k].km
<1>1. c \in Seq(PsaTrip)
  BY JoinedIsList DEF JoinedUpTo
<1>2. PICK d : d = HeldOpen(c)
  OBVIOUS
<1>3. d = CleanPsaTrips(list)
  BY <1>2 DEF CleanPsaTrips
<1>4. /\ DOMAIN d = DOMAIN c
      /\ d[k].start = c[k].start /\ d[k].stop = c[k].stop /\ d[k].km = c[k].km
  BY <1>1, <1>2, HeldOpenKeeps
<1>5. PICK u : u = FromPsa(d, k)
  OBVIOUS
<1>6. u \in MergedWith(list)
  BY <1>3, <1>4, <1>5 DEF MergedWith
<1>7. u.source = "psa" /\ u.start = d[k].start /\ u.stop = d[k].stop /\ u.km = d[k].km
  BY <1>5 DEF FromPsa
<1> QED
  BY <1>2, <1>4, <1>5, <1>6, <1>7 DEF PsaPart, Summary

\* Each trip of PSA in the answer is one of those joined.
LEMMA AnswerIsJoined ==
    ASSUME NEW list, ListOK(list), now \in Nat, NEW c, c = Joined(list), NEW u \in PsaPart(list)
    PROVE  \E k \in DOMAIN c : /\ u = FromPsa(HeldOpen(c), k)
                               /\ u.start = c[k].start /\ u.stop = c[k].stop /\ u.km = c[k].km
<1>1. u \in MergedWith(list) /\ u.source = "psa"
  BY DEF PsaPart
<1>2. PICK k \in DOMAIN c : u = FromPsa(HeldOpen(c), k) /\ Summary(u) = Summary(c[k])
  BY <1>1, FromPsaIsJoined
<1>3. \A s, t : Summary(s) = Summary(t) => s.start = t.start /\ s.stop = t.stop /\ s.km = t.km
  <2> TAKE s, t
  <2>1. /\ Summary(s).start = s.start /\ Summary(s).stop = s.stop /\ Summary(s).km = s.km
        /\ Summary(t).start = t.start /\ Summary(t).stop = t.stop /\ Summary(t).km = t.km
    BY DEF Summary
  <2> QED
    BY <2>1
<1> QED
  BY <1>2, <1>3

\* clean_psa_trips and get_psa_trips: a trip told to have ended, in a list just asked
\* of PSA, is in every later answer that has PSA's list with the same times and distance,
\* whatever the car does; one told to have ended from an older list, or at the last
\* moment of a restart, begins a trip of each.  Answers of psacc's trips alone, when
\* PSA isn't reached, may come between.
THEOREM ToldTripsStayAlways == MergedSpec => []ToldTripsStay
<1>1. MergedIInv /\ EndedIsBegun => ToldTripsStay
  <2> SUFFICES ASSUME MergedIInv, EndedIsBegun
               PROVE  /\ \A t \in told : \E u \in PsaPart(Listed) : t = Summary(u)
                      /\ \A t \in ended : \E u \in PsaPart(Listed) : Begins(t, u)
    BY DEF ToldTripsStay
  <2>1. ListOK(Listed) /\ now \in Nat
    BY ListedIsOK
  <2>2. PICK c : c = Joined(Listed)
    OBVIOUS
  <2>3. ASSUME NEW t \in told PROVE \E u \in PsaPart(Listed) : t = Summary(u)
    <3>1. PICK k \in DOMAIN c : t = Summary(c[k])
      BY <2>2 DEF MergedIInv, MergedInv, ToldIsClosed, ToldIsCached, Listed
    <3> QED
      BY <2>1, <2>2, <3>1, JoinedIsInAnswer
  <2>4. ASSUME NEW t \in ended PROVE \E u \in PsaPart(Listed) : Begins(t, u)
    <3>1. BegunBy(t, c)
      <4>1. CASE cache # None
        BY <2>2, <4>1 DEF EndedIsBegun, Listed
      <4>2. CASE cache = None
        <5>1. ListOK(psa) /\ Determined(psa) /\ HasNumbers(t) /\ BegunBy(t, Firm)
          BY DEF MergedIInv, MergedInv, MergedTypeOK, HasNumbers, EndedIsBegun
        <5> QED
          BY <2>2, <4>2, <5>1, FirmIsJoined DEF Listed
      <4> QED
        BY <4>1, <4>2
    <3>2. PICK k \in DOMAIN c : Begins(t, c[k])
      BY <3>1 DEF BegunBy
    <3>3. PICK u \in PsaPart(Listed) : u.start = c[k].start /\ u.stop = c[k].stop /\ u.km = c[k].km
      BY <2>1, <2>2, JoinedIsInAnswer
    <3> QED
      BY <3>2, <3>3 DEF Begins
  <2> QED
    BY <2>3, <2>4
<1> QED
  BY <1>1, MergedInvAlways, EndedIsBegunAlways, PTL

\* clean_psa_trips: a trip has the kilometres that the odometer counted from its
\* first part to its last, and no kilometre of PSA is lost or told twice.
THEOREM KilometresAreKeptAlways == MergedSpec => []KilometresAreKept
<1>1. MergedIInv => KilometresAreKept
  <2> SUFFICES ASSUME MergedIInv
               PROVE  KilometresAreKept
    OBVIOUS
  <2>1. ListOK(Listed) /\ now \in Nat
    BY ListedIsOK
  <2>2. PICK list : list = Listed
    OBVIOUS
  <2>3. PICK c : c = Joined(Listed)
    OBVIOUS
  <2>4. list \in Seq(PsaTrip) /\ FollowEachOther(list) /\ JoinedUpTo(Len(list), c, list)
    BY <2>1, <2>2, <2>3, JoinedIsList
  <2>5. /\ \A i \in DOMAIN list : list[i] \in PsaTrip /\ list[i].start <= list[i].stop
        /\ \A i \in 1..Len(list) : i \in DOMAIN list
        /\ c \in Seq(PsaTrip) /\ \A k \in DOMAIN c : c[k] \in PsaTrip /\ k \in Nat
    BY <2>4 DEF FollowEachOther, JoinedUpTo
  <2>6. \A part, trip : part \in PartsOf(trip, Listed) <=>
            part \in Range(list) /\ Moved(part) /\ trip.start <= part.start /\ part.stop <= trip.stop
    BY <2>2 DEF PartsOf
  <2>7. ASSUME NEW t \in PsaPart(Listed)
        PROVE  \E first, last \in PartsOf(t, Listed) :
                  /\ first.start = t.start /\ last.stop = t.stop
                  /\ t.km = last.mileage + last.km - first.mileage
    <3>1. PICK k \in DOMAIN c : t.start = c[k].start /\ t.stop = c[k].stop /\ t.km = c[k].km
      BY <2>1, <2>3, AnswerIsJoined
    <3>2. PICK a \in 1..Len(list), b \in 1..Len(list) : Spans(c[k], list, a, b)
      BY <2>4 DEF JoinedUpTo
    <3>3. PICK first \in PsaTrip, last \in PsaTrip : first = list[a] /\ last = list[b]
      BY <2>5
    <3>4. first \in Range(list) /\ last \in Range(list)
      BY <2>5, <3>3 DEF Range
    <3>5. /\ Moved(first) /\ Moved(last) /\ t.start = first.start /\ t.stop = last.stop
          /\ c[k].mileage = first.mileage /\ c[k].mileage + t.km = last.mileage + last.km
      BY <3>1, <3>2, <3>3 DEF Spans
    <3>6. /\ first.start \in Nat /\ first.stop \in Nat /\ last.start \in Nat /\ last.stop \in Nat
          /\ first.mileage \in Nat /\ last.mileage \in Nat /\ last.km \in Nat /\ t.km \in Nat
      BY <2>5, <3>1, <3>3, TripNumbers
    <3>7. first = last \/ first.stop < last.start
      <4>1. a = b \/ a < b
        BY <3>2 DEF Spans
      <4>2. ASSUME a < b PROVE list[a].stop < list[b].start
        BY <2>4, <2>5, <4>2 DEF FollowEachOther
      <4> QED
        BY <3>3, <4>1, <4>2
    <3>8. first.start <= first.stop /\ last.start <= last.stop
      BY <2>5, <3>3
    <3>9. first.start <= last.start /\ first.stop <= last.stop
      BY <3>6, <3>7, <3>8
    <3>10. first.start <= first.start /\ last.stop <= last.stop
      BY <3>6
    <3>11. first \in PartsOf(t, Listed) /\ last \in PartsOf(t, Listed)
      BY <2>6, <3>4, <3>5, <3>9, <3>10
    <3>12. t.km = last.mileage + last.km - first.mileage
      BY <3>5, <3>6
    <3> QED
      BY <3>5, <3>11, <3>12
  <2>8. ASSUME NEW part \in Range(list), part.km > 0
        PROVE  \E t \in PsaPart(Listed) : \A u \in PsaPart(Listed) : part \in PartsOf(u, Listed) <=> u = t
    <3>1. PICK i \in 1..Len(list) : part = list[i] /\ i \in DOMAIN list
      BY <2>4 DEF Range
    <3>2. Moved(part)
      BY <2>8 DEF Moved
    <3>3. PICK k \in DOMAIN c : c[k].start <= part.start /\ part.stop <= c[k].stop
      BY <2>4, <3>1, <3>2 DEF JoinedUpTo
    <3>4. PICK t \in PsaPart(Listed) : /\ t = FromPsa(HeldOpen(c), k)
                               /\ t.start = c[k].start /\ t.stop = c[k].stop
      BY <2>1, <2>3, JoinedIsInAnswer
    <3>5. part \in PartsOf(t, Listed)
      BY <2>6, <3>2, <3>3, <3>4
    <3>6. ASSUME NEW u \in PsaPart(Listed), part \in PartsOf(u, Listed)
          PROVE  u = t
      <4>1. PICK l \in DOMAIN c : /\ u = FromPsa(HeldOpen(c), l)
                                  /\ u.start = c[l].start /\ u.stop = c[l].stop
        BY <2>1, <2>3, AnswerIsJoined
      <4>2. c[l].start <= part.start /\ part.stop <= c[l].stop
        BY <2>6, <3>6, <4>1
      <4>3. /\ part.start \in Nat /\ part.stop \in Nat /\ part.start <= part.stop
            /\ c[k].start \in Nat /\ c[k].stop \in Nat /\ c[l].start \in Nat /\ c[l].stop \in Nat
        BY <2>5, <3>1, TripNumbers
      <4>4. k < l \/ l < k \/ k = l
        BY <2>5
      <4>5. ~(k < l)
        <5>1. k < l => c[k].stop < c[l].start
          BY <2>4 DEF JoinedUpTo
        <5> QED
          BY <3>3, <4>2, <4>3, <5>1
      <4>6. ~(l < k)
        <5>1. l < k => c[l].stop < c[k].start
          BY <2>4 DEF JoinedUpTo
        <5> QED
          BY <3>3, <4>2, <4>3, <5>1
      <4> QED
        BY <3>4, <4>1, <4>4, <4>5, <4>6
    <3> QED
      BY <3>5, <3>6
  <2> QED
    BY <2>2, <2>7, <2>8 DEF KilometresAreKept
<1> QED
  BY <1>1, MergedInvAlways, PTL

-----------------------------------------------------------------------------
(* Nothing is told twice *)

\* Trips joined are in order; those of psacc overlap none of them, and follow
\* each other.
LEMMA AnswersDontOverlap ==
    ASSUME MergedIInv
    PROVE  TripsDontOverlap
<1> SUFFICES ASSUME NEW list \in Lists
             PROVE  \A a, b \in MergedWith(list) : a # b => a.stop <= b.start \/ b.stop <= a.start
  BY DEF TripsDontOverlap
<1>1. ListOK(list) /\ now \in Nat
  BY ListedIsOK
<1>2. PICK c : c = Joined(list)
  OBVIOUS
<1>3. JoinedUpTo(Len(list), c, list) /\ c \in Seq(PsaTrip)
  BY <1>1, <1>2, JoinedIsList DEF JoinedUpTo
<1>4. own \in Seq(OwnTrip) /\ OwnFollow /\ Tolerance \in Nat
  BY MergedAssumption DEF MergedIInv, MergedInv, MergedTypeOK
<1>5. \A t \in PsaPart(list) : t.start \in Nat /\ t.stop \in Nat
  <2> SUFFICES ASSUME NEW t \in PsaPart(list) PROVE t.start \in Nat /\ t.stop \in Nat
    OBVIOUS
  <2>1. PICK k \in DOMAIN c : t.start = c[k].start /\ t.stop = c[k].stop
    BY <1>1, <1>2, AnswerIsJoined
  <2>2. c[k] \in PsaTrip
    BY <1>3
  <2> QED
    BY <2>1, <2>2, TripNumbers
<1>6. \A t \in MergedWith(list) : t \in PsaPart(list) \/ \E i \in DOMAIN own :
          t = FromOwn(own[i]) /\ \A other \in PsaPart(list) : ~Overlaps(own[i], other)
  <2> SUFFICES ASSUME NEW t \in MergedWith(list), t \notin PsaPart(list)
               PROVE  \E i \in DOMAIN own :
                          t = FromOwn(own[i]) /\ \A other \in PsaPart(list) : ~Overlaps(own[i], other)
    OBVIOUS
  <2> DEFINE cleaned == CleanPsaTrips(list)
             fromPsa == {FromPsa(cleaned, i) : i \in DOMAIN cleaned}
  <2>1. MergedWith(list) =
            fromPsa \cup {FromOwn(o) : o \in {o \in Range(own) : \A other \in fromPsa : ~Overlaps(o, other)}}
    BY DEF MergedWith
  <2>2. PsaPart(list) = fromPsa
    <3>1. \A u \in fromPsa : u.source = "psa"
      BY DEF FromPsa
    <3>2. \A o : FromOwn(o).source = "psacc"
      BY DEF FromOwn
    <3> HIDE DEF fromPsa
    <3> QED
      BY <2>1, <3>1, <3>2 DEF PsaPart
  <2> HIDE DEF fromPsa
  <2>3. PICK o \in Range(own) : t = FromOwn(o) /\ \A other \in fromPsa : ~Overlaps(o, other)
    BY <2>1, <2>2
  <2> QED
    BY <2>2, <2>3 DEF Range
<1>7. \A i \in DOMAIN own : /\ own[i].start \in Nat /\ own[i].stop \in Nat /\ i \in Nat
                            /\ FromOwn(own[i]).start = own[i].start /\ FromOwn(own[i]).stop = own[i].stop
  <2> SUFFICES ASSUME NEW i \in DOMAIN own
               PROVE  /\ own[i].start \in Nat /\ own[i].stop \in Nat /\ i \in Nat
                      /\ FromOwn(own[i]).start = own[i].start /\ FromOwn(own[i]).stop = own[i].stop
    OBVIOUS
  <2>1. own[i] \in OwnTrip /\ i \in Nat
    BY <1>4
  <2> QED
    BY <2>1 DEF OwnTrip, FromOwn
<1>8. ASSUME NEW a \in PsaPart(list), NEW b \in PsaPart(list), a # b
      PROVE  a.stop <= b.start \/ b.stop <= a.start
  <2>1. PICK k \in DOMAIN c : a = FromPsa(HeldOpen(c), k) /\ a.start = c[k].start /\ a.stop = c[k].stop
    BY <1>1, <1>2, AnswerIsJoined
  <2>2. PICK l \in DOMAIN c : b = FromPsa(HeldOpen(c), l) /\ b.start = c[l].start /\ b.stop = c[l].stop
    BY <1>1, <1>2, AnswerIsJoined
  <2>3. k < l \/ l < k
    BY <1>3, <1>8, <2>1, <2>2
  <2>4. c[k].stop < c[l].start \/ c[l].stop < c[k].start
    BY <1>3, <2>3 DEF JoinedUpTo
  <2> QED
    BY <1>5, <2>1, <2>2, <2>4
<1>9. ASSUME NEW a \in PsaPart(list), NEW i \in DOMAIN own, ~Overlaps(own[i], a)
      PROVE  a.stop <= own[i].start \/ own[i].stop <= a.start
  <2>1. /\ a.start \in Nat /\ a.stop \in Nat /\ own[i].start \in Nat /\ own[i].stop \in Nat
    BY <1>5, <1>7
  <2>2. ~(own[i].start <= a.stop + Tolerance) \/ ~(own[i].stop >= a.start - Tolerance)
    BY <1>9 DEF Overlaps
  <2> QED
    BY <1>4, <2>1, <2>2
<1>10. ASSUME NEW i \in DOMAIN own, NEW j \in DOMAIN own, i # j
       PROVE  own[i].stop <= own[j].start \/ own[j].stop <= own[i].start
  BY <1>4, <1>7, <1>10 DEF OwnFollow
<1>11. ASSUME NEW a \in MergedWith(list), NEW b \in MergedWith(list), a # b
       PROVE  a.stop <= b.start \/ b.stop <= a.start
  <2>1. CASE a \in PsaPart(list) /\ b \in PsaPart(list)
    BY <1>8, <1>11, <2>1
  <2>2. CASE a \in PsaPart(list) /\ b \notin PsaPart(list)
    BY <1>6, <1>7, <1>9, <2>2
  <2>3. CASE a \notin PsaPart(list) /\ b \in PsaPart(list)
    BY <1>6, <1>7, <1>9, <2>3
  <2>4. CASE a \notin PsaPart(list) /\ b \notin PsaPart(list)
    BY <1>6, <1>7, <1>10, <1>11, <2>4
  <2> QED
    BY <2>1, <2>2, <2>3, <2>4
<1> QED
  BY <1>11

\* A level at an end and one at a start, each the best of its window: were the
\* one at the end read later, each would lie in the window of the other.
LEMMA WindowsInOrder ==
    ASSUME ReadingsAreFinite, readings \subseteq Reading,
           NEW ends \in SUBSET readings, NEW starts \in SUBSET readings, NEW carAtEnd, NEW carAtStart,
           NEW e, e = Earliest(Preferred(ends, carAtEnd)), e # None,
           NEW s, s = Latest(Preferred(starts, carAtStart)), s # None
    PROVE  /\ e \in ends /\ s \in starts
           /\ e \in starts /\ s \in ends => e.date <= s.date
<1> DEFINE atEnd == Preferred(ends, carAtEnd)
           atStart == Preferred(starts, carAtStart)
<1>1. atEnd \subseteq ends /\ atStart \subseteq starts
  BY DEF Preferred
<1>2. atEnd # {} /\ atStart # {}
  BY DEF Earliest, Latest
<1>3. e \in atEnd /\ \A q \in atEnd : e.date <= q.date
  <2>1. \E r \in atEnd : \A q \in atEnd : r.date <= q.date
    BY <1>1, <1>2 DEF ReadingsAreFinite
  <2> HIDE DEF atEnd
  <2>2. e = CHOOSE r \in atEnd : \A q \in atEnd : r.date <= q.date
    BY <1>2 DEF Earliest, atEnd
  <2> QED
    BY <2>1, <2>2
<1>4. s \in atStart /\ \A q \in atStart : q.date <= s.date
  <2>1. \E r \in atStart : \A q \in atStart : q.date <= r.date
    BY <1>1, <1>2 DEF ReadingsAreFinite
  <2> HIDE DEF atStart
  <2>2. s = CHOOSE r \in atStart : \A q \in atStart : q.date <= r.date
    BY <1>2 DEF Latest, atStart
  <2> QED
    BY <2>1, <2>2
<1>5. e.source \in {"car", "status"} /\ s.source \in {"car", "status"}
  <2>1. e \in Reading /\ s \in Reading
    BY <1>1, <1>3, <1>4
  <2> QED
    BY <2>1 DEF Reading, Source
<1>6. ASSUME e \in starts, s \in ends
      PROVE  e.date <= s.date
  <2>1. CASE s.source = "car"
    <3>1. s \in atEnd
      BY <1>6, <2>1, <1>1, <1>3 DEF Preferred
    <3> QED
      BY <1>3, <3>1
  <2>2. CASE s.source = "status" /\ e.source = "car"
    <3>1. e \in atStart
      BY <1>6, <2>2 DEF Preferred
    <3> QED
      BY <1>4, <3>1
  <2>3. CASE s.source = "status" /\ e.source = "status"
    <3>1. s \in atEnd
      BY <1>3, <1>6, <2>3 DEF Preferred
    <3> QED
      BY <1>3, <3>1
  <2> QED
    BY <1>5, <2>1, <2>2, <2>3
<1> QED
  BY <1>1, <1>3, <1>4, <1>6

\* The windows of the level at an end and of the one at the next start overlap:
\* the order of the sources settles it.
LEMMA AnswersReadInOrder ==
    ASSUME MergedIInv
    PROVE  ReadingsInOrder
<1>1. ListOK(Listed) /\ now \in Nat
  BY ListedIsOK
<1>2. PICK c : c = Joined(Listed)
  OBVIOUS
<1>3. PICK d : d = HeldOpen(c)
  OBVIOUS
<1>4. JoinedUpTo(Len(Listed), c, Listed) /\ c \in Seq(PsaTrip)
  BY <1>1, <1>2, JoinedIsList DEF JoinedUpTo
<1>5. /\ d \in Seq(PsaTrip) /\ DOMAIN d = DOMAIN c /\ Len(d) = Len(c) /\ DOMAIN c = 1..Len(c)
      /\ \A k \in DOMAIN c : d[k].start = c[k].start /\ d[k].stop = c[k].stop
  BY <1>1, <1>3, <1>4, HeldOpenKeeps
<1>6. \A k \in DOMAIN c : d[k].start \in Nat /\ d[k].stop \in Nat /\ d[k].start <= d[k].stop
  BY <1>4, <1>5, TripNumbers DEF JoinedUpTo
<1>7. \A k, l \in DOMAIN c : k < l => d[k].stop < d[l].start
  BY <1>4, <1>5 DEF JoinedUpTo
<1>8. /\ readings \subseteq Reading /\ ReadingsAreFinite
      /\ Tolerance \in Nat /\ EndDelay \in Nat /\ None \notin Nat
      /\ \A r \in readings : r.date \in Nat
  BY MergedAssumption DEF MergedIInv, MergedInv, MergedTypeOK, Reading
<1>9. \A u \in PsaPart(Listed) : \E k \in DOMAIN c : u = FromPsa(d, k)
  BY <1>1, <1>2, <1>3, AnswerIsJoined
<1>10. \A k \in DOMAIN c : FromPsa(d, k) \in PsaPart(Listed)
  BY <1>1, <1>2, <1>3, JoinedIsInAnswer
<1>11. \A k \in DOMAIN c :
          /\ FromPsa(d, k).start = d[k].start /\ FromPsa(d, k).stop = d[k].stop
          /\ FromPsa(d, k).startReading = LastBefore(d[k].start, PreviousStop(d, k), d[k].startMadeUp)
          /\ FromPsa(d, k).endReading = FirstAfter(d[k].stop, EndLimit(d, k), d[k].endMadeUp)
  BY DEF FromPsa
<1>12. ASSUME NEW a \in PsaPart(Listed), NEW b \in PsaPart(Listed), Follows(a, b, PsaPart(Listed)),
              a.endReading # None, b.startReading # None
       PROVE  a.endReading.date <= b.startReading.date
  <2>1. PICK k \in DOMAIN c : a = FromPsa(d, k)
    BY <1>9
  <2>2. PICK l \in DOMAIN c : b = FromPsa(d, l)
    BY <1>9
  <2>3. /\ k # l /\ d[k].stop <= d[l].start
        /\ \A j \in DOMAIN c : d[j].start <= d[k].start \/ d[l].start <= d[j].start
    BY <1>10, <1>11, <1>12, <2>1, <2>2 DEF Follows
  <2>4. k < l
    <3>1. ASSUME l < k PROVE FALSE
      <4>1. d[l].stop < d[k].start
        BY <1>7, <3>1
      <4>2. d[l].start <= d[l].stop /\ d[k].start <= d[k].stop
        BY <1>6
      <4> QED
        BY <1>6, <2>3, <4>1, <4>2
    <3> QED
      BY <1>5, <2>3, <3>1
  <2>5. l = k + 1 /\ k # Len(d) /\ l # 1
    <3>1. ASSUME k + 1 < l PROVE FALSE
      <4>1. PICK j \in DOMAIN c : j = k + 1
        BY <1>5, <3>1
      <4>2. k < j /\ j < l
        BY <1>5, <3>1, <4>1
      <4>3. d[k].stop < d[j].start /\ d[j].stop < d[l].start
        BY <1>7, <4>2
      <4>4. /\ d[k].start \in Nat /\ d[k].stop \in Nat /\ d[j].start \in Nat
            /\ d[j].stop \in Nat /\ d[l].start \in Nat
            /\ d[k].start <= d[k].stop /\ d[j].start <= d[j].stop
        BY <1>6
      <4>5. d[j].start <= d[k].start \/ d[l].start <= d[j].start
        BY <2>3
      <4> QED
        BY <4>3, <4>4, <4>5
    <3> QED
      BY <1>5, <2>4, <3>1
  <2> DEFINE ends == {r \in readings : d[k].stop - Tolerance <= r.date /\ r.date <= EndLimit(d, k)}
             starts == {r \in readings : /\ r.date <= d[l].start + Tolerance
                                         /\ r.date > d[k].stop - Tolerance}
  <2>6. EndLimit(d, k) \in Nat /\ EndLimit(d, k) <= d[l].start
    <3>1. PICK p \in Nat, q \in Nat : p = d[k].stop + EndDelay /\ q = d[l].start
      BY <1>6, <1>8
    <3>2. EndLimit(d, k) = Min({p, q})
      BY <2>5, <3>1 DEF EndLimit
    <3>3. Min({p, q}) \in Nat /\ Min({p, q}) <= q
      <4>1. \E x \in {p, q} : \A y \in {p, q} : x <= y
        OBVIOUS
      <4> QED
        BY <4>1 DEF Min
    <3> QED
      BY <3>1, <3>2, <3>3
  <2>7. PreviousStop(d, l) = d[k].stop /\ d[k].stop # None
    <3>1. l - 1 = k
      BY <1>5, <2>5
    <3> QED
      BY <1>6, <1>8, <2>5, <3>1 DEF PreviousStop
  <2>8. a.endReading = Earliest(Preferred(ends, d[k].endMadeUp))
    BY <1>11, <2>1 DEF FirstAfter
  <2>9. b.startReading = Latest(Preferred(starts, d[l].startMadeUp))
    <3>1. b.startReading = LastBefore(d[l].start, d[k].stop, d[l].startMadeUp)
      BY <1>11, <2>2, <2>7
    <3>2. starts = {r \in readings : /\ r.date <= d[l].start + Tolerance
                                     /\ d[k].stop # None => r.date > d[k].stop - Tolerance}
      BY <2>7
    <3> HIDE DEF starts
    <3> QED
      BY <3>1, <3>2 DEF LastBefore
  <2>10. ends \in SUBSET readings /\ starts \in SUBSET readings
    OBVIOUS
  <2>11. PICK e : e = a.endReading
    OBVIOUS
  <2>12. PICK s : s = b.startReading
    OBVIOUS
  <2>13. /\ e \in ends /\ s \in starts
         /\ e \in starts /\ s \in ends => e.date <= s.date
    <3> HIDE DEF ends, starts
    <3>1. e = Earliest(Preferred(ends, d[k].endMadeUp)) /\ e # None
      BY <1>12, <2>8, <2>11
    <3>2. s = Latest(Preferred(starts, d[l].startMadeUp)) /\ s # None
      BY <1>12, <2>9, <2>12
    <3> QED
      BY <1>8, <2>10, <3>1, <3>2, WindowsInOrder
  <2>14. ASSUME s.date < e.date
         PROVE  e \in starts /\ s \in ends
    <3>1. /\ e.date \in Nat /\ s.date \in Nat /\ e \in readings /\ s \in readings
          /\ d[k].stop \in Nat /\ d[l].start \in Nat
      BY <1>6, <1>8, <2>13
    <3>2. e.date <= EndLimit(d, k) /\ s.date > d[k].stop - Tolerance
      BY <2>13
    <3>3. e.date <= d[l].start + Tolerance /\ e.date > d[k].stop - Tolerance
      BY <1>8, <2>6, <2>14, <3>1, <3>2
    <3>4. d[k].stop - Tolerance <= s.date /\ s.date <= EndLimit(d, k)
      BY <1>8, <2>6, <2>14, <3>1, <3>2
    <3> QED
      BY <3>1, <3>3, <3>4
  <2>15. e.date <= s.date
    <3>1. e.date \in Nat /\ s.date \in Nat
      BY <1>8, <2>13
    <3> HIDE DEF ends, starts
    <3> QED
      BY <2>13, <2>14, <3>1
  <2> QED
    BY <2>11, <2>12, <2>15
<1>13. ASSUME NEW t \in PsaPart(Listed), t.stop - t.start >= 2 * Tolerance,
              t.startReading # None, t.endReading # None
       PROVE  t.startReading.date <= t.endReading.date
  <2>1. PICK k \in DOMAIN c : t = FromPsa(d, k)
    BY <1>9
  <2> DEFINE ends == {r \in readings : d[k].stop - Tolerance <= r.date /\ r.date <= EndLimit(d, k)}
             starts == {r \in readings :
                 /\ r.date <= d[k].start + Tolerance
                 /\ PreviousStop(d, k) # None => r.date > PreviousStop(d, k) - Tolerance}
  <2>2. t.endReading = Earliest(Preferred(ends, d[k].endMadeUp))
    BY <1>11, <2>1 DEF FirstAfter
  <2>3. t.startReading = Latest(Preferred(starts, d[k].startMadeUp))
    BY <1>11, <2>1 DEF LastBefore
  <2>4. ends \in SUBSET readings /\ starts \in SUBSET readings
    OBVIOUS
  <2>5. PICK e : e = t.endReading
    OBVIOUS
  <2>6. PICK s : s = t.startReading
    OBVIOUS
  <2>7. e \in ends /\ s \in starts
    <3> HIDE DEF ends, starts
    <3>1. e = Earliest(Preferred(ends, d[k].endMadeUp)) /\ e # None
      BY <1>13, <2>2, <2>5
    <3>2. s = Latest(Preferred(starts, d[k].startMadeUp)) /\ s # None
      BY <1>13, <2>3, <2>6
    <3> QED
      BY <1>8, <2>4, <3>1, <3>2, WindowsInOrder
  <2>8. d[k].stop - d[k].start >= 2 * Tolerance
    BY <1>11, <1>13, <2>1
  <2>9. /\ d[k].stop - Tolerance <= e.date /\ s.date <= d[k].start + Tolerance
        /\ e.date \in Nat /\ s.date \in Nat
    BY <1>8, <2>7
  <2>10. s.date <= e.date
    BY <1>6, <1>8, <2>8, <2>9
  <2> QED
    BY <2>5, <2>6, <2>10
<1> QED
  BY <1>12, <1>13 DEF ReadingsInOrder

\* MergedTrips.get: no time is told by two trips, whoever saw them, and the level
\* at the end of a trip isn't read after the one at the start of the next: the
\* battery isn't emptied twice.
THEOREM ToldOnceAlways == MergedSpec => []ToldOnce
<1>1. MergedIInv => ToldOnce
  BY AnswersDontOverlap, AnswersReadInOrder DEF ToldOnce
<1> QED
  BY <1>1, MergedInvAlways, PTL
=============================================================================
