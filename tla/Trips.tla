-------------------------------- MODULE Trips --------------------------------
(***************************************************************************)
(* The trips psacc rebuilds from the positions it recorded                  *)
(* (Trips.get_trips, TripParser, Database.record_position).                 *)
(*                                                                         *)
(* Each status of the car adds a position to the table, which drops the     *)
(* middle one of three that show no change.  get_trips reads the table and  *)
(* goes through it with a start, an end and the next position: it cuts at a *)
(* stop, a charge, a refuelling or a silence, and leaves out what isn't     *)
(* plausible.  A step of the model is one turn of that loop.                *)
(*                                                                         *)
(* Times are minutes, distances kilometres and levels percents, as integers.*)
(* There is one car; its route, temperature and altitude are left out.      *)
(***************************************************************************)
EXTENDS Integers, Sequences

CONSTANTS Legs,          \* what may happen between two statuses
          MaxPositions,  \* bound: the positions recorded
          BatteryPower,  \* kWh, 0 without a battery
          FuelCapacity,  \* litres, 0 without a tank
          MaxElec,       \* kWh per 100 km above which a trip is discarded
          MaxFuel,       \* litres per 100 km above which a trip is discarded
          Unknown        \* a level that the status doesn't tell

Level == Int \cup {Unknown}

Position == [time: Nat, mileage: Nat, level: Level, fuel: Level]

\* used and burnt are negative when the car is charged or refuelled; told are the
\* levels that the status tells.
Leg == [minutes: Nat \ {0}, km: Nat, used: Int, burnt: Int, told: SUBSET {"level", "fuel"}]

ASSUME TripsAssumption ==
    /\ Legs \subseteq Leg
    /\ MaxPositions \in Nat
    /\ BatteryPower \in Nat /\ FuelCapacity \in Nat
    /\ MaxElec \in Nat /\ MaxFuel \in Nat
    /\ Unknown \notin Int

VARIABLES
    car,       \* the car at its last status (external)
    count,     \* the statuses recorded
    position,  \* the table, in the order of the timestamps
    at,        \* whether get_trips is in its loop
    res,       \* the rows it read
    end,       \* the row of end, which is x + 2 for the x of the loop
    start,     \* the row of start
    trips,     \* the trips found, as rows
    report     \* the last trips returned, as times, and the time of the last row

table == <<car, count, position>>
loop  == <<at, res, end, start, trips>>
vars  == <<table, loop, report>>

Trip == [from: Nat, to: Nat, inProgress: BOOLEAN]

TypeOK ==
    /\ car \in [time: Nat, mileage: Nat, level: Int, fuel: Int]
    /\ count \in Nat
    /\ position \in Seq(Position)
    /\ at \in {"idle", "loop"}
    /\ res \in Seq(Position)
    /\ end \in Nat
    /\ start \in Nat
    /\ trips \in Seq(Trip)
    /\ report \in [trips: Seq(Trip), last: Nat]

Init ==
    /\ car = [time |-> 0, mileage |-> 1, level |-> 50, fuel |-> 50]
    /\ count = 0
    /\ position = <<>>
    /\ at = "idle"
    /\ res = <<>>
    /\ end = 2
    /\ start = 1
    /\ trips = <<>>
    /\ report = [trips |-> <<>>, last |-> 0]

-----------------------------------------------------------------------------
(* record_position *)

\* Variant: a change of the mileage is overlooked.
SameLevel(a, b) == a.level = b.level

\* Nothing has changed between two positions.
Same(a, b) == a.mileage = b.mileage /\ a.level = b.level

\* clean_position: of the last three, the middle one goes if nothing changed.
Clean(rows) ==
    LET n == Len(rows)
    IN IF n >= 3 /\ Same(rows[n], rows[n - 1]) /\ Same(rows[n - 1], rows[n - 2])
       THEN [i \in 1..(n - 1) |-> IF i = n - 1 THEN rows[n] ELSE rows[i]]
       ELSE rows

\* The status after a leg.  The level is left out when PSA makes it up; a fuel
\* level that isn't told comes as 0, and is kept: 0 fails the test that would
\* have it replaced.
Record ==
    /\ at = "idle"
    /\ count < MaxPositions
    /\ \E leg \in Legs :
          /\ car' = [time    |-> car.time + leg.minutes,
                     mileage |-> car.mileage + leg.km,
                     level   |-> car.level - leg.used,
                     fuel    |-> car.fuel - leg.burnt]
          /\ position' = Clean(Append(position,
                            [car' EXCEPT !.level = IF "level" \in leg.told THEN @ ELSE Unknown,
                                         !.fuel = IF "fuel" \in leg.told THEN @ ELSE 0]))
    /\ count' = count + 1
    /\ UNCHANGED <<loop, report>>

-----------------------------------------------------------------------------
(* TripParser *)

Km(a, b) == b.mileage - a.mileage

Minutes(a, b) == b.time - a.time

\* The percents used between two levels, if both are known.
Spent(a, b) == IF Unknown \in {a, b} THEN 0 ELSE a - b

\* Less than 0.2 km/h, for more than three minutes.
IsLowSpeed(a, b) == Minutes(a, b) > 3 /\ 300 * Km(a, b) < Minutes(a, b)

\* A little gain isn't a charge, if the car has moved.
IsRecharging(a, b) ==
    /\ Spent(a.level, b.level) < -2
    /\ Km(a, b) = 0 \/ Spent(a.level, b.level) < -5

IsRefuel(a, b) ==
    \/ BatteryPower > 0 /\ IsRecharging(a, b)
    \/ FuelCapacity > 0 /\ Spent(a.fuel, b.fuel) < 0

IsStop(a, b) == IsLowSpeed(a, b) \/ IsRefuel(a, b)

IsSilent(a, b) == Minutes(a, b) > 120

-----------------------------------------------------------------------------
(* get_trips *)

\* check_and_append: the consumptions and the speed are not above the limits.
IsPlausible(a, b) ==
    /\ BatteryPower > 0 => Spent(a.level, b.level) * BatteryPower <= MaxElec * Km(a, b)
    /\ FuelCapacity > 0 => Spent(a.fuel, b.fuel) * FuelCapacity <= MaxFuel * Km(a, b)
    /\ 60 * Km(a, b) < 150 * Minutes(a, b)

\* The trips with one more, if the car has moved and it is plausible.
WithTrip(from, to, inProgress) ==
    IF Km(res[from], res[to]) > 0 /\ IsPlausible(res[from], res[to])
    THEN Append(trips, [from |-> from, to |-> to, inProgress |-> inProgress])
    ELSE trips

Begin ==
    /\ at = "idle"
    /\ at' = "loop"
    /\ res' = position
    /\ UNCHANGED <<table, end, start, trips, report>>

InLoop == at = "loop" /\ end < Len(res)

\* Variant: the trip starts again after the next leg.
RestartLate ==
    /\ InLoop
    /\ IsStop(res[start], res[end])
    /\ start' = end + 1
    /\ end' = end + 1
    /\ UNCHANGED <<table, at, res, trips, report>>

\* The car has stood since start: the trip starts again at end.
Restart ==
    /\ InLoop
    /\ IsStop(res[start], res[end])
    /\ start' = end
    /\ end' = end + 1
    /\ UNCHANGED <<table, at, res, trips, report>>

Drives == InLoop /\ ~IsStop(res[start], res[end])

EndsAt(row) == IsStop(res[row], res[row + 1]) \/ IsSilent(res[row], res[row + 1])

\* Variant: the trip ends after the stop.
EndTripLate ==
    /\ Drives
    /\ EndsAt(end)
    /\ trips' = WithTrip(start, end + 1, FALSE)
    /\ start' = end + 1
    /\ end' = end + 1
    /\ UNCHANGED <<table, at, res, report>>

\* Variant: the start isn't moved on.
EndTripOnly ==
    /\ Drives
    /\ EndsAt(end)
    /\ trips' = WithTrip(start, end, FALSE)
    /\ end' = end + 1
    /\ UNCHANGED <<table, at, res, start, report>>

\* The car stops at end: the trip ends there, the next one starts after the stop.
EndTrip ==
    /\ Drives
    /\ EndsAt(end)
    /\ trips' = WithTrip(start, end, FALSE)
    /\ start' = end + 1
    /\ end' = end + 1
    /\ UNCHANGED <<table, at, res, report>>

\* The next row is the last: the trip ends with it, and may be in progress if
\* it is recent.
EndLast ==
    /\ Drives
    /\ ~EndsAt(end)
    /\ end = Len(res) - 1
    /\ \E recent \in BOOLEAN : trips' = WithTrip(start, end + 1, recent)
    /\ start' = end + 1
    /\ end' = end + 1
    /\ UNCHANGED <<table, at, res, report>>

Continue ==
    /\ Drives
    /\ ~EndsAt(end)
    /\ end < Len(res) - 1
    /\ end' = end + 1
    /\ UNCHANGED <<table, at, res, start, trips, report>>

\* The trips as their times.
Timed(found) ==
    [k \in DOMAIN found |-> [found[k] EXCEPT !.from = res[@].time, !.to = res[@].time]]

Return ==
    /\ at = "loop"
    /\ end >= Len(res)
    /\ at' = "idle"
    /\ report' = [trips |-> Timed(trips), last |-> IF res = <<>> THEN 0 ELSE res[Len(res)].time]
    /\ res' = <<>>
    /\ end' = 2
    /\ start' = 1
    /\ trips' = <<>>
    /\ UNCHANGED table

Next == Record \/ Begin \/ Restart \/ EndTrip \/ EndLast \/ Continue \/ Return

Spec == Init /\ [][Next]_vars

-----------------------------------------------------------------------------

Rows(trip) == trip.from..trip.to

\* No kilometre is counted twice: the trips follow each other, each with a
\* distance, and the loop goes on after them.
TripsInOrder ==
    /\ \A k \in DOMAIN trips :
          /\ 1 <= trips[k].from /\ trips[k].from < trips[k].to /\ trips[k].to <= Len(res)
          /\ Km(res[trips[k].from], res[trips[k].to]) > 0
    /\ \A j, k \in DOMAIN trips : j < k => trips[j].to <= trips[k].from

\* No trip has a stop, a charge or a refuelling inside.
NoStopInside ==
    \A k \in DOMAIN trips : \A i \in Rows(trips[k]) \ {trips[k].to} : ~IsStop(res[i], res[i + 1])

\* Only the last trip can be in progress, and it ends on the last position.
OnlyTheLastIsInProgress ==
    \A k \in DOMAIN trips : trips[k].inProgress => k = Len(trips) /\ trips[k].to = Len(res)

\* The legs from start to end have been looked at, except a first one alone.
LegsLookedAt ==
    \A i \in start..(end - 1) : end > start + 1 => ~IsStop(res[i], res[i + 1])

\* The inductive invariant of the loop: the trips found end before start.
IInv ==
    /\ TypeOK
    /\ at = "idle" => trips = <<>> /\ start = 1 /\ end = 2
    /\ 1 <= start /\ start <= end /\ 2 <= end
    /\ end <= 2 \/ end <= Len(res)
    /\ \A k \in DOMAIN trips : trips[k].to <= start
    /\ LegsLookedAt
    /\ TripsInOrder
    /\ NoStopInside
    /\ OnlyTheLastIsInProgress

\* The leg from i to i + 1 is part of a trip, or there is a reason: the car hasn't
\* moved, it is a stop or a silence, it is the last, or it lies in a stretch that
\* taken together is a stop or isn't plausible.
Explained(i) ==
    \/ Km(res[i], res[i + 1]) = 0
    \/ \E k \in DOMAIN trips : i \in Rows(trips[k]) /\ i + 1 \in Rows(trips[k])
    \/ EndsAt(i)
    \/ i = Len(res) - 1
    \/ \E a \in 1..i, b \in (i + 1)..Len(res) : IsStop(res[a], res[b]) \/ ~IsPlausible(res[a], res[b])

\* Every leg on which the car has moved is part of a trip, unless there is a reason.
KilometresHaveATrip ==
    at = "loop" /\ end >= Len(res) => \A i \in 1..(Len(res) - 1) : Explained(i)

\* A car that stands tells its fuel and burns none.
FuelIsSteady == FuelCapacity = 0 \/ \A leg \in Legs : leg.km = 0 => leg.burnt <= 0 /\ "fuel" \in leg.told

\* The trips are found again each time: those that ended before the last
\* position stay as they were returned when positions are added or cleaned, as
\* long as the fuel is steady: a trip that ended at a refuelling which the
\* cleaning takes away goes on.
EndedTripsStay ==
    [][\A k \in DOMAIN report.trips :
          report.trips[k].to < report.last =>
              k \in DOMAIN report'.trips /\ report'.trips[k] = report.trips[k]]_report

-----------------------------------------------------------------------------
(* The inductive invariant behind KilometresHaveATrip *)

Climbs(rows) == \A i, j \in DOMAIN rows : i <= j => rows[i].mileage <= rows[j].mileage

\* The car has gone on since each position.
Passed == \A i \in DOMAIN position : position[i].mileage <= car.mileage

\* The legs before start are explained, and at most one is left when the loop ends.
KmInv ==
    /\ IInv
    /\ Climbs(position) /\ Climbs(res) /\ Passed
    /\ end >= Len(res) => start >= end - 1
    /\ at = "loop" => \A i \in 1..(Len(res) - 1) : i < start => Explained(i)

-----------------------------------------------------------------------------
(* The inductive invariant behind EndedTripsStay *)

\* What a turn makes of the row x from the start and the trips of s.  The trip that
\* ends with the last row is left out.
TurnOf(rows, x, s) ==
    IF IsStop(rows[s.start], rows[x]) THEN [s EXCEPT !.start = x]
    ELSE IF IsStop(rows[x], rows[x + 1]) \/ IsSilent(rows[x], rows[x + 1])
    THEN [start |-> x + 1,
          trips |-> IF Km(rows[s.start], rows[x]) > 0 /\ IsPlausible(rows[s.start], rows[x])
                    THEN Append(s.trips, [from |-> s.start, to |-> x, inProgress |-> FALSE])
                    ELSE s.trips]
    ELSE s

\* The run of the loop over the rows until its end is n.
IsRun(rows, n, run) ==
    /\ run[2] = [start |-> 1, trips |-> <<>>]
    /\ \A x \in 2..(n - 1) : run[x + 1] = TurnOf(rows, x, run[x])

Early(found) == \A k \in DOMAIN found : found[k].from \in 1..(end - 1) /\ found[k].to \in 1..(end - 1)

\* The loop has come to s, with the trip in the last row if it is over.
HasReached(s) ==
    /\ s.trips \in Seq(Trip) /\ Early(s.trips)
    /\ end < Len(res) => s = [start |-> start, trips |-> trips]
    /\ \A k \in DOMAIN trips : trips[k].to < Len(res) => k \in DOMAIN s.trips /\ trips[k] = s.trips[k]

HasRun(run) == IsRun(res, end, run) /\ HasReached(run[end])

\* The last row is the last status, with its fuel if the car stood.
LastIsNow ==
    LET n == Len(position)
    IN /\ n > 0 => position[n].time = car.time /\ position[n].mileage = car.mileage
       /\ n > 1 /\ Km(position[n - 1], position[n]) = 0 /\ FuelCapacity > 0 => position[n].fuel = car.fuel

\* The cleaning may put this row in the place of the last of the old ones.
MayReplace(old, row) ==
    LET n == Len(old)
    IN /\ n > 1 /\ Same(old[n - 1], old[n]) /\ Same(old[n - 1], row)
       /\ old[n].time <= row.time
       /\ FuelCapacity > 0 => old[n].fuel \in Int /\ row.fuel \in Int /\ old[n].fuel <= row.fuel

\* The table has grown from the old one.
GrownFrom(old) ==
    /\ Len(old) <= Len(position)
    /\ \A i \in 1..(Len(old) - 1) : position[i] = old[i]
    /\ old # <<>> => position[Len(old)] = old[Len(old)] \/ MayReplace(old, position[Len(old)])

\* The report tells the trips that a run over the old table found until its end was z.
IsReport(old, z, run) ==
    /\ old \in Seq(Position) /\ z \in Nat /\ z >= 2 /\ (z = Len(old) \/ (z = 2 /\ Len(old) < 2))
    /\ IsRun(old, z, run)
    /\ \A k \in DOMAIN run[z].trips : run[z].trips[k].from \in 1..(z - 1) /\ run[z].trips[k].to \in 1..(z - 1)
    /\ \A k \in DOMAIN report.trips : report.trips[k].to < report.last =>
          /\ k \in DOMAIN run[z].trips
          /\ report.trips[k] = [run[z].trips[k] EXCEPT !.from = old[@].time, !.to = old[@].time]

\* The loop repeats that run until the last row of the old table, and keeps its trips.
Repeats(z, run) ==
    /\ end < z => run[end] = [start |-> start, trips |-> trips]
    /\ end >= z => \A k \in DOMAIN run[z].trips : k \in DOMAIN trips /\ trips[k] = run[z].trips[k]

StayInv ==
    /\ IInv
    /\ LastIsNow
    /\ at = "loop" => res = position
    /\ at = "loop" => \E run : HasRun(run)
    /\ \E old, z, run :
          /\ IsReport(old, z, run)
          /\ GrownFrom(old)
          /\ at = "loop" => Repeats(z, run)
=============================================================================
