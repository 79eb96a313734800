----------------------------- MODULE MergedTrips -----------------------------
(***************************************************************************)
(* The trips of PSA merged with those of psacc (merged_trips.py, and        *)
(* PSAClient.get_psa_trips).                                                *)
(*                                                                         *)
(* PSA closes a trip when the ignition is switched off; merging leaves out  *)
(* the ones without a distance, joins a trip to its restart, gives each the *)
(* battery levels read around it, and adds the trips only psacc saw.  The   *)
(* list of PSA is cached, and asked again while the car goes on; PSA may not*)
(* answer.                                                                  *)
(*                                                                         *)
(* Times are minutes and distances kilometres, as integers.  Of a level,    *)
(* only when and by what it was read is kept; fuel, speed and route are left*)
(* out.                                                                     *)
(***************************************************************************)
EXTENDS Integers, Sequences, FiniteSets, FiniteSetsExt, SequencesExt

CONSTANTS Tolerance,   \* BOUNDARY_TOLERANCE
          JoinGap,     \* MAX_JOIN_GAP
          EndDelay,    \* MAX_END_READING_DELAY
          Ttl,         \* PSA_TRIPS_CACHE_TTL
          None,        \* no list, no reading
          MadeUp,      \* which trips of PSA have levels without a range
          MaxTime,     \* bound: the clock
          MaxKm,       \* bound: the kilometres
          MaxIgnitions, \* bound: the trips of PSA
          MaxRecorded  \* bound: the trips and readings of psacc

ASSUME MergedAssumption ==
    /\ {Tolerance, JoinGap, EndDelay, Ttl, MaxTime, MaxKm, MaxIgnitions, MaxRecorded} \subseteq Nat
    /\ MadeUp \subseteq Nat
    /\ None \notin Nat

VARIABLES
    now,      \* the clock
    odometer, \* the kilometres of the car
    psa,      \* the trips of PSA, in the order of their start (external)
    own,      \* the trips that Trips finds (external)
    readings, \* the levels recorded: the car's own and the status api's (external)
    cache,    \* _psa_trips_cache: the list, and when it was asked
    told,     \* history: the trips of PSA told to have ended in a list just asked
    ended     \* history: those told to have ended in any answer

mergedVars == <<now, odometer, psa, own, readings, cache, told, ended>>

Source == {"car", "status"}

\* MadeUp: PSA gives a level without a range, which only the car's own replaces.
PsaTrip == [start: Nat, stop: Nat, km: Nat, mileage: Nat, done: BOOLEAN,
            startMadeUp: BOOLEAN, endMadeUp: BOOLEAN]

OwnTrip == [start: Nat, stop: Nat]

Reading == [date: Nat, source: Source]

MergedTrip == [start: Nat, stop: Nat, km: Nat \cup {None}, inProgress: BOOLEAN, source: {"psa", "psacc"},
           startReading: Reading \cup {None}, endReading: Reading \cup {None}]

MergedTypeOK ==
    /\ now \in Nat /\ odometer \in Nat
    /\ psa \in Seq(PsaTrip)
    /\ own \in Seq(OwnTrip)
    /\ readings \subseteq Reading
    /\ cache = None \/ cache \in [at: Nat, trips: Seq(PsaTrip)]
    /\ told \cup ended \subseteq [start: Nat, stop: Nat, km: Nat]

MergedInit ==
    /\ now = 0
    /\ odometer = 0
    /\ psa = <<>>
    /\ own = <<>>
    /\ readings = {}
    /\ cache = None
    /\ told = {}
    /\ ended = {}

-----------------------------------------------------------------------------
(* The car *)

Driven == \E i \in DOMAIN psa : ~psa[i].done

\* A list that is too old is never used again: it is forgotten here.
Tick ==
    /\ now < MaxTime
    /\ now' = now + 1
    /\ cache' = IF cache # None /\ now' - cache.at >= Ttl THEN None ELSE cache
    /\ UNCHANGED <<odometer, psa, own, readings, told, ended>>

IgnitionOn ==
    /\ ~Driven
    /\ Len(psa) < MaxIgnitions
    /\ \A i \in DOMAIN psa : psa[i].stop < now
    /\ psa' = Append(psa, [start |-> now, stop |-> now, km |-> 0, mileage |-> odometer,
                           done |-> FALSE, startMadeUp |-> Len(psa) + 1 \in MadeUp,
                           endMadeUp |-> Len(psa) + 1 \in MadeUp])
    /\ UNCHANGED <<now, odometer, own, readings, cache, told, ended>>

\* The car drives; PSA misses it when it has no trip open.
Drive ==
    /\ odometer < MaxKm
    /\ odometer' = odometer + 1
    /\ psa' = IF Driven THEN [psa EXCEPT ![Len(psa)].km = @ + 1, ![Len(psa)].stop = now] ELSE psa
    /\ UNCHANGED <<now, own, readings, cache, told, ended>>

IgnitionOff ==
    /\ Driven
    /\ psa' = [psa EXCEPT ![Len(psa)].done = TRUE, ![Len(psa)].stop = now]
    /\ UNCHANGED <<now, odometer, own, readings, cache, told, ended>>

\* A trip of psacc counts as two readings: it has been polled at both its ends.
Polled == 2 * Len(own) + Cardinality(readings)

\* psacc finds a trip, after its last one.
FindOwn ==
    /\ Polled + 2 <= MaxRecorded
    /\ \E from \in (IF own = <<>> THEN 0 ELSE Last(own).stop)..(now - 1) :
          own' = Append(own, [start |-> from, stop |-> now])
    /\ UNCHANGED <<now, odometer, psa, readings, cache, told, ended>>

Read ==
    /\ Polled < MaxRecorded
    /\ \E source \in Source : readings' = readings \cup {[date |-> now, source |-> source]}
    /\ UNCHANGED <<now, odometer, psa, own, cache, told, ended>>

-----------------------------------------------------------------------------
(* clean_psa_trips *)

Moved(trip) == trip.km > 0 \/ ~trip.done

\* The trip starts soon after the one before, on the same kilometre.
Continues(previous, trip) ==
    /\ trip.start - previous.stop <= JoinGap
    /\ trip.mileage = previous.mileage + previous.km

\* Variant: the distance is that of the last part.
JoinLastDistance(first, second) ==
    [second EXCEPT !.start = first.start, !.mileage = first.mileage, !.startMadeUp = first.startMadeUp]

Join(first, second) ==
    [second EXCEPT !.start = first.start, !.mileage = first.mileage, !.startMadeUp = first.startMadeUp,
                   !.km = first.km + second.km]

\* The trips so far with one more.
WithPsaTrip(cleaned, trip) ==
    IF ~Moved(trip) THEN cleaned
    ELSE IF cleaned # <<>> /\ Continues(Last(cleaned), trip)
    THEN Append(Front(cleaned), Join(Last(cleaned), trip))
    ELSE Append(cleaned, trip)

\* Variant: a trip that may be restarted has ended.
HeldOpenNever(cleaned) == cleaned

\* The last trip is in progress while it may be restarted.
HeldOpen(cleaned) ==
    IF cleaned # <<>> /\ now - Last(cleaned).stop < JoinGap
    THEN [cleaned EXCEPT ![Len(cleaned)].done = FALSE]
    ELSE cleaned

\* The trips after each of PSA's.
Cleaning(trips) ==
    LET cleaned[n \in 0..Len(trips)] ==
            IF n = 0 THEN <<>> ELSE WithPsaTrip(cleaned[n - 1], trips[n])
    IN cleaned

Joined(trips) == Cleaning(trips)[Len(trips)]

CleanPsaTrips(trips) == HeldOpen(Joined(trips))

-----------------------------------------------------------------------------
(* Readings *)

\* The readings between two dates of the source that is preferred among those allowed.
Preferred(between, carOnly) ==
    LET of(source) == {r \in between : r.source = source}
    IN IF of("car") # {} \/ carOnly THEN of("car") ELSE of("status")

Latest(some) == IF some = {} THEN None ELSE CHOOSE r \in some : \A q \in some : q.date <= r.date

Earliest(some) == IF some = {} THEN None ELSE CHOOSE r \in some : \A q \in some : r.date <= q.date

LastBefore(date, notBefore, carOnly) ==
    Latest(Preferred({r \in readings : /\ r.date <= date + Tolerance
                                       /\ notBefore # None => r.date > notBefore - Tolerance}, carOnly))

FirstAfter(date, notAfter, carOnly) ==
    Earliest(Preferred({r \in readings : date - Tolerance <= r.date /\ r.date <= notAfter}, carOnly))

-----------------------------------------------------------------------------
(* MergedTrips *)

PreviousStop(trips, i) == IF i = 1 THEN None ELSE trips[i - 1].stop

\* An end level is read before the next trip, and soon.
EndLimit(trips, i) ==
    IF i = Len(trips) THEN trips[i].stop + EndDelay
    ELSE Min({trips[i].stop + EndDelay, trips[i + 1].start})

FromPsa(trips, i) ==
    [start |-> trips[i].start, stop |-> trips[i].stop, km |-> trips[i].km,
     inProgress |-> ~trips[i].done, source |-> "psa",
     startReading |-> LastBefore(trips[i].start, PreviousStop(trips, i), trips[i].startMadeUp),
     endReading |-> FirstAfter(trips[i].stop, EndLimit(trips, i), trips[i].endMadeUp)]

FromOwn(trip) ==
    [start |-> trip.start, stop |-> trip.stop, km |-> None, inProgress |-> FALSE, source |-> "psacc",
     startReading |-> None, endReading |-> None]

\* Variant: only a trip that starts within the other overlaps it.
StartsWithin(trip, other) == other.start <= trip.start /\ trip.start <= other.stop

Overlaps(trip, other) ==
    /\ trip.start <= other.stop + Tolerance
    /\ trip.stop >= other.start - Tolerance

\* MergedTrips.get: the trips of PSA, and those of psacc that overlap none of
\* them, which are all when PSA can't be reached.
MergedWith(list) ==
    LET cleaned == CleanPsaTrips(list)
        fromPsa == {FromPsa(cleaned, i) : i \in DOMAIN cleaned}
    IN fromPsa \cup {FromOwn(t) : t \in {t \in Range(own) : \A other \in fromPsa : ~Overlaps(t, other)}}

Summary(t) == [start |-> t.start, stop |-> t.stop, km |-> t.km]

\* The trips of PSA that an answer tells to have ended.
Ended(trips) == {t \in trips : t.source = "psa" /\ ~t.inProgress}

\* What is told for good in a list just asked; but for the last moment at which a
\* restart still continues the trip.
ToldForGood(trips) == {t \in Ended(trips) : now # t.stop + JoinGap}

Tell(list) == ended' = ended \cup {Summary(t) : t \in Ended(MergedWith(list))}

\* The list is in the cache.
GetCached ==
    /\ cache # None
    /\ Tell(cache.trips)
    /\ UNCHANGED <<now, odometer, psa, own, readings, cache, told>>

\* PSA is asked, and its list is kept.
GetAsked ==
    /\ cache = None
    /\ cache' = [at |-> now, trips |-> psa]
    /\ told' = told \cup {Summary(t) : t \in ToldForGood(MergedWith(psa))}
    /\ Tell(psa)
    /\ UNCHANGED <<now, odometer, psa, own, readings>>

\* What is cleaned when there is no list.
NoTrips == <<>>

\* Variant: that PSA didn't answer is kept too.
GetUnansweredKept ==
    /\ cache = None
    /\ cache' = [at |-> now, trips |-> NoTrips]
    /\ Tell(NoTrips)
    /\ UNCHANGED <<now, odometer, psa, own, readings, told>>

\* PSA is asked and doesn't answer: no list is kept, and psacc's trips are told alone.
GetUnanswered ==
    /\ cache = None
    /\ Tell(NoTrips)
    /\ UNCHANGED <<now, odometer, psa, own, readings, cache, told>>

MergedNext ==
    \/ Tick \/ IgnitionOn \/ Drive \/ IgnitionOff \/ FindOwn \/ Read
    \/ GetCached \/ GetAsked \/ GetUnanswered

MergedSpec == MergedInit /\ [][MergedNext]_mergedVars

-----------------------------------------------------------------------------

\* get_psa_trips: the list that PSA has given a request, and all it may work on.
Listed == IF cache # None THEN cache.trips ELSE psa

Lists == IF cache # None THEN {cache.trips} ELSE {psa, NoTrips}

PsaPart(list) == {t \in MergedWith(list) : t.source = "psa"}

\* No time is told twice: the trips don't overlap, whoever saw them.
TripsDontOverlap ==
    \A list \in Lists : LET trips == MergedWith(list) IN
        \A a, b \in trips : a # b => a.stop <= b.start \/ b.stop <= a.start

\* The trips of the list that lie within a trip, but for those that went nowhere.
PartsOf(trip, list) ==
    {part \in Range(list) : Moved(part) /\ trip.start <= part.start /\ part.stop <= trip.stop}

\* clean_psa_trips drops and joins: a trip has the kilometres that the odometer
\* counted from the start of its first part to the end of its last, and every
\* kilometre that PSA counted is in one trip.
KilometresAreKept ==
    LET trips == PsaPart(Listed) IN
        /\ \A t \in trips : \E first, last \in PartsOf(t, Listed) :
              /\ first.start = t.start /\ last.stop = t.stop
              /\ t.km = last.mileage + last.km - first.mileage
        /\ \A part \in Range(Listed) :
              part.km > 0 => \E t \in trips : \A u \in trips : part \in PartsOf(u, Listed) <=> u = t

Follows(a, b, trips) ==
    /\ a # b /\ a.stop <= b.start
    /\ \A c \in trips : c.start <= a.start \/ b.start <= c.start

\* The battery isn't emptied twice: the level at the end of a trip isn't read
\* after the one at the start of the next, whatever gave them, and a trip that
\* lasts has them in order.
ReadingsInOrder ==
    LET trips == PsaPart(Listed) IN
    /\ \A a, b \in trips :
          Follows(a, b, trips) /\ a.endReading # None /\ b.startReading # None =>
              a.endReading.date <= b.startReading.date
    /\ \A t \in trips :
          t.stop - t.start >= 2 * Tolerance /\ t.startReading # None /\ t.endReading # None =>
              t.startReading.date <= t.endReading.date

\* Nothing is told twice, neither a time nor the use of the battery.
ToldOnce == TripsDontOverlap /\ ReadingsInOrder

\* A trip is the other, or the first part of it.
Begins(t, u) == t.start = u.start /\ t.stop <= u.stop /\ t.km <= u.km

\* "The last one stays in progress while it may still be restarted"
\* (clean_psa_trips): a trip of PSA that has ended in a list just asked is the
\* same in every answer to come that has a list of PSA, cached or asked; and one
\* told to have ended at any moment, from an older list too, doesn't go: it is
\* there, or its restart has been joined to it.  A request that PSA doesn't
\* answer takes nothing from those after it.
ToldTripsStay ==
    LET trips == PsaPart(Listed) IN
        /\ told \subseteq {Summary(t) : t \in trips}
        /\ \A t \in ended : \E u \in trips : Begins(t, u)
-----------------------------------------------------------------------------
(* The inductive invariant *)

\* PSA's trips follow each other, each begun when the one before was done.
FollowEachOther(list) ==
    /\ \A i \in DOMAIN list : list[i].start <= list[i].stop
    /\ \A i, j \in DOMAIN list : i < j =>
          /\ list[i].done
          /\ list[i].stop < list[j].start
          /\ list[i].mileage + list[i].km <= list[j].mileage

\* A trip joined of those from a to b.
Spans(trip, list, a, b) ==
    /\ a <= b /\ Moved(list[a]) /\ Moved(list[b])
    /\ trip.start = list[a].start /\ trip.mileage = list[a].mileage
    /\ trip.stop = list[b].stop /\ trip.done = list[b].done
    /\ trip.mileage + trip.km = list[b].mileage + list[b].km

\* The first n trips of a list are joined.
JoinedUpTo(n, cleaned, list) ==
    /\ cleaned \in Seq(PsaTrip)
    /\ \A k \in DOMAIN cleaned : cleaned[k].start <= cleaned[k].stop
    /\ \A k, l \in DOMAIN cleaned : k < l => cleaned[k].stop < cleaned[l].start
    /\ \A k \in DOMAIN cleaned : \E a, b \in 1..n : Spans(cleaned[k], list, a, b)
    /\ \A i \in 1..n : Moved(list[i]) =>
          \E k \in DOMAIN cleaned : cleaned[k].start <= list[i].start /\ list[i].stop <= cleaned[k].stop

ListOK(list) ==
    /\ list \in Seq(PsaTrip)
    /\ FollowEachOther(list)
    /\ \A n \in 0..Len(list) : JoinedUpTo(n, Cleaning(list)[n], list)

\* No trip of PSA continues this one any more.
Closed(trip) == now - trip.stop > JoinGap \/ odometer > trip.mileage + trip.km

\* What was told is followed by another trip, or closed.
ToldIsClosed ==
    \A t \in told : \E k \in DOMAIN Joined(psa) :
        /\ t = Summary(Joined(psa)[k])
        /\ k < Len(Joined(psa)) \/ (~Driven /\ Closed(Joined(psa)[k]))

\* What was told is in the cache, if there is one.
ToldIsCached ==
    cache # None => \A t \in told : \E k \in DOMAIN Joined(cache.trips) : t = Summary(Joined(cache.trips)[k])

OwnFollow ==
    /\ \A i \in DOMAIN own : own[i].start <= own[i].stop /\ own[i].stop <= now
    /\ \A i, j \in DOMAIN own : i < j => own[i].stop <= own[j].start

\* Of any readings there are an earliest and a latest.
ReadingsAreFinite ==
    \A some \in (SUBSET readings) \ {{}} :
        /\ \E r \in some : \A q \in some : q.date <= r.date
        /\ \E r \in some : \A q \in some : r.date <= q.date

MergedInv ==
    /\ MergedTypeOK
    /\ ListOK(psa)
    /\ \A i \in DOMAIN psa : psa[i].stop <= now /\ psa[i].mileage + psa[i].km <= odometer
    /\ cache # None => ListOK(cache.trips)
    /\ OwnFollow
    /\ ReadingsAreFinite
    /\ ToldIsClosed
    /\ ToldIsCached

\* The trips joined of those that are done.
Firm == Cleaning(psa)[IF Driven THEN Len(psa) - 1 ELSE Len(psa)]

BegunBy(t, trips) == \E k \in DOMAIN trips : Begins(t, trips[k])

\* What was told to have ended, and what the cache can still tell, begins a trip:
\* the inductive invariant of ended, beside MergedInv.
EndedIsBegun ==
    /\ \A t \in ended : BegunBy(t, Firm)
    /\ cache # None =>
          LET cached == Joined(cache.trips) IN
              /\ \A k \in DOMAIN cached : cached[k].done => BegunBy(cached[k], Firm)
              /\ \A t \in ended : BegunBy(t, cached)
=============================================================================
