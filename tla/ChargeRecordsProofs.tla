------------------------- MODULE ChargeRecordsProofs -------------------------
(***************************************************************************)
(* The charges of a car never overlap while one thread records them, what   *)
(* was set by hand of a charge is kept, no charge is lost by a start of the *)
(* database, whenever it stops, and the page shows the charges as they are  *)
(* unless threads have run side by side.                                    *)
(***************************************************************************)
EXTENDS ChargeRecords, Dashboard, TLAPS

LEMMA InitIInv == Init => IInv
<1> SUFFICES ASSUME Init
             PROVE  IInv
  OBVIOUS
<1>1. DOMAIN NoRows = {}
  BY DEF NoRows
<1>2. TableOK(NoRows)
  BY <1>1 DEF TableOK, NoRows
<1>3. TypeOK
  <2>1. NoEdit \in Editor
    BY DEF NoEdit, Editor, Places, Prices
  <2>2. /\ api \in [date: Nat, charging: BOOLEAN]
        /\ rec \in [Recorders -> Recorder]
        /\ edit \in [Editors -> Editor]
        /\ undone \in BOOLEAN
    BY <2>1 DEF Init, Recorder, Prices
  <2> QED
    BY <1>2, <2>2 DEF Init, TypeOK
<1>4. ChargesDontOverlap
  BY <1>1 DEF Init, ChargesDontOverlap, Follow
<1>5. DOMAIN db = {} /\ DOMAIN saved = {}
  BY <1>1 DEF Init
<1>6. api.date = 0 /\ \A r \in Recorders : rec[r].date = 0 /\ rec[r].at = "idle"
  BY DEF Init
<1>7. ASSUME NEW r \in Recorders
      PROVE  RecorderOK(r)
  <2>1. rec[r].date <= api.date
    BY <1>6
  <2>2. Dated(r, db) /\ Dated(r, saved) /\ Settled(r)
    BY <1>5 DEF Dated, Settled
  <2> QED
    BY <1>6, <2>1, <2>2 DEF RecorderOK
<1> QED
  BY <1>3, <1>4, <1>7 DEF IInv

\* Two tables with the same charges and the same ends.
SameStops(t, u) == DOMAIN t = DOMAIN u /\ \A d \in DOMAIN t : t[d].stop = u[d].stop

\* The tables of a recorder that goes on.
LEMMA RecorderKept ==
    ASSUME IInv, TypeOK', ChargesDontOverlap', OneRecorder,
           \A r \in Recorders : RecorderOK(r)'
    PROVE  IInv'
BY DEF IInv

\* A new row is a row of a table.
LEMMA WithRowOK ==
    ASSUME NEW t, TableOK(t), NEW d \in Nat, NEW row \in Row
    PROVE  /\ TableOK(WithRow(t, d, row))
           /\ DOMAIN WithRow(t, d, row) = DOMAIN t \cup {d}
           /\ \A c \in DOMAIN t : c # d => WithRow(t, d, row)[c] = t[c]
           /\ WithRow(t, d, row)[d] = row
BY DEF WithRow, TableOK

EndedRow(t, d, stop, price, little) ==
    [t EXCEPT ![d].stop = stop, ![d].price = price, ![d].little = little]

\* Ending a charge changes its row only.
LEMMA EndedRowOK ==
    ASSUME NEW t, TableOK(t), NEW d \in DOMAIN t, NEW stop \in Nat, NEW price \in Prices, NEW little \in BOOLEAN
    PROVE  /\ TableOK(EndedRow(t, d, stop, price, little))
           /\ DOMAIN EndedRow(t, d, stop, price, little) = DOMAIN t
           /\ \A c \in DOMAIN t : c # d => EndedRow(t, d, stop, price, little)[c] = t[c]
           /\ EndedRow(t, d, stop, price, little)[d].stop = stop
<1> DEFINE u == EndedRow(t, d, stop, price, little)
<1> USE DEF TableOK, Row
<1>1. /\ u = [c \in DOMAIN u |-> u[c]]
      /\ DOMAIN u = DOMAIN t /\ \A c \in DOMAIN t : c # d => u[c] = t[c]
  BY DEF EndedRow
<1>2. u[d] = [t[d] EXCEPT !.stop = stop, !.price = price, !.little = little]
  BY DEF EndedRow
<1> HIDE DEF u
<1>3. u[d] \in Row /\ u[d].stop = stop
  BY <1>2
<1> QED
  BY <1>1, <1>3 DEF u

EditedRow(t, d, place, price, manual) ==
    [t EXCEPT ![d].place = place, ![d].price = price, ![d].manual = manual]

\* Editing a charge leaves its end alone.
LEMMA EditedRowOK ==
    ASSUME NEW t, TableOK(t), NEW d \in DOMAIN t, NEW place \in Places, NEW price \in Prices, NEW manual \in BOOLEAN
    PROVE  /\ TableOK(EditedRow(t, d, place, price, manual))
           /\ SameStops(EditedRow(t, d, place, price, manual), t)
<1> DEFINE u == EditedRow(t, d, place, price, manual)
<1> USE DEF TableOK, Row, SameStops
<1>1. /\ u = [c \in DOMAIN u |-> u[c]]
      /\ DOMAIN u = DOMAIN t /\ \A c \in DOMAIN t : c # d => u[c] = t[c]
  BY DEF EditedRow
<1>2. u[d] = [t[d] EXCEPT !.place = place, !.price = price, !.manual = manual]
  BY DEF EditedRow
<1> HIDE DEF u
<1>3. u[d] \in Row /\ u[d].stop = t[d].stop
  BY <1>2
<1> QED
  BY <1>1, <1>3 DEF u

\* A charge that starts when all have ended follows them.
LEMMA InsertFollows ==
    ASSUME NEW t, TableOK(t), Follow(t), NEW d \in Nat,
           \A c \in DOMAIN t : t[c].stop # 0 /\ c <= d /\ t[c].stop <= d,
           NEW row \in Row, NEW u, u = WithRow(t, d, row), d \notin DOMAIN t
    PROVE  Follow(u)
<1>1. /\ DOMAIN u = DOMAIN t \cup {d}
      /\ \A c \in DOMAIN t : u[c] = t[c]
  BY WithRowOK
<1>2. DOMAIN t \subseteq Nat
  BY DEF TableOK
<1> QED
  BY <1>1, <1>2 DEF Follow

\* Ending the last charge keeps the others in order.
LEMMA EndFollows ==
    ASSUME NEW t, TableOK(t), Follow(t), NEW d \in DOMAIN t, \A c \in DOMAIN t : c <= d,
           NEW u, DOMAIN u = DOMAIN t, \A c \in DOMAIN t : c # d => u[c] = t[c]
    PROVE  Follow(u)
BY DEF Follow, TableOK

\* The charge read in progress is the last one.
LEMMA LastIsLast ==
    ASSUME NEW t, TableOK(t), Follow(t), NEW d \in DOMAIN t, t[d].stop = 0
    PROVE  \A c \in DOMAIN t : c <= d
BY DEF TableOK, Follow

\* Two tables with the same ends agree on what the invariant says of ends.
LEMMA SameStopsKeep ==
    ASSUME NEW t, NEW u, SameStops(u, t), Follow(t)
    PROVE  Follow(u)
BY DEF SameStops, Follow

-----------------------------------------------------------------------------

\* A step of a recorder that changes where it is and what it read, not the table.
LEMMA GotoOK ==
    ASSUME TypeOK, NEW r \in Recorders, NEW place, Goto(r, place),
           place \in {"idle", "read", "insert", "curve", "end", "ended", "clean", "commit"}
    PROVE  /\ rec' \in [Recorders -> Recorder]
           /\ rec'[r].at = place
           /\ rec'[r].date = rec[r].date
<1>1. rec[r] \in Recorder /\ rec \in [Recorders -> Recorder]
  BY DEF TypeOK
<1>2. PICK f : /\ f = [rec[r] EXCEPT !.at = place, !.start = 0, !.price = "none", !.manual = FALSE]
               /\ rec' = [rec EXCEPT ![r] = f]
  BY <1>1 DEF Goto
<1>3. f \in Recorder /\ f.at = place /\ f.date = rec[r].date
  BY <1>1, <1>2 DEF Recorder, Prices
<1> QED
  BY <1>1, <1>2, <1>3

LEMMA EnvironmentIInv ==
    ASSUME IInv, CarUpdate \/ OtherCommit \/ OtherClose
    PROVE  IInv'
<1> USE DEF IInv
<1>1. CASE CarUpdate
  <2>1. TypeOK'
    BY <1>1 DEF CarUpdate, TypeOK, TableOK
  <2>2. api'.date >= api.date /\ api'.date \in Nat /\ api.date \in Nat
    BY <1>1 DEF CarUpdate, TypeOK
  <2>3. \A r \in Recorders : rec[r].date \in Nat
    BY DEF TypeOK, Recorder
  <2> QED
    BY <1>1, <2>1, <2>2, <2>3 DEF CarUpdate, ChargesDontOverlap, RecorderOK, Dated, Settled
<1>2. CASE OtherCommit
  <2>1. TypeOK'
    BY <1>2 DEF OtherCommit, TypeOK
  <2> QED
    BY <1>2, <2>1 DEF OtherCommit, ChargesDontOverlap, RecorderOK, Dated, Settled
<1>3. CASE OtherClose
  <2>1. TypeOK'
    BY <1>3 DEF OtherClose, TypeOK
  <2>2. \A r \in Recorders : RecorderOK(r)'
    BY <1>3 DEF OtherClose, RecorderOK, Dated, Settled
  <2> QED
    BY <1>3, <2>1, <2>2 DEF OtherClose, ChargesDontOverlap
<1> QED
  BY <1>1, <1>2, <1>3

-----------------------------------------------------------------------------

LEMMA FetchIInv ==
    ASSUME IInv, OneRecorder, NEW r \in Recorders, Fetch(r)
    PROVE  IInv'
<1> USE DEF IInv
<1>1. TypeOK'
  <2>1. api.date \in Nat /\ api.charging \in BOOLEAN
    BY DEF TypeOK
  <2>2. rec' = [rec EXCEPT ![r] = [rec[r] EXCEPT !.at = "read", !.date = api.date, !.charging = api.charging]]
    BY DEF Fetch, TypeOK
  <2>3. [rec[r] EXCEPT !.at = "read", !.date = api.date, !.charging = api.charging]
            \in Recorder
    BY <2>1 DEF TypeOK, Recorder
  <2> QED
    BY <2>2, <2>3 DEF Fetch, TypeOK
<1>2. rec'[r].at = "read" /\ rec'[r].date = api.date
  BY DEF Fetch, TypeOK, Recorder
<1>3. api.date \in Nat /\ rec[r].date \in Nat /\ rec[r].date <= api.date /\ rec[r].at = "idle"
  BY DEF Fetch, TypeOK, RecorderOK, Recorder
<1>4. Dated(r, db)'
  <2>1. \A d \in DOMAIN db : d \in Nat /\ db[d].stop \in Nat
    BY DEF TypeOK, TableOK, Row
  <2>2. \A d \in DOMAIN db : d <= rec[r].date /\ db[d].stop <= rec[r].date
    BY DEF RecorderOK, Dated
  <2>3. \A d \in DOMAIN db : d <= api.date /\ db[d].stop <= api.date
    BY <1>3, <2>1, <2>2
  <2> QED
    BY <1>2, <2>3 DEF Fetch, Dated
<1>5. Dated(r, saved)'
  <2>1. \A d \in DOMAIN saved : d \in Nat /\ saved[d].stop \in Nat
    BY DEF TypeOK, TableOK, Row
  <2>2. \A d \in DOMAIN saved : d <= rec[r].date /\ saved[d].stop <= rec[r].date
    BY DEF RecorderOK, Dated
  <2>3. \A d \in DOMAIN saved : d <= api.date /\ saved[d].stop <= api.date
    BY <1>3, <2>1, <2>2
  <2> QED
    BY <1>2, <2>3 DEF Fetch, Dated
<1>6. Settled(r)'
  BY <1>3 DEF Fetch, RecorderOK, Settled
<1>7. RecorderOK(r)'
  BY <1>2, <1>3, <1>4, <1>5, <1>6 DEF Fetch, RecorderOK
<1> QED
  BY <1>1, <1>7 DEF Fetch, ChargesDontOverlap, OneRecorder

\* A recorder that only moves, to a place that asks for nothing.
LEMMA MoveIInv ==
    ASSUME IInv, OneRecorder, NEW r \in Recorders, UNCHANGED <<api, db, saved, edit, undone>>,
           NEW place \in {"idle", "curve", "commit", "clean"}, Goto(r, place), rec[r].at \notin {"ended", "commit"}
    PROVE  IInv'
<1> USE DEF IInv
<1>1. rec'[r].at = place /\ rec'[r].date = rec[r].date
  BY GotoOK
<1>2. TypeOK'
  BY GotoOK DEF TypeOK
<1>3. RecorderOK(r)'
  BY <1>1 DEF RecorderOK, Dated, Settled
<1> QED
  BY <1>2, <1>3 DEF ChargesDontOverlap, OneRecorder

LEMMA ReadLastEndedIInv ==
    ASSUME IInv, OneRecorder, NEW r \in Recorders, ReadLastEnded(r)
    PROVE  IInv'
<1> USE DEF IInv
<1>1. CASE ~rec[r].charging
  BY <1>1, MoveIInv DEF ReadLastEnded
<1>2. CASE rec[r].charging
  <2>1. rec'[r].at = "insert" /\ rec'[r].date = rec[r].date
    BY <1>2, GotoOK DEF ReadLastEnded
  <2>2. TypeOK'
    BY <1>2, GotoOK DEF ReadLastEnded, TypeOK
  <2>3. \A d \in DOMAIN db : db[d].stop # 0
    <3> SUFFICES ASSUME NEW d \in DOMAIN db, db[d].stop = 0
                 PROVE  FALSE
      OBVIOUS
    <3>1. IsLast(db, d)
      BY LastIsLast DEF TypeOK, ChargesDontOverlap, IsLast
    <3> QED
      BY <3>1 DEF ReadLastEnded
  <2>4. RecorderOK(r)'
    BY <2>1, <2>3 DEF ReadLastEnded, RecorderOK, Dated, Settled
  <2> QED
    BY <2>2, <2>4 DEF ReadLastEnded, ChargesDontOverlap, OneRecorder
<1> QED
  BY <1>1, <1>2

LEMMA ReadLastOpenIInv ==
    ASSUME IInv, OneRecorder, NEW r \in Recorders, ReadLastOpen(r)
    PROVE  IInv'
<1> USE DEF IInv
<1>1. CASE rec[r].charging
  BY <1>1, MoveIInv DEF ReadLastOpen
<1>2. CASE ~rec[r].charging
  <2> PICK last \in DOMAIN db :
          /\ IsLast(db, last)
          /\ db[last].stop = 0
          /\ rec' = [rec EXCEPT ![r].at = "end", ![r].start = last,
                                ![r].price = db[last].price, ![r].manual = db[last].manual]
    BY <1>2 DEF ReadLastOpen
  <2>1. last \in DOMAIN db /\ \A c \in DOMAIN db : c <= last
    BY DEF IsLast
  <2>2. last \in Nat /\ db[last] \in Row
    BY <2>1 DEF TypeOK, TableOK
  <2>3. PICK f : /\ f = [rec[r] EXCEPT !.at = "end", !.start = last,
                                       !.price = db[last].price, !.manual = db[last].manual]
                 /\ rec' = [rec EXCEPT ![r] = f]
    BY DEF TypeOK
  <2>4. f \in Recorder /\ f.at = "end" /\ f.date = rec[r].date /\ f.start = last
    BY <2>2, <2>3 DEF TypeOK, Row, Recorder
  <2>5. rec' \in [Recorders -> Recorder]
    <3>1. rec \in [Recorders -> Recorder]
      BY DEF TypeOK
    <3> QED
      BY <2>3, <2>4, <3>1
  <2>6. rec'[r].at = "end" /\ rec'[r].date = rec[r].date /\ rec'[r].start = last
    BY <2>3, <2>4 DEF TypeOK
  <2>7. UNCHANGED <<api, db, saved, edit, undone>>
    BY DEF ReadLastOpen
  <2>8. RecorderOK(r)'
    BY <2>1, <2>6 DEF ReadLastOpen, RecorderOK, Dated, Settled
  <2> QED
    BY <2>5, <2>7, <2>8 DEF TypeOK, ChargesDontOverlap, OneRecorder
<1> QED
  BY <1>1, <1>2

LEMMA InsertIInv ==
    ASSUME IInv, OneRecorder, NEW r \in Recorders, Insert(r)
    PROVE  IInv'
<1> USE DEF IInv
<1> DEFINE row == [stop |-> 0, price |-> "none", manual |-> FALSE, place |-> "home", little |-> FALSE]
           d   == rec[r].date
<1>1. rec'[r].at = "curve" /\ rec'[r].date = d /\ rec' \in [Recorders -> Recorder]
  BY GotoOK DEF Insert
<1>2. CASE d \in DOMAIN db
  <2>1. db' = db
    BY <1>2 DEF Insert
  <2>2. RecorderOK(r)'
    BY <1>1, <2>1 DEF Insert, RecorderOK, Dated, Settled
  <2> QED
    BY <1>1, <2>1, <2>2 DEF Insert, TypeOK, ChargesDontOverlap, OneRecorder
<1>3. CASE d \notin DOMAIN db
  <2>1. row \in Row /\ d \in Nat /\ row.stop = 0
    BY DEF TypeOK, Recorder, Row, Prices, Places
  <2>2. db' = WithRow(db, d, row)
    BY <1>3 DEF Insert
  <2> HIDE DEF row, d
  <2>3. /\ TableOK(db')
        /\ DOMAIN db' = DOMAIN db \cup {d}
        /\ \A c \in DOMAIN db : c # d => db'[c] = db[c]
        /\ db'[d].stop = 0
    <3>1. TableOK(db)
      BY DEF TypeOK
    <3>2. /\ TableOK(WithRow(db, d, row))
          /\ DOMAIN WithRow(db, d, row) = DOMAIN db \cup {d}
          /\ \A c \in DOMAIN db : c # d => WithRow(db, d, row)[c] = db[c]
          /\ WithRow(db, d, row)[d] = row
      BY <2>1, <3>1, WithRowOK
    <3> QED
      BY <2>1, <2>2, <3>2
  <2>4. \A c \in DOMAIN db : db[c].stop # 0 /\ c <= d /\ db[c].stop <= d
    BY DEF Insert, RecorderOK, Dated, d
  <2>5. Follow(db')
    BY <1>3, <2>1, <2>2, <2>4, InsertFollows DEF TypeOK, ChargesDontOverlap
  <2>6. Dated(r, db)'
    BY <1>1, <2>1, <2>3, <2>4 DEF Dated
  <2>7. Settled(r)'
    BY <1>1, <1>3, <2>3 DEF Insert, RecorderOK, Settled
  <2>8. RecorderOK(r)'
    BY <1>1, <2>6, <2>7 DEF Insert, RecorderOK, Dated, d
  <2> QED
    BY <1>1, <2>3, <2>5, <2>8 DEF Insert, TypeOK, ChargesDontOverlap, OneRecorder
<1> QED
  BY <1>2, <1>3

LEMMA EndIInv ==
    ASSUME IInv, OneRecorder, NEW r \in Recorders, End(r)
    PROVE  IInv'
<1> USE DEF IInv
<1> DEFINE s == rec[r].start
           d == rec[r].date
<1>1. rec'[r].at = "ended" /\ rec'[r].date = d /\ rec' \in [Recorders -> Recorder]
  BY GotoOK DEF End
<1>2. Settled(r)'
  BY <1>1 DEF Settled
<1>3. CASE s \notin DOMAIN db
  <2>1. db' = db
    BY <1>3 DEF End
  <2>2. RecorderOK(r)'
    BY <1>1, <1>2, <2>1 DEF End, RecorderOK, Dated
  <2> QED
    BY <1>1, <2>1, <2>2 DEF End, TypeOK, ChargesDontOverlap, OneRecorder
<1>4. CASE s \in DOMAIN db
  <2>1. d \in Nat /\ Estimated(rec[r].price, rec[r].manual) \in Prices
    BY DEF TypeOK, Recorder, Estimated, Prices
  <2>2. PICK little \in BOOLEAN :
            db' = [db EXCEPT ![s].stop = d, ![s].price = Estimated(rec[r].price, rec[r].manual), ![s].little = little]
    BY <1>4 DEF End
  <2>3. /\ TableOK(db')
        /\ DOMAIN db' = DOMAIN db
        /\ \A c \in DOMAIN db : c # s => db'[c] = db[c]
        /\ db'[s].stop = d
    <3> HIDE DEF s, d
    <3>1. TableOK(db)
      BY DEF TypeOK
    <3>2. PICK price \in Prices : price = Estimated(rec[r].price, rec[r].manual)
      BY <2>1
    <3>3. /\ TableOK(EndedRow(db, s, d, price, little))
          /\ DOMAIN EndedRow(db, s, d, price, little) = DOMAIN db
          /\ \A c \in DOMAIN db : c # s => EndedRow(db, s, d, price, little)[c] = db[c]
          /\ EndedRow(db, s, d, price, little)[s].stop = d
      BY <1>4, <2>1, <3>1, EndedRowOK
    <3>4. db' = EndedRow(db, s, d, price, little)
      BY <2>2, <3>2 DEF EndedRow
    <3> QED
      BY <3>3, <3>4
  <2>4. \A c \in DOMAIN db : c <= s
    BY DEF End, RecorderOK
  <2>5. Follow(db')
    BY <1>4, <2>3, <2>4, EndFollows DEF TypeOK, ChargesDontOverlap
  <2>6. Dated(r, db)'
    BY <1>1, <2>1, <2>3 DEF RecorderOK, Dated
  <2>7. RecorderOK(r)'
    BY <1>1, <1>2, <2>6 DEF End, RecorderOK, Dated
  <2> QED
    BY <1>1, <2>3, <2>5, <2>7 DEF End, TypeOK, ChargesDontOverlap, OneRecorder
<1> QED
  BY <1>3, <1>4

LEMMA EndRefusedIInv ==
    ASSUME IInv, OneRecorder, NEW r \in Recorders, EndRefused(r)
    PROVE  IInv'
<1> USE DEF IInv
<1>1. rec'[r].at = "clean" /\ rec'[r].date = rec[r].date /\ rec' \in [Recorders -> Recorder]
  BY GotoOK DEF EndRefused
<1>2. RecorderOK(r)'
  BY <1>1 DEF EndRefused, RecorderOK, Dated, Settled
<1> QED
  BY <1>1, <1>2 DEF EndRefused, TypeOK, ChargesDontOverlap, OneRecorder

\* A commit saves the table as it is.
LEMMA CommitIInv ==
    ASSUME IInv, OneRecorder, NEW r \in Recorders, EndCommit(r) \/ Commit(r)
    PROVE  IInv'
<1> USE DEF IInv
<1>1. rec'[r].at \in {"clean", "idle"} /\ rec'[r].date = rec[r].date /\ rec' \in [Recorders -> Recorder]
  BY GotoOK DEF EndCommit, Commit
<1>2. RecorderOK(r)'
  BY <1>1 DEF EndCommit, Commit, RecorderOK, Dated, Settled
<1> QED
  BY <1>1, <1>2 DEF EndCommit, Commit, TypeOK, ChargesDontOverlap, OneRecorder

LEMMA CleanIInv ==
    ASSUME IInv, OneRecorder, NEW r \in Recorders, Clean(r)
    PROVE  IInv'
<1> USE DEF IInv
<1>1. rec'[r].at = "commit" /\ rec'[r].date = rec[r].date /\ rec' \in [Recorders -> Recorder]
  BY GotoOK DEF Clean
<1>2. DOMAIN db' \subseteq DOMAIN db /\ \A d \in DOMAIN db' : db'[d] = db[d]
  BY DEF Clean
<1>3. TableOK(db')
  <2>1. db' = [d \in DOMAIN db' |-> db'[d]]
    BY DEF Clean
  <2> QED
    BY <1>2, <2>1 DEF TypeOK, TableOK
<1>4. Follow(db')
  BY <1>2 DEF ChargesDontOverlap, Follow
<1>5. RecorderOK(r)'
  BY <1>1, <1>2 DEF Clean, RecorderOK, Dated, Settled
<1> QED
  BY <1>1, <1>3, <1>4, <1>5 DEF Clean, TypeOK, ChargesDontOverlap, OneRecorder

LEMMA RecordIInv ==
    ASSUME IInv, OneRecorder, NEW r \in Recorders, Record(r)
    PROVE  IInv'
<1>1. CASE Curve(r) \/ RecordRaises(r)
  BY <1>1, MoveIInv DEF Curve, RecordRaises
<1> QED
  BY <1>1, FetchIInv, ReadLastEndedIInv, ReadLastOpenIInv, InsertIInv, EndIInv, EndRefusedIInv, CommitIInv,
     CleanIInv DEF Record

-----------------------------------------------------------------------------

\* What an editor read, it writes to a row it does not end.
LEMMA EditIInv ==
    ASSUME IInv, OneRecorder, NEW e \in Editors, Edit(e)
    PROVE  IInv'
<1> USE DEF IInv
<1>1. CASE EditRead(e)
  <2>1. PICK f : edit' = [edit EXCEPT ![e] = f] /\ f \in Editor
    <3>1. PICK d \in DOMAIN db, keys \in SUBSET {"place", "price"}, place \in Places, price \in {"none", "bill"} :
              LET manual == IF "price" \in keys THEN price = "bill" ELSE db[d].manual IN
              /\ db[d].stop # 0
              /\ edit' = [edit EXCEPT ![e] =
                         [at     |-> "write",
                          start  |-> d,
                          keys   |-> keys,
                          place  |-> IF "place" \in keys THEN place ELSE db[d].place,
                          price  |-> Estimated(IF "price" \in keys THEN price ELSE db[d].price, manual),
                          manual |-> manual]]
      BY <1>1 DEF EditRead
    <3> DEFINE manual == IF "price" \in keys THEN price = "bill" ELSE db[d].manual
               f == [at     |-> "write",
                     start  |-> d,
                     keys   |-> keys,
                     place  |-> IF "place" \in keys THEN place ELSE db[d].place,
                     price  |-> Estimated(IF "price" \in keys THEN price ELSE db[d].price, manual),
                     manual |-> manual]
    <3>2. d \in Nat /\ db[d] \in Row
      BY DEF TypeOK, TableOK
    <3>3. manual \in BOOLEAN
      BY <3>2 DEF Row
    <3> HIDE DEF manual
    <3>4. Estimated(IF "price" \in keys THEN price ELSE db[d].price, manual) \in Prices
      BY <3>2, <3>3 DEF Estimated, Row, Prices
    <3>5. f \in Editor
      BY <3>2, <3>3, <3>4 DEF Editor, Row
    <3> QED
      BY <3>1, <3>5 DEF manual
  <2>2. TypeOK'
    BY <1>1, <2>1 DEF EditRead, TypeOK
  <2> QED
    BY <1>1, <2>2 DEF EditRead, ChargesDontOverlap, RecorderOK, Dated, Settled
<1>2. CASE EditWrite(e)
  <2>1. TableOK(db') /\ SameStops(db', db)
    <3>1. CASE edit[e].start \notin DOMAIN db
      BY <1>2, <3>1 DEF EditWrite, TypeOK, SameStops
    <3>2. CASE edit[e].start \in DOMAIN db
      <4>1. edit[e].place \in Places /\ edit[e].price \in Prices /\ edit[e].manual \in BOOLEAN
        BY DEF TypeOK, Editor
      <4>2. TableOK(db)
        BY DEF TypeOK
      <4>3. PICK d, place, price, manual : d = edit[e].start /\ place = edit[e].place
                                           /\ price = edit[e].price /\ manual = edit[e].manual
        OBVIOUS
      <4>4. TableOK(EditedRow(db, d, place, price, manual)) /\ SameStops(EditedRow(db, d, place, price, manual), db)
        BY <3>2, <4>1, <4>2, <4>3, EditedRowOK
      <4>5. db' = EditedRow(db, d, place, price, manual)
        BY <1>2, <3>2, <4>3 DEF EditWrite, EditedRow
      <4> QED
        BY <4>4, <4>5
    <3> QED
      BY <3>1, <3>2
  <2>2. edit' \in [Editors -> Editor]
    BY <1>2 DEF EditWrite, TypeOK, Editor
  <2>3. TypeOK'
    BY <1>2, <2>1, <2>2 DEF EditWrite, TypeOK
  <2>4. Follow(db')
    BY <2>1, SameStopsKeep DEF ChargesDontOverlap
  <2>5. ASSUME NEW r \in Recorders
        PROVE  RecorderOK(r)'
    <3>1. DOMAIN db' = DOMAIN db /\ \A d \in DOMAIN db : db'[d].stop = db[d].stop
      BY <2>1 DEF SameStops
    <3>2. RecorderOK(r)
      OBVIOUS
    <3>3. Dated(r, db)'
      BY <1>2, <3>1, <3>2 DEF EditWrite, RecorderOK, Dated
    <3>4. Settled(r)'
      BY <1>2, <3>1, <3>2 DEF EditWrite, RecorderOK, Settled
    <3> QED
      BY <1>2, <3>1, <3>2, <3>3, <3>4 DEF EditWrite, RecorderOK, Dated
  <2> QED
    BY <1>2, <2>3, <2>4, <2>5 DEF EditWrite, ChargesDontOverlap
<1>3. CASE EditCommit(e)
  <2>1. TypeOK'
    <3>1. NoEdit \in Editor
      BY DEF NoEdit, Editor, Places, Prices
    <3> QED
      BY <1>3, <3>1 DEF EditCommit, TypeOK
  <2> QED
    BY <1>3, <2>1 DEF EditCommit, ChargesDontOverlap, RecorderOK, Dated, Settled
<1> QED
  BY <1>1, <1>2, <1>3 DEF Edit

LEMMA NextIInv == OneRecorder /\ IInv /\ [Next]_vars => IInv'
<1> SUFFICES ASSUME OneRecorder, IInv, [Next]_vars
             PROVE  IInv'
  OBVIOUS
<1>1. CASE UNCHANGED vars
  BY <1>1 DEF vars, IInv, TypeOK, ChargesDontOverlap, RecorderOK, Dated, Settled
<1> QED
  BY <1>1, EnvironmentIInv, RecordIInv, EditIInv DEF Next

\* With one recorder, whatever the other threads commit and roll back, the
\* invariant holds: record_charging inserts only after the last charge ended.
THEOREM IInvAlways == OneRecorder /\ Spec => []IInv
<1>1. OneRecorder /\ IInv /\ [Next]_vars => IInv'
  BY NextIInv
<1>2. CASE OneRecorder
  BY <1>1, <1>2, InitIInv, PTL DEF Spec
<1> QED
  BY <1>2

\* With one recorder the charges of a car never overlap and at most the last is
\* in progress, in what the threads see and in what is saved.
THEOREM ChargesDontOverlapAlways == OneRecorder /\ Spec => []ChargesDontOverlap
<1>1. IInv => ChargesDontOverlap
  BY DEF IInv
<1> QED
  BY <1>1, IInvAlways, PTL

-----------------------------------------------------------------------------
(* The details set by hand are kept. *)

LEMMA BillInit == Init => BillInv
<1> SUFFICES ASSUME Init PROVE BillInv
  OBVIOUS
<1>1. IInv
  BY InitIInv
<1>2. DOMAIN db = {} /\ DOMAIN saved = {}
  BY DEF Init, NoRows
<1>3. /\ \A r \in Recorders : rec[r].at = "idle"
      /\ \A e \in Editors : edit[e].at = "idle"
  BY DEF Init, NoEdit
<1> QED
  BY <1>1, <1>2, <1>3 DEF BillInv, EndsLater, Billed, Ending, Editing, EditsThePast

\* The types of what the proofs compare.
LEMMA Dates ==
    ASSUME TypeOK
    PROVE  /\ \A d \in DOMAIN db : d \in Nat /\ db[d].stop \in Nat
           /\ \A d \in DOMAIN saved : d \in Nat /\ saved[d].stop \in Nat
           /\ \A r \in Recorders : rec[r].date \in Nat
           /\ \A e \in Editors : edit[e].start \in Nat
           /\ api.date \in Nat
BY DEF TypeOK, TableOK, Row, Recorder, Editor

\* A step of a recorder that leaves the tables alone.
LEMMA QuietRecorder ==
    ASSUME BillInv, IInv', OneRecorder, NEW r \in Recorders,
           UNCHANGED <<db, saved, edit, undone>>,
           rec[r].date <= rec'[r].date,
           ~undone => Ending(r)'
    PROVE  BillInv'
<1>1. EndsLater(db)' /\ EndsLater(saved)'
  BY DEF BillInv, EndsLater
<1>2. EditsThePast'
  <2>1. \A e \in Editors : edit[e].at = "write" => edit[e].start < rec[r].date
    BY DEF BillInv, EditsThePast
  <2>2. rec[r].date \in Nat /\ rec'[r].date \in Nat /\ \A e \in Editors : edit[e].start \in Nat
    BY Dates DEF BillInv, IInv, TypeOK, Recorder
  <2>3. \A e \in Editors : edit[e].at = "write" => edit[e].start < rec'[r].date
    BY <2>1, <2>2
  <2> QED
    BY <2>3 DEF EditsThePast, OneRecorder
<1>3. ASSUME ~undone'
      PROVE  /\ Billed(db)' /\ Billed(saved)'
             /\ \A q \in Recorders : Ending(q)'
             /\ \A e \in Editors : Editing(e)'
  BY <1>3 DEF BillInv, Billed, Editing, OneRecorder
<1> QED
  BY <1>1, <1>2, <1>3 DEF BillInv

\* A step that leaves the recorders alone, but for the table.
LEMMA QuietEditors ==
    ASSUME BillInv, IInv', UNCHANGED <<rec, edit>>,
           EndsLater(db)' /\ EndsLater(saved)',
           ~undone' => /\ Billed(db)' /\ Billed(saved)'
                       /\ \A r \in Recorders : Ending(r)'
                       /\ \A e \in Editors : Editing(e)'
    PROVE  BillInv'
<1>1. EditsThePast'
  BY DEF BillInv, EditsThePast
<1> QED
  BY <1>1 DEF BillInv

LEMMA EnvironmentBill ==
    ASSUME BillInv, CarUpdate \/ OtherCommit \/ OtherClose
    PROVE  BillInv'
<1>1. IInv'
  BY EnvironmentIInv DEF BillInv
<1>2. CASE CarUpdate
  BY <1>1, <1>2, QuietEditors DEF CarUpdate, BillInv, EndsLater, Billed, Ending, Editing
<1>3. CASE OtherCommit
  BY <1>1, <1>3, QuietEditors DEF OtherCommit, BillInv, EndsLater, Billed, Ending, Editing
<1>4. CASE OtherClose
  <2>1. UNCHANGED <<rec, edit>> /\ EndsLater(db)' /\ EndsLater(saved)'
    BY <1>4 DEF OtherClose, BillInv, EndsLater
  <2>2. ~undone' => ~undone /\ UNCHANGED <<db, saved>>
    BY <1>4 DEF OtherClose
  <2> QED
    BY <1>1, <2>1, <2>2, QuietEditors DEF BillInv, Billed, Ending, Editing
<1> QED
  BY <1>2, <1>3, <1>4

LEMMA FetchBill ==
    ASSUME BillInv, OneRecorder, NEW r \in Recorders, Fetch(r)
    PROVE  BillInv'
<1>1. IInv'
  BY FetchIInv DEF BillInv
<1>2. rec'[r].at = "read" /\ rec'[r].date = api.date
  BY DEF Fetch, TypeOK, Recorder, BillInv, IInv
<1>3. rec[r].date <= api.date
  BY DEF BillInv, IInv, RecorderOK
<1> QED
  BY <1>1, <1>2, <1>3, QuietRecorder DEF Fetch, Ending

\* A step that only moves a recorder, not to the end of a charge.
LEMMA MoveBill ==
    ASSUME BillInv, IInv', OneRecorder, NEW r \in Recorders, NEW place, Goto(r, place),
           place \in {"idle", "read", "insert", "curve", "ended", "clean", "commit"},
           UNCHANGED <<db, saved, edit, undone>>
    PROVE  BillInv'
<1>1. rec'[r].at = place /\ rec'[r].date = rec[r].date
  BY GotoOK DEF BillInv, IInv
<1>2. rec[r].date <= rec'[r].date
  BY <1>1, Dates DEF BillInv, IInv
<1> QED
  BY <1>1, <1>2, QuietRecorder DEF Ending

\* The charge read is in progress: nobody has set its price.
LEMMA ReadLastOpenBill ==
    ASSUME BillInv, OneRecorder, NEW r \in Recorders, ReadLastOpen(r)
    PROVE  BillInv'
<1>1. IInv' /\ TypeOK
  BY ReadLastOpenIInv DEF BillInv, IInv
<1>2. CASE rec[r].charging
  BY <1>1, <1>2, MoveBill DEF ReadLastOpen
<1>3. CASE ~rec[r].charging
  <2>1. PICK last \in DOMAIN db :
            /\ db[last].stop = 0
            /\ rec' = [rec EXCEPT ![r].at = "end", ![r].start = last,
                                  ![r].price = db[last].price, ![r].manual = db[last].manual]
    BY <1>3 DEF ReadLastOpen
  <2>2. rec'[r].start = last /\ rec'[r].manual = db[last].manual /\ rec'[r].date = rec[r].date
    BY <1>1, <2>1 DEF TypeOK, Recorder
  <2>3. UNCHANGED <<db, saved, edit, undone>>
    BY DEF ReadLastOpen
  <2>4. ~undone => Ending(r)'
    <3>1. db[last].manual \in BOOLEAN
      BY <1>1 DEF TypeOK, TableOK, Row
    <3>2. ~undone => ~db[last].manual
      BY <2>1, <3>1 DEF BillInv, Billed
    <3> QED
      BY <2>1, <2>2, <2>3, <3>2 DEF Ending
  <2>5. rec[r].date <= rec'[r].date
    BY <1>1, <2>2, Dates
  <2> QED
    BY <1>1, <2>3, <2>4, <2>5, QuietRecorder
<1> QED
  BY <1>2, <1>3

\* What a step of a recorder that changes a table has to show.
LEMMA TableStep ==
    ASSUME BillInv, IInv', OneRecorder, NEW r \in Recorders, NEW place, Goto(r, place),
           place \in {"curve", "ended", "clean", "commit", "idle"},
           UNCHANGED <<edit, undone>>,
           EndsLater(db)' /\ EndsLater(saved)',
           ~undone => Billed(db)' /\ Billed(saved)' /\ \A e \in Editors : Editing(e)'
    PROVE  BillInv'
<1>1. rec'[r].at = place /\ rec'[r].date = rec[r].date
  BY GotoOK DEF BillInv, IInv
<1>2. EditsThePast'
  BY <1>1 DEF BillInv, EditsThePast, OneRecorder
<1>3. \A q \in Recorders : Ending(q)'
  BY <1>1 DEF Ending, OneRecorder
<1> QED
  BY <1>2, <1>3 DEF BillInv

\* The charge that starts is none of those being edited: it is later.
LEMMA InsertBill ==
    ASSUME BillInv, OneRecorder, NEW r \in Recorders, Insert(r)
    PROVE  BillInv'
<1>1. IInv' /\ TypeOK
  BY InsertIInv DEF BillInv, IInv
<1>2. CASE rec[r].date \in DOMAIN db
  BY <1>1, <1>2, MoveBill DEF Insert
<1>3. CASE rec[r].date \notin DOMAIN db
  <2> DEFINE row == [stop |-> 0, price |-> "none", manual |-> FALSE, place |-> "home", little |-> FALSE]
             d   == rec[r].date
  <2>1. row \in Row /\ d \in Nat /\ row.stop = 0 /\ row.manual = FALSE
    BY <1>1 DEF TypeOK, Recorder, Row, Prices, Places
  <2>2. db' = WithRow(db, d, row)
    BY <1>3 DEF Insert
  <2>3. Goto(r, "curve") /\ UNCHANGED <<saved, edit, undone>>
    BY DEF Insert
  <2>4. \A e \in Editors : edit[e].at = "write" => edit[e].start # d
    BY <2>1, Dates, <1>1 DEF BillInv, EditsThePast
  <2> HIDE DEF row, d
  <2>5. /\ DOMAIN db' = DOMAIN db \cup {d}
        /\ \A c \in DOMAIN db : c # d => db'[c] = db[c]
        /\ db'[d].stop = 0 /\ ~db'[d].manual
    <3>1. db' = [c \in DOMAIN db \cup {d} |-> IF c = d THEN row ELSE db[c]]
      BY <2>2 DEF WithRow
    <3>2. DOMAIN db' = DOMAIN db \cup {d} /\ db'[d] = row /\ \A c \in DOMAIN db : c # d => db'[c] = db[c]
      BY <3>1
    <3> QED
      BY <2>1, <3>2
  <2>6. EndsLater(db)' /\ EndsLater(saved)'
    BY <2>3, <2>5 DEF BillInv, EndsLater
  <2>7. ~undone => Billed(db)' /\ Billed(saved)'
    BY <2>3, <2>5 DEF BillInv, Billed
  <2>8. ~undone => \A e \in Editors : Editing(e)'
    BY <2>3, <2>4, <2>5 DEF BillInv, Editing
  <2> QED
    BY <1>1, <2>3, <2>6, <2>7, <2>8, TableStep
<1> QED
  BY <1>2, <1>3

\* What ending a charge leaves of its row.
LEMMA EndedRowKeeps ==
    ASSUME NEW t, TableOK(t), NEW d \in DOMAIN t, NEW stop, NEW price, NEW little
    PROVE  /\ DOMAIN EndedRow(t, d, stop, price, little) = DOMAIN t
           /\ \A c \in DOMAIN t : c # d => EndedRow(t, d, stop, price, little)[c] = t[c]
           /\ EndedRow(t, d, stop, price, little)[d].stop = stop
           /\ EndedRow(t, d, stop, price, little)[d].manual = t[d].manual
           /\ EndedRow(t, d, stop, price, little)[d].place = t[d].place
<1> DEFINE u == EndedRow(t, d, stop, price, little)
<1>1. DOMAIN u = DOMAIN t /\ \A c \in DOMAIN t : c # d => u[c] = t[c]
  BY DEF EndedRow, TableOK
<1>2. u[d] = [t[d] EXCEPT !.stop = stop, !.price = price, !.little = little]
  BY DEF EndedRow, TableOK
<1>3. t[d] \in Row
  BY DEF TableOK
<1> HIDE DEF u
<1>4. u[d].stop = stop /\ u[d].manual = t[d].manual /\ u[d].place = t[d].place
  BY <1>2, <1>3 DEF Row
<1> QED
  BY <1>1, <1>4 DEF u

\* The end of a charge changes its stop, price and size, and no other charge.
LEMMA EndEffect ==
    ASSUME IInv, NEW r \in Recorders, End(r), rec[r].start \in DOMAIN db
    PROVE  /\ DOMAIN db' = DOMAIN db
           /\ \A c \in DOMAIN db : c # rec[r].start => db'[c] = db[c]
           /\ db'[rec[r].start].stop = rec[r].date
           /\ db'[rec[r].start].manual = db[rec[r].start].manual
           /\ db'[rec[r].start].place = db[rec[r].start].place
           /\ rec[r].start < rec[r].date
<1>0. PICK little \in BOOLEAN :
          db' = [db EXCEPT ![rec[r].start].stop = rec[r].date,
                           ![rec[r].start].price = Estimated(rec[r].price, rec[r].manual),
                           ![rec[r].start].little = little]
  BY DEF End
<1>1. PICK s, stop, price :
          /\ s = rec[r].start /\ stop = rec[r].date
          /\ price = Estimated(rec[r].price, rec[r].manual)
  OBVIOUS
<1>2. db' = EndedRow(db, s, stop, price, little)
  BY <1>0, <1>1 DEF EndedRow
<1>3. TableOK(db) /\ s \in DOMAIN db
  BY <1>1 DEF IInv, TypeOK
<1>4. rec[r].start < rec[r].date
  BY Dates DEF End, IInv
<1> QED
  BY <1>1, <1>2, <1>3, <1>4, EndedRowKeeps

LEMMA EndBill ==
    ASSUME BillInv, OneRecorder, NEW r \in Recorders, End(r)
    PROVE  BillInv'
<1>1. IInv' /\ IInv /\ TypeOK
  BY EndIInv DEF BillInv, IInv
<1>2. Goto(r, "ended") /\ UNCHANGED <<saved, edit, undone>> /\ rec[r].at = "end"
  BY DEF End
<1>3. CASE rec[r].start \notin DOMAIN db
  <2>1. db' = db
    BY <1>3 DEF End
  <2> QED
    BY <1>1, <1>2, <2>1, MoveBill
<1>4. CASE rec[r].start \in DOMAIN db
  <2>1. PICK s : s = rec[r].start
    OBVIOUS
  <2>2. /\ s \in DOMAIN db /\ DOMAIN db' = DOMAIN db
        /\ \A c \in DOMAIN db : c # s => db'[c] = db[c]
        /\ db'[s].manual = db[s].manual /\ db'[s].stop = rec[r].date /\ s < rec[r].date
    BY <1>1, <1>4, <2>1, EndEffect
  <2>3. EndsLater(db)' /\ EndsLater(saved)'
    BY <1>2, <2>2 DEF BillInv, EndsLater
  <2>4. ~undone => ~db[s].manual
    BY <1>2, <2>1, <2>2 DEF BillInv, Ending, Billed
  <2>5. ~undone => Billed(db)' /\ Billed(saved)'
    BY <1>2, <2>2, <2>4 DEF BillInv, Billed
  <2>6. s \in Nat /\ rec[r].date \in Nat
    BY <1>1, <2>2, Dates
  <2>7. ~undone => \A e \in Editors : Editing(e)'
    BY <1>2, <2>2, <2>6 DEF BillInv, Editing
  <2> QED
    BY <1>1, <1>2, <2>3, <2>5, <2>7, TableStep
<1> QED
  BY <1>3, <1>4

\* What is taken back was not ended in the table saved, nor has an end there
\* that the other does not have.
LEMMA EndRefusedBill ==
    ASSUME BillInv, OneRecorder, NEW r \in Recorders, EndRefused(r)
    PROVE  BillInv'
<1>1. IInv' /\ IInv
  BY EndRefusedIInv DEF BillInv
<1>2. Goto(r, "clean") /\ db' = saved /\ UNCHANGED <<saved, edit, undone>> /\ rec[r].at = "end"
  BY DEF EndRefused
<1>3. \A d \in DOMAIN saved : d \in DOMAIN db /\ db[d].stop = saved[d].stop
  BY <1>1, <1>2 DEF IInv, RecorderOK, Settled
<1>4. EndsLater(db)' /\ EndsLater(saved)'
  BY <1>2 DEF BillInv, EndsLater
<1>5. ~undone => Billed(db)' /\ Billed(saved)'
  BY <1>2 DEF BillInv, Billed
<1>6. ~undone => \A e \in Editors : Editing(e)'
  BY <1>2, <1>3 DEF BillInv, Editing
<1> QED
  BY <1>1, <1>2, <1>4, <1>5, <1>6, TableStep

LEMMA CommitBill ==
    ASSUME BillInv, OneRecorder, NEW r \in Recorders, EndCommit(r) \/ Commit(r)
    PROVE  BillInv'
<1>1. IInv'
  BY CommitIInv DEF BillInv
<1>2. PICK place \in {"clean", "idle"} : Goto(r, place)
  BY DEF EndCommit, Commit
<1>3. saved' = db /\ UNCHANGED <<db, edit, undone>>
  BY DEF EndCommit, Commit
<1>4. EndsLater(db)' /\ EndsLater(saved)'
  BY <1>3 DEF BillInv, EndsLater
<1>5. ~undone => Billed(db)' /\ Billed(saved)' /\ \A e \in Editors : Editing(e)'
  BY <1>3 DEF BillInv, Billed, Editing
<1> QED
  BY <1>1, <1>2, <1>3, <1>4, <1>5, TableStep

LEMMA CleanBill ==
    ASSUME BillInv, OneRecorder, NEW r \in Recorders, Clean(r)
    PROVE  BillInv'
<1>1. IInv'
  BY CleanIInv DEF BillInv
<1>2. Goto(r, "commit") /\ UNCHANGED <<saved, edit, undone>>
  BY DEF Clean
<1>3. DOMAIN db' \subseteq DOMAIN db /\ \A d \in DOMAIN db' : db'[d] = db[d]
  BY DEF Clean
<1>4. EndsLater(db)' /\ EndsLater(saved)'
  BY <1>2, <1>3 DEF BillInv, EndsLater
<1>5. ~undone => Billed(db)' /\ Billed(saved)' /\ \A e \in Editors : Editing(e)'
  BY <1>2, <1>3 DEF BillInv, Billed, Editing
<1> QED
  BY <1>1, <1>2, <1>4, <1>5, TableStep

LEMMA RecordBill ==
    ASSUME BillInv, OneRecorder, NEW r \in Recorders, Record(r)
    PROVE  BillInv'
<1>1. IInv'
  BY RecordIInv DEF BillInv
<1>2. CASE ReadLastEnded(r)
  BY <1>1, <1>2, MoveBill DEF ReadLastEnded
<1>3. CASE Curve(r)
  BY <1>1, <1>3, MoveBill DEF Curve
<1>4. CASE RecordRaises(r)
  BY <1>1, <1>4, MoveBill DEF RecordRaises
<1> QED
  BY <1>2, <1>3, <1>4, FetchBill, ReadLastOpenBill, InsertBill, EndBill, EndRefusedBill, CommitBill, CleanBill
     DEF Record

\* What an editor holds of the charge it read.
LEMMA EditReadEffect ==
    ASSUME TypeOK, NEW e \in Editors, EditRead(e)
    PROVE  /\ edit'[e].at = "write"
           /\ edit'[e].start \in DOMAIN db /\ db[edit'[e].start].stop # 0
           /\ "place" \notin edit'[e].keys => edit'[e].place = db[edit'[e].start].place
           /\ "price" \notin edit'[e].keys => edit'[e].manual = db[edit'[e].start].manual
           /\ edit'[e].manual /\ edit'[e].price # "bill" =>
                  edit'[e].price = db[edit'[e].start].price /\ db[edit'[e].start].manual
           /\ \A f \in Editors : f # e => edit'[f] = edit[f]
<1>1. PICK d \in DOMAIN db, keys \in SUBSET {"place", "price"}, place \in Places, price \in {"none", "bill"} :
          LET manual == IF "price" \in keys THEN price = "bill" ELSE db[d].manual IN
          /\ db[d].stop # 0
          /\ edit' = [edit EXCEPT ![e] =
                     [at     |-> "write",
                      start  |-> d,
                      keys   |-> keys,
                      place  |-> IF "place" \in keys THEN place ELSE db[d].place,
                      price  |-> Estimated(IF "price" \in keys THEN price ELSE db[d].price, manual),
                      manual |-> manual]]
  BY DEF EditRead
<1> DEFINE manual == IF "price" \in keys THEN price = "bill" ELSE db[d].manual
           f == [at     |-> "write",
                 start  |-> d,
                 keys   |-> keys,
                 place  |-> IF "place" \in keys THEN place ELSE db[d].place,
                 price  |-> Estimated(IF "price" \in keys THEN price ELSE db[d].price, manual),
                 manual |-> manual]
<1>2. /\ f.at = "write" /\ f.start = d /\ f.keys = keys
      /\ "place" \notin keys => f.place = db[d].place
      /\ "price" \notin keys => f.manual = db[d].manual
  OBVIOUS
<1>3. f.manual => f.price = "bill" \/ (f.price = db[d].price /\ db[d].manual)
  BY DEF Estimated
<1>4. edit' = [edit EXCEPT ![e] = f]
  BY <1>1
<1> HIDE DEF f
<1>5. edit'[e] = f /\ \A g \in Editors : g # e => edit'[g] = edit[g]
  BY <1>4 DEF TypeOK
<1> QED
  BY <1>1, <1>2, <1>3, <1>5

\* What an editor writes: the details of one charge, not its end.
LEMMA EditWriteEffect ==
    ASSUME TypeOK, NEW e \in Editors, EditWrite(e)
    PROVE  /\ edit'[e].at = "commit" /\ \A f \in Editors : f # e => edit'[f] = edit[f]
           /\ DOMAIN db' = DOMAIN db /\ \A d \in DOMAIN db : db'[d].stop = db[d].stop
           /\ \A d \in DOMAIN db : d # edit[e].start => db'[d] = db[d]
           /\ edit[e].start \in DOMAIN db =>
                  /\ db'[edit[e].start].place = edit[e].place
                  /\ db'[edit[e].start].price = edit[e].price
                  /\ db'[edit[e].start].manual = edit[e].manual
<1>1. edit' = [edit EXCEPT ![e] = [edit[e] EXCEPT !.at = "commit"]] /\ edit[e] \in Editor
  BY DEF EditWrite, TypeOK
<1>2. edit'[e].at = "commit" /\ \A f \in Editors : f # e => edit'[f] = edit[f]
  BY <1>1 DEF TypeOK, Editor
<1>3. CASE edit[e].start \notin DOMAIN db
  BY <1>2, <1>3 DEF EditWrite
<1>4. CASE edit[e].start \in DOMAIN db
  <2>1. PICK d, place, price, manual : d = edit[e].start /\ place = edit[e].place
                                       /\ price = edit[e].price /\ manual = edit[e].manual
    OBVIOUS
  <2>2. db' = [db EXCEPT ![d].place = place, ![d].price = price, ![d].manual = manual]
    BY <1>4, <2>1 DEF EditWrite
  <2>3. d \in DOMAIN db /\ db[d] \in Row /\ db \in [DOMAIN db -> Row]
    BY <1>4, <2>1 DEF TypeOK, TableOK
  <2>4. DOMAIN db' = DOMAIN db /\ \A c \in DOMAIN db : c # d => db'[c] = db[c]
    BY <2>2, <2>3
  <2>5. db'[d] = [db[d] EXCEPT !.place = place, !.price = price, !.manual = manual]
    BY <2>2, <2>3
  <2>6. db'[d].place = place /\ db'[d].price = price /\ db'[d].manual = manual /\ db'[d].stop = db[d].stop
    BY <2>3, <2>5 DEF Row
  <2> QED
    BY <1>2, <2>1, <2>3, <2>4, <2>6
<1> QED
  BY <1>3, <1>4

LEMMA EditCommitEffect ==
    ASSUME TypeOK, NEW e \in Editors, EditCommit(e)
    PROVE  /\ edit'[e].at = "idle" /\ edit[e].at = "commit"
           /\ \A f \in Editors : f # e => edit'[f] = edit[f]
           /\ saved' = db /\ UNCHANGED <<db, rec, undone>>
BY DEF EditCommit, TypeOK, NoEdit

LEMMA EditReadBill ==
    ASSUME BillInv, OneRecorder, NEW e \in Editors, EditRead(e)
    PROVE  BillInv'
<1>1. IInv' /\ TypeOK
  BY EditIInv DEF BillInv, IInv, Edit
<1>2. UNCHANGED <<db, saved, rec, undone>>
  BY DEF EditRead
<1>3. PICK d : d = edit'[e].start
  OBVIOUS
<1>4. /\ edit'[e].at = "write" /\ d \in DOMAIN db /\ db[d].stop # 0
      /\ edit'[e].manual => edit'[e].price = "bill" \/ (edit'[e].price = db[d].price /\ db[d].manual)
      /\ \A f \in Editors : f # e => edit'[f] = edit[f]
  BY <1>1, <1>3, EditReadEffect
<1>5. EndsLater(db)' /\ EndsLater(saved)'
  BY <1>2 DEF BillInv, EndsLater
<1>6. \A r \in Recorders : d < rec[r].date
  <2>1. d < db[d].stop
    BY <1>4 DEF BillInv, EndsLater
  <2>2. \A r \in Recorders : db[d].stop <= rec[r].date
    BY <1>4 DEF BillInv, IInv, RecorderOK, Dated
  <2> QED
    BY <1>1, <1>4, <2>1, <2>2, Dates
<1>7. EditsThePast'
  BY <1>2, <1>3, <1>4, <1>6 DEF BillInv, EditsThePast
<1>8. ASSUME ~undone'
      PROVE  /\ Billed(db)' /\ Billed(saved)'
             /\ \A r \in Recorders : Ending(r)'
             /\ \A f \in Editors : Editing(f)'
  <2>1. Billed(db) /\ Billed(saved) /\ (\A r \in Recorders : Ending(r)) /\ \A f \in Editors : Editing(f)
    BY <1>2, <1>8 DEF BillInv
  <2>2. edit'[e].manual => edit'[e].price = "bill"
    BY <1>4, <2>1 DEF Billed
  <2>3. Editing(e)'
    BY <1>2, <1>3, <1>4, <2>2 DEF Editing
  <2>4. \A f \in Editors : f # e => Editing(f)'
    BY <1>2, <1>4, <2>1 DEF Editing
  <2> QED
    BY <1>2, <2>1, <2>3, <2>4 DEF Billed, Ending
<1> QED
  BY <1>1, <1>5, <1>7, <1>8 DEF BillInv

LEMMA EditWriteBill ==
    ASSUME BillInv, OneRecorder, NEW e \in Editors, EditWrite(e)
    PROVE  BillInv'
<1>1. IInv' /\ TypeOK
  BY EditIInv DEF BillInv, IInv, Edit
<1>2. UNCHANGED <<saved, rec, undone>> /\ edit[e].at = "write"
  BY DEF EditWrite
<1>3. PICK s : s = edit[e].start
  OBVIOUS
<1>4. /\ edit'[e].at = "commit" /\ \A f \in Editors : f # e => edit'[f] = edit[f]
      /\ DOMAIN db' = DOMAIN db /\ \A d \in DOMAIN db : db'[d].stop = db[d].stop
      /\ \A d \in DOMAIN db : d # s => db'[d] = db[d]
      /\ s \in DOMAIN db => db'[s].price = edit[e].price /\ db'[s].manual = edit[e].manual
  BY <1>1, <1>3, EditWriteEffect
<1>5. EndsLater(db)' /\ EndsLater(saved)'
  BY <1>2, <1>4 DEF BillInv, EndsLater
<1>6. EditsThePast'
  BY <1>2, <1>4 DEF BillInv, EditsThePast
<1>7. ASSUME ~undone'
      PROVE  /\ Billed(db)' /\ Billed(saved)'
             /\ \A r \in Recorders : Ending(r)'
             /\ \A f \in Editors : Editing(f)'
  <2>1. Billed(db) /\ Billed(saved) /\ (\A r \in Recorders : Ending(r)) /\ \A f \in Editors : Editing(f)
    BY <1>2, <1>7 DEF BillInv
  <2>2. ASSUME NEW d \in DOMAIN db', db'[d].manual PROVE db'[d].price = "bill" /\ db'[d].stop # 0
    <3>1. CASE d = s
      BY <1>2, <1>3, <1>4, <2>1, <2>2, <3>1 DEF Editing
    <3>2. CASE d # s
      BY <1>4, <2>1, <2>2, <3>2 DEF Billed
    <3> QED
      BY <3>1, <3>2
  <2>3. Billed(db)' /\ Billed(saved)'
    BY <1>2, <2>1, <2>2 DEF Billed
  <2>4. \A f \in Editors : Editing(f)'
    BY <1>4, <2>1 DEF Editing
  <2>5. \A r \in Recorders : Ending(r)'
    BY <1>2, <1>4, <2>1 DEF Ending
  <2> QED
    BY <2>3, <2>4, <2>5
<1> QED
  BY <1>1, <1>5, <1>6, <1>7 DEF BillInv

LEMMA EditCommitBill ==
    ASSUME BillInv, OneRecorder, NEW e \in Editors, EditCommit(e)
    PROVE  BillInv'
<1>1. IInv' /\ TypeOK
  BY EditIInv DEF BillInv, IInv, Edit
<1>2. /\ edit'[e].at = "idle" /\ \A f \in Editors : f # e => edit'[f] = edit[f]
      /\ saved' = db /\ UNCHANGED <<db, rec, undone>>
  BY <1>1, EditCommitEffect
<1>3. EndsLater(db)' /\ EndsLater(saved)'
  BY <1>2 DEF BillInv, EndsLater
<1>4. EditsThePast'
  BY <1>2 DEF BillInv, EditsThePast
<1>5. ASSUME ~undone'
      PROVE  /\ Billed(db)' /\ Billed(saved)'
             /\ \A r \in Recorders : Ending(r)'
             /\ \A f \in Editors : Editing(f)'
  <2>1. Billed(db) /\ (\A r \in Recorders : Ending(r)) /\ \A f \in Editors : Editing(f)
    BY <1>2, <1>5 DEF BillInv
  <2>2. \A f \in Editors : Editing(f)'
    BY <1>2, <2>1 DEF Editing
  <2> QED
    BY <1>2, <2>1, <2>2 DEF Billed, Ending
<1> QED
  BY <1>1, <1>3, <1>4, <1>5 DEF BillInv

LEMMA NextBill == OneRecorder /\ BillInv /\ [Next]_vars => BillInv'
<1> SUFFICES ASSUME OneRecorder, BillInv, [Next]_vars
             PROVE  BillInv'
  OBVIOUS
<1>1. CASE UNCHANGED vars
  <2>1. IInv' /\ UNCHANGED <<db, saved, rec, edit, undone>>
    BY <1>1, NextIInv DEF BillInv, vars
  <2> QED
    BY <2>1, QuietEditors DEF BillInv, EndsLater, Billed, Ending, Editing
<1> QED
  BY <1>1, EnvironmentBill, RecordBill, EditReadBill, EditWriteBill, EditCommitBill DEF Next, Edit

\* With one recorder and any number of editors, a price marked as set by hand is
\* that of the bill, as long as no thread takes back what isn't committed.
THEOREM ManualPriceAlways == OneRecorder /\ Spec => []ManualPriceIsTheBill
<1>1. OneRecorder /\ BillInv /\ [Next]_vars => BillInv'
  BY NextBill
<1>2. BillInv => ManualPriceIsTheBill
  BY DEF BillInv, Billed, ManualPriceIsTheBill
<1>3. CASE OneRecorder
  BY <1>1, <1>2, <1>3, BillInit, PTL DEF Spec
<1> QED
  BY <1>3

\* A step that keeps the places and the marks of the rows, and drops no edit.
LEMMA KeysKept ==
    ASSUME KeysInv, BillInv', UNCHANGED edit,
           ~undone' =>
               /\ DOMAIN db' \subseteq DOMAIN db
               /\ \A d \in DOMAIN db' : db'[d].place = db[d].place /\ db'[d].manual = db[d].manual,
           saved' \in {saved, db, db'}, ~undone' => ~undone
    PROVE  KeysInv'
<1> SUFFICES ASSUME ~undone'
             PROVE  DetailsAreSaved' /\ \A e \in Editors : KeysAreRead(e)'
  BY DEF KeysInv
<1>1. DetailsAreSaved /\ \A e \in Editors : KeysAreRead(e)
  BY DEF KeysInv
<1>2. DetailsAreSaved'
  BY <1>1 DEF DetailsAreSaved
<1>3. \A e \in Editors : KeysAreRead(e)'
  BY <1>1 DEF KeysAreRead
<1> QED
  BY <1>2, <1>3

LEMMA EnvironmentKeys ==
    ASSUME KeysInv, CarUpdate \/ OtherCommit \/ OtherClose
    PROVE  KeysInv'
<1>1. BillInv'
  BY EnvironmentBill DEF KeysInv
<1>2. CASE CarUpdate \/ OtherCommit
  BY <1>1, <1>2, KeysKept DEF CarUpdate, OtherCommit
<1>3. CASE OtherClose
  <2>1. UNCHANGED edit /\ saved' = saved /\ (~undone' => ~undone /\ db' = db)
    BY <1>3 DEF OtherClose
  <2> QED
    BY <1>1, <2>1, KeysKept
<1> QED
  BY <1>2, <1>3

\* The charge that starts is in neither table and is not being edited.
LEMMA InsertKeys ==
    ASSUME KeysInv, OneRecorder, NEW r \in Recorders, Insert(r)
    PROVE  KeysInv'
<1>1. BillInv' /\ BillInv /\ TypeOK /\ UNCHANGED <<saved, edit, undone>>
  BY InsertBill DEF KeysInv, BillInv, IInv, Insert
<1>2. CASE rec[r].date \in DOMAIN db
  <2>1. db' = db
    BY <1>2 DEF Insert
  <2> QED
    BY <1>1, <2>1, KeysKept
<1>3. CASE rec[r].date \notin DOMAIN db
  <2>1. PICK d : d = rec[r].date /\ d \notin DOMAIN db /\ d \in Nat
    BY <1>1, <1>3, Dates
  <2> DEFINE row == [stop |-> 0, price |-> "none", manual |-> FALSE, place |-> "home", little |-> FALSE]
  <2>2. db' = WithRow(db, d, row)
    BY <1>3, <2>1 DEF Insert
  <2>3. DOMAIN db' = DOMAIN db \cup {d} /\ \A c \in DOMAIN db : db'[c] = db[c]
    <3> HIDE DEF row
    <3> QED
      BY <2>1, <2>2 DEF WithRow
  <2>4. d \notin DOMAIN saved
    <3>1. Settled(r) /\ rec[r].at = "insert"
      BY <1>1 DEF BillInv, IInv, RecorderOK, Insert
    <3> QED
      BY <2>1, <3>1 DEF Settled
  <2>5. \A e \in Editors : edit[e].at = "write" => edit[e].start # d
    BY <1>1, <2>1, Dates DEF BillInv, EditsThePast
  <2>6. ASSUME ~undone'
        PROVE  DetailsAreSaved' /\ \A e \in Editors : KeysAreRead(e)'
    <3>1. DetailsAreSaved /\ \A e \in Editors : KeysAreRead(e)
      BY <1>1, <2>6 DEF KeysInv
    <3>2. DetailsAreSaved'
      BY <1>1, <2>3, <2>4, <3>1 DEF DetailsAreSaved
    <3>3. \A e \in Editors : KeysAreRead(e)'
      BY <1>1, <2>3, <2>5, <3>1 DEF KeysAreRead
    <3> QED
      BY <3>2, <3>3
  <2> QED
    BY <1>1, <2>6 DEF KeysInv
<1> QED
  BY <1>2, <1>3

LEMMA EndKeys ==
    ASSUME KeysInv, OneRecorder, NEW r \in Recorders, End(r)
    PROVE  KeysInv'
<1>1. BillInv' /\ IInv /\ UNCHANGED <<saved, edit, undone>>
  BY EndBill DEF KeysInv, BillInv, End
<1>2. DOMAIN db' = DOMAIN db
      /\ \A d \in DOMAIN db : db'[d].place = db[d].place /\ db'[d].manual = db[d].manual
  <2>1. CASE rec[r].start \notin DOMAIN db
    BY <2>1 DEF End
  <2>2. CASE rec[r].start \in DOMAIN db
    <3>1. PICK s : s = rec[r].start
      OBVIOUS
    <3>2. /\ DOMAIN db' = DOMAIN db /\ \A c \in DOMAIN db : c # s => db'[c] = db[c]
          /\ db'[s].manual = db[s].manual /\ db'[s].place = db[s].place
      BY <1>1, <2>2, <3>1, EndEffect
    <3> QED
      BY <3>2
  <2> QED
    BY <2>1, <2>2
<1> QED
  BY <1>1, <1>2, KeysKept

\* What is taken back has the details that an editor about to write has read.
LEMMA EndRefusedKeys ==
    ASSUME KeysInv, OneRecorder, OneEditor, NEW r \in Recorders, EndRefused(r)
    PROVE  KeysInv'
<1>1. BillInv' /\ BillInv /\ db' = saved /\ UNCHANGED <<saved, edit, undone>>
  BY EndRefusedBill DEF KeysInv, EndRefused
<1>2. \A d \in DOMAIN saved : d \in DOMAIN db
  <2>1. Settled(r) /\ rec[r].at = "end"
    BY <1>1 DEF BillInv, IInv, RecorderOK, EndRefused
  <2> QED
    BY <2>1 DEF Settled
<1>3. ASSUME ~undone'
      PROVE  DetailsAreSaved' /\ \A e \in Editors : KeysAreRead(e)'
  <2>1. DetailsAreSaved /\ \A e \in Editors : KeysAreRead(e)
    BY <1>1, <1>3 DEF KeysInv
  <2>2. DetailsAreSaved'
    BY <1>1 DEF DetailsAreSaved
  <2>3. ASSUME NEW e \in Editors PROVE KeysAreRead(e)'
    <3>1. CASE edit[e].at # "write"
      BY <1>1, <3>1 DEF KeysAreRead
    <3>2. CASE edit[e].at = "write"
      <4>1. \A f \in Editors : edit[f].at # "commit"
        BY <3>2 DEF OneEditor
      <4>2. \A d \in DOMAIN saved : db[d].place = saved[d].place /\ db[d].manual = saved[d].manual
        BY <1>2, <2>1, <4>1 DEF DetailsAreSaved
      <4> QED
        BY <1>1, <1>2, <2>1, <4>2 DEF KeysAreRead
    <3> QED
      BY <3>1, <3>2
  <2> QED
    BY <2>2, <2>3
<1> QED
  BY <1>1, <1>3 DEF KeysInv

LEMMA CleanKeys ==
    ASSUME KeysInv, OneRecorder, NEW r \in Recorders, Clean(r)
    PROVE  KeysInv'
<1>1. BillInv' /\ UNCHANGED <<saved, edit, undone>>
  BY CleanBill DEF KeysInv, Clean
<1>2. DOMAIN db' \subseteq DOMAIN db /\ \A d \in DOMAIN db' : db'[d] = db[d]
  BY DEF Clean
<1> QED
  BY <1>1, <1>2, KeysKept

LEMMA RecordKeys ==
    ASSUME KeysInv, OneRecorder, OneEditor, NEW r \in Recorders, Record(r)
    PROVE  KeysInv'
<1>1. BillInv'
  BY RecordBill DEF KeysInv
<1>2. CASE UNCHANGED <<db, saved, edit, undone>>
  BY <1>1, <1>2, KeysKept
<1>3. CASE saved' = db /\ UNCHANGED <<db, edit, undone>>
  BY <1>1, <1>3, KeysKept
<1> QED
  BY <1>2, <1>3, InsertKeys, EndKeys, EndRefusedKeys, CleanKeys
     DEF Record, Fetch, ReadLastEnded, ReadLastOpen, Curve, RecordRaises, EndCommit, Commit

LEMMA EditKeys ==
    ASSUME KeysInv, OneRecorder, OneEditor, NEW e \in Editors, Edit(e)
    PROVE  KeysInv'
<1>1. TypeOK /\ BillInv'
  BY EditReadBill, EditWriteBill, EditCommitBill DEF Edit, KeysInv, BillInv, IInv
<1> SUFFICES ASSUME ~undone'
             PROVE  DetailsAreSaved' /\ \A f \in Editors : KeysAreRead(f)'
  BY <1>1 DEF KeysInv
<1>2. ~undone /\ DetailsAreSaved /\ \A f \in Editors : KeysAreRead(f)
  BY DEF KeysInv, Edit, EditRead, EditWrite, EditCommit
<1>3. \A f \in Editors : f = e
  BY DEF OneEditor
<1>4. CASE EditRead(e)
  <2>1. PICK d : d = edit'[e].start
    OBVIOUS
  <2>2. /\ "place" \notin edit'[e].keys => edit'[e].place = db[d].place
        /\ "price" \notin edit'[e].keys => edit'[e].manual = db[d].manual
    BY <1>1, <1>4, <2>1, EditReadEffect
  <2>3. UNCHANGED <<db, saved>> /\ edit[e].at = "idle"
    BY <1>4 DEF EditRead
  <2>4. KeysAreRead(e)'
    BY <2>1, <2>2, <2>3 DEF KeysAreRead
  <2>5. DetailsAreSaved'
    BY <1>2, <1>3, <2>3 DEF DetailsAreSaved
  <2> QED
    BY <1>3, <2>4, <2>5
<1>5. CASE EditWrite(e)
  <2>1. edit'[e].at = "commit"
    BY <1>1, <1>5, EditWriteEffect
  <2> QED
    BY <1>3, <2>1 DEF DetailsAreSaved, KeysAreRead
<1>6. CASE EditCommit(e)
  <2>1. edit'[e].at = "idle" /\ saved' = db /\ db' = db
    BY <1>1, <1>6, EditCommitEffect
  <2> QED
    BY <1>3, <2>1 DEF DetailsAreSaved, KeysAreRead
<1> QED
  BY <1>4, <1>5, <1>6 DEF Edit

LEMMA NextKeys == OneRecorder /\ OneEditor /\ KeysInv /\ [Next]_vars => KeysInv'
<1> SUFFICES ASSUME OneRecorder, OneEditor, KeysInv, [Next]_vars
             PROVE  KeysInv'
  OBVIOUS
<1>1. CASE UNCHANGED vars
  <2>1. BillInv' /\ UNCHANGED <<db, saved, edit, undone>>
    BY <1>1, NextBill DEF KeysInv, vars
  <2> QED
    BY <2>1, KeysKept
<1> QED
  BY <1>1, EnvironmentKeys, RecordKeys, EditKeys DEF Next

LEMMA InitKeys == Init => KeysInv
<1> SUFFICES ASSUME Init PROVE KeysInv
  OBVIOUS
<1>1. DOMAIN db = {}
  BY DEF Init, NoRows
<1> QED
  BY <1>1, BillInit DEF KeysInv, DetailsAreSaved, KeysAreRead

\* A key left out is written as the row still has it.
LEMMA WriteKeepsKeys ==
    ASSUME KeysInv, NEW e \in Editors, EditWrite(e), ~undone, edit[e].start \in DOMAIN db
    PROVE  /\ "place" \notin edit[e].keys => db'[edit[e].start].place = db[edit[e].start].place
           /\ "price" \notin edit[e].keys /\ db[edit[e].start].manual =>
                  db'[edit[e].start].manual /\ db'[edit[e].start].price = db[edit[e].start].price
<1>1. TypeOK /\ Billed(db) /\ Editing(e) /\ KeysAreRead(e) /\ edit[e].at = "write"
  BY DEF KeysInv, BillInv, IInv, EditWrite
<1>2. PICK d : d = edit[e].start /\ d \in DOMAIN db
  OBVIOUS
<1>3. db'[d].place = edit[e].place /\ db'[d].price = edit[e].price /\ db'[d].manual = edit[e].manual
  BY <1>1, <1>2, EditWriteEffect
<1>4. "place" \notin edit[e].keys => db'[d].place = db[d].place
  BY <1>1, <1>2, <1>3 DEF KeysAreRead
<1>5. ASSUME "price" \notin edit[e].keys, db[d].manual
      PROVE  db'[d].manual /\ db'[d].price = db[d].price
  <2>1. db[d].price = "bill"
    BY <1>1, <1>2, <1>5 DEF Billed
  <2>2. edit[e].manual = db[d].manual
    BY <1>1, <1>2, <1>5 DEF KeysAreRead
  <2>3. edit[e].price = "bill"
    BY <1>1, <1>5, <2>2 DEF Editing
  <2> QED
    BY <1>3, <1>5, <2>1, <2>2, <2>3
<1> QED
  BY <1>2, <1>4, <1>5

LEMMA StepKeepsKeys ==
    ASSUME KeysInv, OneEditor, [Next]_vars
    PROVE  KeyLeftOutIsKept
<1>1. ASSUME NEW e \in Editors, edit[e].at = "write", edit'[e].at = "commit"
      PROVE  EditWrite(e)
  <2>1. edit' # edit
    BY <1>1
  <2>2. ~UNCHANGED vars
    BY <2>1 DEF vars
  <2>3. ~CarUpdate /\ ~OtherCommit /\ ~OtherClose
    BY <2>1 DEF CarUpdate, OtherCommit, OtherClose
  <2>4. \A r \in Recorders : ~Record(r)
    BY <2>1 DEF Record, Fetch, ReadLastEnded, ReadLastOpen, Insert, Curve, RecordRaises, End, EndRefused,
                EndCommit, Clean, Commit
  <2>5. Edit(e)
    BY <2>2, <2>3, <2>4 DEF Next, OneEditor
  <2>6. ~EditRead(e) /\ ~EditCommit(e)
    BY <1>1 DEF EditRead, EditCommit
  <2> QED
    BY <2>5, <2>6 DEF Edit
<1> QED
  BY <1>1, WriteKeepsKeys DEF KeyLeftOutIsKept

\* With one recorder and one editor, the price of a bill and the keys an edit
\* leaves out are kept through any commit of the others, and until something
\* that wasn't committed is taken back.
THEOREM DetailsAreKeptAlways == OneRecorder /\ OneEditor /\ Spec => DetailsAreKept
<1>1. OneRecorder /\ OneEditor /\ KeysInv /\ [Next]_vars => KeysInv'
  BY NextKeys
<1>2. KeysInv => ManualPriceIsTheBill
  BY DEF KeysInv, BillInv, Billed, ManualPriceIsTheBill
<1>3. OneEditor /\ KeysInv /\ [Next]_vars => KeyLeftOutIsKept
  BY StepKeepsKeys
<1>4. CASE OneRecorder /\ OneEditor
  BY <1>1, <1>2, <1>3, <1>4, InitKeys, PTL DEF Spec, DetailsAreKept
<1> QED
  BY <1>4

-----------------------------------------------------------------------------
(* The start of the database *)

\* A table that is there has its rows, its columns and its constraint.
LEMMA TableThere ==
    ASSUME NEW table \in Table \cup {NoTable}, table # NoTable
    PROVE  /\ table.rows \in SUBSET Charges /\ table.columns \in 0..Columns /\ table.checked \in BOOLEAN
           /\ table \in Table /\ Rows(table) = table.rows
  BY DEF Table, Rows

LEMMA TableMade ==
    ASSUME NEW rows \in SUBSET Charges, NEW columns \in 0..Columns, NEW checked \in BOOLEAN
    PROVE  LET table == [rows |-> rows, columns |-> columns, checked |-> checked]
           IN table \in Table /\ table # NoTable /\ Rows(table) = rows
  BY NoTableAssumption DEF Table, Rows

\* The steps that change no table.
LEMMA QuietDbInv ==
    ASSUME DbInv, Open \/ Check \/ NothingToCopy \/ CopyRaises
    PROVE  DbInv'
<1> USE DEF DbInv, OldIsBackedUp, TransactionIsWhole, DbTypeOK, NoChargeIsLost, HasColumns
<1>1. CASE Open
  BY <1>1 DEF Open, ConstraintMissing
<1>2. CASE Check
  <2>1. conn.battery # NoTable => conn.battery.rows \in SUBSET Charges
    BY TableThere DEF Tables
  <2>2. UNCHANGED <<file, conn, make_backup, known, crashes>>
    BY <1>2 DEF Check
  <2>3. CASE ConstraintMissing
    <3>1. phase = "check" /\ phase' = "rename" /\ backups' = backups \cup conn.battery.rows
      BY <1>2, <2>3 DEF Check
    <3> QED
      BY <2>1, <2>2, <2>3, <3>1 DEF ConstraintMissing
  <2>4. CASE ~ConstraintMissing
    BY <1>2, <2>2, <2>4 DEF Check, ConstraintMissing
  <2> QED
    BY <2>3, <2>4
<1>3. CASE NothingToCopy
  BY <1>3 DEF NothingToCopy, Rows, ConstraintMissing
<1>4. CASE CopyRaises
  BY <1>4 DEF CopyRaises, ConstraintMissing
<1> QED
  BY <1>1, <1>2, <1>3, <1>4

LEMMA RenameDbInv ==
    ASSUME DbInv, Rename
    PROVE  DbInv'
<1> USE DEF DbInv, OldIsBackedUp, TransactionIsWhole, DbTypeOK
<1>1. /\ conn = file /\ conn.battery \in Table /\ conn.battery # NoTable
      /\ conn.battery.rows \subseteq backups /\ Rows(file.battery) = conn.battery.rows
  BY TableThere DEF Rename, Tables, ConstraintMissing
<1>2. conn' \in Tables /\ file' \in Tables
  BY <1>1 DEF Rename, Save, Tables
<1>3. /\ file'.battery = NoTable /\ file'.battery_old = file.battery /\ conn' = file'
      /\ phase' = "create" /\ UNCHANGED <<make_backup, backups, known, crashes>>
  BY <1>1 DEF Rename, Save
<1>4. NoChargeIsLost'
  BY <1>1, <1>3 DEF NoChargeIsLost, Rename, ConstraintMissing, Rows
<1> QED
  BY <1>1, <1>2, <1>3, <1>4 DEF ConstraintMissing, Rows

LEMMA CreateDbInv ==
    ASSUME DbInv, CreateTables
    PROVE  DbInv'
<1> USE DEF DbInv, OldIsBackedUp, TransactionIsWhole, DbTypeOK
<1> DEFINE made == IF conn.battery = NoTable THEN [rows |-> {}, columns |-> 0, checked |-> TRUE]
                   ELSE conn.battery
<1>1. made \in Table /\ made # NoTable /\ Rows(made) = Rows(file.battery)
  <2>1. 0 \in 0..Columns
    BY DatabaseAssumption
  <2>2. CASE conn.battery = NoTable
    BY <2>1, <2>2, TableMade DEF CreateTables, Rows
  <2>3. CASE conn.battery # NoTable
    BY <2>3, TableThere DEF CreateTables, Tables
  <2> QED
    BY <2>2, <2>3
<1>2. /\ conn' = [conn EXCEPT !.battery = made] /\ file' = conn' /\ conn = file
      /\ phase' = "columns" /\ UNCHANGED <<make_backup, backups, known, crashes>>
  BY DEF CreateTables, Save
<1> HIDE DEF made
<1>3. /\ conn' \in Tables /\ file' \in Tables
      /\ file'.battery = made /\ file'.battery_old = file.battery_old
  BY <1>1, <1>2 DEF Tables
<1>4. NoChargeIsLost'
  BY <1>1, <1>2, <1>3 DEF NoChargeIsLost, CreateTables
<1>5. OldIsBackedUp'
  <2>1. file.battery # NoTable => made = file.battery
    BY <1>2 DEF made
  <2>2. file.battery = NoTable => made.checked
    BY <1>2 DEF made
  <2> QED
    BY <1>2, <1>3, <2>1, <2>2
<1> QED
  BY <1>1, <1>2, <1>3, <1>4, <1>5

\* A column more: the rows and the constraint stay.
LEMMA AddColumnDbInv ==
    ASSUME DbInv, AddColumn
    PROVE  DbInv'
<1> USE DEF DbInv, OldIsBackedUp, TransactionIsWhole, DbTypeOK
<1>1. /\ conn = file /\ conn.battery # NoTable /\ conn.battery \in Table
      /\ conn.battery.columns + 1 \in 0..Columns
  BY TableThere, DatabaseAssumption DEF AddColumn, Tables
<1>2. PICK made \in Table : /\ made.rows = file.battery.rows /\ made.checked = file.battery.checked
                            /\ conn' = [conn EXCEPT !.battery = made]
  <2>1. conn' = [conn EXCEPT !.battery = [conn.battery EXCEPT !.columns = @ + 1]]
    BY <1>1 DEF AddColumn, Save, Tables
  <2>2. [conn.battery EXCEPT !.columns = @ + 1] \in Table
    BY <1>1 DEF Table
  <2>3. LET made == [conn.battery EXCEPT !.columns = @ + 1]
        IN made.rows = file.battery.rows /\ made.checked = file.battery.checked
    BY <1>1 DEF Table
  <2> QED
    BY <2>1, <2>2, <2>3
<1>3. /\ file' = conn' /\ phase = "columns" /\ phase' = "columns" /\ make_backup' = TRUE
      /\ UNCHANGED <<backups, known, crashes>>
  BY DEF AddColumn, Save
<1>4. /\ conn' \in Tables /\ file'.battery = made /\ file'.battery_old = file.battery_old
      /\ made # NoTable /\ Rows(made) = Rows(file.battery)
  BY <1>1, <1>2, <1>3, NoTableAssumption DEF Tables, Rows
<1>5. NoChargeIsLost'
  BY <1>3, <1>4 DEF NoChargeIsLost
<1> QED
  BY <1>1, <1>2, <1>3, <1>4, <1>5

\* The rows of battery are written, in a transaction.
LEMMA RowsWritten ==
    ASSUME conn \in Tables, conn.battery # NoTable, NEW rows \in SUBSET Charges
    PROVE  LET tables == [conn EXCEPT !.battery.rows = rows]
           IN /\ tables \in Tables /\ tables.battery # NoTable
              /\ Rows(tables.battery) = rows /\ tables.battery_old = conn.battery_old
              /\ tables.battery.checked = conn.battery.checked
<1>1. conn.battery \in Table
  BY TableThere DEF Tables
<1>2. [conn.battery EXCEPT !.rows = rows] \in Table
  BY <1>1 DEF Table
<1>3. [conn EXCEPT !.battery.rows = rows] = [conn EXCEPT !.battery = [conn.battery EXCEPT !.rows = rows]]
  BY DEF Tables
<1>4. /\ [conn.battery EXCEPT !.rows = rows].rows = rows
      /\ [conn.battery EXCEPT !.rows = rows].checked = conn.battery.checked
  BY <1>1 DEF Table
<1> QED
  BY <1>2, <1>3, <1>4, NoTableAssumption DEF Tables, Rows

LEMMA CopyDbInv ==
    ASSUME DbInv, Copy
    PROVE  DbInv'
<1> USE DEF DbInv, OldIsBackedUp, TransactionIsWhole, DbTypeOK
<1>1. /\ conn = file /\ conn.battery # NoTable /\ conn.battery_old # NoTable
      /\ phase = "columns" /\ phase' = "drop"
      /\ UNCHANGED <<file, make_backup, backups, known, crashes>>
  BY DEF Copy, HasColumns
<1> DEFINE rows == conn.battery.rows \cup (conn.battery_old.rows \ Invalid)
<1>2. /\ rows \in SUBSET Charges
      /\ Rows(file.battery) = conn.battery.rows /\ Rows(file.battery_old) = conn.battery_old.rows
  BY <1>1, TableThere DEF Tables
<1>3. conn' = [conn EXCEPT !.battery.rows = rows]
  BY DEF Copy
<1>4. conn' \in Tables /\ conn'.battery # NoTable /\ Rows(conn'.battery) = rows
  BY <1>1, <1>2, <1>3, RowsWritten
<1>5. NoChargeIsLost'
  BY <1>1 DEF NoChargeIsLost
<1> QED
  BY <1>1, <1>2, <1>4, <1>5 DEF Rows

LEMMA DropDbInv ==
    ASSUME DbInv, DropOld
    PROVE  DbInv'
<1> USE DEF DbInv, OldIsBackedUp, TransactionIsWhole, DbTypeOK
<1>1. /\ conn' \in Tables /\ conn'.battery = conn.battery /\ conn'.battery_old = NoTable
      /\ phase = "drop" /\ phase' = "commit"
      /\ UNCHANGED <<file, make_backup, backups, known, crashes>>
  BY DEF DropOld, Tables
<1>2. NoChargeIsLost'
  BY <1>1 DEF NoChargeIsLost
<1> QED
  BY <1>1, <1>2 DEF Rows

\* What is committed has every charge but the invalid ones of the old table.
LEMMA CommitDbInv ==
    ASSUME DbInv, CommitCopy
    PROVE  DbInv'
<1> USE DEF DbInv, OldIsBackedUp, TransactionIsWhole, DbTypeOK
<1>1. /\ file' = conn /\ conn' = conn /\ phase = "commit" /\ phase' = "clean"
      /\ UNCHANGED <<make_backup, known, crashes>>
      /\ conn.battery # NoTable /\ conn.battery_old = NoTable
  BY DEF CommitCopy
<1>2. backups \subseteq backups' /\ backups' \in SUBSET Charges
  BY <1>1, TableThere DEF CommitCopy, Tables
<1>3. Rows(file.battery) \cup (Rows(file.battery_old) \ Invalid) \subseteq Rows(conn.battery)
  BY <1>1
<1>4. NoChargeIsLost'
  BY <1>1, <1>2, <1>3 DEF NoChargeIsLost
<1> QED
  BY <1>1, <1>2, <1>4 DEF Rows, ConstraintMissing

LEMMA CleanDbInv ==
    ASSUME DbInv, CleanBattery
    PROVE  DbInv'
<1> USE DEF DbInv, OldIsBackedUp, TransactionIsWhole, DbTypeOK
<1>1. /\ conn = file /\ conn.battery # NoTable /\ conn.battery_old = NoTable
      /\ phase = "clean" /\ phase' = "finish"
      /\ UNCHANGED <<file, make_backup, backups, known, crashes>>
  BY DEF CleanBattery
<1> DEFINE rows == conn.battery.rows \ Little
<1>2. rows \in SUBSET Charges /\ Rows(file.battery) = conn.battery.rows
  BY <1>1, TableThere DEF Tables
<1>3. conn' = [conn EXCEPT !.battery.rows = rows]
  BY DEF CleanBattery
<1>4. /\ conn' \in Tables /\ conn'.battery # NoTable /\ Rows(conn'.battery) = rows
      /\ conn'.battery_old = NoTable
  BY <1>1, <1>2, <1>3, RowsWritten
<1>5. NoChargeIsLost'
  BY <1>1 DEF NoChargeIsLost
<1> QED
  BY <1>1, <1>2, <1>4, <1>5

LEMMA FinishDbInv ==
    ASSUME DbInv, Finish
    PROVE  DbInv'
<1> USE DEF DbInv, OldIsBackedUp, TransactionIsWhole, DbTypeOK
<1>1. /\ file' = conn /\ conn' = conn /\ phase = "finish" /\ phase' = "ready"
      /\ UNCHANGED <<make_backup, backups, known, crashes>>
      /\ file.battery_old = NoTable /\ conn.battery_old = NoTable
  BY DEF Finish
<1>2. Rows(file.battery) \ Little \subseteq Rows(conn.battery) /\ Rows(file.battery_old) = {}
  BY <1>1 DEF Rows
<1>3. NoChargeIsLost'
  BY <1>1, <1>2 DEF NoChargeIsLost
<1> QED
  BY <1>1, <1>2, <1>3

LEMMA RecordDbInv ==
    ASSUME DbInv, NEW c \in Charges, RecordCharge(c)
    PROVE  DbInv'
<1> USE DEF DbInv, OldIsBackedUp, TransactionIsWhole, DbTypeOK
<1>1. /\ conn = file /\ conn.battery # NoTable /\ conn.battery_old = NoTable
      /\ phase = "ready" /\ phase' = "ready" /\ file' = conn' /\ known' = known \cup {c}
      /\ UNCHANGED <<make_backup, backups, crashes>>
  BY DEF RecordCharge, Save
<1> DEFINE rows == conn.battery.rows \cup {c}
<1>2. rows \in SUBSET Charges /\ Rows(file.battery) = conn.battery.rows
  BY <1>1, TableThere DEF Tables
<1>3. conn' = [conn EXCEPT !.battery.rows = rows]
  BY DEF RecordCharge, Save
<1>4. /\ conn' \in Tables /\ conn'.battery # NoTable /\ Rows(conn'.battery) = rows
      /\ conn'.battery_old = NoTable
  BY <1>1, <1>2, <1>3, RowsWritten
<1>5. NoChargeIsLost'
  BY <1>1, <1>2, <1>4 DEF NoChargeIsLost
<1> QED
  BY <1>1, <1>2, <1>4, <1>5 DEF Rows

\* Killed anywhere: what is saved stays as it is.
LEMMA CrashDbInv ==
    ASSUME DbInv, Crash
    PROVE  DbInv'
<1> USE DEF DbInv, OldIsBackedUp, TransactionIsWhole, DbTypeOK
<1>1. /\ conn' = file /\ file' = file /\ phase' = "down" /\ crashes' \in 0..MaxCrashes
      /\ UNCHANGED <<make_backup, backups, known>>
  BY DatabaseAssumption DEF Crash
<1>2. NoChargeIsLost'
  BY <1>1 DEF NoChargeIsLost
<1> QED
  BY <1>1, <1>2

LEMMA DbNextInv == DbInv /\ [DbNext]_dbVars => DbInv'
<1> SUFFICES ASSUME DbInv, [DbNext]_dbVars
             PROVE  DbInv'
  OBVIOUS
<1>1. CASE UNCHANGED dbVars
  BY <1>1 DEF dbVars, DbInv, OldIsBackedUp, TransactionIsWhole, DbTypeOK, NoChargeIsLost, ConstraintMissing
<1>2. CASE StartUp
  BY <1>2, QuietDbInv, RenameDbInv, CreateDbInv, AddColumnDbInv, CopyDbInv, DropDbInv, CommitDbInv,
     CleanDbInv, FinishDbInv DEF StartUp
<1> QED
  BY <1>1, <1>2, RecordDbInv, CrashDbInv DEF DbNext

LEMMA DbInitInv == DbInit => DbInv
<1> SUFFICES ASSUME DbInit
             PROVE  DbInv
  OBVIOUS
<1>1. /\ file \in Tables /\ conn = file /\ file.battery_old = NoTable /\ phase = "down"
      /\ make_backup = FALSE /\ backups = {} /\ known = Rows(file.battery) /\ crashes = 0
  BY DEF DbInit, Tables
<1>2. Rows(file.battery) \in SUBSET Charges /\ Rows(file.battery_old) = {}
  BY <1>1 DEF Rows, Tables, Table
<1>3. 0 \in 0..MaxCrashes
  BY DatabaseAssumption
<1>4. NoChargeIsLost
  BY <1>1 DEF NoChargeIsLost
<1> QED
  BY <1>1, <1>2, <1>3, <1>4 DEF DbInv, DbTypeOK, OldIsBackedUp, TransactionIsWhole

\* Wherever init_db is killed, however often, every charge that is worth keeping is
\* in battery or in battery_old, and in battery once the database is ready.
THEOREM NoChargeIsLostAlways == DbSpec => []NoChargeIsLost
<1>1. DbInv => NoChargeIsLost
  BY DEF DbInv
<1> QED
  BY <1>1, DbInitInv, DbNextInv, PTL DEF DbSpec

\* The dashboard and the threads that write do to the tables only what Database
\* allows.
THEOREM DashboardImplementsDatabase == ViewSpec => DbSpec
<1>1. ViewNext => [DbNext]_dbVars
  <2> SUFFICES ASSUME ViewNext
               PROVE  [DbNext]_dbVars
    OBVIOUS
  <2>1. CASE Begin
    BY <2>1 DEF Begin, BeginWrite, ImportView, Request, Enter
  <2>2. ASSUME NEW t \in Threads, Continue(t)
        PROVE  [DbNext]_dbVars
    BY <2>2 DEF Continue, Update, ClearCallbacks, AddCallback, TryLock, Locked, ReadData, ReadRaises,
                ResetLayout, Release, Raise, Write, WriteNothing, Close, EndCallbacks, Note, Look, Wait,
                Build, CacheLayout, Return, DbNext
  <2>3. CASE Restart
    BY <2>3 DEF Restart, DbNext
  <2> QED
    BY <2>1, <2>2, <2>3 DEF ViewNext, DbNext
<1>2. UNCHANGED allVars => UNCHANGED dbVars
  BY DEF allVars, dbVars
<1> QED
  BY <1>1, <1>2, PTL DEF ViewSpec, ViewInit, DbSpec

\* So no charge is lost while threads write and the dashboard reads.
THEOREM NoChargeIsLostBeside == ViewSpec => []NoChargeIsLost
  BY NoChargeIsLostAlways, DashboardImplementsDatabase, PTL

-----------------------------------------------------------------------------
(* The page that is shown *)

\* The memory of a process that starts.
LEMMA ViewInitInv == ViewInit => PageInv
<1> SUFFICES ASSUME ViewInit
             PROVE  PageInv
  OBVIOUS
<1>1. /\ at = [t \in Threads |-> "idle"] /\ got = [t \in Threads |-> ""]
      /\ built = [v \in Visitors |-> {}]
      /\ callback_fct = "nothing" /\ callbacks = {"nothing"} /\ changes = 0 /\ noted = 0
      /\ updating = NoThread /\ data = {} /\ data_ready = FALSE /\ cached_layout = NoLayout
      /\ alone = {} /\ watched = FALSE /\ calm = TRUE
  BY DEF ViewInit, Fresh
<1>2. ViewTypeOK
  BY <1>1 DEF ViewTypeOK, ThreadPlaces
<1>3. \A t \in Threads : InItsPlace(t) /\ HoldsCallback(t) /\ ~IsBusy(t)
  BY <1>1 DEF InItsPlace, HoldsCallback, IsBusy
<1>4. NoneBeside
  BY <1>1, <1>3 DEF NoneBeside
<1>7. LocksAreHeld
  BY <1>1 DEF LocksAreHeld
<1>8. noted <= changes
  <2>1. noted = 0 /\ changes = 0
    BY <1>1
  <2> QED
    BY <2>1
<1>5. StartsFresh /\ NoneIsInvented
  BY <1>1 DEF StartsFresh, NoneIsInvented
<1>6. NothingUnviewed
  BY <1>1 DEF NothingUnviewed
<1> QED
  BY <1>1, <1>2, <1>3, <1>4, <1>5, <1>6, <1>7, <1>8 DEF PageInv, MemoryInv, StaysSubscribed

LEMMA Moved ==
    ASSUME at \in [Threads -> ThreadPlaces], NEW t \in Threads, NEW p \in ThreadPlaces, MoveOn(t, p)
    PROVE  /\ at' \in [Threads -> ThreadPlaces]
           /\ at'[t] = p
           /\ \A u \in Threads : u # t => at'[u] = at[u]
BY DEF MoveOn

\* Where each thread goes on.
Track(p, q, t) ==
    /\ p = "clear" => q = "add"
    /\ p = "reclear" => q = "readd"
    /\ p = "subclear" => q = "subadd"
    /\ p = "add" => q = "write"
    /\ p = "readd" => q = "read"
    /\ p = "subadd" => q = "served"
    /\ p = "lock" => q \in {"reclear", Caller(t)}
    /\ p = "read" => q \in {"release", "reset", "raise"}
    /\ p = "reset" => q = "release"
    /\ p = "release" => q = Caller(t)
    /\ p = "raise" => q = IF t = View THEN "served" ELSE "idle"
    /\ p = "write" => q = "close"
    /\ p = "close" => q \in {"idle", "note", "after", "lock"}
    /\ p = "after" => q \in {"idle", "note"}
    /\ p = "note" => q = "idle"
    /\ p = "look" => q \in {"return", "build", "lock"}
    /\ p = "wait" => q \in {"build", "idle"}
    /\ p = "build" => q = "cache"
    /\ p = "cache" => q = "return"
    /\ p = "return" => q = "idle"

LEMMA CallerOf ==
    ASSUME NEW t \in Threads
    PROVE  /\ t = View => Caller(t) = "subclear"
           /\ t \in Visitors => Caller(t) = "wait"
           /\ t \in Writers => Caller(t) = "after"
           /\ t = View \/ t \in Visitors \/ t \in Writers
           /\ Caller(t) \in ThreadPlaces
BY DashboardAssumption DEF Caller, Threads, ThreadPlaces

LEMMA Going ==
    ASSUME at \in [Threads -> ThreadPlaces], NEW t \in Threads, Continue(t)
    PROVE  /\ at' \in [Threads -> ThreadPlaces]
           /\ \A u \in Threads : u # t => at'[u] = at[u]
           /\ IsBusy(t)
           /\ Track(at[t], at'[t], t)
<1>1. SUFFICES ASSUME NEW p \in ThreadPlaces, MoveOn(t, p), IsBusy(t), Track(at[t], p, t)
               PROVE  /\ at' \in [Threads -> ThreadPlaces]
                      /\ \A u \in Threads : u # t => at'[u] = at[u]
                      /\ Track(at[t], at'[t], t)
  <2>1. \E p \in ThreadPlaces : MoveOn(t, p) /\ IsBusy(t) /\ Track(at[t], p, t)
    <3> USE DEF IsBusy, Track, ThreadPlaces
    <3>1. CASE ClearCallbacks(t)
      BY <3>1 DEF ClearCallbacks
    <3>2. CASE AddCallback(t)
      BY <3>2 DEF AddCallback
    <3>3. CASE TryLock(t)
      BY <3>3 DEF TryLock
    <3>4. CASE Locked(t)
      BY <3>4, CallerOf DEF Locked
    <3>5. CASE ReadData(t)
      BY <3>5 DEF ReadData
    <3>6. CASE ReadRaises(t)
      BY <3>6 DEF ReadRaises
    <3>7. CASE ResetLayout(t)
      BY <3>7 DEF ResetLayout
    <3>8. CASE Release(t)
      BY <3>8, CallerOf DEF Release
    <3>9. CASE Raise(t)
      BY <3>9 DEF Raise
    <3>10. CASE Write(t) \/ WriteNothing(t)
      BY <3>10 DEF Write, WriteNothing
    <3>11. CASE Close(t)
      BY <3>11 DEF Close
    <3>12. CASE EndCallbacks(t)
      BY <3>12 DEF EndCallbacks
    <3>13. CASE Note(t)
      BY <3>13 DEF Note
    <3>14. CASE Look(t)
      BY <3>14 DEF Look
    <3>15. CASE Wait(t)
      BY <3>15 DEF Wait
    <3>16. CASE Build(t)
      BY <3>16 DEF Build
    <3>17. CASE CacheLayout(t)
      BY <3>17 DEF CacheLayout
    <3>18. CASE Return(t)
      BY <3>18 DEF Return
    <3> QED
      BY <3>1, <3>2, <3>3, <3>4, <3>5, <3>6, <3>7, <3>8, <3>9, <3>10, <3>11, <3>12, <3>13, <3>14, <3>15,
         <3>16, <3>17, <3>18 DEF Continue, Update
  <2> QED
    BY <2>1
<1> QED
  BY <1>1, Moved

LEMMA InItsPlaceStep ==
    ASSUME NEW t \in Threads, at \in [Threads -> ThreadPlaces], \A u \in Threads : InItsPlace(u), Continue(t)
    PROVE  \A u \in Threads : InItsPlace(u)'
<1>1. /\ at' \in [Threads -> ThreadPlaces] /\ \A u \in Threads : u # t => at'[u] = at[u]
      /\ IsBusy(t) /\ Track(at[t], at'[t], t)
  BY Going
<1>2. \A u \in Threads : u # t => InItsPlace(u)'
  BY <1>1 DEF InItsPlace
<1>3. InItsPlace(t)'
  <2>1. InItsPlace(t)
    OBVIOUS
  <2>2. CASE at[t] \in Updates
    BY <1>1, <2>2, CallerOf DEF InItsPlace, Track, Updates
  <2>3. CASE at[t] \notin Updates
    BY <1>1, <2>1, <2>3, DashboardAssumption DEF InItsPlace, Track, Updates, IsBusy
  <2> QED
    BY <2>2, <2>3
<1> QED
  BY <1>2, <1>3

\* The callback of a thread.
LEMMA HoldsCallbackStep ==
    ASSUME NEW t \in Threads, ViewTypeOK, \A u \in Threads : InItsPlace(u) /\ HoldsCallback(u), Continue(t)
    PROVE  /\ \A u \in Threads : HoldsCallback(u)'
           /\ got' \in [Threads -> {"", "nothing", "update_trips"}]
<1>1. /\ at' \in [Threads -> ThreadPlaces] /\ \A u \in Threads : u # t => at'[u] = at[u]
      /\ IsBusy(t) /\ Track(at[t], at'[t], t)
  BY Going DEF ViewTypeOK
<1>2. got \in [Threads -> {"", "nothing", "update_trips"}] /\ callback_fct \in {"nothing", "update_trips"}
  BY DEF ViewTypeOK
<1>3. HoldsCallback(t) /\ InItsPlace(t)
  OBVIOUS
<1>4. SUFFICES /\ \A u \in Threads : u # t => got'[u] = got[u]
               /\ HoldsCallback(t)'
               /\ got' \in [Threads -> {"", "nothing", "update_trips"}]
  BY <1>1 DEF HoldsCallback
<1>5. CASE at[t] \in {"add", "readd", "subadd"}
  <2>1. got' = [got EXCEPT ![t] = ""]
    BY <1>5 DEF Continue, Update, ClearCallbacks, AddCallback, TryLock, Locked, ReadData, ReadRaises,
                ResetLayout, Release, Raise, Write, WriteNothing, Close, EndCallbacks, Note, Look, Wait,
                Build, CacheLayout, Return
  <2> QED
    BY <1>1, <1>2, <1>5, <2>1 DEF HoldsCallback, Track
<1>6. CASE at[t] = "lock"
  <2>1. TryLock(t) \/ Locked(t)
    BY <1>6 DEF Continue, Update, ClearCallbacks, AddCallback, ReadData, ReadRaises,
                ResetLayout, Release, Raise, Write, WriteNothing, Close, EndCallbacks, Note, Look, Wait,
                Build, CacheLayout, Return
  <2>2. CASE TryLock(t)
    BY <1>1, <1>2, <2>2, Moved DEF TryLock, HoldsCallback, ThreadPlaces, ViewTypeOK
  <2>3. CASE Locked(t)
    BY <1>1, <1>2, <2>3, CallerOf, Moved, DashboardAssumption DEF Locked, Carry, HoldsCallback, ViewTypeOK
  <2> QED
    BY <2>1, <2>2, <2>3
<1>7. CASE at[t] = "release"
  <2>1. Carry(t)
    BY <1>7 DEF Continue, Update, ClearCallbacks, AddCallback, TryLock, Locked, ReadData, ReadRaises,
                ResetLayout, Release, Raise, Write, WriteNothing, Close, EndCallbacks, Note, Look, Wait,
                Build, CacheLayout, Return
  <2> QED
    BY <1>1, <1>2, <1>7, <2>1, CallerOf, DashboardAssumption DEF Carry, HoldsCallback, Track
<1>8. CASE at[t] \notin {"add", "readd", "subadd", "lock", "release"}
  <2>1. got' = got
    BY <1>8 DEF Continue, Update, ClearCallbacks, AddCallback, TryLock, Locked, ReadData, ReadRaises,
                ResetLayout, Release, Raise, Write, WriteNothing, Close, EndCallbacks, Note, Look, Wait,
                Build, CacheLayout, Return
  <2> QED
    BY <1>1, <1>2, <1>3, <1>8, <2>1 DEF HoldsCallback, Track, InItsPlace, Updates, IsBusy
<1> QED
  BY <1>5, <1>6, <1>7, <1>8

LEMMA NoneBesideStep ==
    ASSUME NEW t \in Threads, ViewTypeOK, NoneBeside, Continue(t)
    PROVE  /\ NoneBeside'
           /\ alone' = alone
           /\ calm' \in BOOLEAN
           /\ calm' => calm \/ (Note(t) /\ t \in alone)
           /\ t \notin alone => alone = {} /\ ~calm /\ ~calm'
<1>1. /\ \A u \in Threads : u # t => at'[u] = at[u]
      /\ IsBusy(t) /\ Track(at[t], at'[t], t)
  BY Going DEF ViewTypeOK
<1>2. alone' = alone
  BY DEF Continue, Update, ClearCallbacks, AddCallback, TryLock, Locked, ReadData, ReadRaises,
                ResetLayout, Release, Raise, Write, WriteNothing, Close, EndCallbacks, Note, Look, Wait,
                Build, CacheLayout, Return, histVars
<1>3. calm \in BOOLEAN /\ calm' \in BOOLEAN /\ (calm' => calm \/ (Note(t) /\ t \in alone))
  <2>1. calm \in BOOLEAN
    BY DEF ViewTypeOK
  <2>2. CASE Note(t)
    <3>1. calm' = (calm \/ t \in alone)
      BY <2>2 DEF Note
    <3> QED
      BY <2>1, <2>2, <3>1
  <2>3. CASE EndCallbacks(t)
    <3>1. calm' = (calm /\ callbacks # {})
      BY <2>3 DEF EndCallbacks
    <3> QED
      BY <2>1, <3>1
  <2>4. CASE ReadRaises(t)
    BY <2>1, <2>4 DEF ReadRaises
  <2>5. CASE ~Note(t) /\ ~EndCallbacks(t) /\ ~ReadRaises(t)
    <3>1. calm' = calm
      BY <2>5 DEF Continue, Update, ClearCallbacks, AddCallback, TryLock, Locked, ReadData,
                  ResetLayout, Release, Raise, Write, WriteNothing, Close, Look, Wait,
                  Build, CacheLayout, Return, histVars
    <3> QED
      BY <2>1, <3>1
  <2> QED
    BY <2>2, <2>3, <2>4, <2>5
<1>4. \A u \in Threads : IsBusy(u)' => IsBusy(u)
  BY <1>1 DEF IsBusy
<1>5. t \notin alone => alone = {} /\ ~calm
  BY <1>1 DEF NoneBeside, ViewTypeOK
<1>6. Note(t) /\ t \in alone => \A u \in Threads : ~IsBusy(u)'
  <2> SUFFICES ASSUME Note(t), t \in alone, NEW u \in Threads PROVE ~IsBusy(u)'
    OBVIOUS
  <2>1. at[t] = "note"
    BY DEF Note
  <2> QED
    BY <1>1, <2>1 DEF NoneBeside, IsBusy, Track
<1> QED
  BY <1>2, <1>3, <1>4, <1>5, <1>6 DEF NoneBeside

LEMMA LocksAreHeldStep ==
    ASSUME NEW t \in Threads, ViewTypeOK, LocksAreHeld, Continue(t)
    PROVE  LocksAreHeld'
<1>1. /\ at' \in [Threads -> ThreadPlaces] /\ \A u \in Threads : u # t => at'[u] = at[u]
      /\ IsBusy(t) /\ Track(at[t], at'[t], t)
  BY Going DEF ViewTypeOK
<1>2. callbacks' = {} => \E u \in Threads : at'[u] \in {"add", "readd", "subadd"}
  <2>1. CASE at[t] \in {"clear", "reclear", "subclear"}
    BY <1>1, <2>1 DEF Track
  <2>2. CASE at[t] \in {"add", "readd", "subadd"}
    <3>1. callbacks' = {got[t]}
      BY <2>2 DEF Continue, Update, ClearCallbacks, AddCallback, TryLock, Locked, ReadData, ReadRaises,
                ResetLayout, Release, Raise, Write, WriteNothing, Close, EndCallbacks, Note, Look, Wait,
                Build, CacheLayout, Return
    <3> QED
      BY <3>1
  <2>3. CASE at[t] \notin {"clear", "reclear", "subclear", "add", "readd", "subadd"}
    <3>1. callbacks' = callbacks
      BY <2>3 DEF Continue, Update, ClearCallbacks, AddCallback, TryLock, Locked, ReadData, ReadRaises,
                ResetLayout, Release, Raise, Write, WriteNothing, Close, EndCallbacks, Note, Look, Wait,
                Build, CacheLayout, Return, connVars
    <3> QED
      BY <1>1, <2>3, <3>1 DEF LocksAreHeld
  <2> QED
    BY <2>1, <2>2, <2>3
<1>3. updating' # NoThread => at'[updating'] \in Updates \ {"lock"}
  <2>1. updating \in Threads \cup {NoThread}
    BY DEF ViewTypeOK
  <2>2. CASE TryLock(t)
    <3>1. at'[t] = "reclear" /\ updating' = t
      BY <2>2, Moved DEF TryLock, ViewTypeOK, ThreadPlaces
    <3> QED
      BY <3>1 DEF Updates
  <2>3. CASE Release(t) \/ Raise(t)
    BY <2>3 DEF Release, Raise
  <2>4. CASE ~TryLock(t) /\ ~Release(t) /\ ~Raise(t)
    <3>1. updating' = updating /\ at[t] \notin {"release", "raise"}
      BY <2>4, <1>1 DEF Continue, Update, ClearCallbacks, AddCallback, TryLock, Locked, ReadData, ReadRaises,
                ResetLayout, Release, Raise, Write, WriteNothing, Close, EndCallbacks, Note, Look, Wait,
                Build, CacheLayout, Return, tripVars
    <3>2. ASSUME updating' # NoThread, updating = t
          PROVE  at'[t] \in Updates \ {"lock"}
      BY <1>1, <3>1, <3>2 DEF LocksAreHeld, Updates, Track
    <3> QED
      BY <1>1, <2>1, <3>1, <3>2 DEF LocksAreHeld
  <2> QED
    BY <2>2, <2>3, <2>4
<1> QED
  BY <1>2, <1>3 DEF LocksAreHeld

LEMMA NotedStep ==
    ASSUME NEW t \in Threads, ViewTypeOK, noted <= changes, Continue(t)
    PROVE  noted' <= changes' /\ noted' \in Nat /\ changes' \in Nat
<1>1. noted \in Nat /\ changes \in Nat
  BY DEF ViewTypeOK
<1>2. \/ changes' = changes + 1 /\ noted' = noted
      \/ changes' = changes /\ noted' \in {noted, changes}
  BY DEF Continue, Update, ClearCallbacks, AddCallback, TryLock, Locked, ReadData, ReadRaises,
                ResetLayout, Release, Raise, Write, WriteNothing, Close, EndCallbacks, Note, Look, Wait,
                Build, CacheLayout, Return, connVars
<1> QED
  BY <1>1, <1>2

\* While the threads run the tables are there, and a charge is added at most.
LEMMA RowsWhenReady ==
    ASSUME DbInv, phase = "ready"
    PROVE  /\ conn.battery.rows \in SUBSET Charges
           /\ Rows(conn.battery) = conn.battery.rows
BY DEF DbInv, DbTypeOK, TransactionIsWhole, Tables, Table, Rows

LEMMA RowsGrow ==
    ASSUME NEW t \in Threads, ViewTypeOK, StartsFresh, DbInv, DbInv', Continue(t)
    PROVE  /\ phase = "ready" /\ phase' = "ready"
           /\ conn'.battery.rows \in SUBSET Charges
           /\ Rows(conn.battery)' = conn'.battery.rows
           /\ Rows(conn.battery) \subseteq Rows(conn.battery)'
           /\ conn' # conn => Write(t)
<1>1. phase = "ready"
  BY Going DEF ViewTypeOK, StartsFresh, IsBusy
<1>2. phase' = "ready"
  BY <1>1 DEF Continue, Update, ClearCallbacks, AddCallback, TryLock, Locked, ReadData, ReadRaises,
                ResetLayout, Release, Raise, Write, WriteNothing, Close, EndCallbacks, Note, Look, Wait,
                Build, CacheLayout, Return, dbVars, RecordCharge
<1>3. conn' # conn => Write(t)
  BY DEF Continue, Update, ClearCallbacks, AddCallback, TryLock, Locked, ReadData, ReadRaises,
                ResetLayout, Release, Raise, Write, WriteNothing, Close, EndCallbacks, Note, Look, Wait,
                Build, CacheLayout, Return, dbVars
<1>4. conn'.battery.rows \in SUBSET Charges /\ Rows(conn.battery)' = conn'.battery.rows
  BY <1>2 DEF DbInv, DbTypeOK, TransactionIsWhole, Tables, Table, Rows
<1>5. Write(t) => conn.battery.rows \subseteq conn'.battery.rows
  <2> SUFFICES ASSUME Write(t) PROVE conn.battery.rows \subseteq conn'.battery.rows
    OBVIOUS
  <2>1. PICK c \in Charges : conn' = [conn EXCEPT !.battery.rows = @ \cup {c}]
    BY DEF Write, RecordCharge, Save
  <2>2. conn \in [battery: Table \cup {NoTable}, battery_old: Table \cup {NoTable}] /\ conn.battery # NoTable
    BY <1>1 DEF DbInv, DbTypeOK, TransactionIsWhole, Tables
  <2>3. conn.battery \in Table
    BY <2>2
  <2> QED
    BY <2>1, <2>2, <2>3 DEF Table
<1> QED
  BY <1>1, <1>2, <1>3, <1>4, <1>5, RowsWhenReady

LEMMA NoneIsInventedStep ==
    ASSUME NEW t \in Threads, ViewTypeOK, StartsFresh, NoneIsInvented, InItsPlace(t), DbInv, DbInv', Continue(t)
    PROVE  /\ NoneIsInvented'
           /\ built' \in [Visitors -> SUBSET Charges]
           /\ data' \in SUBSET Charges
           /\ cached_layout' \in {NoLayout} \cup SUBSET Charges
<1>1. /\ phase = "ready"
      /\ conn'.battery.rows \in SUBSET Charges
      /\ Rows(conn.battery)' = conn'.battery.rows
      /\ Rows(conn.battery) \subseteq Rows(conn.battery)'
      /\ conn' # conn => Write(t)
  BY RowsGrow
<1>2. conn.battery.rows \in SUBSET Charges /\ Rows(conn.battery) = conn.battery.rows
  BY <1>1, RowsWhenReady
<1>3. built \in [Visitors -> SUBSET Charges] /\ data \in SUBSET Charges
      /\ cached_layout \in {NoLayout} \cup SUBSET Charges
  BY DEF ViewTypeOK
<1>4. /\ data \subseteq Rows(conn.battery)
      /\ \A v \in Visitors : built[v] \subseteq Rows(conn.battery)
      /\ cached_layout = NoLayout \/ cached_layout \subseteq Rows(conn.battery)
  BY DEF NoneIsInvented
<1>5. CASE ReadData(t)
  <2>1. data' = conn.battery.rows /\ built' = built /\ cached_layout' = cached_layout
    BY <1>5 DEF ReadData
  <2> QED
    BY <1>1, <1>2, <1>3, <1>4, <2>1 DEF NoneIsInvented
<1>6. CASE ResetLayout(t)
  <2>1. data' = data /\ built' = built /\ cached_layout' = NoLayout
    BY <1>6 DEF ResetLayout, tripVars
  <2> QED
    BY <1>1, <1>2, <1>3, <1>4, <2>1 DEF NoneIsInvented
<1>7. CASE Build(t)
  <2>1. data' = data /\ built' = [built EXCEPT ![t] = data] /\ cached_layout' = cached_layout
    BY <1>7 DEF Build, tripVars
  <2> QED
    BY <1>1, <1>2, <1>3, <1>4, <2>1 DEF NoneIsInvented
<1>8. CASE CacheLayout(t)
  <2>1. at[t] = "cache" /\ data' = data /\ built' = [built EXCEPT ![t] = {}] /\ cached_layout' = built[t]
    BY <1>8 DEF CacheLayout, tripVars
  <2>2. t \in Visitors
    BY <2>1 DEF InItsPlace, Updates
  <2> QED
    BY <1>1, <1>2, <1>3, <1>4, <2>1, <2>2 DEF NoneIsInvented
<1>9. CASE ~ReadData(t) /\ ~ResetLayout(t) /\ ~Build(t) /\ ~CacheLayout(t)
  <2>1. data' = data /\ built' = built /\ cached_layout' = cached_layout
    BY <1>9 DEF Continue, Update, ClearCallbacks, AddCallback, TryLock, Locked, ReadRaises, Release, Raise,
                Write, WriteNothing, Close, EndCallbacks, Note, Look, Wait, Return, tripVars
  <2> QED
    BY <1>1, <1>2, <1>3, <1>4, <2>1 DEF NoneIsInvented
<1> QED
  BY <1>5, <1>6, <1>7, <1>8, <1>9

LEMMA ContinueMemory ==
    ASSUME NEW t \in Threads, MemoryInv, DbInv, DbInv', Continue(t)
    PROVE  MemoryInv'
<1>1. /\ ViewTypeOK /\ NoneBeside /\ LocksAreHeld /\ noted <= changes /\ StartsFresh /\ NoneIsInvented
      /\ \A u \in Threads : InItsPlace(u) /\ HoldsCallback(u)
  BY DEF MemoryInv
<1>2. phase' = "ready" /\ StartsFresh'
  <2>1. phase' = "ready"
    BY <1>1, RowsGrow
  <2> QED
    BY <2>1 DEF StartsFresh
<1>3. NoneIsInvented' /\ built' \in [Visitors -> SUBSET Charges] /\ data' \in SUBSET Charges
      /\ cached_layout' \in {NoLayout} \cup SUBSET Charges
  BY <1>1, NoneIsInventedStep
<1>4. /\ NoneBeside' /\ alone' = alone /\ calm' \in BOOLEAN
  BY <1>1, NoneBesideStep
<1>5. at' \in [Threads -> ThreadPlaces] /\ \A u \in Threads : InItsPlace(u)'
  BY <1>1, Going, InItsPlaceStep DEF ViewTypeOK
<1>6. (\A u \in Threads : HoldsCallback(u)') /\ got' \in [Threads -> {"", "nothing", "update_trips"}]
  BY <1>1, HoldsCallbackStep
<1>7. LocksAreHeld'
  BY <1>1, LocksAreHeldStep
<1>8. noted' <= changes' /\ noted' \in Nat /\ changes' \in Nat
  BY <1>1, NotedStep
<1>9. callback_fct' \in {"nothing", "update_trips"} /\ callbacks' \in SUBSET {"nothing", "update_trips"}
  <2>1. callback_fct \in {"nothing", "update_trips"} /\ callbacks \in SUBSET {"nothing", "update_trips"}
        /\ got \in [Threads -> {"", "nothing", "update_trips"}]
    BY <1>1 DEF ViewTypeOK
  <2>2. CASE AddCallback(t)
    <3>1. at[t] \in {"add", "readd", "subadd"} /\ callback_fct' = got[t] /\ callbacks' = {got[t]}
      BY <2>2 DEF AddCallback
    <3>2. got[t] # ""
      BY <1>1, <3>1 DEF HoldsCallback
    <3> QED
      BY <2>1, <3>1, <3>2
  <2>3. CASE ~AddCallback(t)
    <3>1. callback_fct' = callback_fct /\ callbacks' \in {{}, callbacks}
      BY <2>3 DEF Continue, Update, ClearCallbacks, AddCallback, TryLock, Locked, ReadData, ReadRaises,
                ResetLayout, Release, Raise, Write, WriteNothing, Close, EndCallbacks, Note, Look, Wait,
                Build, CacheLayout, Return, connVars
    <3> QED
      BY <2>1, <3>1
  <2> QED
    BY <2>2, <2>3
<1>10. updating' \in Threads \cup {NoThread}
  <2>1. updating' \in {updating, t, NoThread}
    BY DEF Continue, Update, ClearCallbacks, AddCallback, TryLock, Locked, ReadData, ReadRaises,
                ResetLayout, Release, Raise, Write, WriteNothing, Close, EndCallbacks, Note, Look, Wait,
                Build, CacheLayout, Return, tripVars
  <2> QED
    BY <1>1, <2>1 DEF ViewTypeOK
<1>11. data_ready' \in BOOLEAN
  <2>1. data_ready' = data_ready \/ data_ready' = TRUE
    BY DEF Continue, Update, ClearCallbacks, AddCallback, TryLock, Locked, ReadData, ReadRaises,
                ResetLayout, Release, Raise, Write, WriteNothing, Close, EndCallbacks, Note, Look, Wait,
                Build, CacheLayout, Return, tripVars
  <2> QED
    BY <1>1, <2>1 DEF ViewTypeOK
<1>12. watched' \in BOOLEAN
  <2>1. watched' = watched \/ AddCallback(t)
    BY DEF Continue, Update, ClearCallbacks, AddCallback, TryLock, Locked, ReadData, ReadRaises,
                ResetLayout, Release, Raise, Write, WriteNothing, Close, EndCallbacks, Note, Look, Wait,
                Build, CacheLayout, Return, histVars
  <2>2. AddCallback(t) => watched' = (watched \/ (at[t] = "subadd" /\ t \in alone))
    BY DEF AddCallback
  <2> QED
    BY <1>1, <2>1, <2>2 DEF ViewTypeOK
<1>13. alone' \in SUBSET Threads
  BY <1>1, <1>4 DEF ViewTypeOK
<1>14. ViewTypeOK'
  BY <1>3, <1>4, <1>5, <1>6, <1>8, <1>9, <1>10, <1>11, <1>12, <1>13 DEF ViewTypeOK
<1> QED
  BY <1>2, <1>3, <1>4, <1>5, <1>6, <1>7, <1>8, <1>14 DEF MemoryInv

\* A thread begins, with the callback that it has read.
Begins(t, p, g) ==
    /\ Enter(t, p)
    /\ got' = [got EXCEPT ![t] = g]
    /\ \/ t \in Writers /\ p = "clear" /\ g = callback_fct
       \/ t = View /\ p = "lock" /\ g = ""
       \/ t = View /\ p = "subclear" /\ g = "update_trips"
       \/ t \in Visitors /\ p = "look" /\ g = "" /\ at[View] = "served"

LEMMA BeginsOne ==
    ASSUME MemoryInv, Begin
    PROVE  \E t \in Threads, p \in ThreadPlaces, g \in {"", "nothing", "update_trips"} : Begins(t, p, g)
<1>1. got \in [Threads -> {"", "nothing", "update_trips"}] /\ callback_fct \in {"nothing", "update_trips"}
  BY DEF MemoryInv, ViewTypeOK
<1>2. ASSUME NEW t \in Threads, at[t] = "idle", got' = got
      PROVE  got' = [got EXCEPT ![t] = ""]
  <2>1. got[t] = ""
    BY <1>2 DEF MemoryInv, HoldsCallback
  <2> QED
    BY <1>1, <1>2, <2>1
<1>3. ASSUME NEW w \in Writers, BeginWrite(w)
      PROVE  w \in Threads /\ Begins(w, "clear", callback_fct)
  BY <1>3 DEF BeginWrite, Begins, Threads
<1>4. ASSUME at[View] = "idle", ImportView
      PROVE  View \in Threads /\ (Begins(View, "lock", "") \/ Begins(View, "subclear", "update_trips"))
  BY <1>2, <1>4 DEF ImportView, Begins, Threads
<1>5. ASSUME NEW v \in Visitors, Request(v)
      PROVE  v \in Threads /\ Begins(v, "look", "")
  <2>1. v \in Threads /\ Enter(v, "look") /\ at[View] = "served" /\ got' = got
    BY <1>5 DEF Request, Threads
  <2>2. at[v] = "idle"
    BY <2>1 DEF Enter
  <2> QED
    BY <1>2, <2>1, <2>2 DEF Begins
<1>6. "clear" \in ThreadPlaces /\ "lock" \in ThreadPlaces /\ "subclear" \in ThreadPlaces /\ "look" \in ThreadPlaces
  BY DEF ThreadPlaces
<1> QED
  BY <1>1, <1>3, <1>4, <1>5, <1>6 DEF Begin

\* The history, when a thread begins.
LEMMA BeginAlone ==
    ASSUME MemoryInv, NEW t \in Threads, NEW p \in ThreadPlaces \ {"idle", "served"}, Enter(t, p)
    PROVE  /\ at[t] = "idle" /\ phase = "ready"
           /\ at' \in [Threads -> ThreadPlaces] /\ at'[t] = p /\ \A u \in Threads : u # t => at'[u] = at[u]
           /\ NoneBeside'
           /\ alone' \in SUBSET Threads /\ calm' \in BOOLEAN
           /\ \/ (\A u \in Threads : ~IsBusy(u)) /\ alone' = {t} /\ calm' = calm
              \/ alone' = {} /\ ~calm'
<1>1. at \in [Threads -> ThreadPlaces] /\ calm \in BOOLEAN /\ NoneBeside
  BY DEF MemoryInv, ViewTypeOK
<1>2. at[t] = "idle" /\ phase = "ready" /\ MoveOn(t, p)
  BY DEF Enter
<1>3. at' \in [Threads -> ThreadPlaces] /\ at'[t] = p /\ \A u \in Threads : u # t => at'[u] = at[u]
  BY <1>1, <1>2, Moved
<1>4. CASE Busy = {}
  <2>1. \A u \in Threads : ~IsBusy(u)
    BY <1>4 DEF Busy, IsBusy
  <2>2. alone' = {t} /\ calm' = calm
    BY <1>1, <1>4 DEF Enter
  <2>3. NoneBeside'
    BY <1>3, <2>1, <2>2 DEF NoneBeside, IsBusy
  <2> QED
    BY <1>1, <1>2, <1>3, <2>1, <2>2, <2>3
<1>5. CASE Busy # {}
  <2>1. alone' = {} /\ calm' = FALSE
    BY <1>1, <1>5 DEF Enter
  <2>2. NoneBeside'
    BY <2>1 DEF NoneBeside
  <2> QED
    BY <1>2, <1>3, <2>1, <2>2
<1> QED
  BY <1>4, <1>5

LEMMA BeginMemory ==
    ASSUME MemoryInv, Begin
    PROVE  MemoryInv'
<1>1. PICK t \in Threads, p \in ThreadPlaces, g \in {"", "nothing", "update_trips"} : Begins(t, p, g)
  BY BeginsOne
<1>2. Enter(t, p) /\ p \notin {"idle", "served"}
  BY <1>1 DEF Begins
<1>3. /\ at[t] = "idle" /\ phase = "ready"
      /\ at' \in [Threads -> ThreadPlaces] /\ at'[t] = p /\ \A u \in Threads : u # t => at'[u] = at[u]
      /\ NoneBeside'
      /\ alone' \in SUBSET Threads /\ calm' \in BOOLEAN
  BY <1>2, BeginAlone
<1>4. /\ conn' = conn /\ phase' = phase /\ built' = built /\ updating' = updating /\ data' = data
      /\ data_ready' = data_ready /\ cached_layout' = cached_layout /\ watched' = watched
      /\ callback_fct' = callback_fct /\ callbacks' = callbacks /\ changes' = changes /\ noted' = noted
  BY <1>2 DEF Enter, dbVars, tripVars, connVars
<1>5. ViewTypeOK /\ LocksAreHeld /\ noted <= changes /\ StartsFresh /\ NoneIsInvented
      /\ \A u \in Threads : InItsPlace(u) /\ HoldsCallback(u)
  BY DEF MemoryInv
<1>6. got' = [got EXCEPT ![t] = g]
  BY <1>1 DEF Begins
<1>7. ViewTypeOK'
  <2>1. got' \in [Threads -> {"", "nothing", "update_trips"}]
    BY <1>5, <1>6 DEF ViewTypeOK
  <2> QED
    BY <1>3, <1>4, <1>5, <2>1 DEF ViewTypeOK
<1>8. \A u \in Threads : InItsPlace(u)' /\ HoldsCallback(u)'
  <2>1. \A u \in Threads : u # t => InItsPlace(u)' /\ HoldsCallback(u)'
    BY <1>3, <1>5, <1>6 DEF InItsPlace, HoldsCallback, ViewTypeOK
  <2>2. got'[t] = g
    BY <1>5, <1>6 DEF ViewTypeOK
  <2>3. InItsPlace(t)' /\ HoldsCallback(t)'
    BY <1>1, <1>3, <1>5, <2>2 DEF Begins, InItsPlace, HoldsCallback, Updates, ViewTypeOK
  <2> QED
    BY <2>1, <2>3
<1>9. LocksAreHeld'
  <2>1. \A u \in Threads : at[u] \in {"add", "readd", "subadd"} => at'[u] = at[u]
    BY <1>3
  <2>2. updating # NoThread => updating \in Threads /\ at'[updating] = at[updating]
    BY <1>3, <1>5 DEF LocksAreHeld, ViewTypeOK, Updates
  <2> QED
    BY <1>4, <1>5, <2>1, <2>2 DEF LocksAreHeld
<1>10. noted' <= changes' /\ StartsFresh' /\ NoneIsInvented'
  BY <1>3, <1>4, <1>5 DEF StartsFresh, NoneIsInvented
<1> QED
  BY <1>3, <1>7, <1>8, <1>9, <1>10 DEF MemoryInv

LEMMA StartUpPage ==
    ASSUME PageInv, StartUp, UNCHANGED viewVars
    PROVE  PageInv'
<1>1. phase # "ready"
  BY DEF StartUp, Open, Check, Rename, CreateTables, AddColumn, NothingToCopy, Copy, CopyRaises, DropOld,
         CommitCopy, CleanBattery, Finish, HasColumns
<1>2. /\ at' = at /\ got' = got /\ built' = built
      /\ callback_fct' = callback_fct /\ callbacks' = callbacks /\ changes' = changes /\ noted' = noted
      /\ updating' = updating /\ data' = data /\ data_ready' = data_ready /\ cached_layout' = cached_layout
      /\ alone' = alone /\ watched' = watched /\ calm' = calm
  BY DEF viewVars, connVars, tripVars, histVars
<1>3. /\ \A t \in Threads : at[t] = "idle"
      /\ data = {} /\ cached_layout = NoLayout /\ \A v \in Visitors : built[v] = {}
      /\ ~watched /\ alone \in SUBSET Threads
  BY <1>1 DEF PageInv, MemoryInv, StartsFresh, ViewTypeOK
<1>4. ViewTypeOK' /\ (\A t \in Threads : InItsPlace(t)' /\ HoldsCallback(t)') /\ NoneBeside' /\ LocksAreHeld'
      /\ noted' <= changes'
  BY <1>2 DEF PageInv, MemoryInv, ViewTypeOK, InItsPlace, HoldsCallback, NoneBeside, IsBusy, LocksAreHeld
<1>5. StartsFresh' /\ NoneIsInvented'
  BY <1>2, <1>3 DEF StartsFresh, NoneIsInvented
<1>6. NothingUnviewed' /\ StaysSubscribed'
  BY <1>2 DEF PageInv, NothingUnviewed, StaysSubscribed
<1>7. \A t \in alone' : SeesCurrent(t)'
  BY <1>2, <1>3 DEF SeesCurrent
<1> QED
  BY <1>2, <1>3, <1>4, <1>5, <1>6, <1>7 DEF PageInv, MemoryInv

LEMMA RestartPage ==
    ASSUME Restart
    PROVE  PageInv'
<1>1. /\ at' = [t \in Threads |-> "idle"] /\ got' = [t \in Threads |-> ""]
      /\ built' = [v \in Visitors |-> {}]
      /\ callback_fct' = "nothing" /\ callbacks' = {"nothing"} /\ changes' = 0 /\ noted' = 0
      /\ updating' = NoThread /\ data' = {} /\ data_ready' = FALSE /\ cached_layout' = NoLayout
      /\ alone' = {} /\ watched' = FALSE /\ calm' = TRUE
  BY DEF Restart, Fresh
<1>2. ViewTypeOK'
  BY <1>1 DEF ViewTypeOK, ThreadPlaces
<1>3. \A t \in Threads : InItsPlace(t)' /\ HoldsCallback(t)' /\ ~IsBusy(t)'
  BY <1>1 DEF InItsPlace, HoldsCallback, IsBusy
<1>4. NoneBeside'
  BY <1>1, <1>3 DEF NoneBeside
<1>5. StartsFresh' /\ NoneIsInvented'
  BY <1>1 DEF StartsFresh, NoneIsInvented
<1>6. NothingUnviewed'
  BY <1>1 DEF NothingUnviewed
<1>7. LocksAreHeld'
  BY <1>1 DEF LocksAreHeld
<1>8. noted' <= changes'
  <2>1. noted' = 0 /\ changes' = 0
    BY <1>1
  <2> QED
    BY <2>1
<1> QED
  BY <1>1, <1>2, <1>3, <1>4, <1>5, <1>6, <1>7, <1>8 DEF PageInv, MemoryInv, StaysSubscribed

LEMMA BeginPage ==
    ASSUME PageInv, Begin
    PROVE  PageInv'
<1>1. MemoryInv /\ MemoryInv'
  BY BeginMemory DEF PageInv
<1>2. PICK t \in Threads, p \in ThreadPlaces, g \in {"", "nothing", "update_trips"} : Begins(t, p, g)
  BY <1>1, BeginsOne
<1>3. Enter(t, p) /\ p \notin {"idle", "served"}
  BY <1>2 DEF Begins
<1>4. /\ at[t] = "idle" /\ phase = "ready"
      /\ at' \in [Threads -> ThreadPlaces] /\ at'[t] = p /\ \A u \in Threads : u # t => at'[u] = at[u]
      /\ alone' \in SUBSET Threads /\ calm' \in BOOLEAN
      /\ \/ (\A u \in Threads : ~IsBusy(u)) /\ alone' = {t} /\ calm' = calm
         \/ alone' = {} /\ ~calm'
  BY <1>1, <1>3, BeginAlone
<1>5. /\ conn' = conn /\ phase' = phase /\ built' = built /\ updating' = updating /\ data' = data
      /\ data_ready' = data_ready /\ cached_layout' = cached_layout /\ watched' = watched
      /\ callback_fct' = callback_fct /\ callbacks' = callbacks /\ changes' = changes /\ noted' = noted
  BY <1>3 DEF Enter, dbVars, tripVars, connVars
<1>6. got' = [got EXCEPT ![t] = g] /\ got \in [Threads -> {"", "nothing", "update_trips"}]
  BY <1>1, <1>2 DEF Begins, MemoryInv, ViewTypeOK
<1>7. View \in Threads
  BY DEF Threads
<1>8. NothingUnviewed'
  <2>1. SUFFICES ASSUME at'[View] = "idle"
                 PROVE  NothingUnviewed'
    BY DEF NothingUnviewed
  <2>2. t # View /\ at[View] = "idle"
    BY <1>3, <1>4, <1>7, <2>1
  <2>3. p = "clear" /\ g = callback_fct
    BY <1>2, <2>2 DEF Begins
  <2> QED
    BY <1>4, <1>5, <1>6, <2>2, <2>3 DEF NothingUnviewed, PageInv
<1>9. StaysSubscribed'
  <2>1. SUFFICES ASSUME watched
                 PROVE  StaysSubscribed'
    BY <1>5 DEF StaysSubscribed
  <2>2. /\ at[View] = "served" /\ callback_fct = "update_trips" /\ callbacks \subseteq {"update_trips"}
        /\ \A u \in Threads : got[u] # "nothing"
    BY <2>1 DEF PageInv, StaysSubscribed
  <2>3. t # View
    BY <1>4, <2>2
  <2>4. g # "nothing"
    BY <1>2, <2>2 DEF Begins
  <2> QED
    BY <1>4, <1>5, <1>6, <1>7, <2>2, <2>3, <2>4 DEF StaysSubscribed
<1>10. ASSUME alone' # {}
       PROVE  SeesCurrent(t)'
  <2>1. watched /\ calm => Current
    BY <1>4, <1>10 DEF PageInv
  <2>2. p = "subclear" => Current
    BY <1>2, <1>4 DEF Begins, PageInv, NothingUnviewed, Current, NoneIsOld
  <2>3. p \in {"clear", "lock", "subclear", "look"}
    BY <1>2 DEF Begins
  <2>4. Current => Current'
    BY <1>5 DEF Current, NoneIsOld
  <2> QED
    BY <1>4, <1>5, <1>10, <2>1, <2>2, <2>3, <2>4 DEF SeesCurrent
<1>11. IsBusy(t)'
  BY <1>3, <1>4 DEF IsBusy
<1> QED
  BY <1>1, <1>4, <1>8, <1>9, <1>10, <1>11 DEF PageInv

\* Before the view, the threads only write.
LEMMA UnviewedStep ==
    ASSUME NEW t \in Threads, MemoryInv, NothingUnviewed, Continue(t)
    PROVE  NothingUnviewed'
<1>1. /\ at' \in [Threads -> ThreadPlaces] /\ \A u \in Threads : u # t => at'[u] = at[u]
      /\ IsBusy(t) /\ Track(at[t], at'[t], t)
  BY Going DEF MemoryInv, ViewTypeOK
<1>2. View \in Threads /\ InItsPlace(View) /\ InItsPlace(t)
  BY DEF Threads, MemoryInv
<1>3. t = View => at'[View] # "idle"
  <2> SUFFICES ASSUME t = View PROVE at'[View] # "idle"
    OBVIOUS
  <2>1. at[View] \in Updates \cup {"subclear", "subadd"}
    BY <1>1, <1>2, DashboardAssumption DEF InItsPlace, IsBusy
  <2> QED
    BY <1>1, <2>1, CallerOf DEF Updates, Track
<1>4. SUFFICES ASSUME at'[View] = "idle"
               PROVE  NothingUnviewed'
  BY DEF NothingUnviewed
<1>5. t # View /\ at[View] = "idle"
  BY <1>1, <1>2, <1>3, <1>4
<1>6. /\ callback_fct = "nothing" /\ callbacks \subseteq {"nothing"}
      /\ cached_layout = NoLayout /\ ~data_ready
      /\ \A u \in Threads : at[u] \in {"idle", "clear", "add", "write", "close", "after", "note"}
      /\ \A u \in Threads : got[u] # "update_trips"
  BY <1>5 DEF NothingUnviewed
<1>7. got \in [Threads -> {"", "nothing", "update_trips"}] /\ HoldsCallback(t)
  BY DEF MemoryInv, ViewTypeOK
<1>8. at[t] \in {"clear", "add", "write", "close", "after", "note"}
  BY <1>1, <1>6 DEF IsBusy
<1>9. cached_layout' = cached_layout /\ data_ready' = data_ready
  BY <1>8 DEF Continue, Update, ClearCallbacks, AddCallback, TryLock, Locked, ReadData, ReadRaises,
                ResetLayout, Release, Raise, Write, WriteNothing, Close, EndCallbacks, Note, Look, Wait,
                Build, CacheLayout, Return, tripVars
<1>10. /\ callback_fct' = "nothing" /\ callbacks' \subseteq {"nothing"}
       /\ \A u \in Threads : got'[u] # "update_trips"
  <2>1. CASE at[t] = "clear"
    <3>1. callbacks' = {} /\ callback_fct' = callback_fct /\ got' = got
      BY <2>1 DEF Continue, Update, ClearCallbacks, AddCallback, TryLock, Locked, ReadData, ReadRaises,
                ResetLayout, Release, Raise, Write, WriteNothing, Close, EndCallbacks, Note, Look, Wait,
                Build, CacheLayout, Return
    <3> QED
      BY <1>6, <3>1
  <2>2. CASE at[t] = "add"
    <3>1. callbacks' = {got[t]} /\ callback_fct' = got[t] /\ got' = [got EXCEPT ![t] = ""]
      BY <2>2 DEF Continue, Update, ClearCallbacks, AddCallback, TryLock, Locked, ReadData, ReadRaises,
                ResetLayout, Release, Raise, Write, WriteNothing, Close, EndCallbacks, Note, Look, Wait,
                Build, CacheLayout, Return
    <3>2. got[t] = "nothing"
      BY <1>6, <1>7, <2>2 DEF HoldsCallback
    <3> QED
      BY <1>6, <1>7, <3>1, <3>2
  <2>3. CASE at[t] \notin {"clear", "add"}
    <3>1. callbacks' = callbacks /\ callback_fct' = callback_fct /\ got' = got
      BY <1>8, <2>3 DEF Continue, Update, ClearCallbacks, AddCallback, TryLock, Locked, ReadData, ReadRaises,
                ResetLayout, Release, Raise, Write, WriteNothing, Close, EndCallbacks, Note, Look, Wait,
                Build, CacheLayout, Return, connVars
    <3> QED
      BY <1>6, <3>1
  <2> QED
    BY <2>1, <2>2, <2>3
<1>11. at'[t] \in {"idle", "clear", "add", "write", "close", "after", "note"}
  <2>1. CASE at[t] = "close"
    <3>1. Close(t)
      BY <2>1 DEF Continue, Update, ClearCallbacks, AddCallback, TryLock, Locked, ReadData, ReadRaises,
                ResetLayout, Release, Raise, Write, WriteNothing, Close, EndCallbacks, Note, Look, Wait,
                Build, CacheLayout, Return
    <3>2. callbacks = {} \/ "nothing" \in callbacks
      BY <1>6
    <3> QED
      BY <3>1, <3>2, Moved DEF Close, ThreadPlaces, MemoryInv, ViewTypeOK
  <2>2. CASE at[t] # "close"
    BY <1>1, <1>8, <2>2 DEF Track
  <2> QED
    BY <2>1, <2>2
<1> QED
  BY <1>1, <1>6, <1>9, <1>10, <1>11 DEF NothingUnviewed

\* A thread beside which none has run, in the step that subscribes the view.
LEMMA SubscribedStep ==
    ASSUME NEW t \in Threads, MemoryInv, StaysSubscribed, Continue(t)
    PROVE  /\ StaysSubscribed'
           /\ watched' => watched \/ (at[t] = "subadd" /\ t \in alone)
<1>1. /\ at' \in [Threads -> ThreadPlaces] /\ \A u \in Threads : u # t => at'[u] = at[u]
      /\ IsBusy(t) /\ Track(at[t], at'[t], t)
  BY Going DEF MemoryInv, ViewTypeOK
<1>2. /\ got \in [Threads -> {"", "nothing", "update_trips"}] /\ watched \in BOOLEAN
      /\ \A u \in Threads : InItsPlace(u) /\ HoldsCallback(u)
      /\ NoneBeside
  BY DEF MemoryInv, ViewTypeOK
<1>3. View \in Threads
  BY DEF Threads
<1>4. watched' => watched \/ (at[t] = "subadd" /\ t \in alone)
  <2>1. watched' = watched \/ AddCallback(t)
    BY DEF Continue, Update, ClearCallbacks, AddCallback, TryLock, Locked, ReadData, ReadRaises,
                ResetLayout, Release, Raise, Write, WriteNothing, Close, EndCallbacks, Note, Look, Wait,
                Build, CacheLayout, Return, histVars
  <2>2. AddCallback(t) => watched' = (watched \/ (at[t] = "subadd" /\ t \in alone))
    BY DEF AddCallback
  <2> QED
    BY <1>2, <2>1, <2>2
<1>5. ASSUME at[t] = "subadd", t \in alone
      PROVE  StaysSubscribed'
  <2>1. t = View /\ at'[View] = "served"
    BY <1>1, <1>2, <1>5 DEF InItsPlace, Updates, Track
  <2>2. callbacks' = {got[t]} /\ callback_fct' = got[t] /\ got' = [got EXCEPT ![t] = ""]
    BY <1>5 DEF Continue, Update, ClearCallbacks, AddCallback, TryLock, Locked, ReadData, ReadRaises,
                ResetLayout, Release, Raise, Write, WriteNothing, Close, EndCallbacks, Note, Look, Wait,
                Build, CacheLayout, Return
  <2>3. got[t] = "update_trips"
    BY <1>2, <1>5 DEF HoldsCallback
  <2>4. \A u \in Threads : u # t => got[u] = ""
    BY <1>2, <1>5 DEF HoldsCallback, NoneBeside, IsBusy
  <2> QED
    BY <1>2, <2>1, <2>2, <2>3, <2>4 DEF StaysSubscribed
<1>6. ASSUME watched
      PROVE  StaysSubscribed'
  <2>1. /\ at[View] = "served" /\ callback_fct = "update_trips" /\ callbacks \subseteq {"update_trips"}
        /\ \A u \in Threads : got[u] # "nothing"
    BY <1>6 DEF StaysSubscribed
  <2>2. t # View /\ at'[View] = "served"
    BY <1>1, <1>3, <2>1 DEF IsBusy
  <2>3. CASE AddCallback(t)
    <3>1. at[t] \in {"add", "readd", "subadd"} /\ callback_fct' = got[t] /\ callbacks' = {got[t]}
          /\ got' = [got EXCEPT ![t] = ""]
      BY <2>3 DEF AddCallback
    <3>2. got[t] = "update_trips"
      BY <1>2, <2>1, <3>1 DEF HoldsCallback
    <3> QED
      BY <1>2, <2>1, <2>2, <3>1, <3>2 DEF StaysSubscribed
  <2>4. CASE ~AddCallback(t)
    <3>1. callback_fct' = callback_fct /\ callbacks' \in {{}, callbacks}
      BY <2>4 DEF Continue, Update, ClearCallbacks, AddCallback, TryLock, Locked, ReadData, ReadRaises,
                ResetLayout, Release, Raise, Write, WriteNothing, Close, EndCallbacks, Note, Look, Wait,
                Build, CacheLayout, Return, connVars
    <3>2. got' \in {got, [got EXCEPT ![t] = ""], [got EXCEPT ![t] = callback_fct]}
      BY <2>2, <2>4 DEF Continue, Update, ClearCallbacks, AddCallback, TryLock, Locked, ReadData, ReadRaises,
                ResetLayout, Release, Raise, Write, WriteNothing, Close, EndCallbacks, Note, Look, Wait,
                Build, CacheLayout, Return, Carry
    <3> QED
      BY <1>2, <2>1, <2>2, <3>1, <3>2 DEF StaysSubscribed
  <2> QED
    BY <2>3, <2>4
<1> QED
  BY <1>4, <1>5, <1>6 DEF StaysSubscribed

\* A thread beside which none has run reads, shows and notes the charges as they are.
LEMMA SeesCurrentStep ==
    ASSUME PageInv, DbInv, DbInv', NEW t \in Threads, t \in alone, Continue(t)
    PROVE  /\ SeesCurrent(t)'
           /\ watched' /\ calm' /\ ~IsBusy(t)' => Current'
<1>1. /\ ViewTypeOK /\ NoneBeside /\ LocksAreHeld /\ noted <= changes /\ StartsFresh /\ NoneIsInvented
      /\ InItsPlace(t) /\ SeesCurrent(t) /\ StaysSubscribed
  BY DEF PageInv, MemoryInv
<1>2. /\ at' \in [Threads -> ThreadPlaces] /\ \A u \in Threads : u # t => at'[u] = at[u]
      /\ IsBusy(t) /\ Track(at[t], at'[t], t)
  BY <1>1, Going DEF ViewTypeOK
<1>3. /\ watched' => watched \/ at[t] = "subadd"
      /\ calm' => calm \/ at[t] = "note"
  BY <1>1, SubscribedStep, NoneBesideStep DEF PageInv, Note
<1>4. /\ phase = "ready" /\ Rows(conn.battery) = conn.battery.rows
      /\ conn' # conn => Write(t)
  BY <1>1, RowsGrow, RowsWhenReady
<1>5. \A u \in Threads : IsBusy(u) => u = t
  BY <1>1 DEF NoneBeside
<1>6. CASE at[t] \in {"clear", "subclear", "add", "subadd", "reclear", "readd"}
  <2>1. conn' = conn /\ cached_layout' = cached_layout /\ data_ready' = data_ready /\ data' = data
    BY <1>6 DEF Continue, Update, ClearCallbacks, AddCallback, TryLock, Locked, ReadData, ReadRaises,
                ResetLayout, Release, Raise, Write, WriteNothing, Close, EndCallbacks, Note, Look, Wait,
                Build, CacheLayout, Return, dbVars, tripVars
  <2>2. Current' = Current
    BY <2>1 DEF Current, NoneIsOld
  <2> QED
    BY <1>1, <1>2, <1>3, <1>6, <2>2 DEF SeesCurrent, Track, IsBusy
<1>7. CASE at[t] = "lock"
  <2>1. updating \in Threads => at[updating] = "lock" \/ ~IsBusy(updating)
    BY <1>5, <1>7
  <2>2. updating = NoThread
    BY <1>1, <2>1 DEF LocksAreHeld, Updates, IsBusy, ViewTypeOK
  <2>3. TryLock(t)
    BY <1>7, <2>2 DEF Continue, Update, ClearCallbacks, AddCallback, TryLock, Locked, ReadData, ReadRaises,
                ResetLayout, Release, Raise, Write, WriteNothing, Close, EndCallbacks, Note, Look, Wait,
                Build, CacheLayout, Return
  <2>4. at'[t] = "reclear"
    BY <1>1, <2>3, Moved DEF TryLock, ThreadPlaces, ViewTypeOK
  <2> QED
    BY <2>4 DEF SeesCurrent, IsBusy
<1>8. CASE ReadData(t)
  <2>1. /\ data' = conn.battery.rows /\ conn' = conn /\ cached_layout' = cached_layout
        /\ MoveOn(t, IF data' = {} THEN "release" ELSE "reset")
    BY <1>8 DEF ReadData, dbVars
  <2>2. at'[t] = IF data' = {} THEN "release" ELSE "reset"
    BY <1>1, <2>1, Moved DEF ThreadPlaces, ViewTypeOK
  <2>3. data' = {} => NoneIsOld'
    BY <1>1, <1>4, <2>1 DEF NoneIsInvented, NoneIsOld
  <2> QED
    BY <2>1, <2>2, <2>3 DEF SeesCurrent, IsBusy
<1>9. CASE ReadRaises(t)
  <2>1. at'[t] = "raise" /\ calm' = FALSE
    BY <1>1, <1>9, Moved DEF ReadRaises, ThreadPlaces, ViewTypeOK
  <2> QED
    BY <2>1 DEF SeesCurrent, IsBusy
<1>10. CASE ResetLayout(t)
  <2>1. at[t] = "reset" /\ at'[t] = "release" /\ conn' = conn /\ data' = data /\ cached_layout' = NoLayout
    BY <1>2, <1>10 DEF ResetLayout, dbVars, tripVars, Track
  <2> QED
    BY <1>1, <2>1 DEF SeesCurrent, IsBusy, NoneIsOld
<1>11. CASE Release(t)
  <2>1. at[t] = "release" /\ conn' = conn /\ data' = data /\ cached_layout' = cached_layout
    BY <1>11 DEF Release, dbVars
  <2>2. Current'
    BY <1>1, <2>1 DEF SeesCurrent, Current, NoneIsOld
  <2>3. at'[t] \in {"subclear", "wait", "after"}
    BY <1>2, <2>1, CallerOf DEF Track
  <2> QED
    BY <2>2, <2>3 DEF SeesCurrent, IsBusy
<1>12. CASE Raise(t)
  <2>1. at[t] = "raise" /\ at'[t] \in {"idle", "served"}
    BY <1>2, <1>12 DEF Raise, Track
  <2>2. ~calm /\ ~calm'
    BY <1>1, <1>3, <2>1 DEF SeesCurrent
  <2> QED
    BY <2>1, <2>2 DEF SeesCurrent
<1>13. CASE Write(t)
  <2>1. at'[t] = "close" /\ changes' = changes + 1 /\ noted' = noted
    BY <1>2, <1>13 DEF Write, Track
  <2>2. changes' # noted'
    <3>1. changes \in Nat /\ noted \in Nat /\ noted <= changes
      BY <1>1 DEF ViewTypeOK
    <3> QED
      BY <2>1, <3>1
  <2> QED
    BY <2>1, <2>2 DEF SeesCurrent, IsBusy
<1>14. CASE WriteNothing(t)
  <2>1. at[t] = "write" /\ at'[t] = "close" /\ Current' = Current
    BY <1>2, <1>14 DEF WriteNothing, Track, dbVars, tripVars, Current, NoneIsOld
  <2> QED
    BY <1>1, <1>3, <2>1 DEF SeesCurrent, IsBusy
<1>15. CASE Close(t)
  <2>1. at[t] = "close" /\ Current' = Current
    BY <1>15 DEF Close, dbVars, tripVars, Current, NoneIsOld
  <2>2. callbacks # {}
    BY <1>5, <2>1, <1>1 DEF LocksAreHeld, IsBusy
  <2>3. \/ at'[t] = "idle" /\ changes = noted
        \/ at'[t] = "after" /\ "nothing" \in callbacks
        \/ at'[t] = "lock"
    <3>1. PICK p \in ThreadPlaces : /\ MoveOn(t, p)
                             /\ \/ p = "idle" /\ changes = noted
                                \/ p = "after" /\ "nothing" \in callbacks
                                \/ p = "lock"
      BY <1>15, <2>2 DEF Close, ThreadPlaces
    <3> QED
      BY <1>1, <3>1, Moved DEF ViewTypeOK
  <2>4. watched => "nothing" \notin callbacks
    BY <1>1 DEF StaysSubscribed
  <2> QED
    BY <1>1, <1>3, <2>1, <2>3, <2>4 DEF SeesCurrent, IsBusy
<1>16. CASE EndCallbacks(t)
  <2>1. at[t] = "after" /\ at'[t] \in {"idle", "note"} /\ Current' = Current
    BY <1>2, <1>16 DEF EndCallbacks, Track, dbVars, tripVars, Current, NoneIsOld
  <2> QED
    BY <1>1, <1>3, <2>1 DEF SeesCurrent, IsBusy
<1>17. CASE Note(t)
  <2>1. at[t] = "note" /\ at'[t] = "idle" /\ Current' = Current
    BY <1>2, <1>17 DEF Note, Track, dbVars, tripVars, Current, NoneIsOld
  <2> QED
    BY <1>1, <1>3, <2>1 DEF SeesCurrent, IsBusy
<1>18. CASE Look(t)
  <2>1. at[t] = "look" /\ conn' = conn /\ cached_layout' = cached_layout /\ data_ready' = data_ready /\ data' = data
    BY <1>18 DEF Look, dbVars, tripVars
  <2>2. \/ at'[t] = "return" /\ cached_layout # NoLayout
        \/ at'[t] = "build" /\ data_ready
        \/ at'[t] = "lock"
    <3>1. PICK p \in ThreadPlaces : /\ MoveOn(t, p)
                             /\ \/ p = "return" /\ cached_layout # NoLayout
                                \/ p = "build" /\ data_ready
                                \/ p = "lock"
      BY <1>18 DEF Look, ThreadPlaces
    <3> QED
      BY <1>1, <3>1, Moved DEF ViewTypeOK
  <2>3. Current' = Current
    BY <2>1 DEF Current, NoneIsOld
  <2>4. Current /\ cached_layout # NoLayout => cached_layout = conn.battery.rows
    BY DEF Current, NoneIsOld
  <2> QED
    BY <1>1, <1>3, <2>1, <2>2, <2>3, <2>4 DEF SeesCurrent, IsBusy
<1>19. CASE Wait(t)
  <2>1. at[t] = "wait" /\ data_ready' = data_ready /\ Current' = Current
    BY <1>19 DEF Wait, dbVars, tripVars, Current, NoneIsOld
  <2>2. (at'[t] = "build" /\ data_ready) \/ at'[t] = "idle"
    BY <1>1, <1>19, Moved DEF Wait, ThreadPlaces, ViewTypeOK
  <2> QED
    BY <1>1, <1>3, <2>1, <2>2 DEF SeesCurrent, IsBusy
<1>20. CASE Build(t)
  <2>1. at[t] = "build" /\ at'[t] = "cache" /\ conn' = conn /\ Current' = Current
        /\ built' = [built EXCEPT ![t] = data]
    BY <1>2, <1>20 DEF Build, Track, dbVars, tripVars, Current, NoneIsOld
  <2>2. built'[t] = data
    BY <1>1, <2>1 DEF InItsPlace, Updates, ViewTypeOK
  <2>3. data_ready /\ Current => data = conn.battery.rows
    BY DEF Current
  <2> QED
    BY <1>1, <1>3, <2>1, <2>2, <2>3 DEF SeesCurrent, IsBusy
<1>21. CASE CacheLayout(t)
  <2>1. at[t] = "cache" /\ at'[t] = "return" /\ conn' = conn /\ cached_layout' = built[t]
        /\ data_ready' = data_ready /\ data' = data
    BY <1>2, <1>21 DEF CacheLayout, Track, dbVars, tripVars
  <2>2. Current /\ built[t] = conn.battery.rows => Current'
    BY <2>1 DEF Current, NoneIsOld
  <2> QED
    BY <1>1, <1>3, <2>1, <2>2 DEF SeesCurrent, IsBusy
<1>22. CASE Return(t)
  <2>1. at[t] = "return" /\ at'[t] = "idle" /\ Current' = Current
    BY <1>2, <1>22 DEF Return, Track, dbVars, tripVars, Current, NoneIsOld
  <2> QED
    BY <1>1, <1>3, <2>1 DEF SeesCurrent, IsBusy
<1> QED
  BY <1>6, <1>7, <1>8, <1>9, <1>10, <1>11, <1>12, <1>13, <1>14, <1>15, <1>16, <1>17, <1>18, <1>19, <1>20,
     <1>21, <1>22 DEF Continue, Update, ClearCallbacks, AddCallback, TryLock, Locked

LEMMA ContinuePage ==
    ASSUME NEW t \in Threads, PageInv, DbInv, DbInv', Continue(t)
    PROVE  PageInv'
<1>1. MemoryInv' /\ MemoryInv
  BY ContinueMemory DEF PageInv
<1>2. NothingUnviewed' /\ StaysSubscribed'
  BY <1>1, UnviewedStep, SubscribedStep DEF PageInv
<1>3. /\ alone' = alone /\ alone \in SUBSET Threads
      /\ t \notin alone => alone = {} /\ ~calm'
      /\ \A u \in alone : IsBusy(t) => t = u
  BY <1>1, NoneBesideStep DEF MemoryInv, ViewTypeOK, NoneBeside
<1>4. IsBusy(t)
  BY <1>1, Going DEF MemoryInv, ViewTypeOK
<1>5. CASE t \in alone
  BY <1>1, <1>2, <1>3, <1>4, <1>5, SeesCurrentStep DEF PageInv
<1>6. CASE t \notin alone
  BY <1>1, <1>2, <1>3, <1>6 DEF PageInv
<1> QED
  BY <1>5, <1>6

\* The page is as current as the history tells, whatever the threads have done before.
THEOREM PageInvAlways == ViewSpec => []PageInv
<1>1. PageInv /\ DbInv /\ DbInv' /\ [ViewNext]_allVars => PageInv'
  <2> SUFFICES ASSUME PageInv, DbInv, DbInv', [ViewNext]_allVars
               PROVE  PageInv'
    OBVIOUS
  <2>1. CASE UNCHANGED allVars
    <3>1. /\ conn' = conn /\ phase' = phase /\ at' = at /\ got' = got /\ built' = built
          /\ callback_fct' = callback_fct /\ callbacks' = callbacks /\ changes' = changes /\ noted' = noted
          /\ updating' = updating /\ data' = data /\ data_ready' = data_ready
          /\ cached_layout' = cached_layout
          /\ alone' = alone /\ watched' = watched /\ calm' = calm
      BY <2>1 DEF allVars, dbVars, viewVars, connVars, tripVars, histVars
    <3>2. MemoryInv'
      BY <3>1 DEF PageInv, MemoryInv, ViewTypeOK, InItsPlace, HoldsCallback, NoneBeside, IsBusy, LocksAreHeld,
                  StartsFresh, NoneIsInvented
    <3>3. Current' = Current /\ \A t \in Threads : IsBusy(t)' = IsBusy(t)
      BY <3>1 DEF Current, NoneIsOld, IsBusy
    <3>4. \A t \in alone : SeesCurrent(t)'
      BY <3>1, <3>3 DEF PageInv, SeesCurrent, NoneIsOld
    <3>5. NothingUnviewed' /\ StaysSubscribed'
      BY <3>1 DEF PageInv, NothingUnviewed, StaysSubscribed
    <3> QED
      BY <3>1, <3>2, <3>3, <3>4, <3>5 DEF PageInv
  <2>2. CASE StartUp /\ UNCHANGED viewVars
    BY <2>2, StartUpPage
  <2>3. CASE Begin
    BY <2>3, BeginPage
  <2>4. ASSUME NEW t \in Threads, Continue(t)
        PROVE  PageInv'
    BY <2>4, ContinuePage
  <2>5. CASE Restart
    BY <2>5, RestartPage
  <2> QED
    BY <2>1, <2>2, <2>3, <2>4, <2>5 DEF ViewNext
<1>2. ViewSpec => []DbInv
  BY DashboardImplementsDatabase, DbInitInv, DbNextInv, PTL DEF DbSpec
<1> QED
  BY <1>1, <1>2, ViewInitInv, PTL DEF ViewSpec

\* A page shows the charges as they are, for any writers, visitors, charges and crashes:
\* as long as the last change was closed beside no other thread, nothing has overlapped
\* since, and the view subscribed likewise.
THEOREM PageIsCurrentAlways == ViewSpec => []PageIsCurrent
<1>1. PageInv => PageIsCurrent
  <2> SUFFICES ASSUME PageInv, NEW v \in Visitors, at[v] = "return", calm, watched
               PROVE  cached_layout = conn.battery.rows
    BY DEF PageIsCurrent
  <2>1. v \in Threads /\ IsBusy(v)
    BY DEF Threads, IsBusy
  <2>2. v \in alone
    BY <2>1 DEF PageInv, MemoryInv, NoneBeside
  <2> QED
    BY <2>2 DEF PageInv, SeesCurrent
<1> QED
  BY <1>1, PageInvAlways, PTL
=============================================================================
