---------------------------- MODULE ChargeRecords ----------------------------
(***************************************************************************)
(* The charging sessions of one car in the table battery                    *)
(* (psacc/application/charging.py, psacc/repository/db.py).                  *)
(*                                                                         *)
(* record_charging runs in whichever thread fetched the status of the car:  *)
(* the refresh loop, a webhook, a request for /get_vehicleinfo, the charge  *)
(* control.  edit_charge runs in the threads of the web server.  They all   *)
(* use one sqlite connection, so they share one transaction: a statement is *)
(* seen by the others at once, a commit saves what everyone has written,    *)
(* and the rollback of Connection.close, which does not close anything,     *)
(* takes back what everyone has not committed.  A step is one statement.    *)
(*                                                                         *)
(* The table is a function from start_at, its primary key.  Levels and      *)
(* modes are left out: a session keeps whether it is a little one, which    *)
(* clean_battery deletes.  The metered kWh are edited as the place is.      *)
(***************************************************************************)
EXTENDS Integers

CONSTANTS Recorders,  \* the threads that fetch the status of the car
          Editors,    \* the threads that serve PATCH /vehicles/<vin>/chargings
          MaxDate     \* bound: the dates of the statuses the api gives

ASSUME ChargeAssumption == MaxDate \in Nat

VARIABLES
    api,    \* the status of the car at PSA: its date and whether it charges (external)
    db,     \* the table battery as the connection sees it
    saved,  \* the table at the last commit
    rec,    \* the recorders: their position and their local variables
    edit,   \* the editors: their position and their local variables
    undone  \* history: another thread has taken back what wasn't committed

vars == <<api, db, saved, rec, edit, undone>>

Places == {"home", "work"}
Prices == {"none", "estimate", "bill"}  \* "bill": a price set by hand

\* A row; stop is 0 while stop_at is NULL.
Row == [stop: Nat, price: Prices, manual: BOOLEAN, place: Places, little: BOOLEAN]

TableOK(t) == DOMAIN t \subseteq Nat /\ t \in [DOMAIN t -> Row]

Recorder == [at: {"idle", "read", "insert", "curve", "end", "ended", "clean", "commit"},
             date: Nat, charging: BOOLEAN, start: Nat, price: Prices, manual: BOOLEAN]

Editor == [at: {"idle", "write", "commit"}, start: Nat, keys: SUBSET {"place", "price"},
           place: Places, price: Prices, manual: BOOLEAN]

TypeOK ==
    /\ api \in [date: Nat, charging: BOOLEAN]
    /\ TableOK(db)
    /\ TableOK(saved)
    /\ rec \in [Recorders -> Recorder]
    /\ edit \in [Editors -> Editor]
    /\ undone \in BOOLEAN

NoRows == [d \in {} |-> [stop |-> 0, price |-> "none", manual |-> FALSE, place |-> "home", little |-> FALSE]]

NoEdit == [at |-> "idle", start |-> 0, keys |-> {}, place |-> "home", price |-> "none", manual |-> FALSE]

Init ==
    /\ api = [date |-> 0, charging |-> FALSE]
    /\ db = NoRows
    /\ saved = NoRows
    /\ rec = [r \in Recorders |-> [at |-> "idle", date |-> 0, charging |-> FALSE,
                                   start |-> 0, price |-> "none", manual |-> FALSE]]
    /\ edit = [e \in Editors |-> NoEdit]
    /\ undone = FALSE

-----------------------------------------------------------------------------
(* The api and the connection *)

\* The car tells PSA something; the date of its status may stay the same.
CarUpdate ==
    /\ \E date \in {api.date, api.date + 1}, charging \in BOOLEAN :
          /\ date <= MaxDate
          /\ api' = [date |-> date, charging |-> charging]
    /\ UNCHANGED <<db, saved, rec, edit, undone>>

\* commit, by a thread that wrote to another table.
OtherCommit ==
    /\ saved' = db
    /\ UNCHANGED <<api, db, rec, edit, undone>>

\* close, by a thread that used another table.
OtherClose ==
    /\ db' = saved
    /\ undone' = (undone \/ db # saved)
    /\ UNCHANGED <<api, saved, rec, edit>>

\* get_last_charge: the row with the latest start_at, if any.
IsLast(t, d) == d \in DOMAIN t /\ \A c \in DOMAIN t : c <= d

-----------------------------------------------------------------------------
(* record_charging *)

\* The copy of a charge that was read is of no use once its end is written.
Goto(r, at) == rec' = [rec EXCEPT ![r].at = at, ![r].start = 0, ![r].price = "none", ![r].manual = FALSE]

\* get_vehicle_info gets the status, then record_info records it.
Fetch(r) ==
    /\ rec[r].at = "idle"
    /\ api.date > 0
    /\ rec' = [rec EXCEPT ![r].at = "read", ![r].date = api.date, ![r].charging = api.charging]
    /\ UNCHANGED <<api, db, saved, edit, undone>>

\* Variant: is_charge_ended forgets the charge still in progress.
ReadLastAlwaysInserts(r) ==
    /\ rec[r].at = "read"
    /\ rec' = [rec EXCEPT ![r].at = IF rec[r].charging THEN "insert" ELSE "commit"]
    /\ UNCHANGED <<api, db, saved, edit, undone>>

\* Without a charge in progress.
ReadLastEnded(r) ==
    /\ rec[r].at = "read"
    /\ \A d \in DOMAIN db : IsLast(db, d) => db[d].stop # 0
    /\ Goto(r, IF rec[r].charging THEN "insert" ELSE "commit")
    /\ UNCHANGED <<api, db, saved, edit, undone>>

\* With one, which is read whole.
ReadLastOpen(r) ==
    /\ rec[r].at = "read"
    /\ \E d \in DOMAIN db :
          /\ IsLast(db, d)
          /\ db[d].stop = 0
          /\ IF rec[r].charging THEN Goto(r, "curve")
             ELSE rec' = [rec EXCEPT ![r].at = "end",
                                     ![r].start = d,
                                     ![r].price = db[d].price,
                                     ![r].manual = db[d].manual]
    /\ UNCHANGED <<api, db, saved, edit, undone>>

WithRow(t, d, row) == [c \in DOMAIN t \cup {d} |-> IF c = d THEN row ELSE t[c]]

\* The start of a charge; a row with the same key is an IntegrityError, ignored.
Insert(r) ==
    /\ rec[r].at = "insert"
    /\ db' = IF rec[r].date \in DOMAIN db THEN db
             ELSE WithRow(db, rec[r].date,
                          [stop |-> 0, price |-> "none", manual |-> FALSE, place |-> "home", little |-> FALSE])
    /\ Goto(r, "curve")
    /\ UNCHANGED <<api, saved, edit, undone>>

\* Then the curve, and the CO2 of the country over the network.
Curve(r) ==
    /\ rec[r].at = "curve"
    /\ Goto(r, "commit")
    /\ UNCHANGED <<api, db, saved, edit, undone>>

\* The network raises: nothing is committed, what was inserted stays pending.
\* Asking for the CO2 may also raise before a charge is ended.
RecordRaises(r) ==
    /\ rec[r].at \in {"curve", "end"}
    /\ Goto(r, "idle")
    /\ UNCHANGED <<api, db, saved, edit, undone>>

\* Variant: set_charge_price without its early return.
EstimatedAlways(price, manual) == "estimate"

\* set_charge_price: a price set by hand is kept.
Estimated(price, manual) == IF manual THEN price ELSE "estimate"

\* The charge ends, if its row is still there: update_charge writes what was
\* read and computed before.
End(r) ==
    /\ rec[r].at = "end"
    /\ rec[r].start \in DOMAIN db => rec[r].date > rec[r].start
    /\ \E little \in BOOLEAN :
          db' = IF rec[r].start \notin DOMAIN db THEN db
                ELSE [db EXCEPT ![rec[r].start].stop = rec[r].date,
                                ![rec[r].start].price = Estimated(rec[r].price, rec[r].manual),
                                ![rec[r].start].little = little]
    /\ Goto(r, "ended")
    /\ UNCHANGED <<api, saved, edit, undone>>

\* CHECK(stop_at > start_at) fails: the charge stays open, close takes back
\* what is pending.
EndRefused(r) ==
    /\ rec[r].at = "end"
    /\ rec[r].start \in DOMAIN db
    /\ rec[r].date <= rec[r].start
    /\ db' = saved
    /\ Goto(r, "clean")
    /\ UNCHANGED <<api, saved, edit, undone>>

\* The commit of update_charge, and its close.
EndCommit(r) ==
    /\ rec[r].at = "ended"
    /\ saved' = db
    /\ Goto(r, "clean")
    /\ UNCHANGED <<api, db, edit, undone>>

\* clean_battery deletes the little charges.
Clean(r) ==
    /\ rec[r].at = "clean"
    /\ db' = [d \in {d \in DOMAIN db : ~(db[d].stop # 0 /\ db[d].little)} |-> db[d]]
    /\ Goto(r, "commit")
    /\ UNCHANGED <<api, saved, edit, undone>>

\* The commit of record_charging, and its close.
Commit(r) ==
    /\ rec[r].at = "commit"
    /\ saved' = db
    /\ Goto(r, "idle")
    /\ UNCHANGED <<api, db, edit, undone>>

Record(r) ==
    \/ Fetch(r)
    \/ ReadLastEnded(r)
    \/ ReadLastOpen(r)
    \/ Insert(r)
    \/ Curve(r)
    \/ RecordRaises(r)
    \/ End(r)
    \/ EndRefused(r)
    \/ EndCommit(r)
    \/ Clean(r)
    \/ Commit(r)

-----------------------------------------------------------------------------
(* edit_charge *)

\* An ended charge is read, and the keys given are changed; a charge still in
\* progress or unknown is refused.  A price that isn't set by hand is estimated.
EditRead(e) ==
    /\ edit[e].at = "idle"
    /\ \E d \in DOMAIN db, keys \in SUBSET {"place", "price"}, place \in Places, price \in {"none", "bill"} :
          LET manual == IF "price" \in keys THEN price = "bill" ELSE db[d].manual IN
          /\ db[d].stop # 0
          /\ edit' = [edit EXCEPT ![e] =
                         [at     |-> "write",
                          start  |-> d,
                          keys   |-> keys,
                          place  |-> IF "place" \in keys THEN place ELSE db[d].place,
                          price  |-> Estimated(IF "price" \in keys THEN price ELSE db[d].price, manual),
                          manual |-> manual]]
    /\ UNCHANGED <<api, db, saved, rec, undone>>

\* set_charge_details writes every key, the ones left out as they were read.
EditWrite(e) ==
    /\ edit[e].at = "write"
    /\ db' = IF edit[e].start \notin DOMAIN db THEN db
             ELSE [db EXCEPT ![edit[e].start].place = edit[e].place,
                             ![edit[e].start].price = edit[e].price,
                             ![edit[e].start].manual = edit[e].manual]
    /\ edit' = [edit EXCEPT ![e].at = "commit"]
    /\ UNCHANGED <<api, saved, rec, undone>>

EditCommit(e) ==
    /\ edit[e].at = "commit"
    /\ saved' = db
    /\ edit' = [edit EXCEPT ![e] = NoEdit]
    /\ UNCHANGED <<api, db, rec, undone>>

Edit(e) == EditRead(e) \/ EditWrite(e) \/ EditCommit(e)

Next ==
    \/ CarUpdate
    \/ OtherCommit
    \/ OtherClose
    \/ \E r \in Recorders : Record(r)
    \/ \E e \in Editors : Edit(e)

Spec == Init /\ [][Next]_vars

-----------------------------------------------------------------------------

\* A table whose charges follow one another: only the last may be open.
Follow(t) ==
    \A a, b \in DOMAIN t : a < b => t[a].stop # 0 /\ t[a].stop <= b

\* The charges of a car never overlap and at most the last is in progress,
\* in what the threads see and in what a restart would find, whatever the
\* other threads commit or roll back.  Holds when one thread records at a time.
ChargesDontOverlap == Follow(db) /\ Follow(saved)

OneRecorder == \A r, q \in Recorders : r = q

\* Nothing in the table is later than the status the recorder has.
Dated(r, t) == \A d \in DOMAIN t : d <= rec[r].date /\ t[d].stop <= rec[r].date

\* What is saved is in the table and ended as it is there, except between the
\* end of a charge, or the cleaning, and its commit.
Settled(r) ==
    rec[r].at \notin {"ended", "commit"} =>
        \A d \in DOMAIN saved : d \in DOMAIN db /\ db[d].stop = saved[d].stop

\* A recorder inserts when every charge has ended, and ends the last charge.
RecorderOK(r) ==
    /\ rec[r].date <= api.date
    /\ Dated(r, db)
    /\ Dated(r, saved)
    /\ Settled(r)
    /\ rec[r].at = "insert" => \A d \in DOMAIN db : db[d].stop # 0
    /\ rec[r].at = "end" => \A d \in DOMAIN db : d <= rec[r].start

\* The inductive invariant of ChargesDontOverlap, for one recorder, through any
\* commit or rollback of the others.
IInv ==
    /\ TypeOK
    /\ ChargesDontOverlap
    /\ \A r \in Recorders : RecorderOK(r)

\* model/charge.py: "the price was set by hand, it is never estimated again":
\* a row marked so holds the price of the bill, as long as no other thread takes
\* back what isn't committed: the end of a charge that an editor has seen may
\* be taken back, and the recorder then estimates the price over the bill.
ManualPriceIsTheBill ==
    \A d \in DOMAIN db : db[d].manual /\ ~undone => db[d].price = "bill"

\* The docstring of edit_charge: "a key left out is kept", again as long as
\* nothing is taken back.
KeyLeftOutIsKept ==
    \A e \in Editors :
        LET d == edit[e].start IN
        edit[e].at = "write" /\ edit'[e].at = "commit" /\ d \in DOMAIN db /\ ~undone =>
            /\ "place" \notin edit[e].keys => db'[d].place = db[d].place
            /\ "price" \notin edit[e].keys /\ db[d].manual =>
                  db'[d].manual /\ db'[d].price = db[d].price

\* The details set by hand are kept, by the recorder and by the next edit.
DetailsAreKept == [][ManualPriceIsTheBill' /\ KeyLeftOutIsKept]_vars

-----------------------------------------------------------------------------
(* The inductive invariants of the details *)

OneEditor == \A e, f \in Editors : e = f

\* CHECK(stop_at > start_at)
EndsLater(t) == \A d \in DOMAIN t : t[d].stop # 0 => d < t[d].stop

\* A price set by hand is the price of the bill, and of a charge that has ended.
Billed(t) == \A d \in DOMAIN t : t[d].manual => t[d].price = "bill" /\ t[d].stop # 0

\* The charge about to be ended is in progress: nobody has set its price.
Ending(r) ==
    rec[r].at = "end" =>
        ~rec[r].manual /\ (rec[r].start \in DOMAIN db => db[rec[r].start].stop = 0)

\* A charge being edited has ended, before the status any recorder has.
Editing(e) ==
    edit[e].at = "write" =>
        /\ edit[e].manual => edit[e].price = "bill"
        /\ edit[e].start \in DOMAIN db => db[edit[e].start].stop # 0

EditsThePast == \A e \in Editors, r \in Recorders : edit[e].at = "write" => edit[e].start < rec[r].date

\* The inductive invariant behind ManualPriceIsTheBill, for one recorder.
BillInv ==
    /\ IInv
    /\ EndsLater(db) /\ EndsLater(saved)
    /\ EditsThePast
    /\ ~undone => /\ Billed(db) /\ Billed(saved)
                  /\ \A r \in Recorders : Ending(r)
                  /\ \A e \in Editors : Editing(e)

\* An edit that isn't committed is that of an editor about to commit it.
DetailsAreSaved ==
    (\A e \in Editors : edit[e].at # "commit") =>
        \A d \in DOMAIN db \cap DOMAIN saved :
            db[d].place = saved[d].place /\ db[d].manual = saved[d].manual

\* The keys left out are as the row still has them.
KeysAreRead(e) ==
    LET d == edit[e].start IN
    edit[e].at = "write" /\ d \in DOMAIN db =>
        /\ "place" \notin edit[e].keys => edit[e].place = db[d].place
        /\ "price" \notin edit[e].keys => edit[e].manual = db[d].manual

\* The inductive invariant behind KeyLeftOutIsKept, for one recorder and one editor.
KeysInv ==
    /\ BillInv
    /\ ~undone => DetailsAreSaved /\ \A e \in Editors : KeysAreRead(e)
=============================================================================
