------------------------------ MODULE Database ------------------------------
(***************************************************************************)
(* The start of the database (Database.init_db, psacc/repository/db.py):    *)
(* the table battery of an older version gets its new columns and, when it  *)
(* was made without CHECK(stop_at > start_at), is renamed, made again and   *)
(* copied.  The process may be killed at any step and starts over.          *)
(*                                                                         *)
(* A statement that changes the schema is saved at once when no transaction *)
(* is open; the first INSERT or DELETE opens one.  The other tables only    *)
(* get columns, as battery does, and are left out.                          *)
(***************************************************************************)
EXTENDS Integers, FiniteSets

CONSTANTS Charges,    \* the charges there may be
          Invalid,    \* those that stop before they start
          Little,     \* those that clean_battery deletes
          Columns,    \* the number of NEW_BATTERY_COLUMNS
          NoTable,    \* there is no such table
          MaxCrashes  \* bound: the times the process is killed

ASSUME DatabaseAssumption ==
    /\ Invalid \subseteq Charges
    /\ Little \subseteq Charges
    /\ Columns \in Nat
    /\ MaxCrashes \in Nat

\* A version of the program has the columns of those before it.
Table == [rows: SUBSET Charges, columns: 0..Columns, checked: BOOLEAN]

ASSUME NoTableAssumption == NoTable \notin Table

VARIABLES
    file,        \* the tables battery and battery_old, as they are saved
    conn,        \* the same, as the connection sees them
    phase,       \* where init_db is
    make_backup, \* whether it added a column
    backups,     \* the charges the files made by backup hold
    known,       \* history: the charges recorded, by this version or an older one
    crashes      \* how often the process was killed

dbVars == <<file, conn, phase, make_backup, backups, known, crashes>>

Tables == [battery: Table \cup {NoTable}, battery_old: Table \cup {NoTable}]
Rows(table) == IF table = NoTable THEN {} ELSE table.rows

DbTypeOK ==
    /\ file \in Tables
    /\ conn \in Tables
    /\ phase \in {"down", "check", "rename", "create", "columns", "drop", "commit", "clean",
                  "finish", "ready"}
    /\ make_backup \in BOOLEAN
    /\ backups \in SUBSET Charges
    /\ known \in SUBSET Charges
    /\ crashes \in 0..MaxCrashes

\* A new file, or one of any version.
DbInit ==
    /\ file \in [battery: Table \cup {NoTable}, battery_old: {NoTable}]
    /\ file.battery # NoTable /\ file.battery.checked => file.battery.rows \cap Invalid = {}
    /\ conn = file
    /\ phase = "down"
    /\ make_backup = FALSE
    /\ backups = {}
    /\ known = Rows(file.battery)
    /\ crashes = 0

-----------------------------------------------------------------------------

\* A statement that is saved at once.
Save(tables) == conn' = tables /\ file' = tables

\* The file is opened; the table position is made, if it is a new one.
Open ==
    /\ phase = "down"
    /\ phase' = "check"
    /\ make_backup' = FALSE
    /\ UNCHANGED <<file, conn, backups, known, crashes>>

\* battery_check_constraint_missing
ConstraintMissing == conn.battery # NoTable /\ ~conn.battery.checked

\* Variant: no backup is made.
CheckOnly ==
    /\ phase = "check"
    /\ phase' = IF ConstraintMissing THEN "rename" ELSE "create"
    /\ UNCHANGED <<file, conn, make_backup, backups, known, crashes>>

\* With a backup, if the table has to be made again.
Check ==
    /\ phase = "check"
    /\ IF ConstraintMissing
       THEN phase' = "rename" /\ backups' = backups \cup conn.battery.rows
       ELSE phase' = "create" /\ UNCHANGED backups
    /\ UNCHANGED <<file, conn, make_backup, known, crashes>>

Rename ==
    /\ phase = "rename"
    /\ Save([battery |-> NoTable, battery_old |-> conn.battery])
    /\ phase' = "create"
    /\ UNCHANGED <<make_backup, backups, known, crashes>>

\* The table, and those of the curve, the state of health and the readings.
CreateTables ==
    /\ phase = "create"
    /\ Save([conn EXCEPT !.battery =
                IF @ = NoTable THEN [rows |-> {}, columns |-> 0, checked |-> TRUE] ELSE @])
    /\ phase' = "columns"
    /\ UNCHANGED <<make_backup, backups, known, crashes>>

AddColumn ==
    /\ phase = "columns"
    /\ conn.battery.columns < Columns
    /\ Save([conn EXCEPT !.battery.columns = @ + 1])
    /\ make_backup' = TRUE
    /\ UNCHANGED <<phase, backups, known, crashes>>

HasColumns == phase = "columns" /\ conn.battery.columns = Columns

NothingToCopy ==
    /\ HasColumns
    /\ conn.battery_old = NoTable
    /\ phase' = "commit"
    /\ UNCHANGED <<file, conn, make_backup, backups, known, crashes>>

\* INSERT INTO battery SELECT * needs as many columns, and no key twice.
Copyable ==
    /\ conn.battery_old.columns = Columns
    /\ conn.battery_old.rows \cap conn.battery.rows = {}

\* Variant: the copy is committed before the table is dropped.
CopyCommits ==
    /\ HasColumns
    /\ conn.battery_old # NoTable
    /\ Copyable
    /\ Save([conn EXCEPT !.battery.rows = @ \cup (conn.battery_old.rows \ Invalid)])
    /\ phase' = "drop"
    /\ UNCHANGED <<make_backup, backups, known, crashes>>

\* The INSERT opens a transaction.
Copy ==
    /\ HasColumns
    /\ conn.battery_old # NoTable
    /\ Copyable
    /\ conn' = [conn EXCEPT !.battery.rows = @ \cup (conn.battery_old.rows \ Invalid)]
    /\ phase' = "drop"
    /\ UNCHANGED <<file, make_backup, backups, known, crashes>>

\* The INSERT raises: get_db does, and the program exits.
CopyRaises ==
    /\ HasColumns
    /\ conn.battery_old # NoTable
    /\ ~Copyable
    /\ phase' = "down"
    /\ UNCHANGED <<file, conn, make_backup, backups, known, crashes>>

DropOld ==
    /\ phase = "drop"
    /\ conn' = [conn EXCEPT !.battery_old = NoTable]
    /\ phase' = "commit"
    /\ UNCHANGED <<file, make_backup, backups, known, crashes>>

\* The commit, and the backup when a column was added; a new file has no charge.
CommitCopy ==
    /\ phase = "commit"
    /\ file' = conn
    /\ backups' = IF make_backup THEN backups \cup conn.battery.rows ELSE backups
    /\ phase' = "clean"
    /\ UNCHANGED <<conn, make_backup, known, crashes>>

\* clean_battery, in a transaction.
CleanBattery ==
    /\ phase = "clean"
    /\ conn' = [conn EXCEPT !.battery.rows = @ \ Little]
    /\ phase' = "finish"
    /\ UNCHANGED <<file, make_backup, backups, known, crashes>>

\* The altitudes are added, all is committed, and the connection is handed out.
Finish ==
    /\ phase = "finish"
    /\ file' = conn
    /\ phase' = "ready"
    /\ UNCHANGED <<conn, make_backup, backups, known, crashes>>

StartUp ==
    \/ Open \/ Check \/ Rename \/ CreateTables \/ AddColumn
    \/ NothingToCopy \/ Copy \/ CopyRaises \/ DropOld \/ CommitCopy
    \/ CleanBattery \/ Finish

\* A charge is recorded and committed; the constraint refuses the invalid ones.
RecordCharge(c) ==
    /\ phase = "ready"
    /\ c \notin known \cup Invalid
    /\ Save([conn EXCEPT !.battery.rows = @ \cup {c}])
    /\ known' = known \cup {c}
    /\ UNCHANGED <<phase, make_backup, backups, crashes>>

\* The process is killed; what wasn't committed is gone.
Crash ==
    /\ phase # "down"
    /\ crashes < MaxCrashes
    /\ crashes' = crashes + 1
    /\ conn' = file
    /\ phase' = "down"
    /\ UNCHANGED <<file, make_backup, backups, known>>

DbNext == StartUp \/ (\E c \in Charges : RecordCharge(c)) \/ Crash

DbSpec == DbInit /\ [][DbNext]_dbVars

\* The steps of init_db follow one another.
DbFairSpec == DbSpec /\ WF_dbVars(StartUp)

-----------------------------------------------------------------------------

\* Wherever the process is killed, however often, a charge that was recorded is in
\* one of the two tables, unless it is a little one; an invalid one may be in a
\* backup alone.  Once the database is handed out the charges are where they are
\* looked for.
NoChargeIsLost ==
    \A c \in known :
        \/ c \in Little
        \/ c \in Invalid /\ c \in backups
        \/ c \in Rows(file.battery)
        \/ c \in Rows(file.battery_old) /\ phase # "ready"

\* The invalid charges of a table that is copied are in a backup, and a table
\* without the constraint is never copied to.
OldIsBackedUp ==
    /\ Rows(file.battery_old) \cap Invalid \subseteq backups
    /\ file.battery_old # NoTable => file.battery = NoTable \/ file.battery.checked

\* What the connection sees holds what is saved and will be committed.
TransactionIsWhole ==
    /\ phase \notin {"drop", "commit", "finish"} => conn = file
    /\ phase = "rename" => ConstraintMissing /\ conn.battery.rows \subseteq backups
    /\ phase \in {"columns", "drop", "commit", "clean", "finish", "ready"} =>
          file.battery # NoTable /\ conn.battery # NoTable
    /\ phase \in {"drop", "commit"} =>
          Rows(file.battery) \cup (Rows(file.battery_old) \ Invalid) \subseteq Rows(conn.battery)
    /\ phase = "commit" => conn.battery_old = NoTable
    /\ phase \in {"clean", "finish", "ready"} =>
          file.battery_old = NoTable /\ conn.battery_old = NoTable
    /\ phase = "finish" => Rows(file.battery) \ Little \subseteq Rows(conn.battery)

\* The inductive invariant of NoChargeIsLost.
DbInv == DbTypeOK /\ NoChargeIsLost /\ OldIsBackedUp /\ TransactionIsWhole

\* The table that is copied, or will be, has all the columns of the new one.
Complete ==
    /\ ConstraintMissing => conn.battery.columns = Columns
    /\ conn.battery_old # NoTable => conn.battery_old.columns = Columns

\* As long as the old table has all the columns, each start ends with the database
\* ready, wherever those before it were killed.
StartsUp == [](Complete => <>(phase = "ready"))
=============================================================================
