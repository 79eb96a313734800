# A verification of psa_car_controller

psa_car_controller (psacc) is a server for the owner of a car of the PSA group. It
reads the status of the car from PSA's REST API, records positions and charges in
SQLite, sends remote commands over MQTT, stops the charge at an hour or at a level,
and serves a web API and dashboards.

It is one Python process with many threads: the refresh, which a `threading.Timer`
starts again and again; the thread of the MQTT client; the threads of the web server
(Dash on Flask, `threaded=True` in `web/app.py`); and short timers for rate limits
and charge controls. They share Python objects and **one** SQLite connection, and
most of them without a lock. A single statement is safe under the interpreter; what
happens *between* two statements, before and after a call to PSA, a callback, a commit
or a save, is what these modules are about. Tests of the repository run one thread
at a time and rarely reach it.

The modules are TLA+ specifications, model-checked with TLC on small instances and
proved about with TLAPS for all instances. Paths below are under
`src/psa_car_controller/`.

## 1. The system

| Component | State | Operations | Hard behaviours | What makes it correct |
|---|---|---|---|---|
| Remote commands (`psa/RemoteClient.py`, `psa/mqtt_request.py`, `CommandRegistry` of `psa/remote_events.py`) | `last_request`, `MQTTRequest.retried`, the registry of results, ids at PSA | `publish` in a web thread; `_handle_response`, `_handle_bad_request` in the MQTT thread | an answer before `publish` has ended; a 400 that resends the command of another thread; answers lost, twice, without an id; a registry that evicts | a command is sent at most twice, never without reason; every result settles, once |
| Remote token (`RemoteClient._refresh_remote_token`, `psa/RemoteCredentials.py`, `PSAClient.save_config`) | tokens, their age, the lock, `config.json`, its hash | refresh by a command or a 400, code by OTP, save by callback and by timer, restart | PSA rotates the token before it is on disk; two threads wait for the lock; two saves at once | the last token PSA gave is the one used, and reaches the disk |
| Rate limits (`common/utils.py`) | the permits, the timers | call, end, raise, timer | a permit returned too early or never | at most `limit` calls per window; no permanent refusal |
| API token (`psa/oauth.py`, `PSAClient.api`, `_refresh_api_token`) | the tokens of the manager, the copy in `api_config` | a call, refused as Unauthorized, renews the token and is sent again; a request of the manager renews it too | threads that renew at once, an old copy written over a new one, a lost answer | the refresh token is PSA's last one; a call that renewed is answered |
| Event streams (`EventBroker`, `stream_events`) | subscribers, last events, bounded queues | publish, subscribe, replay, take, disconnect | a stream that starts during a publish; a full queue | no event missed, nobody left on an old one |
| Charging sessions (`psacc/application/charging.py`, `Database`) | the table `battery` and its open transaction | `record_charging`, `edit_charge`, `clean_battery`, other commits and rollbacks | threads that share one transaction; network errors between insert and commit | charges of a car never overlap; edits are kept |
| Charge control (`psacc/application/charge_control.py`) | next stop, `retry_count`, the car | `process` by refresh and timer, `set_stop_hour` by the web | two threads move the same hour; orders lost or obeyed late | a charge past the threshold stops; orders are bounded; a stop is not put off for ever |
| Trips (`psacc/repository/trips.py`, `trip_parser.py`, `Database.record_position`) | the table `position` | record, clean, `get_trips` | stops, charges, silences, untold levels | no kilometre twice, no stop inside a trip |
| Merged trips (`merged_trips.py`, `PSAClient.get_psa_trips`) | the cached trips of PSA | clean and join, take the readings around a trip, add ours, ask PSA again | restarts, two clocks of reports, a list older than the answer | no time told twice, no kilometre lost, an ended trip stays |
| Push and webhook (`psa/push.py`, `web/view/api.py`) | callback and monitors at PSA, `psa_push.json` | enable, disable, webhook | failures and restarts between two calls to PSA; two requests at once | what was created can be removed |
| Refresh loop (`PSAClient.__refresh_vehicle_info`, `PSACarController`) | `refresh_thread`, the callbacks, the controls | start of the application and of the remote control, timers, cars, callbacks | a slow refresh overlaps the next; two threads start the loop; one car raises | the loop never dies nor multiplies; every car and control is served |
| Database (`psacc/repository/db.py`) | the tables, saved and as the connection sees them; backups | `init_db`: migration, columns, copy, cleaning | killed at any step and started again | no charge is lost, and each start gets ready |
| Dashboard (`web/view/views.py`, callbacks of `db.py`) | what was read, `DATA_READY`, `cached_layout`, the callbacks | `update_trips` by `close` and by the import of the views, `serve_layout` | a callback put back, a page cached from old data, an exception while others wait | the page shows what is recorded; nobody waits for ever |
| Configuration (`config_repository.py`, `__main__.py`, `web/view/config_views.py`) | ini file, setup pages | read, write | none shared between threads | - |
| MyM, OTP (`psa/mym.py`, `psa/otp/`) | the counter of the OTP in `otp.bin` | setup, one-time codes | the counter on disk | - |
| Forwarding and prices (`abrp.py`, `ecomix.py`, `battery_charge_curve.py`) | none that matters | HTTP requests, arithmetic | their exceptions, in the callers | - |
| Generated client (`psa/connected_car_api/`), figures, logging | - | - | - | - |

How they interact: a **command** passes the rate limit, refreshes the token, registers
its result and publishes; the MQTT thread settles the result, may send again, and
publishes events to the streams. The **refresh** reads each car, which records a
position and a charge, then runs the callbacks: every charge control, which sends
commands; each reading of a car is a call of the API, which may renew its token. A timer of
its own saves the configuration. The `close` of the database connection runs `update_trips`, in whatever
thread has written. The **web API** calls all of them from its own
threads: commands, edits of charges, stop hours, streams, the push. The database
connection is shared by the refresh, the MQTT thread and the web.

`PROJECT.json` lists the hazards of the code, each at its line with the properties
that cover it, and every definition with the lines it models.

## 2. Modules

Read them in this order. Each module has its model, its properties and, at its end,
the inductive invariant; proofs are in `<Module>Proofs`,
those of `RateLimit`, `ApiToken` and `Refresh` in `ClientProofs`, those of `Database` and
`Dashboard` in `ChargeRecordsProofs`. An `MC` module gives values
and symmetries to TLC. Definitions named "Variant" are the bugs each property is
known to find; they are used in no specification.

| Module | Models | State | Actions |
|---|---|---|---|
| `RemoteCommands` | remote commands | `pc` is where each `publish` is; `mqtt` is the MQTT thread and its locals; `registry`, `results`, `lastRequest`, `retried` are the objects; `outstanding` and `answered` are PSA's | the statements of `publish`: `Refresh`, `RegisterCommand`, `Send`, `Store`; `Deliver` an answer to `HandleOk`, `HandleError`, `HandleBad`; then the resend, `StartResend` ... `ResendStore` |
| `CommandTracking` | what the API promises of a result | the status of each command | it starts, is pending, settles once |
| `RateLimit` | the decorator | permits, timers, the age of each call | `Start`, `Refuse`, `Finish`, `Release`, `Tick` |
| `ApiToken` (extends `RateLimit`) | `call_api`, `api`, `_refresh_api_token`, `refresh_token_now` | `manager` and `config` are the two places of the token; `psa` is PSA's; `at` and `tok` are where each request is and what it has read | `Begin`, `Fill`, `Send`; `EnterRefresh` or `RefuseRefresh`; the renewal, from `PostGranted`, `PostDenied`, `PostFails` or `PostLost` to `StoreAccess`; `Reload`, `Resend`; `Ask` for the manager's own requests |
| `Refresh` | `__refresh_vehicle_info`, `start_refresh_thread`, `load_app`, `start_remote_control`, `ChargeControls.init` | `refresh_thread` and the state of each `threading.Timer`; `step` and `pos`, where each thread is; `info_callback` and `chc`, by the load of the controls they come from | `LoadApp`, `LoadControls`, `InitControls`; one action per statement that uses `refresh_thread` (`Check`, `Cancel`, `Create`, `StartTimer` or `StartRaises`); then one per car and per callback |
| `EventBroker` | broker and streams | last events, queues, what a publisher still has to serve | `Announce` (the locked part), `Put` or `Drop` per queue; `Subscribe`, `ReadLastEvents`, `Replay`, `Take`, `Disconnect` |
| `ChargeRecords` | `record_charging`, `edit_charge` | `db` is the table the shared connection sees, `saved` the one on disk | one action between two statements another thread can come between; `OtherCommit`, `OtherClose` are the other users of the connection |
| `Database` | `init_db`, `get_db`, `check_db_access` | `file` and `conn` are the tables as saved and as seen, `phase` is where `init_db` is, `backups` what its copies hold | one action per statement that is saved at once, one transaction for `Copy` and `DropOld`; `Crash` at any point; `RecordCharge` when ready |
| `Dashboard` (extends `Database`) | `update_trips`, `serve_layout`, `set_db_callback`, `close` | the callbacks, the counters of changes, the lock, `data`, `data_ready`, `cached_layout`, where each thread is | `ClearCallbacks`, `AddCallback`; `TryLock` ... `Release` or `Raise`; `Write`, `Close`, `Note`; `Look`, `Wait`, `Build`, `CacheLayout`; `Restart` with the crash of `Database` |
| `ChargeControl` | `process`, `set_stop_hour` | next stop, retries, what was last seen of the car, the car itself | tests and assignments of `process` as separate steps; the car obeys, late or never |
| `RemoteToken` | refresh under the lock, saving | token in memory and at PSA, the file, the hash, the saves in progress | from `Call` to `Return`; `Open`, `Write`, `KeepHash`; `Crash` |
| `Trips` | `record_position`, `get_trips`, `TripParser` | the table, and the loop's `start`, `end` and `trips` | `Record`; then one turn of the loop: `Restart`, `EndTrip`, `EndLast`, `Continue` |
| `MergedTrips` | `clean_psa_trips`, `Readings`, `MergedTrips.get`, the cache | the clock, the car, PSA's trips, ours, the readings, the cache | what the car and the recording do; a request, which finds the list in the cache (`GetCached`), asks PSA (`GetAsked`) or is not answered (`GetUnanswered`); the answer itself is an operator of the list, checked in every state |
| `Push` | enable, disable, `PushState.save` | callbacks and monitors at PSA, the state, the file, where each request is (`request`) and where its save is (`save`) | one action per call to PSA and one for what follows its answer; a change of the state begins a save: `Open`, `Dump`, `Write`, and the failure of each; `Crash` |

`RemoteCommands` is the detailed specification of `CommandTracking`: `Tracking` is an
INSTANCE with the statuses of the stored results for its state, and
`ImplementsTracking` is checked as a property. `ApiToken` and `Dashboard` are compositions:
each step of theirs is a step of the module they extend or leaves its variables alone
(theorems `TokenImplementsRateLimit` and `DashboardImplementsDatabase`), so that what is
proved of the permits and of the tables holds in them.

The models stand beside each other: what one needs of another is an environment
action. `RemoteCommands` has a refresh that succeeds or fails (`RemoteToken` and
`RateLimit` say when); `ChargeControl` has orders that are sent or raise;
`ChargeRecords` has commits and rollbacks of the threads `Trips` and others run in;
`Refresh` has cars that are read or raise, and callbacks (the controls of `ChargeControl`)
that raise nothing they don't catch.

### Abstractions

- *Remote commands.* An id is the command and its attempt. The content of a message,
  the events of the car, the connection and the daily wake-up are left out. A result
  is settled in one step.
- *Remote token.* A token is the number of the rotation; the text of the
  configuration is the token and a counter of its other settings, and never comes
  back to an earlier value. Access tokens, the MQTT password and `otp.bin` are left out.
- *Rate limits.* Time is integers; a call may run any time.
- *API token.* A pair of tokens is the number of the renewal. What a call asks for, and its
  other errors, are left out; the renewal by the manager (a library) is taken as: post the
  refresh token, store the new one, store the access token.
- *Refresh.* One car is a number and a status is had or not; the delay of a timer may be
  shorter or longer than any work. A timer that was replaced before it was started, or
  has ended, can be made again: the model has a few for any number of refreshes.
- *Database.* A charge has its place in the three properties the statements ask for: refused by
  the constraint (`Invalid`), deleted as little, or neither. Positions and curves follow
  the same steps and are left out.
- *Dashboard.* The page is the set of the charges read for it. One `get_db` stands for those of
  `update_trips`; the default prices at the import and the altitudes, which are written
  with it, are left out, and so is the transaction that writers share (`ChargeRecords`). What
  is written is a charge more; changes and deletions of charges are left out.
- *Event streams.* An event is its type and number. A client that reads may stop at any time.
- *Charges.* A date is a number, a price is none, estimated or of the bill, a little
  charge is a flag. One car, and the status api gives dates in order.
- *Charge control.* The clock counts a few hours to a day; the level is whether the
  threshold is reached; waiting a minute is a state in which the car may obey or not.
  The postponing of a charge scheduled in the car and the file of controls are left out.
- *Trips.* Minutes, kilometres and percents are integers; one car, a known mileage,
  positions in the order of time; the rounding of fuel consumption, route, altitude
  and temperature are left out.
- *Merged trips.* Minutes and kilometres are integers; of a reading only its date and
  source are kept; fuel, speed, route and the values of levels are left out. The trips
  and readings of psacc are any: `Trips` says what they can be. A list of PSA is one
  page. A cached list that is too old is forgotten by the clock. A request asks and keeps the
  list in one step: of two that ask at once the slower keeps its own.
- *Push.* A group of triggers is its label. PSA's answer to a creation carries the id
  (the code accepts one without), and a callback that is deleted takes its monitors along.
  The token is looked for and made in one step. The fields of the state are read for the
  file in one step, and monitors that change meanwhile end the request as they do in the
  code. A text written over another is that text, or can't be read.

## 3. What is checked

TLC checks every state of these instances. Deadlock is not checked: every model
stops when its bounds are used up or the finite commands are done, and the program
itself waits for input.

| Run | Bounds | Shows |
|---|---|---|
| `commands_safety` | 2 commands, registry of 1, all answers, also twice and without id; symmetry | `AtMostOneResend`, `ResendNeedsExpiry`: a command goes out at most twice, and again only after an expired token. `BoundedByResends`: the registry outgrows its limit only by the resends, which never evict |
| `commands_tracking` | 2 commands, registry of 4, answers with ids and once | `PendingIsAwaited`, `UnresentSuccessIsAccepted`, `ImplementsTracking`, and `EveryCommandSettles` under fairness |
| `api_token` | 2 calls and a request of the manager, 1 permit, a window of 3, 2 expiries | `WindowBound`, `RefreshTokenIsCurrent`, `LoneCallIsAnswered`, and `PermitsComeBack` under fairness |
| `refresh` | 2 threads that start the loop, 3 timers, 1 car, 2 loads of the controls | `ChainAlive`, `RefreshesAreBounded`, and `CarsAreRefreshed`, `ControlsRun` under fairness |
| `database` | 3 charges, one refused, one little; 2 columns; 1 crash; 1 writer, 1 visitor and the import | `NoChargeIsLost`, `PageIsCurrent`, and `StartsUp`, `DataGetsReady` under fairness |
| `event_streams` | MQTT thread with 2 events, webhook thread with 1, 2 streams, queues of 1 | `NoGap`, `StreamIsCurrent`, `StreamCatchesUp` |
| `charges` | 1 recorder, 1 editor, 3 dates | `ChargesDontOverlap`, and `DetailsAreKept`: the price of a bill and what an edit leaves out |
| `control` | 2 threads that process, 1 that sets the hour, a day of 2, time to 2, one failure | `NextStopIsBounded`, `OrdersAreBounded`, and `ThresholdStops` under fairness |
| `remote_token` | 2 commands, 1 timer, 2 rotations, 1 change, 1 failed write, 1 crash | `TokenIsCurrent`, `OnlyARefreshIsLost`, and `TokenIsSaved` under fairness |
| `trips` | lists of up to 5 statuses from 10 kinds of legs, on a plug-in hybrid | `TripsInOrder`, `NoStopInside`, `KilometresHaveATrip`, `EndedTripsStay` |
| `merged_trips` | 4 minutes, 3 ignitions, 2 kilometres, 2 readings or a trip of psacc; a restart within 1 minute, a cache of 2, an end reading within 3 | `ToldOnce` (no time and no use of the battery twice), `KilometresAreKept`, `ToldTripsStay` (what has ended is told on, also after requests PSA doesn't answer) |
| `push` | 2 requests, 1 car, 2 groups, 5 ids, 2 failures; symmetry | `NothingIsForgotten`, `PushIsWhole` (what is known is there, what was enabled is watched), `FileIsCurrent` |

**Why the bounds are enough.** The interesting cases are those of two actors, and each
run has the smallest number that gives them. Two commands suffice for each to take
the place of the other in `last_request`; a registry of 1 makes the second evict the
first, one of 4 evicts none of two commands and two resends. Two calls for one permit
fill the window and leave one to refuse, and a third request renews beside them; two
expiries let a token expire again during its own retry. Two threads that start the loop
are a second loop, and the timers enough for each to be late once; with one car, what its exception
skips is the controls. Three charges
are one of each kind, and a column that is added twice stops between the two. Queues of 1 overflow at the second
event. Three dates are a charge that ends, one that begins after it and a date that
repeats. A day of 2 hours whose stop is at 1 has the clock before, at and past the stop,
and the hour set again may already have passed. Two rotations and one crash are a token lost before, during and after a save.
Five statuses are a first leg, a cut, a restart, a leg and a last one. Three ignitions are a trip, one that
goes nowhere and a restart of either; two readings are the end of one trip and the
start of the next, and the cache outlives the gap in which a trip may be restarted. Five ids are a
token, a callback, two monitors and one that takes the place of some of them; with
two failures a creation can be lost, or a save fail, and its repair can fail too. The bounds count
only what the environment does (events, failures, crashes, the clock), never what the
code does to react.

**Constants that select a case of the code.** `Duplicates` and `IdLess`
(`RemoteCommands`): MQTT may deliver twice, and `_get_command_result` accepts an
answer without an id. With such an answer a result may go to the newest pending
command, so what depends on ids is checked without. `UnseenRestart`
(`ChargeControl`): the charge may stop and start again between two statuses.

### Fairness

Weak fairness unless said otherwise, and only where something drives the step:

- `RemoteCommands`: threads of the web and MQTT run, and PSA answers each id it is
  sent. If it does not, the result stays pending, as documented.
- `RateLimit`, `ApiToken`: time passes, requests end (they have a timeout), timers fire.
- `Refresh`: a timer fires, early or late, and a thread goes on. *Strong* fairness says that a
  car does not raise each time it is asked for; with a car that always does, those after
  it and the controls are indeed never served (`psa_client.py:494-503`). Nobody is forced to
  start the loop.
- `EventBroker`: `publish` uses `put_nowait` and never blocks; a client that stays
  connected reads.
- `Database`, `Dashboard`: `init_db` and the threads go on. *Strong* fairness for
  `ClearCallbacks`: the lock of the database, which is held for short, is got in the end by
  each thread that waits for it. Nobody is forced to write or to visit.
- `ChargeControl`: the refresh timer runs again and again (`ControlsRun` of `Refresh` is why),
  process goes on, and the car obeys an order that is not lost.
- `RemoteToken`: a save goes on to its end, the timer comes again.

No fairness is needed for `Trips`, `MergedTrips`, `Push` and `ChargeRecords`, whose properties are safety.

### What does not hold

Bounds of the properties above, met while modelling. No run shows them.

- *The success of a result can be another command's* (`RemoteClient.py:137`), though
  `docs/psacc_api.md:108` says that it means the car has accepted the command. A 400 for one command
  resends whatever `last_request` holds; if another thread has published meanwhile that is its
  command, which is then linked to the result of the first.
  `UnresentSuccessIsAccepted` is about the results without a resend.
- *The threshold may never be tried* (`charge_control.py:91`), though `README.md:12` says the charge is
  stopped at it. `retry_count` is shared with the stop at the hour, and reset only when the
  car is seen to stop; a stop at the hour that is not obeyed uses it up.
- *An old table without the newer columns is not migrated* (`db.py:206`): it is copied with
  `INSERT ... SELECT *`, which fails when the numbers of columns differ. Then
  `check_db_access` ends the program, at each start. `StartsUp` is about complete tables.
- *A killed start can leave a table between two columns*; the next start adds the rest.
  Between the renaming and the copy the charges are in `battery_old` alone, where only the
  next start looks.
- *The page can be stale, or nothing* (`views.py:277-330`): `cached_layout` is tested and returned in two
  statements with its reset between them, and a page built from older data is cached after
  a reset. A second thread that comes to `update_trips` returns at once (line 226), though
  the comment above it (line 223) says that one thread waits for the other, and what it wrote
  may not be read. `PageIsCurrent` is about pages after a change with no other thread running.
- *The dashboard can lose its subscription* (`db.py:179`): `get_db` writes back the callback it
  read. And the list of callbacks is cleared by each `get_db` (line 88) while `close` goes
  through it (line 49), which raises when its size changes.
- *Two threads that start the loop at once start two, for good* (`psa_client.py:508`), and the controls of
  an earlier load stay among the callbacks (`charge_control.py:166`): both run on.
- *A request of the manager itself* (`psa/oauth.py`) renews the token past `rate_limit`; and
  the new refresh token reaches the disk only with the next save of the timer.
- *A crash while `charge_config.json` is written* leaves it empty, as with `config.json` below.
- *The webhook asks for a refresh at most once a minute* (`api.py:515`), for all cars
  together, and checks the minute before it sets it.
- *A refused command can be sent again* (`RemoteClient.py:292`): its refusal may be
  handled before `publish` stores it in `last_request`, where the next expired token finds it.
- *Two edits of one charge lose a key* (`charging.py:51`): each writes all keys as it read them.
- *Two recorders can open two charges* (`charging.py:98`): both read that the last has
  ended. A refresh that overlaps the next gives two recorders.
- *A rollback can lose the price of a bill*: a `close` of any thread rolls back what
  another has not committed, and the recorder may then estimate over the bill.
- *`set_stop_hour` beside `process` can skip a stop*: both add a day (`charge_control.py:37, 97`).
  So can two threads that run `process`. `NextStopIsBounded` says how far this can go.
- *Two saves at once can leave an old token on disk*, with the hash of the new one, so
  that it is not written again; and *a crash between opening and writing* leaves an
  empty `config.json`, with which psacc does not start (`psa_client.py:537`).
- *The threshold may not stop a charge* that ended and began again between two
  statuses, as its retries are used up.
- *A fuel level that is not told* is recorded as 0 (`db.py:358`): the test
  `level_fuel and level_fuel == 0` is never true, though the comment says "fix fuel
  level not provided when car is off". The next level told looks like a refuelling,
  and cuts the trip.
- *A silence of more than two hours* ends a trip but does not cut the first leg after a
  stop (`trips.py:98-111`): that leg is taken as it is. A trip ended by a silence
  before the last position may still grow when more positions come.
- *The page can show what was deleted* (`views.py:245`): `update_trips` returns before it drops
  the page when there are neither trips nor charges, as after the last charge was deleted
  (`charging.py:84`, `db.py:221`) with no trip. The model, which only adds charges, returns
  there before any page is cached.
- *An answer may have no trip of PSA*: when PSA doesn't answer (`psa_client.py:252`), psacc's are told
  alone (`merged_trips.py:174`, and `test_without_psa_trips_psacc_ones_are_kept`), and a trip that
  was told before is missing from that answer. `ToldTripsStay` is about the answers that have a list,
  before and after; that an unanswered request leaves nothing behind is a part of it. And of two
  requests that ask at once the older list may be kept last.
- *A trip of PSA told to have ended can grow.* A cached list is up to five minutes old
  (`psa_client.py:246`), while a trip counts as restartable for three
  (`merged_trips.py:162`): three minutes after the stop the trip has ended although the
  car may have gone on after two, and it is joined when PSA is asked again. At exactly
  the gap a trip has ended (`<`, line 162) but a restart still continues it (`<=`, line
  115). `ToldTripsStay` says that a trip stays *as it is* for lists just asked, without that moment; of
  any trip told to have ended it says that it doesn't go: it begins a trip of each list to come.
- *The readings of a trip shorter than twice the tolerance* may be in reverse: the one at
  the start is taken up to two minutes late, the one at the end two minutes early.
- *Cleaning looks at the positions of all cars* (`db.py:224`), so with two cars it
  deletes less, or a position of one between two of the other.
- *Enabling the push for a second car adds nothing* (`api.py:461`): the labels of the
  monitors of the first hide those missing for the second. `EnabledIsWatched`, a part of
  `PushIsWhole`, fails with two cars.
- *A lost answer to the deletion of the callback* makes every later enabling fail until
  the push is disabled again; a lost answer to a creation leaves a callback or monitor
  that psacc will not remove. Two requests at once can do the same.
- *Two requests at once can leave an older `psa_push.json`* (`push.py:77`), or one that can't be
  read: `save` opens, which empties the file, reads the state and writes without a lock, so the
  text of the slower one stays, or a part of each. And one of them ends with an exception that is not
  caught, its file cut off, when the other changes the monitors while it goes over them. A file that
  can't be opened stays as it was, and one that isn't written is cut off; both only log. A restart
  then forgets monitors, or all. `FileIsCurrent` is about what is left: after a save that ran alone and didn't
  fail, the file is the state until one of these happens (`unsaved`).

## 4. What is proved

TLAPS checks these for every value of the constants that satisfies the ASSUME of the
module (all are types, finiteness and "this value is none of those").

| Theorem | Says |
|---|---|
| `RemoteCommandsProofs`: `AtMostOneResendAlways`, `ResendNeedsExpiryAlways`, `TypeOKAlways`, `IInvAlways`, `BoundedByResendsAlways` | for any commands, registry size, and answers of any order, number and kind |
| `RemoteCommandsProofs`: `PendingIsAwaitedAlways` | for any commands and registry size, if answers carry their id |
| `RemoteCommandsProofs`: `UnresentSuccessIsAcceptedAlways` | for any commands, if answers carry their id and the registry has room |
| `RemoteCommandsProofs`: `TrackingIsImplemented` | the refinement of `CommandTracking`, if answers also come once |
| `ClientProofs`: `WindowBoundAlways`, `RefusedOnlyWhenBusyAlways` | for any calls, limit and window |
| `ClientProofs`: `RefreshTokenIsCurrentAlways`, `LoneCallIsAnsweredAlways`, `TokenImplementsRateLimit` | for any calls of the API, requests of the manager and expiries |
| `ClientProofs`: `ChainNeverDies`, `RefreshesAreBoundedAlways` | for any threads that start the loop, timers, cars and loads |
| `EventBrokerProofs`: `NoGapAlways`, `StreamIsCurrentAlways` | for any publishers, streams, types, queue sizes |
| `ChargeRecordsProofs`: `ChargesDontOverlapAlways`, `ManualPriceAlways` | for any editors, commits and rollbacks, **one** recorder |
| `ChargeRecordsProofs`: `DetailsAreKeptAlways` | for one recorder and one editor |
| `ChargeRecordsProofs`: `NoChargeIsLostAlways` | for any charges, columns and crashes |
| `ChargeRecordsProofs`: `DashboardImplementsDatabase`, `NoChargeIsLostBeside` | the dashboard does nothing to the tables: what is proved of them holds beside any threads |
| `ChargeRecordsProofs`: `PageIsCurrentAlways`, `PageInvAlways` | for any charges, writers and visitors |
| `ChargeControlProofs`: `NextStopIsBoundedAlways`, `OrdersAreBoundedAlways` | for any threads and hours |
| `RemoteTokenProofs`: `TokenIsCurrentAlways`, `FreshIsNotRefreshedAlways`, `OnlyARefreshIsLostAlways`, `SkippedSaveIsSafeAlways` | for any callers, timers, crashes, failures |
| `TripsProofs`: `TripsInOrderAlways`, `NoStopInsideAlways`, `OnlyTheLastIsInProgressAlways`, `KilometresHaveATripAlways` | for any list of positions and any car |
| `TripsProofs`: `EndedTripsStayAlways` | for any list of positions, if the fuel of a car at rest is told and steady |
| `TripsProofs`: `ToldOnceAlways`, `KilometresAreKeptAlways`, `ToldTripsStayAlways`, `MergedInvAlways` | for any lists of PSA, answered or not, trips of psacc, readings, delays and tolerances |
| `PushProofs`: `NothingIsForgottenAlways`, `FileIsCurrentAlways`, `KnownIsThereAlways` | for any requests, cars and groups |
| `PushProofs`: `PushIsWholeAlways` | for any requests and groups, **one** car |

Every safety property of the runs, invariant or of steps, is thus a theorem.

**Hypotheses.** Where a theorem needs more than the types of the constants, it says so.
The program meets it in the usual case, and TLC finds a counterexample
on a small instance when it is dropped:

- *Answers carry their id* (`~IdLess`) and *come once* (`~Duplicates`): `_get_command_result`
  lets an answer without an id settle the newest pending command, and a second answer to
  an id settles a result again.
- `HasRoom`: the registry has room for two entries for each command, its own and the one of
  its resend (it holds 100). An answer that finds no entry is taken as one without an id.
- `OneRecorder`, `OneEditor`: no refresh overlaps the next, no two edits are made at once.
- `OneCar`: see *Enabling the push for a second car* above.
- `FuelIsSteady`: see *A fuel level that is not told* above. The run `trips` assumes it too
  (`MCTrips`).

**Arguments.** All follow the same one: an inductive invariant (`IInv`, or the `...Inv` named below)
holds at first and is kept by each action, and implies the
property. TLC agrees with each of them on the instances above, but for two parts that speak of
all functions (`HasRun` of `StayInv`, `Determined` of `MergedIInv`); the runs check the
properties alone, which the invariants imply. What the invariant adds is the reason:

- *RemoteCommands.* The number of messages of a request says nothing of why there are
  not more. The reason is the flag `retried`: only a request whose `publish` has
  returned can be taken, and it is marked before its second message and never taken again.
  *The registry* (`BoundInv`): its entries beyond the size are as many as the commands sent
  again. *Pending results* (`AwaitedInv`): an id is never used twice, and the newest
  id of a pending result is live, or its publisher is about to send it. *Success* (`KnownInv`): every id that may be
  answered is in the registry, so the answer finds the command it was sent for. *The refinement*
  (`ClaimInv`): a result that can still be settled is pending, and only one holds
  it, the MQTT thread or one live id; so it is settled once.
- *RateLimit.* Permits and the calls that hold one add up to the limit, and a call
  that started within the window holds one.
- *ApiToken.* While no answer was lost at most one is on its way, of a request that has
  posted the last refresh token, and only then does the manager hold an older one
  (`OneAnswer`): whoever posts meanwhile is denied. What a call that runs alone knows at each
  statement of the token it has read (`Knows`) says why its second attempt carries the new one.
- *Refresh.* The loop is never without a pledge (`LoopIsPledged`): the last timer made waits,
  or somebody is about to start it or to make another, or its own thread is before
  the statement that does.
- *Database.* Wherever `init_db` stands, what a backup does not hold is in a table saved, and no
  table without the constraint is copied to (`OldIsBackedUp`); what the connection has
  changed and not committed holds all that the commit will drop (`TransactionIsWhole`).
- *Dashboard* (`PageInv`). While one thread runs alone the locks, the callbacks and the counters behave as
  in a sequential program: the invariant says at each statement what it has read, what is
  there and what is due (`MemoryInv`). As soon as a second one starts beside it, `calm` or
  `watched` is lost until a change is closed with none beside.
- *EventBroker.* The streams that `publish` serves are those subscribed; hence an event
  is either announced before a stream reads the last events, or is on its way to it.
  *Current streams* (`StreamsInv`): the last event of a type that a single thread publishes is
  in flight to a stream, or the last of its type that the stream has, or the stream has not read the
  last events yet and has got none of the type. For the thread that
  publishes serves every stream before it announces the next.
- *ChargeRecords.* No row is later than the recorder's status; a recorder inserts only
  when all have ended and ends the last; what is saved ends as in the table, except
  between an end and its commit. So a rollback restores an order that still holds.
  *Prices* (`BillInv`): the charge a recorder is about to end is in progress, so that nobody has
  set its price, and an edit is of a charge that has ended, before the status of the
  recorder. *Keys* (`KeysInv`): what the editor has read of the keys it leaves out is still in the
  table, and on disk unless it is about to commit.
- *ChargeControl.* The days the stop is ahead, and those the threads that have seen it
  pass have still to add, are no more than the threads. When a thread moves from one
  count to the other, nothing is gained.
  *Orders* (`OrdersInv`): the same, of the orders sent and those that threads may
  still send; and none is sent for the threshold that `retry_count` has not counted.
- *RemoteToken.* Whoever works has the lock. Without an overlap there is one save, of
  the token in memory; texts are only replaced by newer ones, so that a hash equal to
  the new text is that of the file.
- *Trips.* The trips found end before `start`, and the legs from `start` to `end` have
  been looked at.
  *Kilometres* (`KmInv`): each leg before `start` is in a trip or has its reason, and when the loop ends
  at most one leg is left. *Ended trips* (`StayInv`): the loop over the new table repeats, turn by turn,
  a run of the loop over the table of the report, up to its last row; the cleaning replaces no row
  but the last, by one that cuts a trip if and only if the old one did, which is where the fuel comes in.
- *MergedTrips* (`MergedIInv`). The loop of `clean_psa_trips` is a recursive function. That it has one outcome on
  every list is an induction over data, which the prover can't do; so the invariant carries it:
  *for the lists of this state* the loop has exactly one outcome (`Determined`), and a step
  that changes the last trip or appends one (`LoopAgrees`) keeps that. With it is kept, for each
  prefix of the list, that the trips joined are in order, begin and end with trips of PSA and span their kilometres on the
  odometer (`JoinedUpTo`). What was told is followed by another trip, or closed: too
  late, or too far, for a restart to continue it (`ToldIsClosed`).
  *Ended trips* (`EndedIsBegun`): what any answer told to have ended consists of trips that are done, and those
  never change; joining one more to them keeps their beginning and only adds (`FirmGrows`). The
  cached list is older, but what it can still tell is made of them too.
  That readings are in order needs no history: were the level at an end later than the one at
  the next start, each would lie in the window of the other (`WindowsInOrder`).
- *Push.* While no answer was lost, at most one request runs and what PSA has is in the
  state, or is the answer that request holds. *The file* (`DiskInv`): while a request runs alone, the
  file is the state, or it is empty and the text to come is the state; only disabling changes the state
  without a save at once, and its last step is one.
  *A whole push* (`PushInv`): what psacc knows is at PSA, each monitor under its callback, but for
  what the request that runs has just removed; and until that request fails, each group is known or
  among those it still has to create.

**Model-checked only.** Liveness (`EveryCommandSettles`, `PermitsComeBack`,
`StreamCatchesUp`, `ThresholdStops`, `TokenIsSaved`, `CarsAreRefreshed`, `ControlsRun`,
`StartsUp`, `DataGetsReady`), since fairness and ENABLED are
beyond the prover. `RefusedOnlyWhenBusy`, `FreshIsNotRefreshed`, `SkippedSaveIsSafe`
and `OnlyTheLastIsInProgress` are proved and in no run. No module uses RECURSIVE operators, and no
proof needs induction over data, which the prover cannot do.

## 5. Plan

Modelled so far, in the order of their importance: commands, token, charges, controls,
streams, trips, push; then the renewal of the API token, the refresh loop, the
database with its migration, and the dashboard. What is left, in this order:

1. *The MQTT connection*: the chain of keep-alive timers, which `stop` cancels while it may be
   making the next (`RemoteClient.py`), reconnections, and the wake-ups of the car.
2. *The plausible level* among stale ones (`RemoteClient.py:165`), with the status api.
3. *Composition* of `RemoteCommands`, `RateLimit` and `RemoteToken`: the budget of
   refreshes a storm of 400s can use; and of `Refresh` with `ChargeRecords`: when there are
   two recorders.
4. *Proofs*: every safety property is proved. Left are lemmas for liveness (that what a
   thread waits for is held by one that can go on), and weaker hypotheses: `OneCar` and
   `OneEditor` restated for the part of the state they are about.

## 6. Not modelled

Most of the repository by its lines, some 27,000 of 34,600, is the generated client of PSA's REST API
(`psa/connected_car_api/`): a method per route that builds one request, and a
class per type of data with its getters and setters. It has no control of its own; a call
of it is one action here, that succeeds, raises or is refused, as its callers see it. So
the definitions can only ever stand for a small share of all lines. Of the rest,
about 7,350 lines, much is the layout of figures and pages, parsing and formatting.

The figures, logging and HTTP routing have no state of their own
that matters. OTP is cryptography and one exchange. The setup pages
run before there are threads. Prices, emissions and ABRP compute on floats and call
other services; their failures are steps of `ChargeRecords`. The scheduled hour of a
charge (`charge_control.py:78`) and the minute of the webhook (`api.py:515`) are tests
that ask for less or more often what the models do at any time. What the modelled
components leave out is listed under Abstractions.

## Running

    tlc -workers 2 -config Push.cfg MCPush     # a run: module and cfg are in PROJECT.json
    tlapm PushProofs.tla                       # the proofs of a module
