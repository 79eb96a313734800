----------------------------- MODULE RemoteToken -----------------------------
(***************************************************************************)
(* The token of the remote control and its copy in config.json              *)
(* (RemoteClient._refresh_remote_token, psa/RemoteCredentials.py,           *)
(* PSAClient.save_config).                                                  *)
(*                                                                         *)
(* Every command refreshes the token first, in a thread of its own and      *)
(* under a lock.  PSA rotates the refresh token: the last one it has given  *)
(* is the only one it accepts.  The new one is saved at once, by a callback *)
(* inside the lock, while a timer saves the same file every 30 seconds.     *)
(* The process may die between any two steps and starts again from the file.*)
(*                                                                         *)
(* Tokens are numbers, in the order PSA gives them; 0 stands for none.  The *)
(* rest of the configuration is a number too: the token of the api changes  *)
(* it at each refresh, and no value comes back.  The access tokens are left *)
(* out: an answer that holds one alone changes nothing here.                *)
(***************************************************************************)
EXTENDS Integers

CONSTANTS Callers,      \* the threads that send commands
          Timers,       \* the threads of the timer that saves
          NoCaller,     \* nobody has the lock
          NoText,       \* an empty file; no hash is known
          MaxToken,     \* bound: the refresh tokens PSA gives
          MaxSettings,  \* bound: the changes of the rest of the configuration
          MaxFailed,    \* bound: the writes that fail
          MaxCrashes    \* bound: the crashes

Text == [token: Nat, settings: Nat]

ASSUME TokenAssumption ==
    /\ Callers \cap Timers = {}
    /\ NoCaller \notin Callers
    /\ NoText \notin Text
    /\ MaxToken \in Nat /\ MaxSettings \in Nat /\ MaxFailed \in Nat /\ MaxCrashes \in Nat

Savers == Callers \cup Timers

VARIABLES
    psa,       \* the refresh token PSA accepts (external)
    creds,     \* RemoteCredentials; fresh stands for a recent last_update
    settings,  \* the rest of the configuration
    lock,      \* who has RemoteClient._lock
    call,      \* the calls of _refresh_remote_token
    file,      \* config.json
    hash,      \* _config_hash, as the text it was taken of
    save,      \* the calls of save_config
    failed,    \* the writes that failed
    crashes,   \* the crashes
    alive,     \* FALSE once config.json can't be read at a start
    stale,     \* history: PSA has given a new token that was lost
    unsaved,   \* history: the last write of the token failed
    overlap    \* history: two saves have overlapped

token   == <<psa, creds, stale>>
caller  == <<lock, call>>
disk    == <<file, hash, save, failed, unsaved, overlap>>
process == <<alive, crashes>>
vars    == <<token, settings, caller, disk, process>>

Idle == [at |-> "idle", force |-> FALSE, refresh |-> 0]

NotSaving == [at |-> "idle", text |-> [token |-> 0, settings |-> 0]]

TypeOK ==
    /\ psa \in Nat
    /\ creds \in [refresh: Nat, fresh: BOOLEAN]
    /\ settings \in Nat
    /\ lock \in Callers \cup {NoCaller}
    /\ call \in [Callers -> [at: {"idle", "waiting", "access", "post", "otp", "grant", "store", "saving"},
                             force: BOOLEAN, refresh: Nat]]
    /\ file \in Text \cup {NoText}
    /\ hash \in Text \cup {NoText}
    /\ save \in [Savers -> [at: {"idle", "compare", "open", "write", "hash"}, text: Text]]
    /\ failed \in Nat
    /\ crashes \in Nat
    /\ alive \in BOOLEAN
    /\ stale \in BOOLEAN
    /\ unsaved \in BOOLEAN
    /\ overlap \in BOOLEAN

\* load_config, of a configuration with or without a remote token.
Init ==
    /\ psa \in {0, 1}
    /\ creds = [refresh |-> psa, fresh |-> FALSE]
    /\ settings = 0
    /\ lock = NoCaller
    /\ call = [c \in Callers |-> Idle]
    /\ file = [token |-> psa, settings |-> 0]
    /\ hash = NoText
    /\ save = [s \in Savers |-> NotSaving]
    /\ failed = 0
    /\ crashes = 0
    /\ alive = TRUE
    /\ stale = FALSE
    /\ unsaved = FALSE
    /\ overlap = FALSE

-----------------------------------------------------------------------------
(* save_config *)

GotoSave(s, at) == save' = [save EXCEPT ![s].at = at]

\* The text is made of the configuration as it is at that time.
Encode(s, refresh) ==
    /\ save' = [save EXCEPT ![s] = [at |-> "compare", text |-> [token |-> refresh, settings |-> settings]]]
    /\ overlap' = (overlap \/ \E other \in Savers \ {s} : save[other].at # "idle")

\* The timer, every 30 seconds.
TimerSaves(t) ==
    /\ save[t].at = "idle"
    /\ Encode(t, creds.refresh)
    /\ UNCHANGED <<token, settings, caller, file, hash, failed, unsaved, process>>

\* Nothing has changed since the last save.
SkipSave(s) ==
    /\ save[s].at = "compare"
    /\ hash = save[s].text
    /\ save' = [save EXCEPT ![s] = NotSaving]
    /\ UNCHANGED <<token, settings, caller, file, hash, failed, unsaved, overlap, process>>

StartSave(s) ==
    /\ save[s].at = "compare"
    /\ hash # save[s].text
    /\ GotoSave(s, "open")
    /\ UNCHANGED <<token, settings, caller, file, hash, failed, unsaved, overlap, process>>

\* Variant: the hash is kept before the text is written.
OpenWithHash(s) ==
    /\ save[s].at = "open"
    /\ file' = NoText
    /\ hash' = save[s].text
    /\ GotoSave(s, "write")
    /\ UNCHANGED <<token, settings, caller, failed, unsaved, overlap, process>>

\* Opening the file to write truncates it.
Open(s) ==
    /\ save[s].at = "open"
    /\ file' = NoText
    /\ GotoSave(s, "write")
    /\ UNCHANGED <<token, settings, caller, hash, failed, unsaved, overlap, process>>

Write(s) ==
    /\ save[s].at = "write"
    /\ file' = save[s].text
    /\ unsaved' = (unsaved /\ save[s].text.token # creds.refresh)
    /\ GotoSave(s, "hash")
    /\ UNCHANGED <<token, settings, caller, hash, failed, overlap, process>>

KeepHash(s) ==
    /\ save[s].at = "hash"
    /\ hash' = save[s].text
    /\ save' = [save EXCEPT ![s] = NotSaving]
    /\ UNCHANGED <<token, settings, caller, file, failed, unsaved, overlap, process>>

Save(s) == SkipSave(s) \/ StartSave(s) \/ Open(s) \/ Write(s) \/ KeepHash(s)

-----------------------------------------------------------------------------
(* _refresh_remote_token *)

Goto(c, at) == call' = [call EXCEPT ![c].at = at]

\* It returns, or raises: the lock is given back.
Leave(c) ==
    /\ call' = [call EXCEPT ![c] = Idle]
    /\ lock' = NoCaller

\* A command is sent, or the mqtt broker or PSA has refused the token (force).
Call(c) ==
    /\ call[c].at = "idle"
    /\ \E force \in BOOLEAN : call' = [call EXCEPT ![c] = [Idle EXCEPT !.at = "waiting", !.force = force]]
    /\ UNCHANGED <<token, settings, lock, disk, process>>

IsFresh == creds.refresh # 0 /\ creds.fresh

\* Variant: without the lock.
AcquireAtOnce(c) ==
    /\ call[c].at = "waiting"
    /\ call[c].force \/ ~IsFresh
    /\ lock' = c
    /\ Goto(c, "access")
    /\ UNCHANGED <<token, settings, disk, process>>

\* The lock is taken, then the token looked at: it has to be refreshed.
Acquire(c) ==
    /\ call[c].at = "waiting"
    /\ lock = NoCaller
    /\ call[c].force \/ ~IsFresh
    /\ lock' = c
    /\ Goto(c, "access")
    /\ UNCHANGED <<token, settings, disk, process>>

\* Or another thread has just refreshed it.
ReturnFresh(c) ==
    /\ call[c].at = "waiting"
    /\ lock = NoCaller
    /\ ~call[c].force /\ IsFresh
    /\ Goto(c, "idle")
    /\ UNCHANGED <<token, settings, lock, disk, process>>

\* The access token of the api is refreshed first.
RefreshAccess(c) ==
    /\ call[c].at = "access"
    /\ settings' = IF settings < MaxSettings THEN settings + 1 ELSE settings
    /\ Goto(c, IF creds.refresh = 0 THEN "otp" ELSE "post")
    /\ UNCHANGED <<token, lock, disk, process>>

\* A request fails before PSA has done anything, a rate limit is reached, or
\* there is no code to be had; an answer may hold an access token alone.
LeaveUnchanged(c) ==
    /\ call[c].at \in {"access", "post", "otp", "grant"}
    /\ Leave(c)
    /\ UNCHANGED <<token, settings, disk, process>>

\* PSA answers without an access token, as it does to any token but the last.
Refuse(c) ==
    /\ call[c].at = "post"
    /\ Goto(c, "otp")
    /\ UNCHANGED <<token, settings, lock, disk, process>>

GetCode(c) ==
    /\ call[c].at = "otp"
    /\ Goto(c, "grant")
    /\ UNCHANGED <<token, settings, lock, disk, process>>

\* PSA gives a new refresh token, for the last one or for a code.
Gives(c) ==
    /\ call[c].at = "grant" \/ (call[c].at = "post" /\ creds.refresh = psa)
    /\ psa < MaxToken
    /\ psa' = psa + 1

Receive(c) ==
    /\ Gives(c)
    /\ stale' = FALSE
    /\ call' = [call EXCEPT ![c].at = "store", ![c].refresh = psa']
    /\ UNCHANGED <<creds, settings, lock, disk, process>>

\* Its answer doesn't arrive.
LoseAnswer(c) ==
    /\ Gives(c)
    /\ stale' = TRUE
    /\ Leave(c)
    /\ UNCHANGED <<creds, settings, disk, process>>

\* Variant: the callback is missing, only the timer saves.
StoreUnsaved(c) ==
    /\ call[c].at = "store"
    /\ creds' = [refresh |-> call[c].refresh, fresh |-> TRUE]
    /\ Goto(c, "saving")
    /\ UNCHANGED <<psa, stale, settings, lock, disk, process>>

\* The setter of refresh_token, whose callback saves the configuration.
Store(c) ==
    /\ call[c].at = "store"
    /\ creds' = [refresh |-> call[c].refresh, fresh |-> TRUE]
    /\ Encode(c, call[c].refresh)
    /\ Goto(c, "saving")
    /\ UNCHANGED <<psa, stale, settings, lock, file, hash, failed, unsaved, process>>

Return(c) ==
    /\ call[c].at = "saving"
    /\ save[c].at = "idle"
    /\ Leave(c)
    /\ UNCHANGED <<token, settings, disk, process>>

Work(c) ==
    \/ Acquire(c)
    \/ ReturnFresh(c)
    \/ RefreshAccess(c)
    \/ LeaveUnchanged(c)
    \/ Refuse(c)
    \/ GetCode(c)
    \/ Receive(c)
    \/ LoseAnswer(c)
    \/ Store(c)
    \/ Return(c)

\* A write fails, the disk being full for example; in the callback the
\* exception ends the refresh too.
SaveFails(s) ==
    /\ save[s].at \in {"open", "write"}
    /\ failed < MaxFailed
    /\ failed' = failed + 1
    /\ unsaved' = TRUE
    /\ save' = [save EXCEPT ![s] = NotSaving]
    /\ IF s \in Callers THEN Leave(s) ELSE UNCHANGED caller
    /\ UNCHANGED <<token, settings, file, hash, overlap, process>>

-----------------------------------------------------------------------------

\* Fifteen minutes pass.
Expire ==
    /\ creds.fresh
    /\ creds' = [creds EXCEPT !.fresh = FALSE]
    /\ UNCHANGED <<psa, stale, settings, caller, disk, process>>

\* The rest of the configuration changes: the api or the user.
Change ==
    /\ settings < MaxSettings
    /\ settings' = settings + 1
    /\ UNCHANGED <<token, caller, disk, process>>

\* The process dies, and starts again with load_config, which an empty file ends.
Crash ==
    /\ crashes < MaxCrashes
    /\ crashes' = crashes + 1
    /\ alive' = (file # NoText)
    /\ lock' = NoCaller
    /\ call' = [c \in Callers |-> Idle]
    /\ save' = [s \in Savers |-> NotSaving]
    /\ hash' = NoText
    /\ IF file = NoText THEN UNCHANGED <<creds, settings, stale>>
       ELSE /\ creds' = [refresh |-> file.token, fresh |-> FALSE]
            /\ settings' = file.settings
            /\ stale' = (file.token # psa)
    /\ unsaved' = FALSE
    /\ overlap' = FALSE
    /\ UNCHANGED <<psa, file, failed>>

Next ==
    /\ alive
    /\ \/ \E c \in Callers : Call(c) \/ Work(c)
       \/ \E t \in Timers : TimerSaves(t)
       \/ \E s \in Savers : Save(s) \/ SaveFails(s)
       \/ Expire
       \/ Change
       \/ Crash

Spec == Init /\ [][Next]_vars

\* Threads run and the timer comes again and again.
FairSpec ==
    /\ Spec
    /\ \A c \in Callers : WF_vars(alive /\ Return(c))
    /\ \A t \in Timers : WF_vars(alive /\ TimerSaves(t))
    /\ \A s \in Savers : WF_vars(alive /\ (Save(s) \/ SaveFails(s)))

-----------------------------------------------------------------------------

\* The token in memory, or about to be, is the one PSA accepts, unless PSA has
\* given one that was lost: no two threads ever spend the same token.
TokenIsCurrent ==
    alive /\ ~stale =>
        \/ creds.refresh = psa
        \/ \E c \in Callers : call[c].at = "store" /\ call[c].refresh = psa

\* A call that nothing forces never has PSA rotate a token that is fresh, also
\* when it waited for the lock while another refreshed it.
FreshIsNotRefreshed ==
    alive =>
        \A c \in Callers :
            call[c].at \in {"access", "post"} /\ ~call[c].force => ~IsFresh

\* Nobody is between the opening of the file and the end of the save.
NoSave == \A s \in Savers : save[s].at \in {"idle", "compare"}

\* What a crash may lose: once the lock is free the new token is on disk, or
\* the timer is writing it, unless the write failed or two saves overlapped.
OnlyARefreshIsLost ==
    alive /\ lock = NoCaller /\ NoSave /\ ~unsaved /\ ~overlap =>
        file # NoText /\ file.token = creds.refresh

\* A save is skipped only when the file holds the text it would write, also
\* after a write that failed half way; until two saves overlap.
SkippedSaveIsSafe ==
    alive /\ ~overlap =>
        \A s \in Savers : save[s].at = "compare" /\ hash = save[s].text => file = save[s].text

(* The inductive invariant behind them *)

\* Whoever works has the lock, and saves in its callback only.
LockHeld ==
    \A c \in Callers :
        /\ call[c].at \notin {"idle", "waiting"} <=> lock = c
        /\ save[c].at # "idle" => call[c].at = "saving"
        /\ call[c].at = "store" => call[c].refresh = psa /\ ~stale

\* What a save would write now.
Current == [token |-> creds.refresh, settings |-> settings]

NotOlder(text, than) == than.token <= text.token /\ than.settings <= text.settings

Newer(text, than) == NotOlder(text, than) /\ text # than

\* PSA gave every token there is.
NothingFromTheFuture ==
    /\ creds.refresh <= psa
    /\ file # NoText => file.token <= psa
    /\ \A s \in Savers : save[s].text.token <= psa

\* Without an overlap there is one save at most, of the token in memory; it
\* writes nothing older than the text of the hash, and writes in order.
SavesInOrder ==
    /\ \A s, other \in Savers : save[s].at # "idle" /\ save[other].at # "idle" => s = other
    /\ hash # NoText => NotOlder(Current, hash)
    /\ \A s \in Savers : save[s].at # "idle" =>
          /\ save[s].text.token = creds.refresh
          /\ NotOlder(Current, save[s].text)
          /\ hash # NoText => NotOlder(save[s].text, hash)
          /\ save[s].at # "compare" /\ hash # NoText => Newer(save[s].text, hash)
          /\ save[s].at = "hash" => file = save[s].text

\* When the file isn't what the hash says, there is something newer to save.
HashIsOld ==
    hash \notin {NoText, file} =>
        /\ Newer(Current, hash)
        /\ \A s \in Savers : save[s].at # "idle" => Newer(save[s].text, hash)

\* The file holds the token, or is about to.
TokenOnItsWay ==
    ~unsaved =>
        \/ file # NoText /\ file.token = creds.refresh
        \/ \E c \in Callers : save[c].at \in {"compare", "open"}
        \/ \E s \in Savers : save[s].at = "write"

IInv ==
    /\ TypeOK
    /\ alive =>
          /\ LockHeld
          /\ NothingFromTheFuture
          /\ TokenIsCurrent
          /\ FreshIsNotRefreshed
          /\ ~overlap => SavesInOrder /\ HashIsOld /\ TokenOnItsWay

\* A token that is kept is on disk in the end, though a write fails.
TokenIsSaved ==
    \A n \in 1..MaxToken :
        creds.refresh = n ~>
            \/ creds.refresh # n
            \/ file # NoText /\ file.token = n
            \/ overlap
            \/ ~alive
=============================================================================
