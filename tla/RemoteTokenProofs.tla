-------------------------- MODULE RemoteTokenProofs --------------------------
(***************************************************************************)
(* The remote token, for any number of threads that send commands, of timers*)
(* that save, of tokens, of writes that fail and of crashes: the token in   *)
(* memory is the one PSA accepts, and the one on disk unless a write failed *)
(* or two saves overlapped.                                                 *)
(***************************************************************************)
EXTENDS RemoteToken, TLAPS

CallAt == {"idle", "waiting", "access", "post", "otp", "grant", "store", "saving"}

CallRecord == [at: CallAt, force: BOOLEAN, refresh: Nat]

SaveAt == {"idle", "compare", "open", "write", "hash"}

SaveRecord == [at: SaveAt, text: Text]

LEMMA GotoTyped ==
    ASSUME TypeOK, NEW c \in Callers, NEW at \in CallAt, Goto(c, at)
    PROVE  call' \in [Callers -> CallRecord]
  <1>1. [call[c] EXCEPT !.at = at] \in CallRecord
    BY DEF TypeOK, CallRecord, CallAt
  <1>2. call' = [call EXCEPT ![c] = [call[c] EXCEPT !.at = at]]
    BY DEF Goto
  <1> QED BY <1>1, <1>2 DEF TypeOK, CallRecord, CallAt

LEMMA GotoSaveTyped ==
    ASSUME TypeOK, NEW s \in Savers, NEW at \in SaveAt, GotoSave(s, at)
    PROVE  save' \in [Savers -> SaveRecord]
  <1>1. [save[s] EXCEPT !.at = at] \in SaveRecord
    BY DEF TypeOK, SaveRecord, SaveAt
  <1>2. save' = [save EXCEPT ![s] = [save[s] EXCEPT !.at = at]]
    BY DEF GotoSave
  <1> QED BY <1>1, <1>2 DEF TypeOK, SaveRecord, SaveAt

LEMMA IdleTyped == Idle \in CallRecord /\ NotSaving \in SaveRecord
  BY DEF Idle, NotSaving, CallRecord, CallAt, SaveRecord, SaveAt, Text

LEMMA EncodeTyped ==
    ASSUME TypeOK, NEW s \in Savers, NEW refresh \in Nat, Encode(s, refresh)
    PROVE  save' \in [Savers -> SaveRecord] /\ overlap' \in BOOLEAN
  <1>1. [token |-> refresh, settings |-> settings] \in Text
    BY DEF TypeOK, Text
  <1>2. [at |-> "compare", text |-> [token |-> refresh, settings |-> settings]] \in SaveRecord
    BY <1>1 DEF SaveRecord, SaveAt
  <1> QED BY <1>2 DEF TypeOK, Encode, SaveRecord, SaveAt

LEMMA LeaveTyped ==
    ASSUME TypeOK, NEW c \in Callers, Leave(c)
    PROVE  call' \in [Callers -> CallRecord] /\ lock' \in Callers \cup {NoCaller}
  BY IdleTyped DEF Leave, TypeOK, CallRecord, CallAt

\* A save changes its own call, the file, the hash and unsaved.
LEMMA TypeSave ==
    ASSUME TypeOK, NEW s \in Savers, Save(s)
    PROVE  TypeOK'
  <1>1. save[s].text \in Text
    BY DEF TypeOK
  <1>2. save' \in [Savers -> SaveRecord]
    <2>1. ASSUME save' = [save EXCEPT ![s] = NotSaving] PROVE save' \in [Savers -> SaveRecord]
      BY <2>1, IdleTyped DEF TypeOK, SaveRecord, SaveAt
    <2> QED BY <2>1, GotoSaveTyped DEF Save, SkipSave, StartSave, Open, Write, KeepHash, SaveAt
  <1>3. file' \in Text \cup {NoText} /\ hash' \in Text \cup {NoText} /\ unsaved' \in BOOLEAN
    BY <1>1, Zenon DEF TypeOK, Save, SkipSave, StartSave, Open, Write, KeepHash
  <1>4. UNCHANGED <<token, settings, caller, failed, overlap, process>>
    BY DEF Save, SkipSave, StartSave, Open, Write, KeepHash
  <1> QED BY <1>2, <1>3, <1>4 DEF TypeOK, token, caller, process, SaveRecord, SaveAt

\* A refresh changes what PSA and the process know of the token, and may start a save.
LEMMA TypeWork ==
    ASSUME TypeOK, NEW c \in Callers, Call(c) \/ Work(c)
    PROVE  TypeOK'
  <1> USE DEF TypeOK, CallRecord, CallAt
  <1>1. CASE Call(c)
    <2>1. PICK force \in BOOLEAN : call' = [call EXCEPT ![c] = [Idle EXCEPT !.at = "waiting", !.force = force]]
      BY <1>1 DEF Call
    <2>2. [Idle EXCEPT !.at = "waiting", !.force = force] \in CallRecord
      BY DEF Idle
    <2>3. call' \in [Callers -> CallRecord]
      BY <2>1, <2>2
    <2> QED BY <1>1, <2>3 DEF Call, token, disk, process
  <1>2. CASE Acquire(c) \/ ReturnFresh(c)
    <2>1. call' \in [Callers -> CallRecord]
      BY <1>2, GotoTyped DEF Acquire, ReturnFresh
    <2> QED BY <1>2, <2>1 DEF Acquire, ReturnFresh, token, disk, process
  <1>3. CASE RefreshAccess(c)
    <2>1. call' \in [Callers -> CallRecord]
      BY <1>3, GotoTyped DEF RefreshAccess
    <2>2. settings' \in Nat
      BY <1>3 DEF RefreshAccess
    <2> QED BY <1>3, <2>1, <2>2 DEF RefreshAccess, token, disk, process
  <1>4. CASE LeaveUnchanged(c) \/ Return(c)
    <2>1. call' \in [Callers -> CallRecord] /\ lock' \in Callers \cup {NoCaller}
      BY <1>4, LeaveTyped DEF LeaveUnchanged, Return
    <2> QED BY <1>4, <2>1 DEF LeaveUnchanged, Return, token, disk, process
  <1>5. CASE Refuse(c) \/ GetCode(c)
    <2>1. call' \in [Callers -> CallRecord]
      BY <1>5, GotoTyped DEF Refuse, GetCode
    <2> QED BY <1>5, <2>1 DEF Refuse, GetCode, token, disk, process
  <1>6. CASE Receive(c)
    <2>1. psa' \in Nat
      BY <1>6 DEF Receive, Gives
    <2>2. [call[c] EXCEPT !.at = "store", !.refresh = psa'] \in CallRecord
      BY <2>1
    <2>3. call' = [call EXCEPT ![c] = [call[c] EXCEPT !.at = "store", !.refresh = psa']]
      BY <1>6 DEF Receive
    <2>4. call' \in [Callers -> CallRecord]
      BY <2>2, <2>3
    <2> QED BY <1>6, <2>1, <2>4 DEF Receive, disk, process
  <1>7. CASE LoseAnswer(c)
    <2>1. psa' \in Nat
      BY <1>7 DEF LoseAnswer, Gives
    <2>2. call' \in [Callers -> CallRecord] /\ lock' \in Callers \cup {NoCaller}
      BY <1>7, LeaveTyped DEF LoseAnswer
    <2> QED BY <1>7, <2>1, <2>2 DEF LoseAnswer, disk, process
  <1>8. CASE Store(c)
    <2>1. call' \in [Callers -> CallRecord]
      BY <1>8, GotoTyped DEF Store
    <2>2. call[c].refresh \in Nat /\ c \in Savers
      BY DEF Savers
    <2>3. save' \in [Savers -> SaveRecord] /\ overlap' \in BOOLEAN
      BY <1>8, <2>2, EncodeTyped DEF Store
    <2>4. creds' \in [refresh: Nat, fresh: BOOLEAN]
      BY <1>8, <2>2 DEF Store
    <2> QED BY <1>8, <2>1, <2>3, <2>4 DEF Store, process, SaveRecord, SaveAt
  <1> QED BY <1>1, <1>2, <1>3, <1>4, <1>5, <1>6, <1>7, <1>8 DEF Work

LEMMA TypeStep == TypeOK /\ [Next]_vars => TypeOK'
  <1> SUFFICES ASSUME TypeOK, [Next]_vars PROVE TypeOK'
    OBVIOUS
  <1>1. CASE \E c \in Callers : Call(c) \/ Work(c)
    BY <1>1, TypeWork
  <1>2. ASSUME NEW t \in Timers, TimerSaves(t) PROVE TypeOK'
    <2>1. creds.refresh \in Nat /\ t \in Savers
      BY DEF TypeOK, Savers
    <2>2. save' \in [Savers -> SaveRecord] /\ overlap' \in BOOLEAN
      BY <1>2, <2>1, EncodeTyped DEF TimerSaves
    <2> QED BY <1>2, <2>2 DEF TypeOK, TimerSaves, token, caller, process, SaveRecord, SaveAt
  <1>3. CASE \E s \in Savers : Save(s)
    BY <1>3, TypeSave
  <1>4. ASSUME NEW s \in Savers, SaveFails(s) PROVE TypeOK'
    <2>1. save' \in [Savers -> SaveRecord]
      BY <1>4, IdleTyped DEF SaveFails, TypeOK, SaveRecord, SaveAt
    <2>2. call' \in [Callers -> CallRecord] /\ lock' \in Callers \cup {NoCaller}
      BY <1>4, LeaveTyped DEF SaveFails, TypeOK, caller, CallRecord, CallAt
    <2>3. failed' \in Nat
      BY <1>4 DEF SaveFails, TypeOK
    <2>4. unsaved' = TRUE /\ UNCHANGED <<token, settings, file, hash, overlap, process>>
      BY <1>4 DEF SaveFails
    <2> QED BY <2>1, <2>2, <2>3, <2>4 DEF TypeOK, token, process, SaveRecord, SaveAt, CallRecord, CallAt
  <1>5. CASE Expire
    <2>1. creds' \in [refresh: Nat, fresh: BOOLEAN]
      BY <1>5 DEF Expire, TypeOK
    <2> QED BY <1>5, <2>1 DEF Expire, TypeOK, caller, disk, process
  <1>6. CASE Change
    BY <1>6 DEF Change, TypeOK, token, caller, disk, process
  <1>7. CASE Crash
    <2>1. call' \in [Callers -> CallRecord] /\ save' \in [Savers -> SaveRecord]
      BY <1>7, IdleTyped DEF Crash
    <2>2. /\ creds' \in [refresh: Nat, fresh: BOOLEAN]
          /\ settings' \in Nat
      <3>1. CASE file = NoText
        BY <1>7, <3>1 DEF Crash, TypeOK
      <3>2. CASE file # NoText
        <4>1. file \in Text
          BY <3>2 DEF TypeOK
        <4>2. file.token \in Nat /\ file.settings \in Nat
          BY <4>1 DEF Text
        <4>3. creds' = [refresh |-> file.token, fresh |-> FALSE] /\ settings' = file.settings
          BY <1>7, <3>2 DEF Crash
        <4> QED BY <4>2, <4>3
      <3> QED BY <3>1, <3>2
    <2>3. stale' \in BOOLEAN /\ alive' \in BOOLEAN
      BY <1>7 DEF Crash, TypeOK
    <2>4. crashes' \in Nat /\ lock' = NoCaller /\ hash' = NoText /\ unsaved' = FALSE /\ overlap' = FALSE
      BY <1>7 DEF Crash, TypeOK
    <2>5. psa' = psa /\ file' = file /\ failed' = failed
      BY <1>7 DEF Crash
    <2> QED BY <2>1, <2>2, <2>3, <2>4, <2>5 DEF TypeOK, SaveRecord, SaveAt, CallRecord, CallAt
  <1>8. CASE UNCHANGED vars
    BY <1>8 DEF vars, token, caller, disk, process, TypeOK
  <1> QED BY <1>1, <1>2, <1>3, <1>4, <1>5, <1>6, <1>7, <1>8 DEF Next

\* What the lock protects.
TokenInv == LockHeld /\ NothingFromTheFuture /\ TokenIsCurrent /\ FreshIsNotRefreshed

\* The lock's holder is the only one at work.
LEMMA OneAtWork ==
    ASSUME TypeOK, LockHeld,
           NEW c \in Callers, call[c].at \notin {"idle", "waiting"},
           NEW other \in Callers \ {c}
    PROVE  call[other].at \in {"idle", "waiting"} /\ save[other].at = "idle"
  BY DEF LockHeld, TypeOK, Savers

\* A step that leaves the calls and what they know alone.
LEMMA TokenKept ==
    ASSUME TypeOK, TokenInv, alive, alive',
           UNCHANGED <<psa, stale, lock, call>>,
           creds'.refresh = creds.refresh,
           creds'.fresh => creds.fresh,
           \A c \in Callers : save'[c].at # "idle" => save[c].at # "idle",
           \A s \in Savers : save'[s].text.token <= psa,
           file' \in {file, NoText} \/ \E s \in Savers : file' = save[s].text
    PROVE  TokenInv'
  <1>1. IsFresh' => IsFresh
    BY DEF IsFresh
  <1>2. LockHeld'
    BY DEF TokenInv, LockHeld
  <1>3. NothingFromTheFuture'
    BY DEF TokenInv, NothingFromTheFuture
  <1>4. TokenIsCurrent'
    BY DEF TokenInv, TokenIsCurrent
  <1>5. FreshIsNotRefreshed'
    BY <1>1 DEF TokenInv, FreshIsNotRefreshed
  <1> QED BY <1>2, <1>3, <1>4, <1>5 DEF TokenInv

\* What the text of a save becomes.
LEMMA SaveKept ==
    ASSUME TypeOK, TokenInv, NEW s \in Savers, Save(s)
    PROVE  /\ \A c \in Callers : save'[c].at # "idle" => save[c].at # "idle"
           /\ \A other \in Savers : save'[other].text.token <= psa
           /\ file' \in {file, NoText} \/ \E other \in Savers : file' = save[other].text
  <1>1. PICK at \in SaveAt : save' = [save EXCEPT ![s] = NotSaving] \/ save' = [save EXCEPT ![s].at = at]
    BY DEF Save, SkipSave, StartSave, Open, Write, KeepHash, GotoSave, SaveAt
  <1>2. save[s].at # "idle"
    BY DEF Save, SkipSave, StartSave, Open, Write, KeepHash
  <1>3. \A other \in Savers : save[other].text.token <= psa
    BY DEF TokenInv, NothingFromTheFuture
  <1>4. NotSaving.text.token = 0 /\ psa >= 0
    BY DEF NotSaving, TypeOK
  <1>5. \A other \in Savers : save'[other].text.token <= psa
    BY <1>1, <1>3, <1>4 DEF TypeOK
  <1>6. \A c \in Callers : save'[c].at # "idle" => save[c].at # "idle"
    BY <1>1, <1>2 DEF TypeOK, Savers
  <1>7. file' \in {file, NoText} \/ file' = save[s].text
    BY DEF Save, SkipSave, StartSave, Open, Write, KeepHash
  <1> QED BY <1>5, <1>6, <1>7

\* Each step of a call, in or out of the lock.
LEMMA TokenWork ==
    ASSUME TypeOK, TypeOK', TokenInv, alive, NEW c \in Callers, Call(c) \/ Work(c)
    PROVE  TokenInv' /\ alive'
  <1> USE DEF TokenInv
  <1>0. alive' = alive
    BY DEF Call, Work, Acquire, ReturnFresh, RefreshAccess, LeaveUnchanged, Refuse, GetCode,
           Receive, LoseAnswer, Store, Return, process
  <1>1. CASE Call(c)
    <2>1. /\ UNCHANGED <<psa, stale, creds, lock, file, save>>
          /\ call' = [call EXCEPT ![c] = call'[c]]
          /\ call[c].at = "idle" /\ call'[c].at = "waiting"
      <3>1. PICK force \in BOOLEAN : call' = [call EXCEPT ![c] = [Idle EXCEPT !.at = "waiting", !.force = force]]
        BY <1>1 DEF Call
      <3>2. [Idle EXCEPT !.at = "waiting", !.force = force].at = "waiting"
        BY DEF Idle
      <3> QED BY <1>1, <3>1, <3>2 DEF Call, token, disk, TypeOK
    <2>2. LockHeld'
      BY <2>1 DEF LockHeld, TypeOK
    <2>3. \A other \in Callers : call'[other] = call[other] \/ (other = c /\ call[c].at = "idle")
      BY <2>1 DEF TypeOK
    <2>4. TokenIsCurrent'
      BY <1>0, <2>1, <2>3 DEF TokenIsCurrent
    <2>5. FreshIsNotRefreshed'
      <3>1. call'[c].at = "waiting"
        BY <2>1
      <3> QED BY <2>1, <2>3, <3>1 DEF FreshIsNotRefreshed, IsFresh
    <2>6. NothingFromTheFuture'
      BY <2>1 DEF NothingFromTheFuture
    <2> QED BY <1>0, <2>2, <2>4, <2>5, <2>6
  <1>2. CASE Acquire(c)
    <2>1. /\ UNCHANGED <<psa, stale, creds, file, save>>
          /\ call' = [call EXCEPT ![c].at = "access"]
          /\ call[c].at = "waiting" /\ lock = NoCaller /\ lock' = c
          /\ call[c].force \/ ~IsFresh
      BY <1>2 DEF Acquire, Goto, token, disk
    <2>2. \A other \in Callers \ {c} : call'[other] = call[other]
      BY <2>1 DEF TypeOK
    <2>3. call'[c].at = "access" /\ call'[c].force = call[c].force
      BY <2>1 DEF TypeOK
    <2>4. \A other \in Callers : call[other].at \in {"idle", "waiting"}
      BY <2>1, TokenAssumption DEF LockHeld
    <2>5. LockHeld'
      BY <2>1, <2>2, <2>3, <2>4 DEF LockHeld, Savers
    <2>6. FreshIsNotRefreshed'
      BY <2>1, <2>2, <2>3, <2>4 DEF FreshIsNotRefreshed, IsFresh
    <2>7. TokenIsCurrent'
      BY <1>0, <2>1, <2>4 DEF TokenIsCurrent
    <2>8. NothingFromTheFuture'
      BY <2>1 DEF NothingFromTheFuture
    <2> QED BY <1>0, <2>5, <2>6, <2>7, <2>8
  <1>3. ASSUME NEW at \in CallAt \ {"store"}, Goto(c, at), UNCHANGED <<psa, stale, creds, lock, file, save>>,
               call[c].at # "store", save[c].at # "idle" => at = "saving",
               call[c].at \in {"idle", "waiting"} <=> at \in {"idle", "waiting"},
               at \in {"access", "post"} => call[c].at \in {"access", "post"}
        PROVE  TokenInv'
    <2>1. /\ \A other \in Callers \ {c} : call'[other] = call[other]
          /\ call'[c].at = at /\ call'[c].force = call[c].force /\ call'[c].refresh = call[c].refresh
      BY <1>3 DEF TypeOK, Goto
    <2>2. LockHeld'
      BY <1>3, <2>1 DEF LockHeld
    <2>3. FreshIsNotRefreshed'
      BY <1>3, <2>1 DEF FreshIsNotRefreshed, IsFresh
    <2>4. TokenIsCurrent' /\ NothingFromTheFuture'
      BY <1>0, <1>3, <2>1 DEF TokenIsCurrent, NothingFromTheFuture
    <2> QED BY <2>2, <2>3, <2>4
  <1>4. CASE ReturnFresh(c)
    <2>1. Goto(c, "idle") /\ call[c].at = "waiting" /\ UNCHANGED <<psa, stale, creds, lock, file, save>>
      BY <1>4 DEF ReturnFresh, token, disk
    <2>2. save[c].at = "idle"
      BY <2>1 DEF LockHeld
    <2> QED BY <1>0, <1>3, <2>1, <2>2 DEF CallAt
  <1>5. CASE RefreshAccess(c)
    <2>1. /\ Goto(c, "otp") \/ Goto(c, "post")
          /\ call[c].at = "access" /\ UNCHANGED <<psa, stale, creds, lock, file, save>>
      BY <1>5 DEF RefreshAccess, token, disk
    <2>2. save[c].at = "idle"
      BY <2>1 DEF LockHeld
    <2> QED BY <1>0, <1>3, <2>1, <2>2 DEF CallAt
  <1>6. CASE Refuse(c) \/ GetCode(c)
    <2>1. /\ (Goto(c, "otp") /\ call[c].at = "post") \/ (Goto(c, "grant") /\ call[c].at = "otp")
          /\ UNCHANGED <<psa, stale, creds, lock, file, save>>
      BY <1>6 DEF Refuse, GetCode, token, disk
    <2>2. save[c].at = "idle"
      BY <2>1 DEF LockHeld
    <2> QED BY <1>0, <1>3, <2>1, <2>2 DEF CallAt
  <1>7. ASSUME Leave(c), UNCHANGED <<creds, file, save>>, psa' \in Nat, psa' >= psa,
               stale' = TRUE \/ (UNCHANGED <<psa, stale>>),
               call[c].at \notin {"idle", "waiting", "store"}, save[c].at = "idle"
        PROVE  TokenInv'
    <2>1. /\ \A other \in Callers \ {c} : call'[other] = call[other]
          /\ call'[c].at = "idle" /\ lock' = NoCaller
      BY <1>7 DEF Leave, TypeOK, Idle
    <2>2. \A other \in Callers : call'[other].at \in {"idle", "waiting"}
      BY <1>7, <2>1, OneAtWork
    <2>3. \A other \in Callers : save'[other].at = "idle"
      BY <1>7, OneAtWork
    <2>4. LockHeld'
      BY <2>1, <2>2, <2>3, TokenAssumption DEF LockHeld
    <2>5. FreshIsNotRefreshed'
      BY <2>2 DEF FreshIsNotRefreshed
    <2>6. TokenIsCurrent'
      BY <1>0, <1>7, <2>2, OneAtWork DEF TokenIsCurrent
    <2>7. NothingFromTheFuture'
      <3>1. file \in Text \cup {NoText} /\ \A s \in Savers : save[s].text.token \in Nat
        BY DEF TypeOK, Text
      <3>2. file # NoText => file.token \in Nat
        BY <3>1 DEF Text
      <3> QED BY <1>7, <3>1, <3>2 DEF NothingFromTheFuture, TypeOK
    <2> QED BY <2>4, <2>5, <2>6, <2>7
  <1>8. CASE LeaveUnchanged(c) \/ Return(c)
    <2>1. /\ Leave(c) /\ UNCHANGED <<psa, stale, creds, file, save>>
          /\ call[c].at \in {"access", "post", "otp", "grant"} \/ (call[c].at = "saving" /\ save[c].at = "idle")
      BY <1>8 DEF LeaveUnchanged, Return, token, disk
    <2>2. save[c].at = "idle"
      BY <2>1 DEF LockHeld
    <2> QED BY <1>0, <1>7, <2>1, <2>2 DEF TypeOK
  <1>9. CASE LoseAnswer(c)
    <2>1. /\ Leave(c) /\ UNCHANGED <<creds, file, save>> /\ stale' = TRUE /\ psa' = psa + 1
          /\ call[c].at \in {"grant", "post"}
      BY <1>9 DEF LoseAnswer, Gives, disk
    <2>2. save[c].at = "idle"
      BY <2>1 DEF LockHeld
    <2> QED BY <1>0, <1>7, <2>1, <2>2 DEF TypeOK
  <1>10. CASE Receive(c)
    <2>1. /\ UNCHANGED <<creds, lock, file, save>> /\ stale' = FALSE /\ psa' = psa + 1
          /\ call[c].at \in {"grant", "post"}
          /\ call' = [call EXCEPT ![c] = [call[c] EXCEPT !.at = "store", !.refresh = psa']]
      BY <1>10 DEF Receive, Gives, disk
    <2>2. /\ \A other \in Callers \ {c} : call'[other] = call[other]
          /\ call'[c].at = "store" /\ call'[c].refresh = psa'
      BY <2>1 DEF TypeOK
    <2>3. \A other \in Callers \ {c} : call[other].at \in {"idle", "waiting"} /\ save[other].at = "idle"
      BY <2>1, OneAtWork
    <2>4. LockHeld'
      BY <2>1, <2>2, <2>3 DEF LockHeld
    <2>5. FreshIsNotRefreshed'
      BY <2>2, <2>3 DEF FreshIsNotRefreshed
    <2>6. TokenIsCurrent'
      BY <2>2 DEF TokenIsCurrent
    <2>7. NothingFromTheFuture'
      <3>1. file # NoText => file.token \in Nat
        BY DEF TypeOK, Text
      <3>2. \A s \in Savers : save[s].text.token \in Nat
        BY DEF TypeOK, Text
      <3>3. psa \in Nat /\ creds.refresh \in Nat
        BY DEF TypeOK
      <3>4. \A n \in Nat : n <= psa => n <= psa'
        BY <2>1, <3>3
      <3> QED BY <2>1, <3>1, <3>2, <3>3, <3>4 DEF NothingFromTheFuture
    <2> QED BY <1>0, <2>4, <2>5, <2>6, <2>7
  <1>11. CASE Store(c)
    <2>1. /\ UNCHANGED <<psa, stale, lock, file>>
          /\ call[c].at = "store"
          /\ creds' = [refresh |-> call[c].refresh, fresh |-> TRUE]
          /\ call' = [call EXCEPT ![c].at = "saving"]
          /\ save' = [save EXCEPT ![c] = [at |-> "compare", text |-> [token |-> call[c].refresh, settings |-> settings]]]
      BY <1>11 DEF Store, Goto, Encode
    <2>2. /\ \A other \in Callers \ {c} : call'[other] = call[other]
          /\ call'[c].at = "saving"
      BY <2>1 DEF TypeOK
    <2>3. \A other \in Callers \ {c} : call[other].at \in {"idle", "waiting"} /\ save[other].at = "idle"
      BY <2>1, OneAtWork
    <2>4. /\ \A other \in Savers \ {c} : save'[other] = save[other]
          /\ save'[c].text.token = call[c].refresh
      BY <2>1 DEF TypeOK, Savers
    <2>5. call[c].refresh = psa
      BY <2>1 DEF LockHeld
    <2>6. LockHeld'
      BY <2>1, <2>2, <2>3, <2>4 DEF LockHeld, Savers
    <2>7. FreshIsNotRefreshed'
      BY <2>2, <2>3 DEF FreshIsNotRefreshed
    <2>8. TokenIsCurrent'
      BY <2>1, <2>5 DEF TokenIsCurrent
    <2>9. NothingFromTheFuture'
      <3>1. creds'.refresh = psa /\ psa \in Nat
        BY <2>1, <2>5 DEF TypeOK
      <3>2. \A s \in Savers : save'[s].text.token <= psa
        BY <2>4, <2>5, <3>1 DEF NothingFromTheFuture
      <3> QED BY <2>1, <3>1, <3>2 DEF NothingFromTheFuture
    <2> QED BY <1>0, <2>6, <2>7, <2>8, <2>9
  <1> QED BY <1>0, <1>1, <1>2, <1>4, <1>5, <1>6, <1>8, <1>9, <1>10, <1>11 DEF Work

LEMMA TokenStep ==
    ASSUME TypeOK, TypeOK', alive => TokenInv, [Next]_vars, alive'
    PROVE  TokenInv'
  <1>1. CASE UNCHANGED vars
    BY <1>1 DEF vars, token, caller, disk, process, TokenInv, LockHeld, NothingFromTheFuture,
                TokenIsCurrent, FreshIsNotRefreshed, IsFresh
  <1> SUFFICES ASSUME Next, alive, TokenInv PROVE TokenInv'
    BY <1>1 DEF Next
  <1>2. CASE \E c \in Callers : Call(c) \/ Work(c)
    BY <1>2, TokenWork
  <1>3. ASSUME NEW t \in Timers, TimerSaves(t) PROVE TokenInv'
    <2>1. /\ UNCHANGED <<psa, stale, creds, lock, call, file>>
          /\ save' = [save EXCEPT ![t] = [at |-> "compare", text |-> [token |-> creds.refresh, settings |-> settings]]]
      BY <1>3 DEF TimerSaves, Encode, token, caller
    <2>2. t \in Savers /\ \A c \in Callers : c # t
      BY TokenAssumption DEF Savers
    <2>3. /\ \A other \in Savers \ {t} : save'[other] = save[other]
          /\ save'[t].text.token = creds.refresh
      BY <2>1, <2>2 DEF TypeOK
    <2>4. \A s \in Savers : save'[s].text.token <= psa
      BY <2>3 DEF TokenInv, NothingFromTheFuture
    <2>5. \A c \in Callers : save'[c] = save[c]
      BY <2>2, <2>3 DEF Savers
    <2> QED BY <2>1, <2>4, <2>5, TokenKept
  <1>4. ASSUME NEW s \in Savers, Save(s) PROVE TokenInv'
    <2>1. UNCHANGED <<psa, stale, creds, lock, call>>
      BY <1>4 DEF Save, SkipSave, StartSave, Open, Write, KeepHash, token, caller
    <2> QED BY <1>4, <2>1, SaveKept, TokenKept
  <1>5. ASSUME NEW s \in Savers, SaveFails(s) PROVE TokenInv'
    <2>1. /\ UNCHANGED <<psa, stale, creds, file>>
          /\ save[s].at \in {"open", "write"}
          /\ save' = [save EXCEPT ![s] = NotSaving]
      BY <1>5 DEF SaveFails, token
    <2>2. /\ \A other \in Savers \ {s} : save'[other] = save[other]
          /\ save'[s].at = "idle" /\ save'[s].text.token = 0
      BY <2>1 DEF TypeOK, NotSaving
    <2>3. \A other \in Savers : save'[other].text.token <= psa
      BY <2>2 DEF TypeOK, TokenInv, NothingFromTheFuture
    <2>4. CASE s \notin Callers
      BY <1>5, <2>1, <2>2, <2>3, <2>4, TokenKept DEF SaveFails, caller
    <2>5. CASE s \in Callers
      <3>1. Leave(s) /\ call[s].at = "saving"
        BY <1>5, <2>1, <2>5 DEF SaveFails, TokenInv, LockHeld
      <3>2. /\ \A other \in Callers \ {s} : call'[other] = call[other]
            /\ call'[s].at = "idle" /\ lock' = NoCaller
        BY <2>5, <3>1 DEF Leave, TypeOK, Idle
      <3>3. \A other \in Callers \ {s} : call[other].at \in {"idle", "waiting"} /\ save[other].at = "idle"
        BY <2>5, <3>1, OneAtWork DEF TokenInv
      <3>4. \A other \in Callers : call'[other].at \in {"idle", "waiting"} /\ save'[other].at = "idle"
        BY <2>2, <3>2, <3>3 DEF Savers
      <3>5. LockHeld'
        BY <3>2, <3>4, TokenAssumption DEF LockHeld
      <3>6. TokenIsCurrent' /\ FreshIsNotRefreshed'
        BY <2>1, <3>1, <3>3, <3>4 DEF TokenInv, TokenIsCurrent, FreshIsNotRefreshed
      <3>7. NothingFromTheFuture'
        BY <2>1, <2>3 DEF TokenInv, NothingFromTheFuture
      <3> QED BY <3>5, <3>6, <3>7 DEF TokenInv
    <2> QED BY <2>4, <2>5
  <1>6. CASE Expire
    <2>1. /\ UNCHANGED <<psa, stale, lock, call, file, save>>
          /\ creds'.refresh = creds.refresh /\ ~creds'.fresh
      BY <1>6 DEF Expire, TypeOK, caller, disk
    <2>2. \A s \in Savers : save'[s].text.token <= psa
      BY <2>1 DEF TokenInv, NothingFromTheFuture
    <2> QED BY <2>1, <2>2, TokenKept
  <1>7. CASE Change
    <2>1. UNCHANGED <<psa, stale, creds, lock, call, file, save>>
      BY <1>7 DEF Change, token, caller, disk
    <2>2. \A s \in Savers : save'[s].text.token <= psa
      BY <2>1 DEF TokenInv, NothingFromTheFuture
    <2> QED BY <2>1, <2>2, TokenKept
  <1>8. CASE Crash
    <2>1. /\ psa' = psa /\ file' = file /\ file # NoText
          /\ lock' = NoCaller
          /\ call' = [c \in Callers |-> Idle] /\ save' = [s \in Savers |-> NotSaving]
          /\ creds' = [refresh |-> file.token, fresh |-> FALSE]
          /\ stale' = (file.token # psa)
      BY <1>8 DEF Crash
    <2>2. \A c \in Callers : call'[c].at = "idle" /\ save'[c].at = "idle"
      BY <2>1 DEF Idle, NotSaving, Savers
    <2>3. LockHeld'
      BY <2>1, <2>2, TokenAssumption DEF LockHeld
    <2>4. TokenIsCurrent' /\ FreshIsNotRefreshed'
      BY <2>1, <2>2 DEF TokenIsCurrent, FreshIsNotRefreshed
    <2>5. NothingFromTheFuture'
      BY <2>1 DEF TypeOK, TokenInv, NothingFromTheFuture, NotSaving
    <2> QED BY <2>3, <2>4, <2>5 DEF TokenInv
  <1> QED BY <1>2, <1>3, <1>4, <1>5, <1>6, <1>7, <1>8 DEF Next

LEMMA NotOlderFacts ==
    ASSUME NEW a \in Text, NEW b \in Text, NEW c \in Text
    PROVE  /\ NotOlder(a, a)
           /\ NotOlder(a, b) /\ NotOlder(b, c) => NotOlder(a, c)
           /\ NotOlder(a, b) /\ Newer(b, c) => Newer(a, c)
  <1> USE DEF Text, NotOlder, Newer
  <1>1. NotOlder(a, a)
    OBVIOUS
  <1>2. NotOlder(a, b) /\ NotOlder(b, c) => NotOlder(a, c)
    OBVIOUS
  <1>3. ASSUME NotOlder(a, b), Newer(b, c), a = c PROVE FALSE
    <2>1. a.token = b.token /\ a.settings = b.settings
      BY <1>3
    <2>2. a = b
      BY <2>1
    <2> QED BY <1>3, <2>2
  <1> QED BY <1>1, <1>2, <1>3

\* What holds of the file and the hash as long as no two saves overlap.
DiskInv == SavesInOrder /\ HashIsOld /\ TokenOnItsWay

LEMMA CurrentTyped == TypeOK => Current \in Text
  BY DEF TypeOK, Current, Text

\* A step that leaves the disk alone: what a save would write only gets newer.
LEMMA DiskKept ==
    ASSUME TypeOK, TypeOK', DiskInv, UNCHANGED <<file, hash, save, unsaved>>,
           creds'.refresh = creds.refresh, settings' >= settings
    PROVE  DiskInv'
  <1>1. NotOlder(Current', Current) /\ Current \in Text /\ Current' \in Text
    BY CurrentTyped DEF NotOlder, Current, Text, TypeOK
  <1>2. ASSUME NEW text \in Text, NotOlder(Current, text) PROVE NotOlder(Current', text)
    BY <1>1, <1>2, NotOlderFacts
  <1>3. ASSUME NEW text \in Text, Newer(Current, text) PROVE Newer(Current', text)
    BY <1>1, <1>3, NotOlderFacts
  <1>4. \A s \in Savers : save[s].text \in Text
    BY DEF TypeOK
  <1>5. hash # NoText => hash \in Text
    BY DEF TypeOK
  <1>6. SavesInOrder'
    BY <1>2, <1>4, <1>5 DEF DiskInv, SavesInOrder
  <1>7. HashIsOld'
    BY <1>3, <1>5 DEF DiskInv, HashIsOld
  <1>8. TokenOnItsWay'
    BY DEF DiskInv, TokenOnItsWay
  <1> QED BY <1>6, <1>7, <1>8 DEF DiskInv

\* A save starts when there is no other one.
LEMMA DiskEncode ==
    ASSUME TypeOK, TypeOK', TokenInv, TokenInv', DiskInv, ~overlap', NEW s \in Savers,
           Encode(s, creds'.refresh), UNCHANGED <<settings, file, hash, unsaved>>,
           creds'.refresh >= creds.refresh,
           s \in Callers \/ creds'.refresh = creds.refresh,
           save[s].at = "idle"
    PROVE  DiskInv'
  <1>1. /\ \A other \in Savers : save[other].at = "idle"
        /\ save' = [save EXCEPT ![s] = [at |-> "compare", text |-> Current']]
    BY DEF Encode, Current
  <1>2. /\ \A other \in Savers \ {s} : save'[other] = save[other]
        /\ save'[s].at = "compare" /\ save'[s].text = Current'
    BY <1>1 DEF TypeOK
  <1>3. NotOlder(Current', Current) /\ Current \in Text /\ Current' \in Text
    BY CurrentTyped DEF NotOlder, Current, Text, TypeOK
  <1>4. hash # NoText => hash \in Text /\ NotOlder(Current, hash)
    BY DEF TypeOK, DiskInv, SavesInOrder
  <1>5. hash # NoText => NotOlder(Current', hash)
    BY <1>3, <1>4, NotOlderFacts
  <1>6. NotOlder(Current', Current') /\ Current'.token = creds'.refresh
    BY <1>3, NotOlderFacts DEF Current
  <1>7. SavesInOrder'
    BY <1>1, <1>2, <1>5, <1>6 DEF SavesInOrder
  <1>8. HashIsOld'
    <2>1. hash \notin {NoText, file} => Newer(Current', hash)
      BY <1>3, <1>4, NotOlderFacts DEF DiskInv, HashIsOld
    <2> QED BY <1>1, <1>2, <2>1 DEF HashIsOld
  <1>9. TokenOnItsWay'
    BY <1>1, <1>2 DEF DiskInv, TokenOnItsWay
  <1> QED BY <1>7, <1>8, <1>9 DEF DiskInv

\* The steps of the only save there is.
LEMMA DiskSave ==
    ASSUME TypeOK, TypeOK', DiskInv, NEW s \in Savers, Save(s)
    PROVE  DiskInv'
  <1> DEFINE text == save[s].text
  <1>1. /\ UNCHANGED <<creds, settings>>
        /\ \A c \in Callers : c \in Savers
        /\ save[s].at # "idle"
    BY DEF Save, SkipSave, StartSave, Open, Write, KeepHash, token, Savers
  <1>2. \A other \in Savers \ {s} : save[other].at = "idle"
    BY <1>1 DEF DiskInv, SavesInOrder
  <1>3. /\ text \in Text /\ Current \in Text /\ Current' = Current
        /\ text.token = creds.refresh /\ NotOlder(Current, text)
        /\ hash # NoText => hash \in Text /\ NotOlder(Current, hash) /\ NotOlder(text, hash)
    BY <1>1, CurrentTyped DEF TypeOK, DiskInv, SavesInOrder, Current
  <1>4. hash \notin {NoText, file} => Newer(Current, hash) /\ Newer(text, hash)
    BY <1>1 DEF DiskInv, HashIsOld
  <1>5. NoText \notin Text
    BY TokenAssumption
  <1>6. CASE SkipSave(s)
    <2>1. /\ UNCHANGED <<file, hash, unsaved>> /\ hash = text
          /\ save' = [save EXCEPT ![s] = NotSaving]
      BY <1>6 DEF SkipSave
    <2>2. \A other \in Savers : save'[other].at = "idle"
      BY <1>2, <2>1 DEF TypeOK, NotSaving
    <2>3. file = text
      BY <1>3, <1>4, <1>5, <2>1 DEF Newer
    <2>4. SavesInOrder'
      BY <1>3, <2>1, <2>2 DEF SavesInOrder
    <2>5. HashIsOld' /\ TokenOnItsWay'
      BY <1>1, <1>3, <1>5, <2>1, <2>3 DEF HashIsOld, TokenOnItsWay
    <2> QED BY <2>4, <2>5 DEF DiskInv
  <1>7. CASE StartSave(s)
    <2>1. /\ UNCHANGED <<file, hash, unsaved>> /\ hash # text /\ save[s].at = "compare"
          /\ save' = [save EXCEPT ![s].at = "open"]
      BY <1>7 DEF StartSave, GotoSave
    <2>2. /\ \A other \in Savers \ {s} : save'[other] = save[other]
          /\ save'[s].at = "open" /\ save'[s].text = text
      BY <2>1 DEF TypeOK
    <2>3. SavesInOrder'
      BY <1>1, <1>2, <1>3, <2>1, <2>2 DEF SavesInOrder, Newer
    <2>4. HashIsOld'
      BY <1>2, <1>3, <1>4, <2>1, <2>2 DEF HashIsOld
    <2>5. TokenOnItsWay'
      BY <1>1, <2>1, <2>2 DEF TokenOnItsWay, DiskInv
    <2> QED BY <2>3, <2>4, <2>5 DEF DiskInv
  <1>8. CASE Open(s)
    <2>1. /\ UNCHANGED <<hash, unsaved>> /\ file' = NoText /\ save[s].at = "open"
          /\ save' = [save EXCEPT ![s].at = "write"]
      BY <1>8 DEF Open, GotoSave
    <2>2. /\ \A other \in Savers \ {s} : save'[other] = save[other]
          /\ save'[s].at = "write" /\ save'[s].text = text
      BY <2>1 DEF TypeOK
    <2>3. hash # NoText => Newer(text, hash)
      BY <1>1, <2>1 DEF DiskInv, SavesInOrder
    <2>4. hash # NoText => Newer(Current, hash)
      BY <1>3, <2>3, NotOlderFacts
    <2>5. SavesInOrder'
      BY <1>1, <1>2, <1>3, <2>1, <2>2, <2>3 DEF SavesInOrder
    <2>6. HashIsOld'
      BY <1>2, <1>3, <2>1, <2>2, <2>3, <2>4 DEF HashIsOld
    <2>7. TokenOnItsWay'
      BY <2>2 DEF TokenOnItsWay
    <2> QED BY <2>5, <2>6, <2>7 DEF DiskInv
  <1>9. CASE Write(s)
    <2>1. /\ UNCHANGED hash /\ file' = text /\ save[s].at = "write"
          /\ save' = [save EXCEPT ![s].at = "hash"]
      BY <1>9 DEF Write, GotoSave
    <2>2. /\ \A other \in Savers \ {s} : save'[other] = save[other]
          /\ save'[s].at = "hash" /\ save'[s].text = text
      BY <2>1 DEF TypeOK
    <2>3. hash # NoText => Newer(text, hash)
      BY <1>1, <2>1 DEF DiskInv, SavesInOrder
    <2>4. hash # NoText => Newer(Current, hash)
      BY <1>3, <2>3, NotOlderFacts
    <2>5. SavesInOrder'
      BY <1>1, <1>2, <1>3, <2>1, <2>2, <2>3 DEF SavesInOrder
    <2>6. HashIsOld'
      BY <1>2, <1>3, <2>1, <2>2, <2>3, <2>4 DEF HashIsOld
    <2>7. TokenOnItsWay'
      BY <1>1, <1>3, <1>5, <2>1 DEF TokenOnItsWay
    <2> QED BY <2>5, <2>6, <2>7 DEF DiskInv
  <1>10. CASE KeepHash(s)
    <2>1. /\ UNCHANGED <<file, unsaved>> /\ hash' = text /\ save[s].at = "hash"
          /\ save' = [save EXCEPT ![s] = NotSaving]
      BY <1>10 DEF KeepHash
    <2>2. \A other \in Savers : save'[other].at = "idle"
      BY <1>2, <2>1 DEF TypeOK, NotSaving
    <2>3. file = text
      BY <2>1 DEF DiskInv, SavesInOrder
    <2>4. SavesInOrder'
      BY <1>3, <2>1, <2>2 DEF SavesInOrder
    <2>5. HashIsOld' /\ TokenOnItsWay'
      BY <1>1, <1>3, <1>5, <2>1, <2>3 DEF HashIsOld, TokenOnItsWay
    <2> QED BY <2>4, <2>5 DEF DiskInv
  <1> QED BY <1>6, <1>7, <1>8, <1>9, <1>10 DEF Save

LEMMA DiskStep ==
    ASSUME TypeOK, TypeOK', TokenInv, TokenInv', alive, alive', ~overlap => DiskInv, Next, ~overlap'
    PROVE  DiskInv'
  <1>1. ASSUME NEW c \in Callers, Call(c) \/ Work(c) PROVE DiskInv'
    <2>1. CASE Store(c)
      <3>1. /\ call[c].at = "store" /\ creds' = [refresh |-> call[c].refresh, fresh |-> TRUE]
            /\ Encode(c, call[c].refresh) /\ UNCHANGED <<settings, file, hash, unsaved>>
        BY <2>1 DEF Store
      <3>2. call[c].refresh = psa /\ creds.refresh <= psa /\ save[c].at = "idle"
        BY <3>1 DEF TokenInv, LockHeld, NothingFromTheFuture
      <3>3. ~overlap /\ c \in Savers
        BY <3>1 DEF Encode, TypeOK, Savers
      <3>4. creds'.refresh = call[c].refresh /\ creds'.refresh >= creds.refresh
        BY <3>1, <3>2 DEF TypeOK
      <3>5. Encode(c, creds'.refresh)
        BY <3>1, <3>4
      <3> QED BY <3>1, <3>2, <3>3, <3>4, <3>5, DiskEncode
    <2>2. CASE ~Store(c)
      <3>1. UNCHANGED <<file, hash, save, unsaved, overlap, creds>>
        BY <1>1, <2>2 DEF Call, Work, Acquire, ReturnFresh, RefreshAccess, LeaveUnchanged, Refuse,
                          GetCode, Receive, LoseAnswer, Return, disk, token
      <3>2. settings' \in {settings, settings + 1}
        BY <1>1, <2>2 DEF Call, Work, Acquire, ReturnFresh, RefreshAccess, LeaveUnchanged, Refuse,
                          GetCode, Receive, LoseAnswer, Return
      <3>3. settings' >= settings
        BY <3>2 DEF TypeOK
      <3> QED BY <3>1, <3>3, DiskKept
    <2> QED BY <2>1, <2>2
  <1>2. ASSUME NEW t \in Timers, TimerSaves(t) PROVE DiskInv'
    <2>1. /\ save[t].at = "idle" /\ Encode(t, creds.refresh)
          /\ UNCHANGED <<creds, settings, file, hash, unsaved>>
      BY <1>2 DEF TimerSaves, token
    <2>2. ~overlap /\ t \in Savers
      BY <2>1 DEF Encode, TypeOK, Savers
    <2>3. Encode(t, creds'.refresh) /\ creds'.refresh >= creds.refresh /\ creds'.refresh = creds.refresh
      BY <2>1 DEF TypeOK
    <2> QED BY <2>1, <2>2, <2>3, DiskEncode
  <1>3. ASSUME NEW s \in Savers, Save(s) PROVE DiskInv'
    <2>1. overlap' = overlap
      BY <1>3 DEF Save, SkipSave, StartSave, Open, Write, KeepHash
    <2> QED BY <1>3, <2>1, DiskSave
  <1>4. ASSUME NEW s \in Savers, SaveFails(s) PROVE DiskInv'
    <2>1. /\ UNCHANGED <<creds, settings, file, hash, overlap>> /\ unsaved' = TRUE
          /\ save[s].at # "idle"
          /\ save' = [save EXCEPT ![s] = NotSaving]
      BY <1>4 DEF SaveFails, token
    <2>2. DiskInv
      BY <2>1
    <2>3. \A other \in Savers : save'[other].at = "idle"
      BY <2>1, <2>2 DEF DiskInv, SavesInOrder, TypeOK, NotSaving
    <2>4. Current' = Current
      BY <2>1 DEF Current
    <2> QED BY <2>1, <2>2, <2>3, <2>4 DEF DiskInv, SavesInOrder, HashIsOld, TokenOnItsWay
  <1>5. CASE Expire
    <2>1. UNCHANGED <<file, hash, save, unsaved, overlap, settings>> /\ creds'.refresh = creds.refresh
      BY <1>5 DEF Expire, disk, TypeOK
    <2>2. settings' >= settings
      BY <2>1 DEF TypeOK
    <2> QED BY <2>1, <2>2, DiskKept
  <1>6. CASE Change
    <2>1. UNCHANGED <<file, hash, save, unsaved, overlap, creds>> /\ settings' = settings + 1
      BY <1>6 DEF Change, disk, token
    <2>2. settings' >= settings
      BY <2>1 DEF TypeOK
    <2> QED BY <2>1, <2>2, DiskKept
  <1>7. CASE Crash
    <2>1. /\ file' = file /\ hash' = NoText /\ save' = [s \in Savers |-> NotSaving]
          /\ alive' = (file # NoText)
          /\ file # NoText => creds' = [refresh |-> file.token, fresh |-> FALSE]
      BY <1>7 DEF Crash
    <2>2. \A s \in Savers : save'[s].at = "idle"
      BY <2>1 DEF NotSaving
    <2>3. SavesInOrder' /\ HashIsOld'
      BY <2>1, <2>2 DEF SavesInOrder, HashIsOld
    <2>4. file' # NoText /\ file'.token = creds'.refresh
      <3>1. file # NoText
        BY <2>1, Zenon
      <3> QED BY <2>1, <3>1
    <2>5. TokenOnItsWay'
      BY <2>4 DEF TokenOnItsWay
    <2> QED BY <2>3, <2>5 DEF DiskInv
  <1> QED BY <1>1, <1>2, <1>3, <1>4, <1>5, <1>6, <1>7 DEF Next

LEMMA IInvInit == Init => IInv
  <1> SUFFICES ASSUME Init PROVE IInv
    OBVIOUS
  <1>1. /\ psa \in Nat /\ creds = [refresh |-> psa, fresh |-> FALSE]
        /\ file = [token |-> psa, settings |-> 0] /\ file \in Text
        /\ hash = NoText /\ lock = NoCaller /\ settings = 0
        /\ call = [c \in Callers |-> Idle] /\ save = [s \in Savers |-> NotSaving]
    BY DEF Init, Text
  <1>2. TypeOK
    <2>1. call \in [Callers -> CallRecord] /\ save \in [Savers -> SaveRecord]
      BY <1>1, IdleTyped
    <2>2. creds \in [refresh: Nat, fresh: BOOLEAN]
      BY <1>1
    <2>3. alive \in BOOLEAN /\ stale \in BOOLEAN /\ unsaved \in BOOLEAN /\ overlap \in BOOLEAN
      BY Zenon DEF Init
    <2>4. failed \in Nat /\ crashes \in Nat
      BY DEF Init
    <2> QED BY <1>1, <2>1, <2>2, <2>3, <2>4 DEF TypeOK, CallRecord, CallAt, SaveRecord, SaveAt
  <1>3. \A c \in Callers : call[c].at = "idle" /\ save[c].at = "idle"
    BY <1>1 DEF Idle, NotSaving, Savers
  <1>4. \A s \in Savers : save[s].at = "idle" /\ save[s].text.token = 0
    BY <1>1 DEF NotSaving
  <1>5. LockHeld
    BY <1>1, <1>3, TokenAssumption DEF LockHeld
  <1>6. NothingFromTheFuture
    BY <1>1, <1>4 DEF NothingFromTheFuture
  <1>7. TokenIsCurrent /\ FreshIsNotRefreshed
    BY <1>1, <1>3 DEF TokenIsCurrent, FreshIsNotRefreshed
  <1>8. SavesInOrder /\ HashIsOld /\ TokenOnItsWay
    BY <1>1, <1>4, TokenAssumption DEF SavesInOrder, HashIsOld, TokenOnItsWay
  <1> QED BY <1>2, <1>5, <1>6, <1>7, <1>8 DEF IInv

LEMMA IInvStep == IInv /\ [Next]_vars => IInv'
  <1> SUFFICES ASSUME IInv, [Next]_vars PROVE IInv'
    OBVIOUS
  <1>1. TypeOK /\ TypeOK'
    BY TypeStep DEF IInv
  <1>2. alive => TokenInv /\ (~overlap => DiskInv)
    BY DEF IInv, TokenInv, DiskInv
  <1>3. ASSUME alive' PROVE TokenInv'
    BY <1>1, <1>2, <1>3, TokenStep
  <1>4. ASSUME alive', ~overlap' PROVE DiskInv'
    <2>1. CASE Next
      <3>1. alive
        BY <2>1 DEF Next
      <3> QED BY <1>1, <1>2, <1>3, <1>4, <2>1, <3>1, DiskStep
    <2>2. CASE UNCHANGED vars
      <3>1. UNCHANGED <<creds, settings, file, hash, save, unsaved, overlap, alive>>
        BY <2>2 DEF vars, token, disk, process
      <3>2. DiskInv
        BY <1>2, <1>4, <3>1
      <3>3. Current' = Current
        BY <3>1 DEF Current
      <3> QED BY <3>1, <3>2, <3>3 DEF DiskInv, SavesInOrder, HashIsOld, TokenOnItsWay
    <2> QED BY <2>1, <2>2
  <1> QED BY <1>1, <1>3, <1>4 DEF IInv, TokenInv, DiskInv

\* The token in memory is PSA's; without an overlap of saves the file has it or
\* is about to (RemoteClient._refresh_remote_token, PSAClient.save_config).
THEOREM IInvAlways == Spec => []IInv
  <1> QED BY IInvInit, IInvStep, PTL DEF Spec

\* Two threads never spend the same refresh token, and what the process knows is
\* the last one PSA gave, unless its answer was lost (_refresh_remote_token).
THEOREM TokenIsCurrentAlways == Spec => []TokenIsCurrent
  <1>1. IInv => TokenIsCurrent
    BY DEF IInv, TokenIsCurrent
  <1> QED BY <1>1, IInvAlways, PTL

\* Once the lock is free and no save runs, a crash loses no token: the file has it,
\* unless its write failed or two saves overlapped (RemoteCredentials' callback).
THEOREM OnlyARefreshIsLostAlways == Spec => []OnlyARefreshIsLost
  <1>1. ASSUME IInv PROVE OnlyARefreshIsLost
    <2> SUFFICES ASSUME alive, lock = NoCaller, NoSave, ~unsaved, ~overlap
                 PROVE  file # NoText /\ file.token = creds.refresh
      BY DEF OnlyARefreshIsLost
    <2>1. \A c \in Callers : save[c].at = "idle"
      BY <1>1, TokenAssumption DEF IInv, LockHeld
    <2> QED BY <1>1, <2>1 DEF IInv, TokenOnItsWay, NoSave
  <1> QED BY <1>1, IInvAlways, PTL

\* save_config never skips a text that the file doesn't hold, unless two saves
\* overlapped: a write that failed half way is done again.
THEOREM SkippedSaveIsSafeAlways == Spec => []SkippedSaveIsSafe
  <1>1. ASSUME IInv PROVE SkippedSaveIsSafe
    <2> SUFFICES ASSUME alive, ~overlap, NEW s \in Savers, save[s].at = "compare", hash = save[s].text
                 PROVE  file = save[s].text
      BY DEF SkippedSaveIsSafe
    <2>1. save[s].text \in Text /\ NoText \notin Text
      BY <1>1, TokenAssumption DEF IInv, TypeOK
    <2>2. ~Newer(save[s].text, hash)
      BY DEF Newer
    <2> QED BY <1>1, <2>1, <2>2 DEF IInv, HashIsOld
  <1> QED BY <1>1, IInvAlways, PTL

\* A command that finds a fresh token doesn't have PSA rotate it, also when it
\* waited for the lock while another command refreshed it.
THEOREM FreshIsNotRefreshedAlways == Spec => []FreshIsNotRefreshed
  <1>1. IInv => FreshIsNotRefreshed
    BY DEF IInv, FreshIsNotRefreshed
  <1> QED BY <1>1, IInvAlways, PTL
=============================================================================
