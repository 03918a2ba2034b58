---------------------------- MODULE ButtonsProofs ----------------------------
(***************************************************************************)
(* The two-step buttons are safe for every confirmation window, however    *)
(* many presses overlap, by one inductive invariant.                       *)
(***************************************************************************)
EXTENDS Buttons, TLAPS

(***************************************************************************)
(* The inductive invariant.                                                *)
(***************************************************************************)

\* A warning that was not confirmed yet is there exactly while its button is armed.
WarningsCounted ==
    \A b \in TheButtons : unused[b] = IF armedAt[b] = Never THEN 0 ELSE 1

\* What the restore button is armed with is what the warning names.
ArmedIsShown == armed # NoBackup => shown = armed

\* The backups are numbered, and the one in the store has not been replaced.
StoreIsLatest ==
    /\ store.kind # "none" => store.id \in 1..MaxBackups
    /\ \A i \in 1..MaxBackups : i >= store.id => replacedAt[i] = Never

\* A backup read at some time or later: a real one, and not replaced before then.
ReadSince(backup, time) ==
    backup.kind = "own" =>
        /\ backup.id \in 1..MaxBackups
        /\ replacedAt[backup.id] # Never => time <= replacedAt[backup.id]

ChecksReadSince ==
    \A c \in checks : c.at <= now /\ (c.got # Unread => ReadSince(c.got, c.at))

ArmedReadSince ==
    armed # NoBackup =>
        /\ armed.kind = "own"
        /\ armedAt["restore"] <= now
        /\ ReadSince(armed, armedAt["restore"])

IInv ==
    /\ TypeOK
    /\ WarningsCounted
    /\ ArmedIsShown
    /\ StoreIsLatest
    /\ ChecksReadSince
    /\ ArmedReadSince

(***************************************************************************)
(* It holds initially, and every step keeps it.                            *)
(***************************************************************************)

\* Restorable backups exist, and the numbers used for times are what they seem.
LEMMA Distinct == /\ NoBackup \in Backups /\ NoBackup.kind = "none"
                  /\ Unread \notin Backups
                  /\ Never \notin Times
                  /\ \A t \in Times : t \in Int
                  /\ MaxBackups \in Nat \ {0} /\ MinGap \in Nat /\ Window \in Nat
BY BoundsAssumption DEF NoBackup, Backups, Kinds, Unread, Never, Times

LEMMA InitHolds == Init => IInv
<1> SUFFICES ASSUME Init PROVE IInv
  OBVIOUS
<1> USE BoundsAssumption DEF Init
<1>1. store \in Backups /\ StoreIsLatest
  BY DEF Backups, NoBackup, Kinds, StoreIsLatest, Never
<1>2. TypeOK
  BY <1>1, Distinct DEF TypeOK, Times, TheButtons
<1>3. QED
  BY <1>1, <1>2 DEF IInv, WarningsCounted, ArmedIsShown, ChecksReadSince, ArmedReadSince

\* One press of a button that is armed, and the two that arm one.
LEMMA ConfirmingStepKeeps == IInv /\ (ResetConfirmed \/ RestoreConfirmed) => IInv'
<1> SUFFICES ASSUME IInv, ResetConfirmed \/ RestoreConfirmed PROVE IInv'
  OBVIOUS
<1> USE Distinct
<1>t. TypeOK
  BY DEF IInv
<1> PICK b \in TheButtons :
        /\ Confirmation(b) /\ armedAt[b] # Never /\ Press
        /\ UNCHANGED <<now, store, checks, shown, replacedAt>>
        /\ b = "restore" => armed # NoBackup /\ armed' = NoBackup
        /\ b = "reset" => armed' = armed
        /\ running' = IF b = "restore" /\ Free THEN armed ELSE running
  BY DEF ResetConfirmed, RestoreConfirmed, TheButtons, Confirms, Restored
<1>1. TypeOK'
  <2>1. armedAt' \in [TheButtons -> Times \cup {Never}] /\ unused' \in [TheButtons -> Int]
    BY <1>t DEF TypeOK, Confirmation, Disarmed
  <2>2. lock' \in {"nobody", "other"} \cup TheButtons /\ armed' \in Backups /\ running' \in Backups
    BY <1>t DEF TypeOK, Confirmation, Free, TheButtons
  <2>3. running' # NoBackup <=> lock' = "restore"
    BY <1>t DEF TypeOK, Confirmation, Free, TheButtons
  <2>4. presses' \in 0..MaxPresses
    BY <1>t, BoundsAssumption DEF TypeOK, Press
  <2>5. QED
    BY <1>t, <2>1, <2>2, <2>3, <2>4 DEF TypeOK
<1>2. WarningsCounted'
  BY <1>t DEF IInv, TypeOK, WarningsCounted, Confirmation, Disarmed
<1>3. ArmedIsShown' /\ StoreIsLatest' /\ ChecksReadSince'
  BY DEF IInv, ArmedIsShown, StoreIsLatest, ChecksReadSince, ReadSince, TheButtons
<1>4. ArmedReadSince'
  BY <1>t DEF IInv, TypeOK, ArmedReadSince, ReadSince, TheButtons, Confirmation, Disarmed
<1>5. QED
  BY <1>1, <1>2, <1>3, <1>4 DEF IInv

LEMMA ArmingStepKeeps == IInv /\ (ResetArms \/ \E c \in checks : CheckArms(c)) => IInv'
<1> SUFFICES ASSUME IInv, ResetArms \/ \E c \in checks : CheckArms(c) PROVE IInv'
  OBVIOUS
<1> USE Distinct
<1>t. TypeOK
  BY DEF IInv
<1>1. CASE ResetArms
  <2>1. /\ armedAt' = [armedAt EXCEPT !["reset"] = now]
        /\ unused' = [unused EXCEPT !["reset"] = 1]
        /\ presses' \in 0..MaxPresses
    BY <1>1, <1>t, BoundsAssumption DEF ResetArms, Arms, Press, TypeOK
  <2>2. TypeOK'
    BY <1>1, <1>t, <2>1 DEF ResetArms, TypeOK, TheButtons
  <2>3. QED
    BY <1>1, <1>t, <2>1, <2>2
       DEF ResetArms, IInv, TypeOK, WarningsCounted, ArmedIsShown, StoreIsLatest,
           ChecksReadSince, ArmedReadSince, ReadSince, TheButtons
<1>2. CASE \E c \in checks : CheckArms(c)
  <2> PICK c \in checks : CheckArms(c)
    BY <1>2
  <2>1. c.at \in Times /\ c.got \in Backups /\ c.got.kind = "own" /\ checks' \subseteq checks
    BY <1>t DEF TypeOK, CheckArms, Restorable
  <2>2. /\ armedAt' = [armedAt EXCEPT !["restore"] = c.at]
        /\ unused' = [unused EXCEPT !["restore"] = 1]
    BY DEF CheckArms, Arms, ArmedSince
  <2>3. TypeOK'
    BY <1>t, <2>1, <2>2 DEF CheckArms, TypeOK, TheButtons
  <2>4. WarningsCounted' /\ ArmedIsShown' /\ StoreIsLatest'
    BY <1>t, <2>1, <2>2
       DEF CheckArms, IInv, TypeOK, WarningsCounted, ArmedIsShown, StoreIsLatest, TheButtons
  <2>5. ChecksReadSince' /\ ArmedReadSince'
    BY <1>t, <2>1, <2>2
       DEF CheckArms, IInv, TypeOK, ChecksReadSince, ArmedReadSince, ReadSince, TheButtons
  <2>6. QED
    BY <2>3, <2>4, <2>5 DEF IInv
<1>3. QED
  BY <1>1, <1>2

\* A press that has to look at the store first.
LEMMA CheckingStepKeeps ==
    IInv /\ (RestoreChecks \/ \E c \in checks : CheckLoads(c) \/ CheckRefuses(c)) => IInv'
<1> SUFFICES ASSUME IInv, RestoreChecks \/ \E c \in checks : CheckLoads(c) \/ CheckRefuses(c)
             PROVE  IInv'
  OBVIOUS
<1> USE Distinct
<1>t. TypeOK
  BY DEF IInv
<1>1. /\ presses' \in 0..MaxPresses
      /\ UNCHANGED <<now, store, lock, armedAt, armed, running, historyV>>
  BY <1>t, BoundsAssumption DEF RestoreChecks, CheckLoads, CheckRefuses, Press, TypeOK
<1>2. \A d \in checks' :
        \/ d \in checks
        \/ d = [at |-> now, got |-> Unread]
        \/ \E c \in checks : d = [c EXCEPT !.got = store]
  BY DEF RestoreChecks, CheckLoads, CheckRefuses
<1>3. checks' \subseteq [at : Times, got : Backups \cup {Unread}]
  BY <1>t, <1>2 DEF TypeOK
<1>4. TypeOK'
  BY <1>t, <1>1, <1>3 DEF TypeOK, historyV
<1>5. ChecksReadSince'
  <2> SUFFICES ASSUME NEW d \in checks'
               PROVE  d.at <= now /\ (d.got # Unread => ReadSince(d.got, d.at))
    BY <1>1 DEF ChecksReadSince, ReadSince, historyV
  <2>1. CASE d \in checks
    BY <2>1 DEF IInv, ChecksReadSince
  <2>2. CASE d = [at |-> now, got |-> Unread]
    BY <1>t, <2>2 DEF TypeOK
  <2>3. CASE \E c \in checks : d = [c EXCEPT !.got = store]
    <3> PICK c \in checks : d = [c EXCEPT !.got = store]
      BY <2>3
    <3>1. d.at = c.at /\ d.got = store /\ c.at <= now
      BY <1>t DEF TypeOK, IInv, ChecksReadSince
    <3>2. ReadSince(store, c.at)
      BY <1>t DEF TypeOK, IInv, StoreIsLatest, ReadSince, Backups
    <3>3. QED
      BY <3>1, <3>2
  <2>4. QED
    BY <1>2, <2>1, <2>2, <2>3
<1>6. QED
  BY <1>1, <1>4, <1>5
     DEF IInv, WarningsCounted, ArmedIsShown, StoreIsLatest, ArmedReadSince, ReadSince, historyV

\* The clock, and what holds the lock.
LEMMA OtherStepKeeps ==
    IInv /\ (Ticks \/ OtherBegins \/ BackupStored \/ ActionEnds \/ UNCHANGED vars) => IInv'
<1> SUFFICES ASSUME IInv, Ticks \/ OtherBegins \/ BackupStored \/ ActionEnds \/ UNCHANGED vars
             PROVE  IInv'
  OBVIOUS
<1> USE Distinct
<1>t. TypeOK
  BY DEF IInv
<1>1. CASE Ticks
  <2>1. now' = now + 1 /\ now' \in Times /\ now \in Times
    BY <1>1, <1>t, BoundsAssumption DEF Ticks, TypeOK, Times
  <2>2. TypeOK'
    BY <1>1, <1>t, <2>1 DEF Ticks, TypeOK, historyV
  <2>3. ChecksReadSince' /\ ArmedReadSince'
    BY <1>1, <1>t, <2>1
       DEF Ticks, IInv, TypeOK, ChecksReadSince, ArmedReadSince, ReadSince, historyV,
           Times, Never, TheButtons
  <2>4. QED
    BY <1>1, <2>2, <2>3 DEF Ticks, IInv, WarningsCounted, ArmedIsShown, StoreIsLatest, historyV
<1>2. CASE OtherBegins \/ ActionEnds \/ UNCHANGED vars
  <2>1. UNCHANGED <<now, store, armedAt, armed, checks, presses, historyV>>
    BY <1>2 DEF OtherBegins, ActionEnds, vars
  <2>2. /\ lock' \in {"nobody", "other"} \cup TheButtons /\ running' \in Backups
        /\ running' # NoBackup <=> lock' = "restore"
    BY <1>2, <1>t DEF OtherBegins, ActionEnds, vars, TypeOK
  <2>3. TypeOK'
    BY <1>t, <2>1, <2>2 DEF TypeOK, historyV
  <2>4. QED
    BY <2>1, <2>3 DEF IInv, WarningsCounted, ArmedIsShown, StoreIsLatest, ChecksReadSince,
                      ArmedReadSince, ReadSince, historyV
<1>3. CASE BackupStored
  <2>1. /\ store.id \in 0..MaxBackups /\ store.id < MaxBackups
        /\ store' = [id |-> store.id + 1, kind |-> "own"]
        /\ store' \in Backups
    BY <1>3, <1>t DEF BackupStored, TypeOK, Backups, Kinds
  <2>2. /\ replacedAt' \in [1..MaxBackups -> Times \cup {Never}]
        /\ \A i \in 1..MaxBackups :
             replacedAt'[i] = IF i = store.id /\ store # NoBackup THEN now ELSE replacedAt[i]
    BY <1>3, <1>t DEF BackupStored, TypeOK
  <2>3. TypeOK'
    BY <1>3, <1>t, <2>1, <2>2 DEF BackupStored, TypeOK
  <2>4. StoreIsLatest'
    <3>1. store'.id = store.id + 1 /\ store.id \in 0..MaxBackups
      BY <2>1
    <3>2. store'.id \in 1..MaxBackups
      BY <2>1, <3>1
    <3>3. \A i \in 1..MaxBackups : i >= store.id + 1 => replacedAt'[i] = Never
      BY <2>2, <3>1 DEF IInv, StoreIsLatest
    <3>4. QED
      BY <3>1, <3>2, <3>3 DEF StoreIsLatest
  <2>5. \A backup \in Backups, time \in Times \cup {Never} :
          time <= now /\ ReadSince(backup, time) => ReadSince(backup, time)'
    BY <1>t, <2>2 DEF ReadSince, TypeOK, Times, Never, Backups
  <2>6. ChecksReadSince'
    BY <1>3, <1>t, <2>5 DEF BackupStored, IInv, TypeOK, ChecksReadSince, ReadSince
  <2>7. ArmedReadSince'
    BY <1>3, <1>t, <2>5 DEF BackupStored, IInv, TypeOK, ArmedReadSince, ReadSince, TheButtons
  <2>8. QED
    BY <1>3, <2>3, <2>4, <2>6, <2>7 DEF BackupStored, IInv, WarningsCounted, ArmedIsShown
<1>4. QED
  BY <1>1, <1>2, <1>3

\* IInv holds in every reachable state.
THEOREM InvariantHolds == Spec => []IInv
<1>1. IInv /\ [Next]_vars => IInv'
  BY ConfirmingStepKeeps, ArmingStepKeeps, CheckingStepKeeps, OtherStepKeeps DEF Next
<1>2. QED
  BY InitHolds, <1>1, PTL DEF Spec

(***************************************************************************)
(* The theorems.                                                           *)
(***************************************************************************)

\* Every variable keeps its type, and a restore runs exactly while it has the lock.
THEOREM TypeCorrect == Spec => []TypeOK
BY InvariantHolds, PTL DEF IInv

\* However many presses overlap, one warning never serves two confirmations.
THEOREM OneActionPerWarningHolds == Spec => []OneActionPerWarning
<1>1. IInv => OneActionPerWarning
  BY DEF IInv, WarningsCounted, OneActionPerWarning
<1>2. QED
  BY InvariantHolds, <1>1, PTL

\* Only a confirming press starts a restore, with the backup that is armed.
LEMMA RestoreStarts ==
    ASSUME IInv, [Next]_vars, running' # running, running' # NoBackup
    PROVE  RestoreConfirmed /\ running' = armed
BY DEF Next, Ticks, ResetConfirmed, RestoreConfirmed, Restored, ResetArms, RestoreChecks,
       CheckLoads, CheckArms, CheckRefuses, OtherBegins, BackupStored, ActionEnds, vars

\* A restore writes the backup the latest warning names (async_press).
THEOREM RestoresWhatWasShownHolds == Spec => RestoresWhatWasShown
<1>1. ASSUME IInv, [Next]_vars
      PROVE  [running' # running /\ running' # NoBackup => running' = shown]_vars
  BY <1>1, RestoreStarts DEF RestoreConfirmed, IInv, ArmedIsShown
<1>2. QED
  BY InvariantHolds, <1>1, PTL DEF Spec, RestoresWhatWasShown

\* Nor does it start from a backup replaced longer ago than the window.
THEOREM NothingOldIsRestoredHolds == Spec => NothingOldIsRestored
<1> DEFINE Recent == running' # running /\ running' # NoBackup =>
             /\ running'.kind = "own"
             /\ replacedAt[running'.id] # Never => now - replacedAt[running'.id] <= Window
<1>1. ASSUME IInv, [Next]_vars PROVE [Recent]_vars
  <2> SUFFICES ASSUME running' # running, running' # NoBackup
               PROVE  /\ running'.kind = "own"
                      /\ replacedAt[running'.id] # Never =>
                           now - replacedAt[running'.id] <= Window
    OBVIOUS
  <2>1. RestoreConfirmed /\ running' = armed
    BY <1>1, RestoreStarts
  <2>2. armed.kind = "own" /\ ReadSince(armed, armedAt["restore"])
    BY <1>1, <2>1 DEF RestoreConfirmed, IInv, ArmedReadSince
  <2>3. armedAt["restore"] \in Int /\ now \in Int /\ now - armedAt["restore"] <= Window
    BY <1>1, <2>1, Distinct DEF RestoreConfirmed, Confirms, IInv, TypeOK, TheButtons, Never
  <2>4. armed.id \in 1..MaxBackups /\ replacedAt[armed.id] \in Int
    BY <1>1, <2>2, Distinct DEF ReadSince, IInv, TypeOK, Never
  <2>5. QED
    BY <2>1, <2>2, <2>3, <2>4, Distinct DEF ReadSince
<1>2. QED
  BY InvariantHolds, <1>1, PTL DEF Spec, NothingOldIsRestored

=============================================================================
