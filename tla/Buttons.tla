------------------------------- MODULE Buttons -------------------------------
(***************************************************************************)
(* The two destructive buttons of a speaker, factory reset and restore     *)
(* backup (button.py), which want a second press within a window, and the  *)
(* check of the stored backup behind the first press of the latter         *)
(* (async_check_restorable).                                               *)
(*                                                                         *)
(* Home Assistant does not serialise the presses of a button.  That check  *)
(* loads the store, so the presses of the restore button may overlap: each *)
(* one takes the time when it begins and arms when its own load is done.   *)
(* What a confirmed action then does is DeviceActions.tla; here it is the  *)
(* time it holds the action lock.  A restart of Home Assistant loses all   *)
(* of this except the store.                                               *)
(***************************************************************************)
EXTENDS Integers

CONSTANTS
    OldBackups,     \* what the store may hold at first, of earlier versions
    MinGap,         \* _RESTORE_CONFIRM_MIN_GAP_SECONDS
    Window,         \* _RESTORE_CONFIRM_WINDOW_SECONDS
    MaxTime,        \* bound: how long a behaviour lasts
    MaxPresses,     \* bound: presses of the two buttons
    MaxBackups      \* bound: how many backups there ever are

\* A backup of this speaker; of another model or serial; of a speaker on LOCAL;
\* with nothing in it a restore could write; no backup at all.
Kinds == {"own", "foreign", "local", "empty", "none"}

ASSUME BoundsAssumption ==
    /\ OldBackups \subseteq Kinds
    /\ MinGap \in Nat /\ Window \in Nat
    /\ MaxTime \in Nat /\ MaxPresses \in Nat /\ MaxBackups \in Nat \ {0}

Times == 0..MaxTime
Never == -1

Backups  == [id : 0..MaxBackups, kind : Kinds]
NoBackup == [id |-> 0, kind |-> "none"]

TheButtons == {"reset", "restore"}

VARIABLES
    now,            \* time.monotonic()
    store,          \* the stored backup of this speaker
    lock,           \* coordinator.action_lock: who has it
    armedAt,        \* _armed_at of each button
    armed,          \* _armed_backup of the restore button
    checks,         \* presses awaiting their load: when they began, what it read
    running,        \* the backup being restored
    presses,        \* used-up bound
    shown,          \* history: the backup the latest restore warning names
    unused,         \* history: per button, warnings put up minus confirmed
    replacedAt      \* history: when each backup was replaced in the store

historyV == <<shown, unused, replacedAt>>
vars == <<now, store, lock, armedAt, armed, checks, running, presses, historyV>>

Unread == [id |-> 0, kind |-> "unread"]

TypeOK ==
    /\ now \in Times
    /\ store \in Backups
    /\ lock \in {"nobody", "other"} \cup TheButtons
    /\ armedAt \in [TheButtons -> Times \cup {Never}]
    /\ armed \in Backups
    /\ checks \subseteq [at : Times, got : Backups \cup {Unread}]
    /\ running \in Backups
    /\ running # NoBackup <=> lock = "restore"
    /\ presses \in 0..MaxPresses
    /\ shown \in Backups
    /\ unused \in [TheButtons -> Int]
    /\ replacedAt \in [1..MaxBackups -> Times \cup {Never}]

Init ==
    /\ now = 0
    /\ store \in {[id |-> 1, kind |-> k] : k \in OldBackups \ {"none"}}
                 \cup (IF "none" \in OldBackups THEN {NoBackup} ELSE {})
    /\ lock = "nobody"
    /\ armedAt = [b \in TheButtons |-> Never]
    /\ armed = NoBackup
    /\ checks = {}
    /\ running = NoBackup
    /\ presses = 0
    /\ shown = NoBackup
    /\ unused = [b \in TheButtons |-> 0]
    /\ replacedAt = [i \in 1..MaxBackups |-> Never]

Ticks ==
    /\ now < MaxTime
    /\ now' = now + 1
    /\ UNCHANGED <<store, lock, armedAt, armed, checks, running, presses, historyV>>

(***************************************************************************)
(* The second press.                                                       *)
(***************************************************************************)

Press == presses < MaxPresses /\ presses' = presses + 1

\* MUTANT: no upper bound of the window.
ConfirmsAnyTime(at) == at # Never /\ now - at >= MinGap

\* _confirms()
Confirms(at) == at # Never /\ now - at >= MinGap /\ now - at <= Window

\* MUTANT: a lock that is taken refuses nobody.
NeverTaken == TRUE

\* claim_device() lets this press through; otherwise it is refused.
Free == lock = "nobody"

\* MUTANT: a press that finds the lock taken leaves the button armed.
DisarmedIfFree(b) == IF Free THEN [armedAt EXCEPT ![b] = Never] ELSE armedAt

Disarmed(b) == [armedAt EXCEPT ![b] = Never]

\* It disarms before it claims the device: refused or not, the warning is used up.
Confirmation(b) ==
    /\ armedAt' = Disarmed(b)
    /\ unused' = [unused EXCEPT ![b] = @ - 1]
    /\ lock' = IF Free THEN b ELSE lock

ResetConfirmed ==
    /\ Press /\ Confirms(armedAt["reset"])
    /\ Confirmation("reset")
    /\ UNCHANGED <<now, store, armed, checks, running, shown, replacedAt>>

\* MUTANT: the store is read again at the second press.
RestoredFromStore == store

\* Exactly what was confirmed: not a backup made since.
Restored == armed

RestoreConfirmed ==
    /\ Press /\ armed # NoBackup /\ Confirms(armedAt["restore"])
    /\ Confirmation("restore")
    /\ armed' = NoBackup
    /\ running' = IF Free THEN Restored ELSE running
    /\ UNCHANGED <<now, store, checks, shown, replacedAt>>

(***************************************************************************)
(* The first press, a press too soon, or one after the window: arm, warn.  *)
(***************************************************************************)

\* Arming and the warning are one step: nothing is awaited in between.
Arms(b, at) ==
    /\ armedAt' = [armedAt EXCEPT ![b] = at]
    /\ unused' = [unused EXCEPT ![b] = 1]

ResetArms ==
    /\ Press /\ ~Confirms(armedAt["reset"])
    /\ Arms("reset", now)
    /\ UNCHANGED <<now, store, lock, armed, checks, running, shown, replacedAt>>

RestoreChecks ==
    /\ Press /\ ~(armed # NoBackup /\ Confirms(armedAt["restore"]))
    /\ checks' = checks \cup {[at |-> now, got |-> Unread]}
    /\ UNCHANGED <<now, store, lock, armedAt, armed, running, historyV>>

\* The executor reads the file; the press goes on when the loop gets to it.
CheckLoads(c) ==
    /\ c.got = Unread
    /\ checks' = (checks \ {c}) \cup {[c EXCEPT !.got = store]}
    /\ UNCHANGED <<now, store, lock, armedAt, armed, running, presses, historyV>>

\* MUTANT: only the presence of a backup is looked at.
AnyBackup(backup) == backup # NoBackup

\* async_check_restorable(): model, serial, something to write, not LOCAL.
Restorable(backup) == backup.kind = "own"

\* MUTANT: the window opens when the check is done.
ArmedWhenDone(c) == now

ArmedSince(c) == c.at

CheckArms(c) ==
    /\ c.got # Unread /\ Restorable(c.got)
    /\ Arms("restore", ArmedSince(c))
    /\ armed' = c.got
    /\ shown' = c.got
    /\ checks' = checks \ {c}
    /\ UNCHANGED <<now, store, lock, running, presses, replacedAt>>

\* It raises: the press is over, and an earlier one stays armed.
CheckRefuses(c) ==
    /\ c.got # Unread /\ ~Restorable(c.got)
    /\ checks' = checks \ {c}
    /\ UNCHANGED <<now, store, lock, armedAt, armed, running, presses, historyV>>

(***************************************************************************)
(* The actions that hold the lock.                                         *)
(***************************************************************************)

\* A backup, a discovery or an EQ reset begins: claim_device() lets it.
OtherBegins ==
    /\ lock = "nobody"
    /\ lock' = "other"
    /\ UNCHANGED <<now, store, armedAt, armed, checks, running, presses, historyV>>

\* A backup puts its record into the store, under the lock.
BackupStored ==
    /\ lock = "other" /\ store.id < MaxBackups
    /\ store' = [id |-> store.id + 1, kind |-> "own"]
    /\ replacedAt' = IF store = NoBackup THEN replacedAt ELSE [replacedAt EXCEPT ![store.id] = now]
    /\ lock' = "nobody"
    /\ UNCHANGED <<now, armedAt, armed, checks, running, presses, shown, unused>>

\* Whatever holds it returns or raises.
ActionEnds ==
    /\ lock # "nobody"
    /\ lock' = "nobody"
    /\ running' = NoBackup
    /\ UNCHANGED <<now, store, armedAt, armed, checks, presses, historyV>>

Next ==
    \/ Ticks
    \/ ResetConfirmed \/ RestoreConfirmed
    \/ ResetArms \/ RestoreChecks
    \/ \E c \in checks : CheckLoads(c) \/ CheckArms(c) \/ CheckRefuses(c)
    \/ OtherBegins \/ BackupStored \/ ActionEnds

Spec == Init /\ [][Next]_vars

(***************************************************************************)
(* Properties.                                                             *)
(***************************************************************************)

\* A restore writes the backup that the warning last put up names, however the
\* presses, their checks and a backup made meanwhile overlap.
RestoresWhatWasShown ==
    [][running' # running /\ running' # NoBackup => running' = shown]_vars

\* Each confirmation uses up a warning of its own: one warning never starts, or
\* tries to start, two actions, whoever holds the lock at the time.
OneActionPerWarning == \A b \in TheButtons : unused[b] >= 0

\* A restore never starts from a backup that had been replaced in the store, or
\* could not have been restored, for longer than the window: an arming press
\* takes its time before it loads.
NothingOldIsRestored ==
    [][running' # running /\ running' # NoBackup =>
         /\ running'.kind = "own"
         /\ replacedAt[running'.id] # Never => now - replacedAt[running'.id] <= Window]_vars

=============================================================================
